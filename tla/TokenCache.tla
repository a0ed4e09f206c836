----------------------------- MODULE TokenCache -----------------------------
(***************************************************************************)
(* IdentityDomainOAuthProvider.get_access_token and the requests of        *)
(* IdentityDomainClient that carry its token.  The threads of the server   *)
(* share one provider and its _cache without a lock: _cache is read three  *)
(* times before its token is returned, a thread that finds none or an      *)
(* expired one fetches its own, and the last to store overwrites, whichever*)
(* read the clock first: the clock is read in one step, the cache is set   *)
(* in a later one.                                                         *)
(*                                                                         *)
(* A token is the second at which the identity domain stops accepting it.  *)
(* Settings are complete; no caller asks for force_refresh.                *)
(***************************************************************************)
EXTENDS Integers

CONSTANTS
  Threads,   \* threads that call the identity domain
  Life,      \* expires_in of the tokens it issues
  Margin,    \* seconds before its expiry from which a token is not valid()
  Timeout,   \* longest answer of either server (timeout = 30 of both)
  MaxNow,    \* bound: the clock stops here
  None       \* no token

Cached == [token : Nat, expires_at : Nat]

(* The clients' timeout covers the answer of a fetch and the request that  *)
(* a token was judged or stored for; a fresh token outlives both, and a    *)
(* store in between that comes late.                                       *)
ASSUME ConstantsAssumption ==
  /\ Life \in Nat /\ Margin \in Nat /\ Timeout \in Nat /\ MaxNow \in Nat
  /\ 2 * Timeout <= Margin
  /\ 3 * Timeout < Life
  /\ None \notin Nat \union Cached

Phases ==
  { "idle",
    "judge",    \* _cache is set; valid() is next
    "take",     \* it was valid(); its token is read next
    "fetch",    \* the fetch is on its way to the token endpoint
    "answer",   \* the domain has issued a token
    "stamped",  \* its answer is here and time.time() was read; _cache is set next
    "request" } \* the request that carries the token is on its way

VARIABLES
  now,        \* the clock
  cache,      \* _cache: a token and the expires_at recorded for it
  phase,      \* where each thread is
  since,      \* when it last heard of its token: the answer is due Timeout after
  token,      \* the token it was issued or has taken
  sent        \* history: the token of the last request, and when it arrived

vars == <<now, cache, phase, since, token, sent>>

TypeOK ==
  /\ now \in Nat
  /\ cache \in Cached \union {None}
  /\ phase \in [Threads -> Phases]
  /\ since \in [Threads -> Nat]
  /\ token \in [Threads -> Nat \union {None}]
  /\ sent \in [token : Nat, at : Nat] \union {None}

Init ==
  /\ now = 0
  /\ cache = None
  /\ phase = [th \in Threads |-> "idle"]
  /\ since = [th \in Threads |-> 0]
  /\ token = [th \in Threads |-> None]
  /\ sent = None

-----------------------------------------------------------------------------
Moves(th, from, to) == phase[th] = from /\ phase' = [phase EXCEPT ![th] = to]

(* The first read: is there a token?                                       *)
Call(th) ==
  /\ Moves(th, "idle", IF cache = None THEN "fetch" ELSE "judge")
  /\ UNCHANGED <<now, cache, since, token, sent>>

ValidLate(c) == now < c.expires_at
Valid(c) == now < c.expires_at - Margin

(* The second read: is it valid()?                                         *)
Judge(th) ==
  /\ Moves(th, "judge", IF Valid(cache) THEN "take" ELSE "fetch")
  /\ since' = [since EXCEPT ![th] = now]
  /\ UNCHANGED <<now, cache, token, sent>>

(* The third read, perhaps of a token another thread has stored since.     *)
Take(th) ==
  /\ Moves(th, "take", "request")
  /\ token' = [token EXCEPT ![th] = cache.token]
  /\ UNCHANGED <<now, cache, since, sent>>

(* The token endpoint issues a token.                                      *)
Issue(th) ==
  /\ Moves(th, "fetch", "answer")
  /\ token' = [token EXCEPT ![th] = now + Life]
  /\ since' = [since EXCEPT ![th] = now]
  /\ UNCHANGED <<now, cache, sent>>

(* Its answer arrives, and time.time() is read to count expires_in from.   *)
Stamp(th) ==
  /\ Moves(th, "answer", "stamped")
  /\ since' = [since EXCEPT ![th] = now]
  /\ UNCHANGED <<now, cache, token, sent>>

RecordedUnchecked(th) == [token |-> None, expires_at |-> since[th] + Life]
RecordedIssue(th) == [token |-> token[th], expires_at |-> token[th]]
Recorded(th) == [token |-> token[th], expires_at |-> since[th] + Life]

(* The token is cached, over whatever another thread has stored since the  *)
(* clock was read, and used.                                               *)
Store(th) ==
  /\ Moves(th, "stamped", "request")
  /\ cache' = Recorded(th)
  /\ UNCHANGED <<now, since, token, sent>>

(* The fetch fails or its answer has no token: the caller gets an error.   *)
FetchFails(th) ==
  /\ \E from \in {"fetch", "answer"} : Moves(th, from, "idle")
  /\ token' = [token EXCEPT ![th] = None]
  /\ UNCHANGED <<now, cache, since, sent>>

(* The identity domain receives the request; any status that is not the    *)
(* expected one is a temporary failure, and the token is kept.             *)
Send(th) ==
  /\ Moves(th, "request", "idle")
  /\ sent' = [token |-> token[th], at |-> now]
  /\ token' = [token EXCEPT ![th] = None]
  /\ UNCHANGED <<now, cache, since>>

(* A second passes.  What is under way since Timeout is over by then.      *)
Tick ==
  /\ now < MaxNow
  /\ \A th \in Threads :
       phase[th] \in {"take", "answer", "stamped", "request"} =>
         now < since[th] + Timeout
  /\ now' = now + 1
  /\ UNCHANGED <<cache, phase, since, token, sent>>

Next ==
  \/ \E th \in Threads :
       \/ Call(th)  \/ Judge(th) \/ Take(th)
       \/ Issue(th) \/ Stamp(th) \/ Store(th) \/ FetchFails(th) \/ Send(th)
  \/ Tick

Spec == Init /\ [][Next]_vars

-----------------------------------------------------------------------------
(* A request reaches the identity domain with a token it still accepts:    *)
(* what valid() said of one token still holds of the token that was read   *)
(* after it, however late, and expires_at, counted from the answer and not *)
(* from the issue, is never relied on for longer than the margin covers.   *)
SentTokenUnexpired == sent # None => sent.at < sent.token

(* Fetches overtake each other, and so may a thread that read the clock    *)
(* earlier one that read it later: the recorded expiry can fall back, but  *)
(* by no more than a thread takes from reading the clock to its request,   *)
(* however long ago the token was issued.  A thread whose valid() has just *)
(* succeeded takes what replaced the token it judged, unjudged             *)
(* (identity_domain_oauth.py:42-43, 71-72).                                *)
CacheFallsBackLittle ==
  [][cache # None => cache'.expires_at + Timeout >= cache.expires_at]_vars

=============================================================================
