-------------------------- MODULE TokenCache_proofs --------------------------
(***************************************************************************)
(* TokenCache for any threads, lifetime, margin and timeout that satisfy   *)
(* ConstantsAssumption.                                                    *)
(***************************************************************************)
EXTENDS TokenCache, TLAPS

(* What is recorded of the cached token: its expiry is overestimated by    *)
(* the time its answer took at most, and counted from a moment that was.   *)
CacheSound ==
  cache # None => /\ cache.expires_at <= cache.token + Timeout
                  /\ cache.expires_at <= now + Life

Waiting(th) == phase[th] \in {"take", "answer", "stamped", "request"}

OnTime(th) == Waiting(th) => since[th] <= now /\ now <= since[th] + Timeout

(* What a thread relies on at each place: the token it was told to be      *)
(* valid, or any that replaced it, even one whose clock reading is older,  *)
(* outlives its request.                                                   *)
ReliesOn(th) ==
  /\ phase[th] \in {"judge", "take"} => cache # None
  /\ phase[th] = "take"    => since[th] + 2 * Timeout < cache.expires_at
  /\ phase[th] = "answer"  => token[th] = since[th] + Life
  /\ phase[th] = "stamped" => /\ token[th] # None
                              /\ token[th] <= since[th] + Life
                              /\ since[th] + Life <= token[th] + Timeout
  /\ phase[th] = "request" => token[th] # None /\ since[th] + Timeout < token[th]

IInv ==
  /\ TypeOK
  /\ CacheSound
  /\ \A th \in Threads : OnTime(th) /\ ReliesOn(th)
  /\ SentTokenUnexpired

-----------------------------------------------------------------------------
LEMMA InitIInv == Init => IInv
BY ConstantsAssumption DEF Init, IInv, TypeOK, Phases, CacheSound, OnTime, Waiting,
   ReliesOn, SentTokenUnexpired

(* Each step of a thread, and the clock's, keeps IInv.                     *)
LEMMA StepIInv == IInv /\ [Next]_vars => IInv'
<1> SUFFICES ASSUME IInv, [Next]_vars PROVE IInv'
  OBVIOUS
<1> USE ConstantsAssumption DEF IInv, TypeOK, Phases, Cached, CacheSound, OnTime,
        Waiting, ReliesOn, SentTokenUnexpired
<1>1. ASSUME NEW th \in Threads, Call(th) PROVE IInv'
  BY <1>1 DEF Call, Moves
<1>2. ASSUME NEW th \in Threads, Judge(th) PROVE IInv'
  BY <1>2 DEF Judge, Moves, Valid
<1>3. ASSUME NEW th \in Threads, Take(th) PROVE IInv'
  BY <1>3 DEF Take, Moves
<1>4. ASSUME NEW th \in Threads, Issue(th) PROVE IInv'
  BY <1>4 DEF Issue, Moves
<1>5. ASSUME NEW th \in Threads, Stamp(th) PROVE IInv'
  BY <1>5 DEF Stamp, Moves
<1>6. ASSUME NEW th \in Threads, Store(th) PROVE IInv'
  BY <1>6 DEF Store, Moves, Recorded
<1>7. ASSUME NEW th \in Threads, FetchFails(th) PROVE IInv'
  BY <1>7 DEF FetchFails, Moves
<1>8. ASSUME NEW th \in Threads, Send(th) PROVE IInv'
  BY <1>8 DEF Send, Moves
<1>9. CASE Tick
  BY <1>9 DEF Tick
<1>10. CASE UNCHANGED vars
  BY <1>10 DEF vars
<1>11. QED
  BY <1>1, <1>2, <1>3, <1>4, <1>5, <1>6, <1>7, <1>8, <1>9, <1>10 DEF Next

(* The variables of the provider and of its threads keep their types.      *)
THEOREM TypeCorrect == Spec => []TypeOK
<1>1. IInv => TypeOK
  BY DEF IInv
<1>2. QED
  BY <1>1, InitIInv, StepIInv, PTL DEF Spec

(* However the threads interleave, no request reaches the identity domain  *)
(* with an expired token: twice the timeout does not exceed the margin.    *)
THEOREM TokensOutliveRequests == Spec => []SentTokenUnexpired
<1>1. IInv => SentTokenUnexpired
  BY DEF IInv
<1>2. QED
  BY <1>1, InitIInv, StepIInv, PTL DEF Spec

(* Threads that overtake each other set the cached expiry back by the      *)
(* timeout at most: the clock reading that is stored is no older than that *)
(* (OnTime), and no recorded expiry lies further ahead than a life         *)
(* (CacheSound).                                                           *)
THEOREM FallsBackByTheTimeoutAtMost == Spec => CacheFallsBackLittle
<1> DEFINE Little == cache # None => cache'.expires_at + Timeout >= cache.expires_at
<1>1. IInv /\ [Next]_vars => [Little]_vars
  <2> SUFFICES ASSUME IInv, Next, cache # None
      PROVE cache'.expires_at + Timeout >= cache.expires_at
    OBVIOUS
  <2> USE ConstantsAssumption
  <2>1. ASSUME NEW th \in Threads, Store(th)
        PROVE cache'.expires_at + Timeout >= cache.expires_at
    <3>1. phase[th] = "stamped" /\ cache'.expires_at = since[th] + Life
      BY <2>1 DEF Store, Moves, Recorded
    <3>2. since[th] \in Nat /\ now \in Nat /\ cache.expires_at \in Nat
      BY DEF IInv, TypeOK, Cached
    <3>3. now <= since[th] + Timeout /\ cache.expires_at <= now + Life
      BY <3>1 DEF IInv, OnTime, Waiting, CacheSound
    <3>4. QED
      BY <3>1, <3>2, <3>3
  <2>2. CASE UNCHANGED cache
    BY <2>2 DEF IInv, TypeOK, Cached
  <2>3. QED
    BY <2>1, <2>2 DEF Next, Call, Judge, Take, Issue, Stamp, FetchFails, Send, Tick
<1>2. QED
  BY <1>1, InitIInv, StepIInv, PTL DEF Spec, CacheFallsBackLittle

=============================================================================
