--------------------------- MODULE MCInvestigation --------------------------
(***************************************************************************)
(* Three accounts, one that may be created meanwhile and bears the name of *)
(* another, two groups of one name among three, and employees of whom two  *)
(* share a family name, one has no account, one no address and one nothing *)
(* but a number.                                                           *)
(***************************************************************************)
EXTENDS Planner

User(id, address, name) ==
  [id |-> id, user_name |-> address, email |-> address, name |-> name]

MCAccounts ==
  {User("u1", "taro@x", "yamada taro"), User("u2", "hana@x", "yamada hana"),
   User("u3", "jiro@x", "kato jiro")}

MCJoiners == {User("u4", "ken@x", "kato jiro")}

MCGroups ==
  {[id |-> "g1", name |-> "admins"], [id |-> "g2", name |-> "ops"],
   [id |-> "g3", name |-> "ops"]}

MCMemberships == {<<"g1", "u1">>, <<"g2", "u3">>}

Employee(id, address, family, given) ==
  [emp_id |-> id, email |-> address, family_name |-> family, given_name |-> given,
   family_name_kanji |-> family, given_name_kanji |-> given]

MCEmployees ==
  {Employee("1", "taro@x", "yamada", "taro"), Employee("2", "hana@x", "yamada", "hana"),
   Employee("3", "mori@x", "mori", "ai"), Employee("4", "ken@x", "sato", "ken"),
   Employee("5", Unresolved, "kato", "jiro"), Employee("6", Unresolved, Unresolved, Unresolved)}

MCFullName ==
  [pair \in {"yamada", "kato", "mori", "sato"} \X {"taro", "hana", "jiro", "ai", "ken"} |->
     IF pair = <<"yamada", "taro">> THEN "yamada taro"
     ELSE IF pair = <<"yamada", "hana">> THEN "yamada hana"
     ELSE IF pair = <<"kato", "jiro">> THEN "kato jiro" ELSE "another name"]

MCNameQuery ==
  ("yamada taro" :> [family_name_kanji |-> "yamada", given_name_kanji |-> "taro"])
    @@ ("yamada" :> [family_name_kanji |-> "yamada"])

MCPartOf ==
  {"yamada"} \X {"yamada taro", "yamada hana"} \union {<<"taro", "yamada taro">>,
   <<"hana", "yamada hana">>, <<"kato", "kato jiro">>, <<"jiro", "kato jiro">>}

Statement(name, action, conditional) ==
  [groups |-> {name}, action |-> action, words |-> {action}, conditional |-> conditional]

MCStatements ==
  {Statement("admins", "manage", FALSE), Statement("ops", "read", TRUE),
   Statement("admins", "read", FALSE), Statement("others", "read", FALSE)}

Call(op, s) ==
  [op |-> op, selector |-> s, group |-> [name |-> "admins"], context |-> "none",
   action |-> "read", complete |-> TRUE, asked |-> {}, planned |-> {}]

Selectors ==
  {[id |-> "u1"], [id |-> "u9"], [user_name |-> "hana@x", name |-> "yamada"], [email |-> "taro@x"],
   [name |-> "yamada taro"], [name |-> "yamada"], [name |-> "kato jiro"],
   [emp_id |-> "4"], [emp_id |-> "5"], [emp_id |-> "6"], [family_name |-> "yamada"],
   [filter |-> Everyone], [filter |-> Everyone, name |-> "yamada taro"],
   [user_name |-> Unresolved, given_name |-> "hana"], [user_name |-> Unresolved]}

Payloads ==
  {[emp_id |-> "3"], [emp_id |-> "5"], [family_name_kanji |-> "yamada"],
   [email |-> "new@x", family_name |-> "mori"], [email |-> "mori@x", given_name |-> Unresolved],
   [email |-> "new@x", family_name |-> "yamada"], [given_name |-> "nobody", email |-> "x@x"],
   [email |-> "taro@x", family_name |-> "a", given_name |-> "b"],
   [email |-> "mori@x", family_name |-> "mori", given_name |-> "aiko"]}

Hints ==
  {[email |-> "taro@x", user_name |-> "taro@x"], [emp_id |-> "4"],
   [emp_id |-> "5"], [emp_id |-> "6"], [emp_id |-> "5", user_name |-> "ken@x"],
   [name |-> "yamada", family_name_kanji |-> "yamada"], [user_name |-> "jiro@x"],
   [name |-> "yamada taro", family_name_kanji |-> "yamada", given_name_kanji |-> "taro"],
   [family_name |-> "yamada"], [name |-> "nobody"]}

Membership == {"add_user_to_group", "remove_user_from_group"}

(* Prompts that speak of what the rules look for, each with others, and    *)
(* what a model may plan for them, or fail to.                             *)
Prompt(words, u, policy) ==
  [words |-> words, user |-> u, group |-> [name |-> "admins"], policy |-> policy]

Mori == [family_name_kanji |-> "mori", given_name_kanji |-> "ai", name |-> "mori ai"]
Hana == [email |-> "hana@x", user_name |-> "hana@x"]

MCPrompts ==
  {Prompt({"user", "add"}, Mori, FALSE), Prompt({"make"}, Mori, FALSE),
   Prompt({"user", "list resources"}, Mori, FALSE), Prompt({"compartment"}, << >>, FALSE),
   Prompt({"policy"}, << >>, FALSE), Prompt({"delegate", "user", "make"}, Mori, FALSE)}
  \union {Prompt({"group"} \union w, Hana, FALSE) :
            w \in {{}, {"add"}, {"join"}, {"remove"}, {"add", "detach"},
                   {"may", "add"}, {"denied", "remove"}}}
  \union {Prompt({"group", "policy"} \union w, Hana, TRUE) :
            w \in {{}, {"remove"}, {"affect", "add"}}}

MCModelPlans ==
  {<< >>, <<Step("create_user", Mori, << >>, FALSE)>>,
   <<Step("get_user", << >>, << >>, FALSE),
     Step("add_user_to_group", [id |-> "u3"], [id |-> "g2"], FALSE)>>}

PlannedCalls == UNION {CallsOf(p, raw) : p \in MCPrompts, raw \in MCModelPlans}

MCCalls ==
  PlannedCalls
  \union {Call(op, s) : op \in Membership, s \in Selectors}
  \union {Call(op, s) : op \in {"get_user", "get_last_successful_login"},
                        s \in {[id |-> "u3"], [name |-> "yamada"], [user_name |-> Unresolved]}}
  \union {[Call("add_user_to_group", [id |-> "u2"]) EXCEPT !.group = g] :
            g \in {[id |-> "g2"], [name |-> "ops"], [name |-> Unresolved]}}
  \union {[Call("create_user", p) EXCEPT !.context = "keyed"] : p \in Payloads}
  \union {[Call("create_user", [emp_id |-> "3"]) EXCEPT !.context = "unkeyed"]}
  \union {Call("investigate", h) : h \in Hints \union {<< >>}}
  \union {[Call("diagnose", h) EXCEPT !.action = a] : h \in Hints, a \in {"read", "create"}}
  \union {[Call("diagnose", [emp_id |-> "1"]) EXCEPT !.complete = FALSE]}

(* The diagnosis of someone who may not create although a group of theirs  *)
(* manages.                                                                *)
CreateCalls == {[Call("diagnose", h) EXCEPT !.action = "create"] : h \in Hints}

=============================================================================
