----------------------------- MODULE MCDebugSync -----------------------------
(* Programs under test for DebugSync, after debugsync/utest2.c. *)
EXTENDS DebugSync

CONSTANTS w1, w2, e1, e2, c1, p, q

(* Every name fits into DS_MAX_POINT_NAME_LEN. *)
ShortNames == [n \in Names |-> n]

AllPoints == {Wait(n) : n \in Names}
AllExecs  == {Exec(n) : n \in Names}

Waiters   == Threads \cap {w1, w2}
Executors == Threads \cap {e1, e2}

(* Waiters, executors, and a controller that makes the calls in C. *)
With(C) == [t \in Threads |->
    CASE t \in Waiters   -> AllPoints
      [] t \in Executors -> AllExecs
      [] OTHER           -> C]

Rendezvous   == With({})
Enabling     == With({Enable(n, b) : n \in Names, b \in BOOLEAN} \cup {DisableAll})
Switching    == With({Activate(b) : b \in BOOLEAN})
Controlling  == With({Enable(n, b) : n \in Names, b \in BOOLEAN}
                     \cup {DisableAll} \cup {Activate(b) : b \in BOOLEAN})

CallsControl2   == [t \in Threads |-> IF t = c1 THEN 2 ELSE 1]
CallsTwo        == [t \in Threads |-> 2]

Active       == {{"DS_ACTIVE"}}
ActiveGlobal == {{"DS_ACTIVE", "DS_GLOBAL"}, {"DS_GLOBAL"}}
Local        == {{"DS_ACTIVE"}, {}}

=============================================================================
