----------------------------- MODULE BoundedFifo -----------------------------
(***************************************************************************)
(* What queue/queue.h promises: a first-in first-out queue of at most cap  *)
(* items.  out is the last answer the user of the queue was given.         *)
(***************************************************************************)
EXTENDS Naturals, Sequences

CONSTANTS Values, Capacities

VARIABLES phase, cap, q, out

fifoVars == <<phase, cap, q, out>>

(* An answer: the operation, whether it succeeded, the items it gives. *)
Done(op, items) == [op |-> op, ok |-> TRUE, items |-> items]
Failed(op)      == [op |-> op, ok |-> FALSE, items |-> <<>>]

Init == phase = "new" /\ cap = 0 /\ q = <<>> /\ out = Failed("none")

Create ==
    /\ phase = "new"
    /\ \/ phase' = "open" /\ cap' \in Capacities
       \/ phase' = "closed" /\ UNCHANGED cap
    /\ UNCHANGED <<q, out>>

Put(v) ==
    /\ phase = "open"
    /\ \/ /\ Len(q) < cap
          /\ q' = Append(q, v) /\ out' = Done("put", <<v>>)
       \/ /\ Len(q) >= cap
          /\ out' = Failed("put") /\ UNCHANGED q
    /\ UNCHANGED <<phase, cap>>

Get ==
    /\ phase = "open"
    /\ \/ /\ q # <<>>
          /\ q' = Tail(q) /\ out' = Done("get", <<Head(q)>>)
       \/ /\ q = <<>>
          /\ out' = Failed("get") /\ UNCHANGED q
    /\ UNCHANGED <<phase, cap>>

Dump ==
    /\ phase = "open"
    /\ out' = Done("dump", q)
    /\ UNCHANGED <<phase, cap, q>>

Free ==
    /\ phase = "open" /\ phase' = "closed"
    /\ UNCHANGED <<cap, q, out>>

Next == Create \/ (\E v \in Values : Put(v)) \/ Get \/ Dump \/ Free

Spec == Init /\ [][Next]_fifoVars

=============================================================================
