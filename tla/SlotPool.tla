------------------------------ MODULE SlotPool ------------------------------
(***************************************************************************)
(* What src/fdwatch/xvdat.h promises of struct xvlst: numbered slots of    *)
(* which "avail" is always the "index of min available element".  A slot   *)
(* that is handed out stays the caller's until it is given back, and the   *)
(* one handed out is the lowest free one.                                  *)
(*                                                                         *)
(* Memory may run out: then nothing is handed out.  The pool may also      *)
(* break, after which nothing is promised.                                 *)
(***************************************************************************)
EXTENDS Integers

VARIABLES used,      \* the slots handed out
          broken,    \* the pool has lost its slots
          out        \* the answer to the last call

pool == <<used, broken, out>>

\* Error answers: -1, -ENOMEM, ERANGE, EALREADY.
ENOMEM == 12
ERANGE == 34
EALREADY == 114
Errors == {-1, -ENOMEM, ERANGE, EALREADY}

Init == used = {} /\ broken = FALSE /\ out = 0

\* The lowest free slot is handed out.
Alloc ==
    /\ ~broken
    /\ out' \in Nat \ used
    /\ 0 .. out' - 1 \subseteq used
    /\ used' = used \cup {out'}
    /\ UNCHANGED broken

\* A slot is given back.
Free ==
    /\ ~broken
    /\ \E i \in used : used' = used \ {i}
    /\ out' = 0
    /\ UNCHANGED broken

\* Room is made for more slots.
Reserve ==
    /\ ~broken
    /\ out' = 0
    /\ UNCHANGED <<used, broken>>

\* The call is refused and changes nothing.
Refuse ==
    /\ ~broken
    /\ out' \in Errors
    /\ UNCHANGED <<used, broken>>

Break ==
    /\ ~broken
    /\ broken' = TRUE
    /\ used' = {}
    /\ out' = 0

Next == Alloc \/ Free \/ Reserve \/ Refuse \/ Break

Spec == Init /\ [][Next]_pool
=============================================================================
