------------------------------- MODULE XvList -------------------------------
(***************************************************************************)
(* The growing vector and the slot list of src/fdwatch/xvdat.c, under the  *)
(* calls of src/fdwatch/test_xvdat.c.                                      *)
(*                                                                         *)
(* struct xvlst extends struct xvec: len and max_len belong to both.  The  *)
(* bytes of l->taken are the set of indexes whose byte is nonzero, and     *)
(* ntaken is the size of that block, 0 for NULL.  A realloc may fail at    *)
(* any call.                                                               *)
(* Reading or writing through NULL ends the process (crashed), and so does *)
(* a failed assertion (aborted).                                           *)
(***************************************************************************)
EXTENDS Integers, FiniteSets

ENOMEM == 12
ERANGE == 34
EALREADY == 114

CONSTANTS GrowBlk,    \* the growblk argument
          Requests,   \* what the caller may ask to reserve
          MaxElem     \* bound: the caller adds no element beyond this many

ASSUME XvAssumption ==
    /\ GrowBlk \in Nat \ {0}
    /\ Requests \subseteq Nat \ {0}
    /\ MaxElem \in Nat \ {0}

VARIABLES mode,      \* "xvec" or "xvlst": which of the two is used
          len, max_len,
          taken, ntaken,
          last, avail,
          out,       \* what the last call returned
          lost,      \* history: the block of flags was lost by a realloc
          life       \* "new", "up" (reserved once), "crashed", "aborted"

xv_vars == <<mode, len, max_len, taken, ntaken, last, avail, out, lost, life>>

XvInit ==
    /\ mode \in {"xvec", "xvlst"}
    /\ len = 0 /\ max_len = 0
    /\ taken = {} /\ ntaken = 0
    /\ last = 0 /\ avail = 0
    /\ out = 0
    /\ lost = FALSE
    /\ life = "new"

Running == life \in {"new", "up"}

-----------------------------------------------------------------------------
(* The vector *)

\* Mutant: rounds down.
nblk_down(new_max) == ((new_max - 1) \div GrowBlk) * GrowBlk

\* nblk: a request in whole blocks.
nblk(new_max) == (1 + (new_max - 1) \div GrowBlk) * GrowBlk

\* What xvec_reserve may leave in max_len, by its answer.
xvec_grown(new_max) ==
    IF new_max < max_len THEN max_len ELSE nblk(new_max)

xvec_may_fail(new_max) == new_max >= max_len

xvec_reserve(new_max) ==
    /\ Running
    /\ mode = "xvec"
    /\ \/ /\ max_len' = xvec_grown(new_max)
          /\ out' = 0
          /\ life' = "up"
       \/ /\ xvec_may_fail(new_max)
          /\ out' = -1
          /\ UNCHANGED <<max_len, life>>
    /\ UNCHANGED <<mode, len, taken, ntaken, last, avail, lost>>

\* The caller expands by plus and then fills the new elements.
xvec_expand(plus) ==
    /\ life = "up"
    /\ mode = "xvec"
    /\ len + plus <= MaxElem
    /\ \/ /\ max_len' = xvec_grown(len + plus)
          /\ out' = len
          /\ len' = len + plus
       \/ /\ xvec_may_fail(len + plus)
          /\ out' = -1
          /\ UNCHANGED <<max_len, len>>
    /\ UNCHANGED <<mode, taken, ntaken, last, avail, lost, life>>

-----------------------------------------------------------------------------
(* The list *)

AsIs(ok) == [ok |-> ok, max |-> max_len, taken |-> taken, ntaken |-> ntaken,
             avail |-> avail, lost |-> lost]

\* Mutant: the new flags are not cleared.
flags_dirty == {taken \cup {max_len + 1}}

\* What the bytes below the old end hold after the block of flags was grown:
\* what they held before, and anything when there was no block to copy.
flags_kept == IF ntaken = 0 THEN SUBSET (0 .. max_len - 1) ELSE {taken}

\* Every way xvlst_reserve can end: enough room already; no memory for the
\* elements; no memory for the flags, whose block is then lost although the
\* elements have grown; or both grown, and the new flags cleared.
xvlst_reserve_ends(new_max) ==
    IF max_len >= new_max
    THEN {AsIs(TRUE)}
    ELSE LET max == nblk(new_max)
         IN  {AsIs(FALSE)}
             \cup {[ok |-> FALSE, max |-> max, taken |-> {}, ntaken |-> 0,
                    avail |-> avail, lost |-> TRUE]}
             \cup {[ok |-> TRUE, max |-> max, taken |-> t, ntaken |-> max,
                    avail |-> IF avail < 0 THEN max_len ELSE avail,
                    lost |-> lost] : t \in flags_kept}

xvlst_reserve(new_max) ==
    /\ Running
    /\ mode = "xvlst"
    /\ \E l \in xvlst_reserve_ends(new_max) :
        /\ max_len' = l.max
        /\ taken' = l.taken /\ ntaken' = l.ntaken
        /\ avail' = l.avail
        /\ lost' = l.lost
        /\ out' = IF l.ok THEN 0 ELSE -1
        /\ life' = IF l.ok THEN "up" ELSE life
    /\ UNCHANGED <<mode, len, last>>

\* memchr: the first free slot of 0 .. max - 1 from i on, or -1.
FirstFree(t, i, max) ==
    IF i .. max - 1 \subseteq t
    THEN -1
    ELSE CHOOSE j \in i .. max - 1 :
            j \notin t /\ \A k \in i .. j - 1 : k \in t

\* Mutant: the neighbour is taken for free.
next_avail_blind(t, i, newlast, max) ==
    IF i + 1 >= max THEN -1 ELSE i + 1

\* The slot that becomes available once slot i is taken, which leaves t.
next_avail(t, i, newlast, max) ==
    IF i = newlast
    THEN IF i + 1 >= max THEN -1 ELSE i + 1
    ELSE FirstFree(t, i + 1, max)

\* The assertion on that slot.
avail_asserted(t, i, newlast, max) ==
    (i = newlast /\ i + 1 < max) => i + 1 \notin t

Larger(a, b) == IF a < b THEN b ELSE a

\* Element l.avail is taken in the list as xvlst_expand left it.
take_slot(l) ==
    LET i == l.avail
        t == l.taken \cup {i}
        newlast == Larger(last, i)
    IN  /\ taken' = t
        /\ last' = newlast
        /\ IF avail_asserted(t, i, newlast, l.max)
           THEN /\ avail' = next_avail(t, i, newlast, l.max)
                /\ len' = len + 1
                /\ out' = i
                /\ UNCHANGED life
           ELSE /\ life' = "aborted"
                /\ UNCHANGED <<avail, len, out>>

\* The rest of xvlst_add, once xvlst_expand has left the list as l.
add_to(l) ==
    /\ max_len' = l.max
    /\ ntaken' = l.ntaken
    /\ lost' = l.lost
    /\ \/ /\ ~l.ok \/ l.avail < 0
          /\ out' = IF l.ok THEN -1 ELSE -ENOMEM
          /\ taken' = l.taken
          /\ avail' = l.avail
          /\ UNCHANGED <<len, last, life>>
       \/ /\ l.ok /\ l.avail >= 0 /\ l.ntaken = 0
          /\ life' = "crashed"
          /\ UNCHANGED <<len, taken, last, avail, out>>
       \/ l.ok /\ l.avail >= 0 /\ l.ntaken # 0 /\ take_slot(l)

xvlst_add ==
    /\ life = "up"
    /\ mode = "xvlst"
    /\ len < MaxElem
    /\ \/ /\ avail >= max_len          \* the assertion at the entry
          /\ life' = "aborted"
          /\ UNCHANGED <<len, max_len, taken, ntaken, last, avail, out, lost>>
       \/ /\ avail < max_len
          /\ \E l \in xvlst_reserve_ends(len + 1) : add_to(l)
    /\ UNCHANGED mode

\* Mutant: the freed slot is not compared with the available one.
xvlst_del_keeps_avail(index) ==
    /\ life = "up"
    /\ mode = "xvlst"
    /\ index \in taken /\ ntaken # 0 /\ len # 0
    /\ taken' = taken \ {index}
    /\ avail' = IF avail < 0 THEN index ELSE avail
    /\ len' = len - 1
    /\ out' = 0
    /\ UNCHANGED <<mode, max_len, ntaken, last, lost, life>>

xvlst_del(index) ==
    /\ life = "up"
    /\ mode = "xvlst"
    /\ \/ /\ index > last
          /\ out' = ERANGE
          /\ UNCHANGED <<len, taken, avail, life>>
       \/ /\ index <= last /\ ntaken = 0
          /\ life' = "crashed"
          /\ UNCHANGED <<len, taken, avail, out>>
       \/ /\ index <= last /\ ntaken # 0 /\ index \notin taken
          /\ out' = EALREADY
          /\ UNCHANGED <<len, taken, avail, life>>
       \/ /\ index <= last /\ ntaken # 0 /\ index \in taken
          /\ taken' = taken \ {index}
          /\ avail' = IF avail < 0 \/ index < avail THEN index ELSE avail
          /\ IF len = 0
             THEN life' = "aborted" /\ UNCHANGED <<len, out>>
             ELSE len' = len - 1 /\ out' = 0 /\ UNCHANGED life
    /\ UNCHANGED <<mode, max_len, ntaken, last, lost>>

XvNext ==
    \/ \E n \in Requests : xvec_reserve(n)
    \/ \E p \in {1, 2} : xvec_expand(p)
    \/ \E n \in Requests : xvlst_reserve(n)
    \/ xvlst_add
    \/ \E i \in 0 .. MaxElem : xvlst_del(i)

XvSpec == XvInit /\ [][XvNext]_xv_vars

-----------------------------------------------------------------------------
(* Properties *)

\* Types: indexes and counts are natural numbers, -1 marks no free slot.
TypeOK ==
    /\ mode \in {"xvec", "xvlst"}
    /\ len \in Nat /\ max_len \in Nat /\ ntaken \in Nat /\ last \in Nat
    /\ taken \subseteq Nat
    /\ avail \in Nat \cup {-1}
    /\ out \in Int
    /\ lost \in BOOLEAN
    /\ life \in {"new", "up", "crashed", "aborted"}

\* avail is the lowest slot that is not taken, or -1 when all are.
AvailIsLowestFree ==
    IF avail = -1
    THEN taken = 0 .. max_len - 1
    ELSE avail \notin taken /\ 0 .. avail - 1 \subseteq taken

\* What xvdat.h says of the fields, whatever was added, deleted and reserved:
\* avail is the lowest free slot although xvlst_add only looks past the slot it
\* hands out, len counts the taken slots, none lies beyond last or outside of
\* the flags.
SlotsOK ==
    (mode = "xvlst" /\ ~lost) =>
        /\ AvailIsLowestFree
        /\ len = Cardinality(taken)
        /\ ntaken = max_len
        /\ taken \subseteq 0 .. max_len - 1
        /\ \A i \in taken : i <= last
        /\ last < max_len \/ (last = 0 /\ max_len = 0)

\* No assertion of xvlst_add and xvlst_del fails and no NULL is followed,
\* unless the flags were lost because their realloc failed after that of the
\* elements had succeeded.
FailsOnlyAfterLoss == life \in {"crashed", "aborted"} => lost

\* The elements a caller fills after xvec_expand lie in the vector, and so does
\* the slot xvlst_add hands out next, even after the flags are lost.
VectorInBounds ==
    /\ mode = "xvec" => len <= max_len
    /\ avail < max_len \/ (avail = 0 /\ max_len = 0)

Pool == INSTANCE SlotPool WITH
            used <- IF lost \/ mode = "xvec" THEN {} ELSE taken,
            broken <- lost,
            out <- IF lost \/ mode = "xvec" THEN 0 ELSE out

\* The list hands out the lowest free slot and never one that is taken, and
\* a refused call changes nothing, until the flags are lost.
ImplementsPool == Pool!Spec
=============================================================================
