---------------------------- MODULE XvListProofs ----------------------------
(***************************************************************************)
(* The slot list keeps its free-slot cache right for every block size and  *)
(* every sequence of calls, and implements SlotPool.                       *)
(*                                                                         *)
(* The inductive invariant XvInv joins TypeOK, SlotsOK, FailsOnlyAfterLoss *)
(* and VectorInBounds with StateOK: a list that is up has slots, and a     *)
(* vector never loses flags.                                               *)
(***************************************************************************)
EXTENDS XvList, TLAPS, FiniteSetTheorems, WellFoundedInduction

StateOK ==
    /\ (life = "up" /\ mode = "xvlst" /\ ~lost) => max_len > 0
    /\ mode = "xvec" => ~lost /\ ntaken = 0
    /\ ntaken > 0 => ntaken = max_len
    /\ taken = {} \/ ntaken > 0
    /\ taken \subseteq 0 .. max_len - 1

XvInv == TypeOK /\ SlotsOK /\ FailsOnlyAfterLoss /\ VectorInBounds /\ StateOK

-----------------------------------------------------------------------------

\* A nonempty set of naturals has a least element.
LEMMA LeastNat ==
    ASSUME NEW S \in SUBSET Nat, S # {}
    PROVE  \E m \in S : \A x \in S : m <= x
<1>1. IsWellFoundedOn(OpToRel(<, Nat), Nat)
  BY NatLessThanWellFounded
<1>2. PICK m \in S : \A y \in S : ~ (<<y, m>> \in OpToRel(<, Nat))
  BY <1>1, WFMin, Zenon
<1>3. \A y \in S : ~ (y < m)
  BY <1>2 DEF OpToRel
<1>4. ASSUME NEW x \in S PROVE m <= x
  <2>1. x \in Nat /\ m \in Nat /\ ~ (x < m)
    BY <1>2, <1>3
  <2> QED BY <2>1
<1> QED BY <1>4

\* A request is rounded up to at least itself.
LEMMA RoundUp ==
    ASSUME NEW n \in Nat \ {0}
    PROVE  nblk(n) \in Nat /\ nblk(n) >= n
<1> DEFINE q == (n - 1) \div GrowBlk
           r == (n - 1) % GrowBlk
<1>1. GrowBlk \in Nat /\ GrowBlk > 0
  BY XvAssumption
<1>2. q \in Nat /\ r \in 0 .. GrowBlk - 1 /\ n - 1 = GrowBlk * q + r
  BY <1>1
<1>3. nblk(n) = GrowBlk * q + GrowBlk
  <2> HIDE DEF q, r
  <2>1. nblk(n) = (1 + q) * GrowBlk
    BY DEF nblk, q
  <2> QED BY <2>1, <1>1, <1>2
<1>4. GrowBlk * q \in Nat
  <2> HIDE DEF q, r
  <2> QED BY <1>1, <1>2
<1> HIDE DEF q, r
<1> QED BY <1>1, <1>2, <1>3, <1>4

\* FirstFree finds the lowest free slot from i on.
LEMMA FirstFreeIsLowest ==
    ASSUME NEW t \in SUBSET Nat, NEW i \in Nat, NEW max \in Nat,
           NEW f, f = FirstFree(t, i, max)
    PROVE  \/ f = -1 /\ i .. max - 1 \subseteq t
           \/ f \in i .. max - 1 /\ f \notin t /\ i .. f - 1 \subseteq t
<1>1. CASE i .. max - 1 \subseteq t
  BY <1>1 DEF FirstFree
<1>2. CASE ~ (i .. max - 1 \subseteq t)
  <2> DEFINE S == (i .. max - 1) \ t
             P(j) == j \notin t /\ \A k \in i .. j - 1 : k \in t
  <2>1. S \in SUBSET Nat /\ S # {}
    BY <1>2
  <2>2. PICK m \in S : \A x \in S : m <= x
    BY <2>1, LeastNat
  <2>3. m \in i .. max - 1 /\ P(m)
    BY <2>2
  <2>4. FirstFree(t, i, max) = CHOOSE j \in i .. max - 1 : P(j)
    BY <1>2 DEF FirstFree
  <2>5. FirstFree(t, i, max) \in i .. max - 1 /\ P(FirstFree(t, i, max))
    <3> HIDE DEF P
    <3> QED BY <2>3, <2>4
  <2> QED BY <2>5
<1> QED BY <1>1, <1>2

\* As many taken slots as there are slots: all are taken.
LEMMA FullWhenCounted ==
    ASSUME NEW t, NEW n \in Nat, t \subseteq 0 .. n - 1
    PROVE  /\ IsFiniteSet(t)
           /\ Cardinality(t) \in Nat
           /\ Cardinality(t) <= n
           /\ Cardinality(t) = n => t = 0 .. n - 1
<1>1. IsFiniteSet(0 .. n - 1) /\ Cardinality(0 .. n - 1) = n
  <2>1. 0 \in Int /\ n - 1 \in Int
    OBVIOUS
  <2>2. IsFiniteSet(0 .. n - 1)
        /\ Cardinality(0 .. n - 1) = IF 0 > n - 1 THEN 0 ELSE (n - 1) - 0 + 1
    BY <2>1, FS_Interval
  <2> QED BY <2>2
<1>2. /\ IsFiniteSet(t) /\ Cardinality(t) <= Cardinality(0 .. n - 1)
      /\ Cardinality(t) = Cardinality(0 .. n - 1) => t = 0 .. n - 1
  BY <1>1, FS_Subset
<1> QED BY <1>1, <1>2, FS_CardinalityType

-----------------------------------------------------------------------------

\* What the invariant says of a list, for the list xvlst_reserve leaves.
EndTyped(l) ==
    /\ l.ok \in BOOLEAN /\ l.lost \in BOOLEAN
    /\ l.max \in Nat /\ l.max >= max_len /\ l.ntaken \in Nat
    /\ l.taken \subseteq Nat
    /\ l.avail \in Nat \cup {-1}
    /\ l.avail < l.max \/ (l.avail = 0 /\ l.max = 0)
    /\ l.ntaken > 0 => l.ntaken = l.max
    /\ l.taken = {} \/ l.ntaken > 0
    /\ l.taken \subseteq 0 .. l.max - 1
    /\ lost => l.lost

EndSlots(l) ==
    /\ l.taken = taken
    /\ l.ntaken = l.max
    /\ taken \subseteq 0 .. l.max - 1
    /\ last < l.max \/ (last = 0 /\ l.max = 0)
    /\ IF l.avail = -1
       THEN taken = 0 .. l.max - 1
       ELSE l.avail \notin taken /\ 0 .. l.avail - 1 \subseteq taken

\* Every way xvlst_reserve ends keeps the slots as they were, or loses them.
LEMMA ReserveEnds ==
    ASSUME XvInv, mode = "xvlst", NEW n \in Nat \ {0},
           NEW l \in xvlst_reserve_ends(n)
    PROVE  /\ EndTyped(l)
           /\ ~l.lost => EndSlots(l) /\ ~lost
           /\ l.ok => l.max >= n
           /\ (l.ok /\ l.ntaken = 0) => taken = {}
<1> USE DEF XvInv, TypeOK, SlotsOK, StateOK, AvailIsLowestFree,
            VectorInBounds
<1>1. nblk(n) \in Nat /\ nblk(n) >= n
  BY RoundUp
<1>2. CASE max_len >= n
  <2>1. l = AsIs(TRUE)
    BY <1>2 DEF xvlst_reserve_ends
  <2> QED BY <2>1, <1>2 DEF AsIs, EndTyped, EndSlots
<1>3. CASE ~(max_len >= n)
  <2>1. PICK t \in flags_kept :
          \/ l = AsIs(FALSE)
          \/ l = [ok |-> FALSE, max |-> nblk(n), taken |-> {}, ntaken |-> 0,
                  avail |-> avail, lost |-> TRUE]
          \/ l = [ok |-> TRUE, max |-> nblk(n), taken |-> t,
                  ntaken |-> nblk(n),
                  avail |-> IF avail < 0 THEN max_len ELSE avail,
                  lost |-> lost]
    <3>1. \E t : t \in flags_kept
      BY DEF flags_kept
    <3> HIDE DEF XvInv, TypeOK, SlotsOK, StateOK, AvailIsLowestFree,
                 VectorInBounds
    <3> QED BY <1>3, <3>1 DEF xvlst_reserve_ends
  <2>2. t \subseteq 0 .. max_len - 1 /\ (~lost => t = taken)
    <3>1. CASE ntaken # 0
      BY <3>1 DEF flags_kept
    <3>2. CASE ntaken = 0
      <4>1. t \subseteq 0 .. max_len - 1 /\ taken = {}
        BY <3>2 DEF flags_kept
      <4>2. ~lost => max_len = 0
        BY <3>2
      <4> QED BY <4>1, <4>2
    <3> QED BY <3>1, <3>2
  <2>3. CASE l = AsIs(FALSE)
    BY <2>3, <1>3 DEF AsIs, EndTyped, EndSlots
  <2>4. CASE l = [ok |-> FALSE, max |-> nblk(n), taken |-> {}, ntaken |-> 0,
                  avail |-> avail, lost |-> TRUE]
    BY <2>4, <1>1, <1>3 DEF EndTyped, EndSlots
  <2>5. CASE l = [ok |-> TRUE, max |-> nblk(n), taken |-> t,
                  ntaken |-> nblk(n),
                  avail |-> IF avail < 0 THEN max_len ELSE avail,
                  lost |-> lost]
    <3>1. EndTyped(l)
      BY <2>5, <2>2, <1>1, <1>3 DEF EndTyped
    <3>2. ASSUME ~l.lost PROVE EndSlots(l) /\ ~lost
      <4>1. ~lost /\ l.taken = taken /\ l.ntaken = l.max /\ l.max = nblk(n)
        BY <3>2, <2>5, <2>2
      <4>2. taken \subseteq 0 .. l.max - 1 /\ last < l.max
        BY <4>1, <1>1, <1>3
      <4>3. CASE avail < 0
        <5>1. avail = -1 /\ l.avail = max_len
          BY <4>3, <2>5
        <5>2. taken = 0 .. max_len - 1
          BY <4>1, <5>1
        <5>3. l.avail # -1 /\ l.avail \notin taken
              /\ 0 .. l.avail - 1 \subseteq taken
          BY <5>1, <5>2
        <5> QED BY <4>1, <4>2, <5>3 DEF EndSlots
      <4>4. CASE ~(avail < 0)
        <5>1. l.avail = avail /\ avail # -1
          BY <4>4, <2>5
        <5> QED BY <4>1, <4>2, <5>1 DEF EndSlots
      <4> QED BY <4>3, <4>4
    <3> QED BY <3>1, <3>2, <2>5, <1>1
  <2> QED BY <2>1, <2>3, <2>4, <2>5
<1> QED BY <1>2, <1>3

\* Slot i is taken in t0, which makes it t, and slot a becomes available.
NextAvailOK(t0, i, max, la, t, nl, a) ==
    /\ a \in Nat \cup {-1} /\ a < max
    /\ nl \in Nat /\ nl >= i /\ nl >= la /\ (nl = i \/ nl = la)
    /\ (/\ t0 \subseteq 0 .. max - 1
        /\ 0 .. i - 1 \subseteq t0
        /\ \A j \in t0 : j <= la)
       => /\ avail_asserted(t, i, nl, max)
          /\ IF a = -1
             THEN t = 0 .. max - 1
             ELSE a \notin t /\ 0 .. a - 1 \subseteq t

\* The slot that becomes available after slot i is taken is in range, and the
\* lowest free one if slot i was and nothing beyond last is taken.
LEMMA NextAvail ==
    ASSUME NEW t0 \in SUBSET Nat, NEW i \in Nat, NEW max \in Nat, i < max,
           NEW la \in Nat, NEW t, NEW nl, NEW a,
           t = t0 \cup {i}, nl = Larger(la, i), a = next_avail(t, i, nl, max)
    PROVE  NextAvailOK(t0, i, max, la, t, nl, a)
<1> USE DEF NextAvailOK
<1>1. nl \in Nat /\ nl >= i /\ nl >= la /\ (nl = i \/ nl = la)
  BY DEF Larger
<1>2. CASE i = nl
  <2>1. a = IF i + 1 >= max THEN -1 ELSE i + 1
    BY <1>2 DEF next_avail
  <2>2. a \in Nat \cup {-1} /\ a < max
    BY <2>1
  <2>3. ASSUME t0 \subseteq 0 .. max - 1, 0 .. i - 1 \subseteq t0,
               \A j \in t0 : j <= la
        PROVE  /\ avail_asserted(t, i, nl, max)
               /\ IF a = -1
                  THEN t = 0 .. max - 1
                  ELSE a \notin t /\ 0 .. a - 1 \subseteq t
    <3>1. \A j \in t0 : j <= i
      BY <1>1, <1>2, <2>3
    <3>2. i + 1 \notin t /\ 0 .. i \subseteq t /\ t \subseteq 0 .. i
      BY <2>3, <3>1
    <3>3. avail_asserted(t, i, nl, max)
      BY <3>2 DEF avail_asserted
    <3>4. CASE i + 1 >= max
      <4>1. a = -1 /\ max = i + 1
        BY <2>1, <3>4
      <4>2. max - 1 = i
        BY <4>1
      <4> QED BY <4>1, <4>2, <3>2, <3>3
    <3>5. CASE ~(i + 1 >= max)
      <4>1. a = i + 1 /\ a # -1 /\ a - 1 = i
        BY <2>1, <3>5
      <4> QED BY <4>1, <3>2, <3>3
    <3> QED BY <3>4, <3>5
  <2> QED BY <1>1, <2>2, <2>3
<1>3. CASE i # nl
  <2>1. a = FirstFree(t, i + 1, max) /\ t \in SUBSET Nat /\ i + 1 \in Nat
    BY <1>3 DEF next_avail
  <2>2. avail_asserted(t, i, nl, max)
    BY <1>3 DEF avail_asserted
  <2>3. \/ a = -1 /\ i + 1 .. max - 1 \subseteq t
        \/ a \in i + 1 .. max - 1 /\ a \notin t /\ i + 1 .. a - 1 \subseteq t
    BY <2>1, FirstFreeIsLowest
  <2>4. a \in Nat \cup {-1} /\ a < max
    BY <2>3
  <2>5. ASSUME t0 \subseteq 0 .. max - 1, 0 .. i - 1 \subseteq t0
        PROVE  IF a = -1
               THEN t = 0 .. max - 1
               ELSE a \notin t /\ 0 .. a - 1 \subseteq t
    <3>1. 0 .. i \subseteq t /\ t \subseteq 0 .. max - 1
      BY <2>5
    <3>2. CASE a = -1
      <4>1. i + 1 .. max - 1 \subseteq t
        BY <2>3, <3>2
      <4>2. 0 .. max - 1 \subseteq t
        BY <3>1, <4>1
      <4> QED BY <3>1, <3>2, <4>2
    <3>3. CASE a # -1
      <4>1. a \in i + 1 .. max - 1 /\ a \notin t /\ i + 1 .. a - 1 \subseteq t
        BY <2>3, <3>3
      <4>2. 0 .. a - 1 \subseteq t
        BY <3>1, <4>1
      <4> QED BY <3>3, <4>1, <4>2
    <3> QED BY <3>2, <3>3
  <2> QED BY <1>1, <2>2, <2>4, <2>5
<1> QED BY <1>2, <1>3

-----------------------------------------------------------------------------

LEMMA InitInv == XvInit => XvInv
<1> SUFFICES ASSUME XvInit PROVE XvInv
  OBVIOUS
<1>1. Cardinality({}) = 0
  BY FS_EmptySet
<1>2. TypeOK
  <2>1. lost \in BOOLEAN
    BY Zenon DEF XvInit
  <2> QED BY <2>1 DEF XvInit, TypeOK
<1>3. FailsOnlyAfterLoss /\ VectorInBounds /\ StateOK
  BY DEF XvInit, FailsOnlyAfterLoss, VectorInBounds, StateOK
<1>4. SlotsOK
  BY <1>1 DEF XvInit, SlotsOK, AvailIsLowestFree
<1> QED BY <1>2, <1>3, <1>4 DEF XvInv

LEMMA VectorStep ==
    ASSUME XvInv,
           \/ \E n \in Requests : xvec_reserve(n)
           \/ \E p \in {1, 2} : xvec_expand(p)
    PROVE  XvInv' /\ mode = "xvec" /\ mode' = mode /\ lost' = lost
<1>1. ASSUME NEW n \in Requests, xvec_reserve(n)
      PROVE  XvInv' /\ mode = "xvec" /\ mode' = mode /\ lost' = lost
  <2>1. n \in Nat \ {0}
    BY XvAssumption
  <2>2. nblk(n) \in Nat /\ nblk(n) >= n
    BY <2>1, RoundUp
  <2> USE <1>1 DEF xvec_reserve, xvec_grown, xvec_may_fail
  <2>3. TypeOK' /\ VectorInBounds'
    BY <2>1, <2>2 DEF XvInv, TypeOK, StateOK, VectorInBounds
  <2>4. SlotsOK' /\ FailsOnlyAfterLoss' /\ StateOK'
    BY DEF XvInv, SlotsOK, FailsOnlyAfterLoss, StateOK, Running
  <2> QED BY <2>3, <2>4 DEF XvInv
<1>2. ASSUME NEW p \in {1, 2}, xvec_expand(p)
      PROVE  XvInv' /\ mode = "xvec" /\ mode' = mode /\ lost' = lost
  <2>1. len + p \in Nat \ {0}
    BY DEF XvInv, TypeOK
  <2>2. nblk(len + p) \in Nat /\ nblk(len + p) >= len + p
    BY <2>1, RoundUp
  <2> USE <1>2 DEF xvec_expand, xvec_grown, xvec_may_fail
  <2>3. TypeOK' /\ VectorInBounds'
    BY <2>1, <2>2 DEF XvInv, TypeOK, StateOK, VectorInBounds
  <2>4. SlotsOK' /\ FailsOnlyAfterLoss' /\ StateOK'
    BY DEF XvInv, SlotsOK, FailsOnlyAfterLoss, StateOK, Running
  <2> QED BY <2>3, <2>4 DEF XvInv
<1> QED BY <1>1, <1>2

LEMMA ReserveStep ==
    ASSUME XvInv, NEW n \in Requests, xvlst_reserve(n)
    PROVE  XvInv' /\ (lost => lost') /\ (~lost' => taken' = taken)
           /\ mode = "xvlst" /\ mode' = mode /\ out' \in {0, -1}
<1> USE DEF xvlst_reserve
<1>1. n \in Nat \ {0}
  BY XvAssumption
<1>2. PICK l \in xvlst_reserve_ends(n) :
        /\ max_len' = l.max
        /\ taken' = l.taken /\ ntaken' = l.ntaken
        /\ avail' = l.avail
        /\ lost' = l.lost
        /\ out' = IF l.ok THEN 0 ELSE -1
        /\ life' = IF l.ok THEN "up" ELSE life
  OBVIOUS
<1>3. EndTyped(l) /\ (~l.lost => EndSlots(l) /\ ~lost) /\ (l.ok => l.max >= n)
  BY <1>1, ReserveEnds
<1>4. TypeOK' /\ FailsOnlyAfterLoss' /\ VectorInBounds'
  BY <1>2, <1>3 DEF XvInv, TypeOK, EndTyped, FailsOnlyAfterLoss,
                    VectorInBounds, Running
<1>5. SlotsOK' /\ (~lost' => taken' = taken)
  BY <1>2, <1>3 DEF XvInv, SlotsOK, EndSlots, EndTyped, AvailIsLowestFree
<1>6. StateOK'
  <2>1. (life = "up" /\ ~l.lost) => l.max > 0
    <3>1. ASSUME life = "up", ~l.lost PROVE l.max > 0
      <4>1. max_len > 0 /\ mode = "xvlst" /\ ~lost
        BY <3>1, <1>3 DEF XvInv, StateOK
      <4> QED BY <4>1, <1>3 DEF XvInv, TypeOK, EndTyped
    <3> QED BY <3>1
  <2> QED BY <1>1, <1>2, <1>3, <2>1 DEF StateOK, XvInv, EndTyped, TypeOK
<1> QED BY <1>2, <1>3, <1>4, <1>5, <1>6 DEF XvInv, EndTyped

\* xvlst_add where the list is grown or not, and what the step does to the
\* slots: nothing, or the lowest free one is taken.
AddChange ==
    \/ taken' = taken /\ out' \in {-1, -ENOMEM}
    \/ /\ out' \in Nat \ taken
       /\ 0 .. out' - 1 \subseteq taken
       /\ taken' = taken \cup {out'}

LEMMA AddStep ==
    ASSUME XvInv, xvlst_add
    PROVE  XvInv' /\ (lost => lost') /\ (~lost' => AddChange)
           /\ mode = "xvlst" /\ mode' = mode
<1>1. /\ life = "up" /\ mode = "xvlst" /\ mode' = mode
      /\ len + 1 \in Nat \ {0} /\ len \in Nat /\ last \in Nat
  BY DEF xvlst_add, XvInv, TypeOK
<1>2. CASE avail >= max_len
  <2>1. max_len \in Nat /\ avail = 0 /\ max_len = 0
    BY <1>2 DEF XvInv, TypeOK, VectorInBounds
  <2>2. lost
    BY <1>1, <2>1 DEF XvInv, StateOK
  <2>3. /\ life' = "aborted"
        /\ UNCHANGED <<mode, len, max_len, taken, ntaken, last, avail, out,
                       lost>>
    <3>1. ~(avail < max_len)
      BY <2>1
    <3> QED BY <1>2, <3>1 DEF xvlst_add
  <2>4. TypeOK' /\ FailsOnlyAfterLoss' /\ VectorInBounds' /\ StateOK'
    BY <1>1, <2>2, <2>3 DEF XvInv, TypeOK, FailsOnlyAfterLoss,
                            VectorInBounds, StateOK
  <2>5. SlotsOK' /\ lost'
    BY <2>2, <2>3 DEF SlotsOK
  <2> QED BY <1>1, <2>2, <2>3, <2>4, <2>5 DEF XvInv
<1>3. CASE ~(avail >= max_len)
  <2>0. PICK l \in xvlst_reserve_ends(len + 1) : add_to(l)
    BY <1>3 DEF xvlst_add
  <2>1. max_len' = l.max /\ ntaken' = l.ntaken /\ lost' = l.lost
    BY <2>0 DEF add_to
  <2>2. /\ EndTyped(l)
        /\ ~l.lost => EndSlots(l) /\ ~lost
        /\ l.ok => l.max >= len + 1
        /\ (l.ok /\ l.ntaken = 0) => taken = {}
    BY <1>1, ReserveEnds
  <2>3. lost => lost'
    BY <2>1, <2>2 DEF EndTyped
  <2>4. (avail' < max_len' \/ (avail' = 0 /\ max_len' = 0)) => VectorInBounds'
    BY <1>1 DEF VectorInBounds
  <2>5. ASSUME ~lost' PROVE ~l.lost /\ ~lost /\ EndSlots(l) /\ max_len > 0
                            /\ l.max > 0
    <3>1. ~l.lost /\ ~lost /\ EndSlots(l)
      BY <2>5, <2>1, <2>2
    <3>2. max_len > 0
      BY <3>1, <1>1 DEF XvInv, StateOK
    <3> QED BY <3>1, <3>2, <2>2 DEF EndTyped, XvInv, TypeOK
  <2>6. CASE /\ ~l.ok \/ l.avail < 0
             /\ out' = IF l.ok THEN -1 ELSE -ENOMEM
             /\ taken' = l.taken
             /\ avail' = l.avail
             /\ UNCHANGED <<len, last, life>>
    <3>1. TypeOK'
      BY <1>1, <2>1, <2>2, <2>6 DEF XvInv, TypeOK, EndTyped, ENOMEM
    <3>5. VectorInBounds'
      BY <2>1, <2>2, <2>4, <2>6 DEF EndTyped
    <3>2. FailsOnlyAfterLoss' /\ StateOK'
      BY <1>1, <2>1, <2>2, <2>5, <2>6 DEF FailsOnlyAfterLoss, StateOK, EndTyped
    <3>3. SlotsOK'
      <4> SUFFICES ASSUME ~lost' PROVE SlotsOK'
        BY DEF SlotsOK
      <4>1. len = Cardinality(taken) /\ \A i \in taken : i <= last
        BY <2>5, <1>1 DEF XvInv, SlotsOK
      <4> QED BY <4>1, <2>1, <2>5, <2>6 DEF SlotsOK, AvailIsLowestFree, EndSlots
    <3>4. ~lost' => AddChange
      BY <2>5, <2>6 DEF AddChange, EndSlots
    <3> QED BY <1>1, <2>3, <3>1, <3>2, <3>3, <3>4, <3>5 DEF XvInv
  <2>7. CASE /\ l.ok /\ l.avail >= 0 /\ l.ntaken = 0
             /\ life' = "crashed"
             /\ UNCHANGED <<len, taken, last, avail, out>>
    <3>1. lost'
      <4> SUFFICES ASSUME ~lost' PROVE FALSE
        BY <2>1, <2>2 DEF EndTyped
      <4> QED BY <2>5, <2>7 DEF EndSlots
    <3>2. VectorInBounds'
      BY <1>3, <2>1, <2>2, <2>4, <2>7 DEF XvInv, TypeOK, EndTyped
    <3>3. TypeOK'
      BY <1>1, <2>1, <2>2, <2>7 DEF XvInv, TypeOK, EndTyped
    <3>4. StateOK'
      <4>1. taken = {}
        BY <2>2, <2>7
      <4> QED BY <1>1, <2>1, <2>2, <2>7, <3>1, <4>1 DEF StateOK, EndTyped
    <3>5. SlotsOK' /\ FailsOnlyAfterLoss'
      BY <3>1 DEF SlotsOK, FailsOnlyAfterLoss
    <3> QED BY <1>1, <2>3, <3>1, <3>2, <3>3, <3>4, <3>5 DEF XvInv
  <2>8. CASE l.ok /\ l.avail >= 0 /\ l.ntaken # 0 /\ take_slot(l)
    <3> DEFINE i == l.avail
               t == l.taken \cup {i}
               nl == Larger(last, i)
               a == next_avail(t, i, nl, l.max)
    <3>1. i \in Nat /\ l.max \in Nat /\ l.ntaken = l.max /\ i < l.max
          /\ l.taken \in SUBSET Nat
      BY <2>2, <2>8 DEF EndTyped
    <3>2. /\ a \in Nat \cup {-1} /\ a < l.max
          /\ nl \in Nat /\ nl >= i /\ nl >= last /\ (nl = i \/ nl = last)
          /\ (/\ l.taken \subseteq 0 .. l.max - 1
              /\ 0 .. i - 1 \subseteq l.taken
              /\ \A j \in l.taken : j <= last)
             => /\ avail_asserted(t, i, nl, l.max)
                /\ IF a = -1
                   THEN t = 0 .. l.max - 1
                   ELSE a \notin t /\ 0 .. a - 1 \subseteq t
      <4> HIDE DEF i, t, nl, a
      <4>1. /\ t = l.taken \cup {i} /\ nl = Larger(last, i)
            /\ a = next_avail(t, i, nl, l.max)
        BY DEF t, nl, a
      <4>2. NextAvailOK(l.taken, i, l.max, last, t, nl, a)
        BY <1>1, <3>1, <4>1, NextAvail
      <4> QED BY <4>2 DEF NextAvailOK
    <3>3. /\ taken' = t /\ last' = nl
          /\ IF avail_asserted(t, i, nl, l.max)
             THEN avail' = a /\ len' = len + 1 /\ out' = i /\ life' = life
             ELSE life' = "aborted" /\ UNCHANGED <<avail, len, out>>
      BY <2>8 DEF take_slot
    <3> HIDE DEF i, nl, a
    <3>4. TypeOK'
      <4>1. avail' \in Nat \cup {-1}
        BY <2>2, <3>1, <3>2, <3>3 DEF XvInv, TypeOK, EndTyped
      <4>2. taken' \subseteq Nat /\ last' \in Nat /\ len' \in Nat
            /\ out' \in Int /\ life' \in {"new", "up", "crashed", "aborted"}
        BY <1>1, <3>1, <3>2, <3>3 DEF XvInv, TypeOK
      <4> QED BY <1>1, <2>1, <2>2, <4>1, <4>2 DEF XvInv, TypeOK, EndTyped
    <3>5. StateOK'
      <4>1. max_len' > 0 /\ ntaken' = max_len' /\ ntaken' > 0
            /\ taken' \subseteq 0 .. max_len' - 1
        BY <2>1, <2>2, <3>1, <3>3 DEF EndTyped
      <4> QED BY <1>1, <4>1 DEF StateOK
    <3>6. ASSUME ~lost'
          PROVE  /\ i = l.avail /\ i \notin taken /\ 0 .. i - 1 \subseteq taken
                 /\ taken' = taken \cup {i} /\ out' = i /\ len' = len + 1
                 /\ avail' = a /\ last' = nl /\ life' = life
                 /\ taken' \subseteq 0 .. l.max - 1
                 /\ len = Cardinality(taken) /\ \A j \in taken : j <= last
                 /\ IF a = -1
                    THEN taken' = 0 .. l.max - 1
                    ELSE a \notin taken' /\ 0 .. a - 1 \subseteq taken'
      <4>1. /\ l.taken = taken /\ taken \subseteq 0 .. l.max - 1
            /\ l.avail \notin taken /\ 0 .. l.avail - 1 \subseteq taken
        BY <2>5, <3>6, <2>8 DEF EndSlots
      <4>2. len = Cardinality(taken) /\ \A j \in taken : j <= last
        BY <2>5, <3>6, <1>1 DEF XvInv, SlotsOK
      <4>3. i = l.avail
        BY DEF i
      <4>4. taken' \subseteq 0 .. l.max - 1
        BY <3>1, <3>3, <4>1
      <4> QED BY <3>2, <3>3, <4>1, <4>2, <4>3, <4>4
    <3>7. SlotsOK'
      <4> SUFFICES ASSUME ~lost' PROVE SlotsOK'
        BY DEF SlotsOK
      <4>1. IsFiniteSet(taken)
        BY <2>5, <2>2, FullWhenCounted DEF EndSlots, EndTyped
      <4>2. Cardinality(taken \cup {i}) = Cardinality(taken) + 1
        BY <3>6, <4>1, FS_AddElement
      <4>3. len' = Cardinality(taken')
        BY <3>6, <4>2
      <4>4. \A j \in taken' : j <= last'
        BY <1>1, <3>1, <3>2, <3>6, <2>5 DEF EndSlots
      <4>5. last' < max_len'
        BY <1>1, <2>1, <2>5, <3>1, <3>2, <3>6 DEF EndSlots
      <4> QED BY <2>1, <3>1, <3>6, <4>3, <4>4, <4>5
              DEF SlotsOK, AvailIsLowestFree
    <3>8. FailsOnlyAfterLoss'
      BY <1>1, <2>1, <2>2, <3>6 DEF FailsOnlyAfterLoss, EndTyped
    <3>9. ~lost' => AddChange
      BY <3>1, <3>6 DEF AddChange
    <3>10. VectorInBounds'
      BY <1>3, <2>1, <2>2, <2>4, <3>1, <3>2, <3>3 DEF XvInv, TypeOK, EndTyped
    <3> QED BY <1>1, <2>3, <3>4, <3>5, <3>7, <3>8, <3>9, <3>10 DEF XvInv
  <2> QED BY <2>0, <2>6, <2>7, <2>8 DEF add_to
<1> QED BY <1>2, <1>3

LEMMA DelStep ==
    ASSUME XvInv, NEW index \in Nat, xvlst_del(index)
    PROVE  /\ XvInv' /\ lost' = lost /\ mode = "xvlst" /\ mode' = mode
           /\ ~lost => \/ taken' = taken /\ out' \in {ERANGE, EALREADY}
                       \/ index \in taken /\ taken' = taken \ {index} /\ out' = 0
<1>1. /\ life = "up" /\ mode = "xvlst"
      /\ UNCHANGED <<mode, max_len, ntaken, last, lost>>
  BY DEF xvlst_del
<1>2. ~lost => ntaken # 0
  BY <1>1 DEF XvInv, SlotsOK, StateOK, TypeOK
<1>3. CASE index > last \/ (index <= last /\ (ntaken = 0 \/ index \notin taken))
  <2>1. /\ UNCHANGED <<len, taken, avail>>
        /\ \/ life' = life /\ out' \in {ERANGE, EALREADY}
           \/ ntaken = 0 /\ life' = "crashed" /\ UNCHANGED out
    BY <1>3 DEF xvlst_del, XvInv, TypeOK
  <2>2. TypeOK'
    BY <1>1, <2>1 DEF XvInv, TypeOK, ERANGE, EALREADY
  <2>3. StateOK' /\ VectorInBounds'
    BY <1>1, <2>1 DEF XvInv, StateOK, VectorInBounds
  <2>4. FailsOnlyAfterLoss'
    BY <1>1, <1>2, <2>1 DEF FailsOnlyAfterLoss
  <2>5. SlotsOK'
    BY <1>1, <2>1 DEF XvInv, SlotsOK, AvailIsLowestFree
  <2> QED BY <1>1, <1>2, <2>1, <2>2, <2>3, <2>4, <2>5 DEF XvInv
<1>4. CASE index <= last /\ ntaken # 0 /\ index \in taken
  <2>1. /\ taken' = taken \ {index}
        /\ avail' = IF avail < 0 \/ index < avail THEN index ELSE avail
        /\ IF len = 0
           THEN life' = "aborted" /\ UNCHANGED <<len, out>>
           ELSE len' = len - 1 /\ out' = 0 /\ UNCHANGED life
    BY <1>4 DEF xvlst_del, XvInv, TypeOK
  <2>2. ASSUME ~lost
        PROVE  /\ len # 0 /\ len' = Cardinality(taken')
               /\ taken \subseteq 0 .. max_len - 1
    <3>1. /\ len = Cardinality(taken) /\ taken \subseteq 0 .. max_len - 1
          /\ max_len \in Nat
      BY <2>2, <1>1 DEF XvInv, SlotsOK, TypeOK
    <3>2. IsFiniteSet(taken)
      BY <3>1, FullWhenCounted
    <3>3. Cardinality(taken \ {index}) = Cardinality(taken) - 1
          /\ Cardinality(taken \ {index}) \in Nat
      BY <1>4, <3>2, FS_RemoveElement, FS_CardinalityType
    <3>4. len # 0
      BY <3>1, <3>2, <3>3, FS_CardinalityType
    <3> QED BY <2>1, <3>1, <3>3, <3>4
  <2>3. TypeOK'
    <3>1. index < max_len
      BY <1>4 DEF XvInv, StateOK, TypeOK
    <3> QED BY <1>1, <1>4, <2>1, <3>1 DEF XvInv, TypeOK
  <2>4. StateOK' /\ VectorInBounds'
    BY <1>1, <1>4, <2>1 DEF XvInv, StateOK, VectorInBounds, TypeOK
  <2>5. FailsOnlyAfterLoss'
    BY <1>1, <2>1, <2>2 DEF FailsOnlyAfterLoss
  <2>6. SlotsOK'
    <3> SUFFICES ASSUME ~lost PROVE SlotsOK'
      BY <1>1 DEF SlotsOK
    <3>1. AvailIsLowestFree'
      <4>1. AvailIsLowestFree /\ taken \subseteq Nat /\ avail \in Nat \cup {-1}
            /\ max_len \in Nat
        BY <1>1 DEF XvInv, SlotsOK, TypeOK
      <4>2. CASE avail < 0
        <5>1. taken = 0 .. max_len - 1 /\ avail' = index
          BY <4>1, <4>2, <2>1 DEF AvailIsLowestFree
        <5> QED BY <5>1, <4>1, <2>1, <1>4 DEF AvailIsLowestFree
      <4>3. CASE ~(avail < 0)
        <5>1. avail \notin taken /\ 0 .. avail - 1 \subseteq taken
          BY <4>1, <4>3 DEF AvailIsLowestFree
        <5> QED BY <5>1, <4>1, <4>3, <2>1, <1>4 DEF AvailIsLowestFree
      <4> QED BY <4>2, <4>3
    <3>2. \A i \in taken' : i <= last'
      BY <1>1, <2>1 DEF XvInv, SlotsOK
    <3> QED BY <1>1, <2>1, <2>2, <3>1, <3>2 DEF XvInv, SlotsOK
  <2> QED BY <1>1, <1>4, <2>1, <2>2, <2>3, <2>4, <2>5, <2>6 DEF XvInv
<1> QED BY <1>3, <1>4 DEF XvInv, TypeOK

LEMMA StepInv == XvInv /\ [XvNext]_xv_vars => XvInv'
<1> SUFFICES ASSUME XvInv, [XvNext]_xv_vars PROVE XvInv'
  OBVIOUS
<1>1. CASE \/ \E n \in Requests : xvec_reserve(n)
           \/ \E p \in {1, 2} : xvec_expand(p)
  BY <1>1, VectorStep
<1>2. ASSUME NEW n \in Requests, xvlst_reserve(n) PROVE XvInv'
  BY <1>2, ReserveStep
<1>3. CASE xvlst_add
  BY <1>3, AddStep
<1>4. ASSUME NEW i \in 0 .. MaxElem, xvlst_del(i) PROVE XvInv'
  BY <1>4, DelStep, XvAssumption
<1>5. CASE UNCHANGED xv_vars
  BY <1>5 DEF xv_vars, XvInv, TypeOK, SlotsOK, AvailIsLowestFree,
              FailsOnlyAfterLoss, VectorInBounds, StateOK
<1> QED BY <1>1, <1>2, <1>3, <1>4, <1>5 DEF XvNext

\* The invariant of the vector and of the list holds throughout.
LEMMA XvAlways == XvSpec => []XvInv
  BY InitInv, StepInv, PTL DEF XvSpec

\* For every block size and every sequence of calls, with any of them out of
\* memory: avail is the lowest free slot and len counts the taken ones, until
\* the flags are lost.
THEOREM SlotsCorrect == XvSpec => []SlotsOK
<1>1. XvInv => SlotsOK
  BY DEF XvInv
<1> QED BY <1>1, XvAlways, PTL

\* No assertion of xvlst_add and xvlst_del fails and no NULL is followed before
\* xvlst_reserve has lost the flags.
THEOREM FailuresExplained == XvSpec => []FailsOnlyAfterLoss
<1>1. XvInv => FailsOnlyAfterLoss
  BY DEF XvInv
<1> QED BY <1>1, XvAlways, PTL

\* For every block size, the elements xvec_expand promises lie in the vector, and
\* so does the slot xvlst_add hands out next.
THEOREM VectorBounded == XvSpec => []VectorInBounds
<1>1. XvInv => VectorInBounds
  BY DEF XvInv
<1> QED BY <1>1, XvAlways, PTL

-----------------------------------------------------------------------------
(* The refinement: what the list's steps are to the pool *)

\* The pool's variables, as the refinement mapping gives them.
PoolUsed == IF lost \/ mode = "xvec" THEN {} ELSE taken
PoolOut == IF lost \/ mode = "xvec" THEN 0 ELSE out

\* A step of a list that has lost its flags is none of the pool's; the step
\* that loses them breaks it.
LEMMA LossBreaks ==
    ASSUME lost \in BOOLEAN, lost' \in BOOLEAN, mode' = mode,
           lost => lost', lost'
    PROVE  [Pool!Next]_(Pool!pool)
<1>1. PoolUsed' = {} /\ PoolOut' = 0 /\ lost' = TRUE
  BY Zenon DEF PoolUsed, PoolOut
<1>2. CASE lost
  <2>1. PoolUsed = {} /\ PoolOut = 0 /\ lost = TRUE
    BY <1>2, Zenon DEF PoolUsed, PoolOut
  <2> QED BY <1>1, <2>1, Zenon DEF Pool!pool, PoolUsed, PoolOut
<1>3. CASE ~lost
  <2>1. Pool!Break
    BY <1>1, <1>3, Zenon DEF Pool!Break, PoolUsed, PoolOut
  <2> QED BY <2>1 DEF Pool!Next
<1> QED BY <1>2, <1>3

\* Every step of the list is a step of the pool or none.
LEMMA StepOfPool == XvInv /\ [XvNext]_xv_vars => [Pool!Next]_(Pool!pool)
<1> SUFFICES ASSUME XvInv, [XvNext]_xv_vars PROVE [Pool!Next]_(Pool!pool)
  OBVIOUS
<1>0. XvInv' /\ lost \in BOOLEAN /\ lost' \in BOOLEAN
  <2>1. XvInv'
    BY StepInv
  <2> QED BY <2>1, Zenon DEF XvInv, TypeOK
<1>1. CASE \/ \E n \in Requests : xvec_reserve(n)
           \/ \E p \in {1, 2} : xvec_expand(p)
  <2>1. mode = "xvec" /\ mode' = mode /\ lost' = lost
    BY <1>1, VectorStep
  <2> QED BY <2>1, Zenon DEF Pool!pool
<1>2. ASSUME NEW n \in Requests, xvlst_reserve(n)
      PROVE  [Pool!Next]_(Pool!pool)
  <2>1. /\ (lost => lost') /\ (~lost' => taken' = taken)
        /\ mode = "xvlst" /\ mode' = mode /\ out' \in {0, -1}
    BY <1>2, ReserveStep
  <2>2. CASE lost'
    BY <1>0, <2>1, <2>2, LossBreaks
  <2>3. CASE ~lost'
    <3>1. ~lost /\ lost' = lost /\ PoolUsed' = PoolUsed /\ PoolOut' = out'
      BY <1>0, <2>1, <2>3, Zenon DEF PoolUsed, PoolOut
    <3>2. CASE out' = 0
      BY <3>1, <3>2 DEF Pool!Next, Pool!Reserve, PoolUsed, PoolOut
    <3>3. CASE out' = -1
      BY <3>1, <3>3 DEF Pool!Next, Pool!Refuse, Pool!Errors, PoolUsed, PoolOut
    <3> QED BY <2>1, <3>2, <3>3
  <2> QED BY <2>2, <2>3
<1>3. CASE xvlst_add
  <2>1. /\ (lost => lost') /\ (~lost' => AddChange)
        /\ mode = "xvlst" /\ mode' = mode
    BY <1>3, AddStep
  <2>2. CASE lost'
    BY <1>0, <2>1, <2>2, LossBreaks
  <2>3. CASE ~lost'
    <3>1. /\ ~lost /\ lost' = lost /\ PoolUsed = taken
          /\ PoolUsed' = taken' /\ PoolOut' = out'
      BY <1>0, <2>1, <2>3, Zenon DEF PoolUsed, PoolOut
    <3>2. CASE taken' = taken /\ out' \in {-1, -ENOMEM}
      BY <3>1, <3>2 DEF Pool!Next, Pool!Refuse, Pool!Errors, Pool!ENOMEM,
                        ENOMEM, PoolUsed, PoolOut
    <3>3. CASE /\ out' \in Nat \ taken
               /\ 0 .. out' - 1 \subseteq taken
               /\ taken' = taken \cup {out'}
      BY <3>1, <3>3 DEF Pool!Next, Pool!Alloc, PoolUsed, PoolOut
    <3> QED BY <2>1, <2>3, <3>2, <3>3 DEF AddChange
  <2> QED BY <2>2, <2>3
<1>4. ASSUME NEW i \in 0 .. MaxElem, xvlst_del(i)
      PROVE  [Pool!Next]_(Pool!pool)
  <2>1. /\ lost' = lost /\ mode = "xvlst" /\ mode' = mode
        /\ ~lost => \/ taken' = taken /\ out' \in {ERANGE, EALREADY}
                    \/ i \in taken /\ taken' = taken \ {i} /\ out' = 0
    BY <1>4, DelStep, XvAssumption
  <2>2. CASE lost'
    BY <1>0, <2>1, <2>2, LossBreaks
  <2>3. CASE ~lost'
    <3>1. /\ ~lost /\ lost' = lost /\ PoolUsed = taken
          /\ PoolUsed' = taken' /\ PoolOut' = out'
      BY <1>0, <2>1, <2>3, Zenon DEF PoolUsed, PoolOut
    <3>2. CASE taken' = taken /\ out' \in {ERANGE, EALREADY}
      BY <3>1, <3>2 DEF Pool!Next, Pool!Refuse, Pool!Errors, Pool!ERANGE,
                        Pool!EALREADY, ERANGE, EALREADY, PoolUsed, PoolOut
    <3>3. CASE i \in taken /\ taken' = taken \ {i} /\ out' = 0
      BY <3>1, <3>3 DEF Pool!Next, Pool!Free, PoolUsed, PoolOut
    <3> QED BY <2>1, <3>1, <3>2, <3>3
  <2> QED BY <2>2, <2>3
<1>5. CASE UNCHANGED xv_vars
  BY <1>5, Zenon DEF xv_vars, Pool!pool
<1> QED BY <1>1, <1>2, <1>3, <1>4, <1>5 DEF XvNext

\* For every block size, the list implements the pool of slots: it hands out
\* the lowest free slot and never one that is taken, and a refused call leaves
\* the slots as they were, until the flags are lost.
THEOREM ListIsPool == XvSpec => ImplementsPool
<1>1. XvInit => Pool!Init
  <2> SUFFICES ASSUME XvInit PROVE Pool!Init
    OBVIOUS
  <2> QED BY Zenon DEF XvInit, Pool!Init
<1>2. XvInit => XvInv
  BY InitInv
<1>3. XvInv /\ [XvNext]_xv_vars => XvInv'
  BY StepInv
<1>4. XvInv /\ [XvNext]_xv_vars => [Pool!Next]_(Pool!pool)
  BY StepOfPool
<1> QED BY <1>1, <1>2, <1>3, <1>4, PTL DEF XvSpec, ImplementsPool, Pool!Spec
=============================================================================
