--------------------------- MODULE DebugSyncProofs ---------------------------
(* Theorems about DebugSync, for every program, every set of threads and names
   and every table size. *)
EXTENDS DebugSync, FiniteSetTheorems, WellFoundedInduction, NaturalsInduction, TLAPS

(* Every nonempty set of natural numbers has a least element. *)
LEMMA LeastNat ==
    ASSUME NEW S \in SUBSET Nat, S # {}
    PROVE  \E i \in S : \A j \in S : i <= j
<1> DEFINE Less == {ss \in Nat \X Nat : ss[1] < ss[2]}
<1>1. Less = OpToRel(<, Nat)
    BY DEF OpToRel
<1>2. IsWellFoundedOn(Less, Nat)
    BY <1>1, NatLessThanWellFounded
<1> HIDE DEF Less
<1>3. PICK i \in S : \A j \in S : ~(<<j, i>> \in Less)
    BY <1>2, WFMin
<1>4. \A j, k \in Nat : j < k => <<j, k>> \in Less
    BY DEF Less
<1>5. \A j \in S : i <= j
    <2> SUFFICES ASSUME NEW j \in S PROVE ~(j < i)
        OBVIOUS
    <2> QED  BY <1>3, <1>4
<1> QED  BY <1>5

(* look_up returns the index of a point of that name, or 0 if there is none. *)
LEMMA LookUp ==
    ASSUME NEW tbl \in Seq(Point), NEW n
    PROVE  /\ look_up(tbl, n) \in 0 .. Len(tbl)
           /\ look_up(tbl, n) # 0 =>
                 /\ tbl[look_up(tbl, n)].name = n
                 /\ \A j \in 1 .. look_up(tbl, n) - 1 : tbl[j].name # n
           /\ look_up(tbl, n) = 0 => \A i \in 1 .. Len(tbl) : tbl[i].name # n
<1>0. DOMAIN tbl = 1 .. Len(tbl) /\ Len(tbl) \in Nat
    OBVIOUS
<1>1. CASE \E i \in DOMAIN tbl : tbl[i].name = n
    <2> DEFINE S == {i \in DOMAIN tbl : tbl[i].name = n}
    <2>1. S \in SUBSET Nat /\ S # {}
        BY <1>0, <1>1
    <2>2. PICK i \in S : \A j \in S : i <= j
        BY <2>1, LeastNat
    <2>3. i \in DOMAIN tbl /\ tbl[i].name = n /\ \A j \in 1 .. i - 1 : tbl[j].name # n
        BY <2>2, <1>0
    <2>4. /\ look_up(tbl, n) \in DOMAIN tbl
          /\ tbl[look_up(tbl, n)].name = n
          /\ \A j \in 1 .. look_up(tbl, n) - 1 : tbl[j].name # n
        BY <2>3 DEF look_up
    <2> QED  BY <2>4, <1>0
<1>2. CASE ~ \E i \in DOMAIN tbl : tbl[i].name = n
    BY <1>0, <1>2 DEF look_up
<1> QED  BY <1>1, <1>2

(* What acquire leaves: the point found (0 if none), or a new last one. *)
LEMMA Acquire ==
    ASSUME point \in Seq(Point), NEW n \in Names, NEW a \in acquire(n)
    PROVE  \/ a.tbl = point /\ a.i = look_up(point, n)
           \/ /\ a.tbl = Append(point, new_point(n)) /\ a.i = Len(point) + 1
              /\ look_up(point, n) = 0 /\ Len(point) < DS_MAX_POINT_COUNT
<1>1. CASE look_up(point, n) # 0
    BY <1>1 DEF acquire
<1>2. CASE look_up(point, n) = 0
    <2>1. PICK tbl \in create_new(n) :
              a = [tbl |-> tbl, i |-> IF Len(tbl) > Len(point) THEN Len(tbl) ELSE 0]
        BY <1>2 DEF acquire
    <2>2. CASE tbl = point
        BY <1>2, <2>1, <2>2
    <2>3. CASE tbl # point
        <3>1. tbl = Append(point, new_point(n)) /\ ~(Len(point) >= DS_MAX_POINT_COUNT)
            BY <2>1, <2>3 DEF create_new
        <3>2. Len(tbl) = Len(point) + 1 /\ Len(point) \in Nat
            BY <3>1
        <3> QED  BY <1>2, <2>1, <3>1, <3>2, BoundAssumption
    <2> QED  BY <2>2, <2>3
<1> QED  BY <1>1, <1>2

(* A new table has the points of the old one, and the new point is in order. *)
LEMMA AcquireType ==
    ASSUME TypeOK, NEW n \in Names, NEW a \in acquire(n)
    PROVE  /\ a.tbl \in Seq(Point)
           /\ Len(a.tbl) \in Len(point) .. DS_MAX_POINT_COUNT
           /\ a.i \in 0 .. Len(a.tbl)
           /\ \A j \in 1 .. Len(point) : a.tbl[j] = point[j]
<1>0. point \in Seq(Point) /\ Len(point) \in Nat /\ Len(point) <= DS_MAX_POINT_COUNT
    BY DEF TypeOK
<1>1. new_point(n) \in Point
    BY TruncAssumption DEF new_point, Point
<1>2. CASE a.tbl = point /\ a.i = look_up(point, n)
    BY <1>0, <1>2, LookUp, BoundAssumption
<1>3. CASE /\ a.tbl = Append(point, new_point(n)) /\ a.i = Len(point) + 1
           /\ look_up(point, n) = 0 /\ Len(point) < DS_MAX_POINT_COUNT
    BY <1>0, <1>1, <1>3, BoundAssumption
<1> QED  BY <1>0, <1>2, <1>3, Acquire

(* Storing a point in the table keeps it a table of the same length. *)
LEMMA SetPoint ==
    ASSUME NEW tbl \in Seq(Point), NEW i \in 1 .. Len(tbl), NEW r \in Point
    PROVE  /\ [tbl EXCEPT ![i] = r] \in Seq(Point)
           /\ Len([tbl EXCEPT ![i] = r]) = Len(tbl)
           /\ \A j \in 1 .. Len(tbl) :
                  [tbl EXCEPT ![i] = r][j] = IF j = i THEN r ELSE tbl[j]
  OBVIOUS

(* The assignments the code makes to one point: what they leave of it and
   of the other points. *)
SameTable(new, tbl) == /\ new \in Seq(Point) /\ Len(new) = Len(tbl)
                       /\ \A j \in 1 .. Len(tbl) : new[j].name = tbl[j].name

(* nblocked++ in ds_wait. *)
LEMMA CountUp ==
    ASSUME NEW tbl \in Seq(Point), NEW i \in 1 .. Len(tbl)
    PROVE  LET new == [tbl EXCEPT ![i].nblocked = @ + 1]
           IN  /\ SameTable(new, tbl)
               /\ \A j \in 1 .. Len(tbl) : j # i => new[j] = tbl[j]
               /\ new[i].is_enabled = tbl[i].is_enabled
               /\ new[i].in_syncwait = tbl[i].in_syncwait
               /\ new[i].nblocked = tbl[i].nblocked + 1
<1> DEFINE r == [tbl[i] EXCEPT !.nblocked = @ + 1]
<1>0. tbl[i] \in Point
    OBVIOUS
<1>1. /\ r \in Point /\ r.name = tbl[i].name
      /\ r.is_enabled = tbl[i].is_enabled
      /\ r.in_syncwait = tbl[i].in_syncwait
      /\ r.nblocked = tbl[i].nblocked + 1
    BY <1>0 DEF Point
<1>2. [tbl EXCEPT ![i].nblocked = @ + 1] = [tbl EXCEPT ![i] = r]
    BY <1>0
<1> HIDE DEF r
<1> QED  BY <1>1, <1>2, SetPoint DEF SameTable

(* --nblocked in ds_unblock, not the last one. *)
LEMMA CountDown ==
    ASSUME NEW tbl \in Seq(Point), NEW i \in 1 .. Len(tbl), tbl[i].nblocked > 1
    PROVE  LET new == [tbl EXCEPT ![i].nblocked = @ - 1]
           IN  /\ SameTable(new, tbl)
               /\ \A j \in 1 .. Len(tbl) : j # i => new[j] = tbl[j]
               /\ new[i].is_enabled = tbl[i].is_enabled
               /\ new[i].in_syncwait = tbl[i].in_syncwait
               /\ new[i].nblocked = tbl[i].nblocked - 1
<1> DEFINE r == [tbl[i] EXCEPT !.nblocked = @ - 1]
<1>0. tbl[i] \in Point
    OBVIOUS
<1>1. /\ r \in Point /\ r.name = tbl[i].name
      /\ r.is_enabled = tbl[i].is_enabled
      /\ r.in_syncwait = tbl[i].in_syncwait
      /\ r.nblocked = tbl[i].nblocked - 1
    BY <1>0 DEF Point
<1>2. [tbl EXCEPT ![i].nblocked = @ - 1] = [tbl EXCEPT ![i] = r]
    BY <1>0
<1> HIDE DEF r
<1> QED  BY <1>1, <1>2, SetPoint DEF SameTable

(* The last --nblocked. *)
LEMMA CountOut ==
    ASSUME NEW tbl \in Seq(Point), NEW i \in 1 .. Len(tbl)
    PROVE  LET new == [tbl EXCEPT ![i] = [@ EXCEPT !.nblocked = 0, !.in_syncwait = FALSE]]
           IN  /\ SameTable(new, tbl)
               /\ \A j \in 1 .. Len(tbl) : j # i => new[j] = tbl[j]
               /\ new[i].is_enabled = tbl[i].is_enabled
               /\ new[i].in_syncwait = FALSE
               /\ new[i].nblocked = 0
<1> DEFINE r == [tbl[i] EXCEPT !.nblocked = 0, !.in_syncwait = FALSE]
<1>0. tbl[i] \in Point
    OBVIOUS
<1>1. /\ r \in Point /\ r.name = tbl[i].name
      /\ r.is_enabled = tbl[i].is_enabled
      /\ r.in_syncwait = FALSE
      /\ r.nblocked = 0
    BY <1>0 DEF Point
<1> DEFINE new == [tbl EXCEPT ![i] = [@ EXCEPT !.nblocked = 0, !.in_syncwait = FALSE]]
<1>2. new = [tbl EXCEPT ![i] = r]
    BY <1>0
<1> HIDE DEF r, new
<1>3. /\ new \in Seq(Point) /\ Len(new) = Len(tbl)
      /\ \A j \in 1 .. Len(tbl) : new[j] = IF j = i THEN r ELSE tbl[j]
    BY <1>1, <1>2, SetPoint
<1>4. /\ SameTable(new, tbl)
      /\ \A j \in 1 .. Len(tbl) : j # i => new[j] = tbl[j]
      /\ new[i].is_enabled = tbl[i].is_enabled
      /\ new[i].in_syncwait = FALSE
      /\ new[i].nblocked = 0
    BY <1>1, <1>3 DEF SameTable
<1> QED  BY <1>4 DEF new

(* in_syncwait = b in ds_exec. *)
LEMMA SetSyncwait ==
    ASSUME NEW tbl \in Seq(Point), NEW i \in 1 .. Len(tbl), NEW b \in BOOLEAN
    PROVE  LET new == [tbl EXCEPT ![i].in_syncwait = b]
           IN  /\ SameTable(new, tbl)
               /\ \A j \in 1 .. Len(tbl) : j # i => new[j] = tbl[j]
               /\ new[i].is_enabled = tbl[i].is_enabled
               /\ new[i].in_syncwait = b
               /\ new[i].nblocked = tbl[i].nblocked
<1> DEFINE r == [tbl[i] EXCEPT !.in_syncwait = b]
<1>0. tbl[i] \in Point
    OBVIOUS
<1>1. /\ r \in Point /\ r.name = tbl[i].name
      /\ r.is_enabled = tbl[i].is_enabled
      /\ r.in_syncwait = b
      /\ r.nblocked = tbl[i].nblocked
    BY <1>0 DEF Point
<1>2. [tbl EXCEPT ![i].in_syncwait = b] = [tbl EXCEPT ![i] = r]
    BY <1>0
<1> HIDE DEF r
<1> QED  BY <1>1, <1>2, SetPoint DEF SameTable

(* is_enabled = b in ds_enable. *)
LEMMA SetEnabled ==
    ASSUME NEW tbl \in Seq(Point), NEW i \in 1 .. Len(tbl), NEW b \in BOOLEAN
    PROVE  LET new == [tbl EXCEPT ![i].is_enabled = b]
           IN  /\ SameTable(new, tbl)
               /\ \A j \in 1 .. Len(tbl) : j # i => new[j] = tbl[j]
               /\ new[i].is_enabled = b
               /\ new[i].in_syncwait = tbl[i].in_syncwait
               /\ new[i].nblocked = tbl[i].nblocked
<1> DEFINE r == [tbl[i] EXCEPT !.is_enabled = b]
<1>0. tbl[i] \in Point
    OBVIOUS
<1>1. /\ r \in Point /\ r.name = tbl[i].name
      /\ r.is_enabled = b
      /\ r.in_syncwait = tbl[i].in_syncwait
      /\ r.nblocked = tbl[i].nblocked
    BY <1>0 DEF Point
<1>2. [tbl EXCEPT ![i].is_enabled = b] = [tbl EXCEPT ![i] = r]
    BY <1>0
<1> HIDE DEF r
<1> QED  BY <1>1, <1>2, SetPoint, SMTT(30) DEF SameTable

(* A call that a program makes of ds_wait or ds_exec has a name. *)
LEMMA ProgramNames ==
    ASSUME NEW t \in Threads, NEW c \in Program[t]
    PROVE  /\ c \in Call
           /\ c.fn # "ds_unblock"
           /\ c.fn \in {"ds_wait", "ds_exec"} => c.name \in Names
<1>1. c \in ProgramCalls
    BY ProgramAssumption
<1>2. \/ \E n \in Names : c = Wait(n)
      \/ \E n \in Names : c = Exec(n)
      \/ \E n \in Names, b \in BOOLEAN : c = Enable(n, b)
      \/ c = DisableAll
      \/ \E b \in BOOLEAN : c = Activate(b)
    BY <1>1 DEF ProgramCalls
<1>3. CASE \E n \in Names : c = Wait(n)
    BY <1>3 DEF Wait, Call, Functions
<1>4. CASE \E n \in Names : c = Exec(n)
    BY <1>4 DEF Exec, Call, Functions
<1>5. CASE \E n \in Names, b \in BOOLEAN : c = Enable(n, b)
    BY <1>5 DEF Enable, Call, Functions
<1>6. CASE c = DisableAll
    BY <1>6 DEF DisableAll, Call, Functions
<1>7. CASE \E b \in BOOLEAN : c = Activate(b)
    BY <1>7 DEF Activate, Call, Functions
<1> QED  BY <1>2, <1>3, <1>4, <1>5, <1>6, <1>7

-----------------------------------------------------------------------------
(* Types. *)

TypeInv == TypeOK /\ ControlOK

(* The table part of the type invariant, and the growth that keeps every
   thread's point valid. *)
TableOK == /\ point' \in Seq(Point)
           /\ Len(point') \in Len(point) .. DS_MAX_POINT_COUNT

(* A thread's step keeps its own variables in order. *)
LEMMA BecomesType ==
    ASSUME TypeInv, TableOK, NEW t \in Threads, NEW l \in Labels,
           NEW i \in 0 .. Len(point'), NEW r \in {0, -1}, Becomes(t, l, i, r)
    PROVE  /\ pc' \in [Threads -> Labels]
           /\ pt' \in [Threads -> 0 .. Len(point')]
           /\ rc' \in [Threads -> {0, -1}]
           /\ pc'[t] = l /\ pt'[t] = i
           /\ \A u \in Threads \ {t} : pc'[u] = pc[u] /\ pt'[u] = pt[u]
  BY DEF TypeInv, TypeOK, TableOK, Becomes

(* The wait loop leaves its thread asleep, in its section or returned. *)
LEMMA WaitLoopStep ==
    ASSUME NEW t, NEW tbl, NEW i, wait_loop(t, tbl, i)
    PROVE  \/ Becomes(t, "cond", i, 0) /\ waitset' = waitset \cup {t}
           \/ Becomes(t, "section", i, 0) /\ waitset' = waitset
           \/ Becomes(t, "idle", 0, -1) /\ waitset' = waitset
  BY DEF wait_loop, Return

(* disable_all keeps every field but is_enabled. *)
LEMMA DisableAllStep ==
    ASSUME point \in Seq(Point), disable_all
    PROVE  /\ point' \in Seq(Point) /\ Len(point') = Len(point)
           /\ \A i \in 1 .. Len(point) :
                 /\ point'[i].name = point[i].name
                 /\ point'[i].in_syncwait = point[i].in_syncwait
                 /\ point'[i].nblocked = point[i].nblocked
                 /\ ~point'[i].is_enabled
           /\ waitset' \subseteq waitset
<1>1. \A i \in 1 .. Len(point) : point[i] \in Point
    OBVIOUS
<1>2. \A i \in 1 .. Len(point) : [point[i] EXCEPT !.is_enabled = FALSE] \in Point
    BY <1>1 DEF Point
<1>3. point' = [i \in 1 .. Len(point) |-> [point[i] EXCEPT !.is_enabled = FALSE]]
    BY DEF disable_all
<1>4. point' \in Seq(Point) /\ Len(point') = Len(point)
    BY <1>2, <1>3
<1>5. \A i \in 1 .. Len(point) :
          /\ point'[i].name = point[i].name
          /\ point'[i].in_syncwait = point[i].in_syncwait
          /\ point'[i].nblocked = point[i].nblocked
          /\ ~point'[i].is_enabled
    BY <1>1, <1>3 DEF Point
<1> QED  BY <1>4, <1>5 DEF disable_all

(* Initially the types hold. *)
LEMMA TypeInit == Init => TypeInv
<1> SUFFICES ASSUME Init PROVE TypeInv
    OBVIOUS
<1>1. point \in Seq(Point) /\ Len(point) = 0
    BY DEF Init
<1>2. DisableAll \in Call /\ DisableAll.fn = "ds_disable_all"
    BY DEF DisableAll, Call, Functions
<1>3. TypeOK
    BY <1>1, <1>2, BoundAssumption DEF Init, TypeOK, Labels
<1>4. ControlOK
    BY <1>2 DEF Init, ControlOK
<1> QED  BY <1>3, <1>4 DEF TypeInv

(* Starting a call keeps the types. *)
LEMMA TypeStart ==
    ASSUME TypeInv, NEW t \in Threads, Start(t)
    PROVE  TypeInv'
<1>1. PICK fn \in Functions, c \in Program[t], l \in {"idle", "section", "lock", "store"} :
          /\ Begin(t, fn, c)
          /\ Becomes(t, l, 0, 0)
          /\ l = "section" => fn = "ds_wait"
    BY DEF Start, ds_wait, ds_exec, ds_enable, ds_disable_all, ds_activate, Return, Functions
<1>2. c \in Call /\ (c.fn \in {"ds_wait", "ds_exec", "ds_unblock"} => c.name \in Names)
    BY ProgramNames
<1>3. TableOK
    BY <1>1, BoundAssumption DEF TypeInv, TypeOK, Begin, TableOK
<1>4. /\ pc' \in [Threads -> Labels]
      /\ pt' \in [Threads -> 0 .. Len(point')]
      /\ rc' \in [Threads -> {0, -1}]
      /\ pc'[t] = l /\ pt'[t] = 0
      /\ \A u \in Threads \ {t} : pc'[u] = pc[u] /\ pt'[u] = pt[u]
    <2>1. l \in Labels /\ 0 \in 0 .. Len(point')
        BY <1>3 DEF Labels, TableOK
    <2> QED  BY <1>1, <1>3, <2>1, BecomesType
<1>5. /\ call' \in [Threads -> Call] /\ call'[t] = c /\ c.fn = fn
      /\ \A u \in Threads \ {t} : call'[u] = call[u]
      /\ left' \in [Threads -> Nat]
    BY <1>1, <1>2 DEF TypeInv, TypeOK, Begin
<1>6. TypeOK'
    BY <1>1, <1>3, <1>4, <1>5 DEF TypeInv, TypeOK, TableOK, Begin
<1>7. ControlOK'
    BY <1>1, <1>2, <1>4, <1>5 DEF TypeInv, TypeOK, ControlOK, Begin
<1> QED  BY <1>6, <1>7 DEF TypeInv

(* The last part of every step of the kind Region: types and control follow
   from the new table, the new place of t and the shrinking wait set. *)
LEMMA TypeRegion ==
    ASSUME TypeInv, TableOK, NEW t \in Threads,
           NEW l \in {"idle", "cond", "section", "aborted"},
           NEW i \in 0 .. Len(point'), NEW r \in {0, -1}, Becomes(t, l, i, r),
           NEW lbl \in {"lock", "cond"}, NEW fn, Region(t, lbl, fn),
           waitset' \subseteq waitset \cup {t},
           t \in waitset' => l = "cond",
           l = "idle" => i = 0,
           l = "cond" => i # 0 /\ fn \in {"ds_wait", "ds_exec"},
           l = "section" => fn = "ds_wait"
    PROVE  TypeInv'
<1>1. /\ pc' \in [Threads -> Labels]
      /\ pt' \in [Threads -> 0 .. Len(point')]
      /\ rc' \in [Threads -> {0, -1}]
      /\ pc'[t] = l /\ pt'[t] = i
      /\ \A u \in Threads \ {t} : pc'[u] = pc[u] /\ pt'[u] = pt[u]
    <2>1. l \in Labels
        BY DEF Labels
    <2> QED  BY <2>1, BecomesType
<1>2. TypeOK'
    BY <1>1 DEF TypeInv, TypeOK, TableOK, Region
<1>3. life' = "up"
    BY DEF TypeInv, TypeOK, ControlOK, Region
<1>4. ControlOK'
    BY <1>1, <1>3 DEF TypeInv, TypeOK, ControlOK, Region
<1> QED  BY <1>2, <1>4 DEF TypeInv

(* A step that leaves the table alone keeps it. *)
LEMMA TableSame ==
    ASSUME TypeInv, point' = point
    PROVE  TableOK
  BY BoundAssumption DEF TypeInv, TypeOK, TableOK

(* ds_wait keeps the types. *)
LEMMA TypeWait ==
    ASSUME TypeInv, NEW t \in Threads, ds_wait_locked(t) \/ ds_wait_resume(t)
    PROVE  TypeInv'
<1>0. TypeOK /\ ControlOK /\ Len(point) \in Nat
    BY DEF TypeInv, TypeOK
<1>1. CASE ds_wait_locked(t)
    <2>0. Region(t, "lock", "ds_wait") /\ call[t].name \in Names
        BY <1>0, <1>1 DEF ds_wait_locked, Region, ControlOK
    <2>1. CASE Return(t, -1) /\ UNCHANGED <<point, waitset>>
        <3>1. TableOK /\ 0 \in 0 .. Len(point')
            BY <1>0, <2>1, TableSame
        <3>2. t \notin waitset'
            BY <1>0, <2>0, <2>1 DEF ControlOK, Region
        <3> QED  BY <2>0, <2>1, <3>1, <3>2, TypeRegion DEF Return
    <2>2. CASE \E a \in acquire(call[t].name) :
                  /\ a.i # 0
                  /\ point' = [a.tbl EXCEPT ![a.i].nblocked = @ + 1]
                  /\ wait_loop(t, [a.tbl EXCEPT ![a.i].nblocked = @ + 1], a.i)
        <3>1. PICK a \in acquire(call[t].name) :
                  /\ a.i # 0
                  /\ point' = [a.tbl EXCEPT ![a.i].nblocked = @ + 1]
                  /\ wait_loop(t, [a.tbl EXCEPT ![a.i].nblocked = @ + 1], a.i)
            BY <2>2
        <3>2. /\ a.tbl \in Seq(Point) /\ a.i \in 1 .. Len(a.tbl)
              /\ Len(a.tbl) \in Len(point) .. DS_MAX_POINT_COUNT
            BY <1>0, <2>0, <3>1, AcquireType
        <3>3. SameTable([a.tbl EXCEPT ![a.i].nblocked = @ + 1], a.tbl)
            BY <3>2, CountUp
        <3>4. point' \in Seq(Point) /\ Len(point') = Len(a.tbl)
            BY <3>1, <3>3 DEF SameTable
        <3>5. TableOK /\ a.i \in 0 .. Len(point') /\ 0 \in 0 .. Len(point')
            BY <3>2, <3>4 DEF TableOK
        <3>6. t \notin waitset
            BY <1>0, <2>0 DEF ControlOK, Region
        <3>7. \/ Becomes(t, "cond", a.i, 0) /\ waitset' = waitset \cup {t}
              \/ Becomes(t, "section", a.i, 0) /\ waitset' = waitset
              \/ Becomes(t, "idle", 0, -1) /\ waitset' = waitset
            BY <3>1, WaitLoopStep
        <3> QED  BY <2>0, <3>1, <3>5, <3>6, <3>7, TypeRegion
    <2> QED  BY <1>1, <2>1, <2>2 DEF ds_wait_locked
<1>2. CASE ds_wait_resume(t)
    <2>1. Region(t, "cond", "ds_wait") /\ t \notin waitset /\ point' = point
        BY <1>2 DEF ds_wait_resume
    <2>2. pt[t] \in 0 .. Len(point) /\ pt[t] # 0
        BY <1>0, <2>1 DEF TypeOK, ControlOK, Region
    <2>3. TableOK /\ pt[t] \in 0 .. Len(point') /\ 0 \in 0 .. Len(point')
        BY <1>0, <2>1, <2>2, TableSame
    <2>4. \/ Becomes(t, "cond", pt[t], 0) /\ waitset' = waitset \cup {t}
          \/ Becomes(t, "section", pt[t], 0) /\ waitset' = waitset
          \/ Becomes(t, "idle", 0, -1) /\ waitset' = waitset
        BY <1>2, WaitLoopStep DEF ds_wait_resume
    <2> QED  BY <2>1, <2>2, <2>3, <2>4, TypeRegion
<1> QED  BY <1>1, <1>2

(* What a locked region of ds_exec may do. *)
LEMMA ExecStep ==
    ASSUME NEW t \in Threads, ds_exec_locked(t)
    PROVE  \/ \E r \in {0, -1} : Becomes(t, "idle", 0, r) /\ UNCHANGED <<point, waitset>>
           \/ \E a \in acquire(call[t].name), r \in {0, -1} :
                 /\ a.i # 0 /\ Becomes(t, "idle", 0, r)
                 /\ point' = a.tbl /\ waitset' = waitset
           \/ \E a \in acquire(call[t].name) :
                 /\ a.i # 0 /\ ~is_busy(a.tbl[a.i]) /\ a.tbl[a.i].nblocked > 0
                 /\ exec_loop(t, [a.tbl EXCEPT ![a.i].in_syncwait = TRUE], a.i, {})
  BY DEF ds_exec_locked, Return, raise

(* ds_exec keeps the types. *)
LEMMA TypeExec ==
    ASSUME TypeInv, NEW t \in Threads, ds_exec_locked(t) \/ ds_exec_resume(t)
    PROVE  TypeInv'
<1>0. TypeOK /\ ControlOK /\ Len(point) \in Nat
    BY DEF TypeInv, TypeOK
<1>1. CASE ds_exec_locked(t)
    <2>0. Region(t, "lock", "ds_exec") /\ call[t].name \in Names /\ t \notin waitset
        BY <1>0, <1>1 DEF ds_exec_locked, Region, ControlOK
    <2>1. CASE \E r \in {0, -1} : Becomes(t, "idle", 0, r) /\ UNCHANGED <<point, waitset>>
        <3>1. TableOK /\ 0 \in 0 .. Len(point')
            BY <1>0, <2>1, TableSame
        <3> QED  BY <2>0, <2>1, <3>1, TypeRegion
    <2>2. CASE \E a \in acquire(call[t].name), r \in {0, -1} :
                 /\ a.i # 0 /\ Becomes(t, "idle", 0, r)
                 /\ point' = a.tbl /\ waitset' = waitset
        <3>1. TableOK /\ 0 \in 0 .. Len(point')
            BY <1>0, <2>0, <2>2, AcquireType DEF TableOK
        <3> QED  BY <2>0, <2>2, <3>1, TypeRegion
    <2>3. CASE \E a \in acquire(call[t].name) :
                 /\ a.i # 0
                 /\ exec_loop(t, [a.tbl EXCEPT ![a.i].in_syncwait = TRUE], a.i, {})
        <3>1. PICK a \in acquire(call[t].name) :
                 /\ a.i # 0
                 /\ exec_loop(t, [a.tbl EXCEPT ![a.i].in_syncwait = TRUE], a.i, {})
            BY <2>3
        <3>2. /\ a.tbl \in Seq(Point) /\ a.i \in 1 .. Len(a.tbl)
              /\ Len(a.tbl) \in Len(point) .. DS_MAX_POINT_COUNT
            BY <1>0, <2>0, <3>1, AcquireType
        <3> DEFINE tbl == [a.tbl EXCEPT ![a.i].in_syncwait = TRUE]
        <3>3. tbl \in Seq(Point) /\ Len(tbl) = Len(a.tbl)
            <4>1. SameTable(tbl, a.tbl)
                BY <3>2, SetSyncwait, Zenon
            <4> HIDE DEF tbl
            <4> QED  BY <4>1 DEF SameTable
        <3>4. exec_loop(t, tbl, a.i, {})
            BY <3>1
        <3> HIDE DEF tbl
        <3>5. SameTable([tbl EXCEPT ![a.i].in_syncwait = FALSE], tbl)
            BY <3>2, <3>3, SetSyncwait
        <3>6. \/ Becomes(t, "cond", a.i, 0) /\ point' = tbl /\ waitset' = {t}
              \/ /\ \E r \in {0, -1} : Becomes(t, "idle", 0, r)
                 /\ point' = [tbl EXCEPT ![a.i].in_syncwait = FALSE] /\ waitset' = {}
            BY <3>4 DEF exec_loop, Return
        <3>7. TableOK /\ a.i \in 0 .. Len(point') /\ 0 \in 0 .. Len(point')
            BY <3>2, <3>3, <3>5, <3>6, SMTT(30) DEF TableOK, SameTable
        <3> QED  BY <2>0, <3>1, <3>6, <3>7, TypeRegion
    <2> QED  BY <1>1, <2>1, <2>2, <2>3, ExecStep
<1>2. CASE ds_exec_resume(t)
    <2>1. /\ Region(t, "cond", "ds_exec") /\ t \notin waitset
          /\ exec_loop(t, point, pt[t], waitset)
        BY <1>2 DEF ds_exec_resume
    <2>2. point \in Seq(Point) /\ pt[t] \in 1 .. Len(point)
        BY <1>0, <2>1 DEF TypeOK, ControlOK, Region
    <2>3. \/ Becomes(t, "cond", pt[t], 0) /\ point' = point /\ waitset' = waitset \cup {t}
          \/ /\ \E r \in {0, -1} : Becomes(t, "idle", 0, r)
             /\ point' = [point EXCEPT ![pt[t]].in_syncwait = FALSE] /\ waitset' = waitset
        BY <2>1 DEF exec_loop, Return
    <2>4. SameTable([point EXCEPT ![pt[t]].in_syncwait = FALSE], point)
        BY <2>2, SetSyncwait
    <2>5. point' \in Seq(Point) /\ Len(point') = Len(point)
        BY <2>2, <2>3, <2>4 DEF SameTable
    <2>6. TableOK /\ pt[t] \in 0 .. Len(point') /\ 0 \in 0 .. Len(point')
        BY <1>0, <2>2, <2>5, BoundAssumption DEF TypeOK, TableOK
    <2> QED  BY <2>1, <2>2, <2>3, <2>6, TypeRegion
<1> QED  BY <1>1, <1>2

(* ds_unblock of a section keeps the types. *)
LEMMA TypeUnblock ==
    ASSUME TypeInv, NEW t \in Threads, ds_unblock_locked(t)
    PROVE  TypeInv'
<1> DEFINE i == look_up(point, call[t].name)
<1>0. /\ TypeOK /\ ControlOK /\ Len(point) \in Nat
      /\ Region(t, "lock", "ds_unblock") /\ t \notin waitset
    BY DEF TypeInv, TypeOK, ds_unblock_locked, Region, ControlOK
<1>1. i \in 0 .. Len(point) /\ pt[t] \in 0 .. Len(point) /\ point \in Seq(Point)
    BY <1>0, LookUp DEF TypeOK
<1>2. \/ \E l \in {"idle", "aborted"}, k \in {0, pt[t]}, r \in {0, -1} :
            /\ Becomes(t, l, k, r) /\ (l = "idle" => k = 0)
            /\ UNCHANGED <<point, waitset>>
      \/ i # 0 /\ unblock(i) /\ Becomes(t, "idle", 0, 0)
    BY DEF ds_unblock_locked, Return
<1> HIDE DEF i
<1>3. CASE \E l \in {"idle", "aborted"}, k \in {0, pt[t]}, r \in {0, -1} :
            /\ Becomes(t, l, k, r) /\ (l = "idle" => k = 0)
            /\ UNCHANGED <<point, waitset>>
    <2>1. TableOK /\ Len(point') = Len(point)
        BY <1>3, TableSame
    <2> QED  BY <1>0, <1>1, <1>3, <2>1, TypeRegion
<1>4. CASE i # 0 /\ unblock(i) /\ Becomes(t, "idle", 0, 0)
    <2>1. SameTable(point', point) /\ waitset' \subseteq waitset
        <3>1. i \in 1 .. Len(point)
            BY <1>1, <1>4
        <3>2. CASE point[i].nblocked > 1
            BY <1>1, <1>4, <3>1, <3>2, CountDown DEF unblock
        <3>3. CASE point[i].nblocked = 1
            <4>1. /\ point' = [point EXCEPT ![i] = [@ EXCEPT !.nblocked = 0, !.in_syncwait = FALSE]]
                  /\ waitset' = {}
                BY <1>4, <3>3 DEF unblock
            <4>2. SameTable([point EXCEPT ![i] = [@ EXCEPT !.nblocked = 0, !.in_syncwait = FALSE]],
                            point)
                BY <1>1, <3>1, CountOut
            <4> QED  BY <4>1, <4>2, Zenon
        <3> QED  BY <1>4, <3>2, <3>3 DEF unblock
    <2>2. TableOK /\ 0 \in 0 .. Len(point')
        BY <1>0, <2>1, BoundAssumption DEF TypeOK, TableOK, SameTable
    <2> QED  BY <1>0, <1>4, <2>1, <2>2, TypeRegion
<1> QED  BY <1>2, <1>3, <1>4

(* ds_enable keeps the types. *)
LEMMA TypeEnable ==
    ASSUME TypeInv, NEW t \in Threads, ds_enable_locked(t)
    PROVE  TypeInv'
<1> DEFINE i == look_up(point, call[t].name)
<1>0. /\ TypeOK /\ ControlOK /\ Len(point) \in Nat
      /\ Region(t, "lock", "ds_enable") /\ t \notin waitset
    BY DEF TypeInv, TypeOK, ds_enable_locked, Region, ControlOK
<1>1. i \in 0 .. Len(point) /\ point \in Seq(Point) /\ call[t].flag \in BOOLEAN
    BY <1>0, LookUp DEF TypeOK, Call
<1>2. \/ Becomes(t, "idle", 0, -1) /\ UNCHANGED <<point, waitset>>
      \/ i # 0 /\ set_enabled(i, call[t].flag) /\ Becomes(t, "idle", 0, 0)
    BY DEF ds_enable_locked, Return
<1> HIDE DEF i
<1>3. CASE Becomes(t, "idle", 0, -1) /\ UNCHANGED <<point, waitset>>
    <2>1. TableOK /\ 0 \in 0 .. Len(point')
        BY <1>0, <1>3, TableSame
    <2> QED  BY <1>0, <1>3, <2>1, TypeRegion
<1>4. CASE i # 0 /\ set_enabled(i, call[t].flag) /\ Becomes(t, "idle", 0, 0)
    <2>1. SameTable(point', point)
        <3>1. SameTable([point EXCEPT ![i].is_enabled = call[t].flag], point)
            BY <1>1, <1>4, SetEnabled
        <3>2. point' = [point EXCEPT ![i].is_enabled = call[t].flag]
            BY <1>4 DEF set_enabled
        <3> QED  BY <3>1, <3>2, Zenon
    <2>2. waitset' \subseteq waitset
        BY <1>4 DEF set_enabled
    <2>3. TableOK /\ 0 \in 0 .. Len(point')
        BY <1>0, <2>1, BoundAssumption DEF TypeOK, TableOK, SameTable
    <2> QED  BY <1>0, <1>4, <2>2, <2>3, TypeRegion
<1> QED  BY <1>2, <1>3, <1>4

(* ds_disable_all keeps the types. *)
LEMMA TypeDisableAll ==
    ASSUME TypeInv, NEW t \in Threads, ds_disable_all_locked(t)
    PROVE  TypeInv'
<1>0. /\ TypeOK /\ ControlOK /\ Len(point) \in Nat
      /\ Region(t, "lock", "ds_disable_all") /\ t \notin waitset
      /\ Becomes(t, "idle", 0, 0)
    BY DEF TypeInv, TypeOK, ds_disable_all_locked, Region, ControlOK, Return
<1>1. /\ point' \in Seq(Point) /\ Len(point') = Len(point) /\ waitset' \subseteq waitset
    <2>1. point \in Seq(Point)
        BY <1>0 DEF TypeOK
    <2>2. (point' = point /\ waitset' = waitset) \/ disable_all
        BY DEF ds_disable_all_locked
    <2> QED  BY <2>1, <2>2, DisableAllStep
<1>2. TableOK /\ 0 \in 0 .. Len(point')
    BY <1>0, <1>1, BoundAssumption DEF TypeOK, TableOK
<1> QED  BY <1>0, <1>1, <1>2, TypeRegion

(* ds_activate, with or without the mutex, and the call of ds_unblock keep
   the types. *)
LEMMA TypeActivate ==
    ASSUME TypeInv, NEW t \in Threads,
           ds_activate_store(t) \/ ds_activate_locked(t) \/ ds_activate_unlock(t) \/ ds_unblock(t)
    PROVE  TypeInv'
<1>0. TypeOK /\ ControlOK /\ Len(point) \in Nat
    BY DEF TypeInv, TypeOK
<1>1. PICK l \in {"idle", "locked", "lock"}, i \in {0, pt[t]} :
          Becomes(t, l, i, 0) /\ (l = "idle" => i = 0)
    BY DEF ds_activate_store, ds_activate_locked, ds_activate_unlock, ds_unblock, Return
<1>2. /\ point' \in Seq(Point) /\ Len(point') = Len(point) /\ waitset' \subseteq waitset
    <2>1. point \in Seq(Point)
        BY <1>0 DEF TypeOK
    <2>2. (point' = point /\ waitset' = waitset) \/ disable_all
        BY DEF ds_activate_store, ds_activate_locked, ds_activate_unlock, ds_unblock
    <2> QED  BY <2>1, <2>2, DisableAllStep
<1>3. TableOK /\ i \in 0 .. Len(point') /\ l \in Labels
    BY <1>0, <1>2, BoundAssumption DEF TypeOK, TableOK, Labels
<1>4. /\ pc' \in [Threads -> Labels]
      /\ pt' \in [Threads -> 0 .. Len(point')]
      /\ rc' \in [Threads -> {0, -1}]
      /\ pc'[t] = l /\ pt'[t] = i
      /\ \A u \in Threads \ {t} : pc'[u] = pc[u] /\ pt'[u] = pt[u]
    BY <1>1, <1>3, BecomesType
<1>5. /\ pc[t] \notin {"idle", "cond"} /\ t \notin waitset
      /\ life' = life /\ left' = left /\ mtx' \in Threads \cup {NoThread}
      /\ activation' \in SUBSET Flags
    BY <1>0 DEF ds_activate_store, ds_activate_locked, ds_activate_unlock, ds_unblock,
                do_activate, TypeOK, ControlOK, Flags
<1>6. /\ call' \in [Threads -> Call]
      /\ \A u \in Threads \ {t} : call'[u] = call[u]
      /\ call'[t].fn \in {"ds_wait", "ds_exec", "ds_unblock"} => call'[t].name \in Names
    <2>1. CASE ds_unblock(t)
        <3>1. call[t] \in Call /\ call[t].name \in Names
            BY <1>0, <2>1 DEF TypeOK, ControlOK, ds_unblock
        <3>2. [call[t] EXCEPT !.fn = "ds_unblock"] \in Call
              /\ [call[t] EXCEPT !.fn = "ds_unblock"].name = call[t].name
            BY <3>1 DEF Call
        <3>3. call' = [call EXCEPT ![t] = [call[t] EXCEPT !.fn = "ds_unblock"]]
            BY <2>1 DEF ds_unblock
        <3> QED  BY <1>0, <3>1, <3>2, <3>3 DEF TypeOK
    <2>2. CASE ~ds_unblock(t)
        BY <1>0, <2>2 DEF TypeOK, ControlOK, ds_activate_store, ds_activate_locked, ds_activate_unlock
    <2> QED  BY <2>1, <2>2
<1>7. TypeOK'
    BY <1>0, <1>2, <1>3, <1>4, <1>5, <1>6 DEF TypeOK, TableOK
<1>8. ControlOK'
    BY <1>0, <1>1, <1>2, <1>4, <1>5, <1>6, ZenonT(30) DEF TypeOK, ControlOK
<1> QED  BY <1>7, <1>8 DEF TypeInv

(* The steps of main and of the scheduler keep the types. *)
LEMMA TypeMain ==
    ASSUME TypeInv,
           ds_init \/ ds_destroy \/ (\E t \in Threads : spurious_wakeup(t))
    PROVE  TypeInv'
<1>1. CASE ds_init
    <2>1. point' \in Seq(Point) /\ Len(point') = 0
        BY <1>1 DEF ds_init
    <2>2. \A t \in Threads : pc[t] = "idle" /\ pt[t] = 0
        BY <1>1 DEF ds_init, TypeInv, ControlOK
    <2>3. TypeOK'
        BY <1>1, <2>1, <2>2, BoundAssumption, FlagsAssumption
        DEF ds_init, TypeInv, TypeOK, local
    <2>4. ControlOK'
        BY <1>1, <2>2 DEF ds_init, TypeInv, ControlOK, local
    <2> QED  BY <2>3, <2>4 DEF TypeInv
<1>2. CASE ds_destroy
    BY <1>2 DEF ds_destroy, TypeInv, TypeOK, ControlOK, local
<1>3. CASE \E t \in Threads : spurious_wakeup(t)
    BY <1>3 DEF spurious_wakeup, TypeInv, TypeOK, ControlOK, local
<1> QED  BY <1>1, <1>2, <1>3

(* Every step keeps the types. *)
LEMMA TypeNext == TypeInv /\ [Next]_vars => TypeInv'
<1> SUFFICES ASSUME TypeInv, [Next]_vars PROVE TypeInv'
    OBVIOUS
<1>1. CASE UNCHANGED vars
    BY <1>1 DEF TypeInv, TypeOK, ControlOK, vars
<1>2. CASE \E t \in Threads : Start(t)
    BY <1>2, TypeStart
<1>3. CASE \E t \in Threads : Progress(t)
    BY <1>3, TypeWait, TypeExec, TypeUnblock, TypeEnable, TypeDisableAll, TypeActivate DEF Progress
<1>4. CASE ds_init \/ ds_destroy \/ (\E t \in Threads : spurious_wakeup(t))
    BY <1>4, TypeMain
<1> QED  BY <1>1, <1>2, <1>3, <1>4 DEF Next

(* Type correctness: in every behaviour of the facility the table never
   outgrows DS_MAX_POINT_COUNT and every call refers to an existing point. *)
THEOREM TypeCorrect == Spec => [](TypeOK /\ ControlOK)
<1>1. Init => TypeInv
    BY TypeInit
<1>2. TypeInv /\ [Next]_vars => TypeInv'
    BY TypeNext
<1> QED  BY <1>1, <1>2, PTL DEF Spec, TypeInv

-----------------------------------------------------------------------------
(* What each locked region does to the table and to the sleepers. *)

(* The table acquire leaves: the points of the old one, and perhaps a new
   point, enabled and with nobody at it. *)
Grown(tbl) ==
    /\ tbl \in Seq(Point) /\ Len(tbl) \in Len(point) .. DS_MAX_POINT_COUNT
    /\ \A j \in 1 .. Len(point) : tbl[j] = point[j]
    /\ \A j \in 1 .. Len(tbl) :
          j > Len(point) => tbl[j].is_enabled /\ ~tbl[j].in_syncwait /\ tbl[j].nblocked = 0

(* That is what acquire does to the table. *)
LEMMA AcquireGrown ==
    ASSUME TypeOK, NEW n \in Names, NEW a \in acquire(n)
    PROVE  Grown(a.tbl) /\ a.i \in 0 .. Len(a.tbl)
<1>0. /\ point \in Seq(Point) /\ Len(point) \in Nat
      /\ a.tbl \in Seq(Point) /\ Len(a.tbl) \in Len(point) .. DS_MAX_POINT_COUNT
      /\ a.i \in 0 .. Len(a.tbl) /\ \A j \in 1 .. Len(point) : a.tbl[j] = point[j]
    BY AcquireType DEF TypeOK
<1>1. ASSUME NEW j \in 1 .. Len(a.tbl), j > Len(point)
      PROVE  a.tbl[j].is_enabled /\ ~a.tbl[j].in_syncwait /\ a.tbl[j].nblocked = 0
    <2>1. a.tbl = Append(point, new_point(n)) /\ j = Len(point) + 1
        BY <1>0, <1>1, Acquire
    <2>2. a.tbl[j] = new_point(n)
        BY <1>0, <2>1
    <2> QED  BY <2>2 DEF new_point
<1> QED  BY <1>0, <1>1 DEF Grown

(* The table as it stands has grown by nothing. *)
LEMMA SameGrown ==
    ASSUME TypeOK
    PROVE  Grown(point)
  BY BoundAssumption DEF TypeOK, Grown

(* Table new is tbl with in_syncwait of point i set to b. *)
SyncwaitSet(new, tbl, i, b) ==
    /\ SameTable(new, tbl)
    /\ \A j \in 1 .. Len(tbl) : /\ j # i => new[j] = tbl[j]
                                /\ new[j].is_enabled = tbl[j].is_enabled
                                /\ new[j].nblocked = tbl[j].nblocked
    /\ new[i].in_syncwait = b

(* That is what the assignments of ds_exec do. *)
LEMMA SyncwaitAssign ==
    ASSUME NEW tbl \in Seq(Point), NEW i \in 1 .. Len(tbl), NEW b \in BOOLEAN
    PROVE  SyncwaitSet([tbl EXCEPT ![i].in_syncwait = b], tbl, i, b)
  BY SetSyncwait DEF SyncwaitSet

(* Table new is tbl with one more section at point i. *)
CountedUp(new, tbl, i) ==
    /\ SameTable(new, tbl)
    /\ \A j \in 1 .. Len(tbl) : /\ j # i => new[j] = tbl[j]
                                /\ new[j].is_enabled = tbl[j].is_enabled
                                /\ new[j].in_syncwait = tbl[j].in_syncwait
    /\ new[i].nblocked = tbl[i].nblocked + 1

(* ds_wait gives up, or counts itself at a point and enters the loop. *)
LEMMA WaitShape ==
    ASSUME TypeInv, NEW t \in Threads, ds_wait_locked(t)
    PROVE  \/ Becomes(t, "idle", 0, -1) /\ UNCHANGED <<point, waitset>>
           \/ \E a \in acquire(call[t].name) :
                 /\ Grown(a.tbl) /\ a.i \in 1 .. Len(a.tbl)
                 /\ CountedUp(point', a.tbl, a.i) /\ wait_loop(t, point', a.i)
<1>0. TypeOK /\ call[t].name \in Names
    BY DEF TypeInv, ControlOK, ds_wait_locked, Region
<1>1. CASE Becomes(t, "idle", 0, -1) /\ UNCHANGED <<point, waitset>>
    BY <1>1
<1>2. CASE \E a \in acquire(call[t].name) :
              /\ a.i # 0
              /\ point' = [a.tbl EXCEPT ![a.i].nblocked = @ + 1]
              /\ wait_loop(t, [a.tbl EXCEPT ![a.i].nblocked = @ + 1], a.i)
    <2>1. PICK a \in acquire(call[t].name) :
              /\ a.i # 0
              /\ point' = [a.tbl EXCEPT ![a.i].nblocked = @ + 1]
              /\ wait_loop(t, [a.tbl EXCEPT ![a.i].nblocked = @ + 1], a.i)
        BY <1>2
    <2>2. Grown(a.tbl) /\ a.i \in 1 .. Len(a.tbl) /\ a.tbl \in Seq(Point)
        BY <1>0, <2>1, AcquireGrown DEF Grown
    <2> DEFINE new == [a.tbl EXCEPT ![a.i].nblocked = @ + 1]
    <2>3. /\ SameTable(new, a.tbl)
          /\ \A j \in 1 .. Len(a.tbl) : j # a.i => new[j] = a.tbl[j]
          /\ new[a.i].is_enabled = a.tbl[a.i].is_enabled
          /\ new[a.i].in_syncwait = a.tbl[a.i].in_syncwait
          /\ new[a.i].nblocked = a.tbl[a.i].nblocked + 1
        BY <2>2, CountUp
    <2>4. point' = new /\ wait_loop(t, new, a.i)
        BY <2>1
    <2> HIDE DEF new
    <2>5. CountedUp(new, a.tbl, a.i)
        BY <2>2, <2>3 DEF CountedUp
    <2> QED  BY <2>2, <2>4, <2>5
<1> QED  BY <1>1, <1>2 DEF ds_wait_locked, Return

(* ds_exec passes, or raises the point and holds if the point is enabled. *)
LEMMA ExecShape ==
    ASSUME TypeInv, NEW t \in Threads, ds_exec_locked(t)
    PROVE  \/ \E r \in {0, -1} : Becomes(t, "idle", 0, r) /\ UNCHANGED <<point, waitset>>
           \/ \E a \in acquire(call[t].name) :
              /\ Grown(a.tbl) /\ a.i \in 1 .. Len(a.tbl)
              /\ \/ \E r \in {0, -1} :
                       Becomes(t, "idle", 0, r) /\ point' = a.tbl /\ waitset' = waitset
                 \/ /\ a.tbl[a.i].nblocked > 0 /\ a.tbl[a.i].is_enabled /\ ~a.tbl[a.i].in_syncwait
                    /\ SyncwaitSet(point', a.tbl, a.i, TRUE)
                    /\ Becomes(t, "cond", a.i, 0) /\ waitset' = {t}
                 \/ /\ a.tbl[a.i].nblocked > 0 /\ ~a.tbl[a.i].is_enabled
                    /\ SyncwaitSet(point', a.tbl, a.i, FALSE)
                    /\ Becomes(t, "idle", 0, -1) /\ waitset' = {}
<1>0. TypeOK /\ call[t].name \in Names
    BY DEF TypeInv, ControlOK, ds_exec_locked, Region
<1>1. CASE \E r \in {0, -1} : Becomes(t, "idle", 0, r) /\ UNCHANGED <<point, waitset>>
    BY <1>1
<1>2. CASE \E a \in acquire(call[t].name), r \in {0, -1} :
              /\ a.i # 0 /\ Becomes(t, "idle", 0, r)
              /\ point' = a.tbl /\ waitset' = waitset
    <2>1. PICK a \in acquire(call[t].name), r \in {0, -1} :
              a.i # 0 /\ Becomes(t, "idle", 0, r) /\ point' = a.tbl /\ waitset' = waitset
        BY <1>2
    <2>2. Grown(a.tbl) /\ a.i \in 1 .. Len(a.tbl)
        BY <1>0, <2>1, AcquireGrown DEF Grown
    <2> QED  BY <2>1, <2>2
<1>3. CASE \E a \in acquire(call[t].name) :
              /\ a.i # 0 /\ ~is_busy(a.tbl[a.i]) /\ a.tbl[a.i].nblocked > 0
              /\ exec_loop(t, [a.tbl EXCEPT ![a.i].in_syncwait = TRUE], a.i, {})
    <2>1. PICK a \in acquire(call[t].name) :
              /\ a.i # 0 /\ ~is_busy(a.tbl[a.i]) /\ a.tbl[a.i].nblocked > 0
              /\ exec_loop(t, [a.tbl EXCEPT ![a.i].in_syncwait = TRUE], a.i, {})
        BY <1>3
    <2>2. Grown(a.tbl) /\ a.i \in 1 .. Len(a.tbl) /\ a.tbl \in Seq(Point)
        BY <1>0, <2>1, AcquireGrown DEF Grown
    <2> DEFINE old == a.tbl  k == a.i  tbl == [old EXCEPT ![k].in_syncwait = TRUE]
    <2>3. exec_loop(t, tbl, k, {})
        BY <2>1
    <2>4. old \in Seq(Point) /\ k \in 1 .. Len(old) /\ ~is_busy(old[k]) /\ old[k].nblocked > 0
        BY <2>1, <2>2
    <2>5. \E b \in acquire(call[t].name) : b = a /\ Grown(b.tbl) /\ b.i \in 1 .. Len(b.tbl)
        BY <2>2
    <2> HIDE DEF old, k
    <2>6. SyncwaitSet(tbl, old, k, TRUE)
        BY <2>4, SyncwaitAssign, Zenon
    <2> HIDE DEF tbl
    <2>7. tbl \in Seq(Point) /\ k \in 1 .. Len(tbl)
        BY <2>4, <2>6 DEF SyncwaitSet, SameTable
    <2>8. tbl[k].in_syncwait /\ tbl[k].is_enabled = old[k].is_enabled
        BY <2>4, <2>6 DEF SyncwaitSet
    <2>9. CASE old[k].is_enabled
        <3>1. Becomes(t, "cond", k, 0) /\ point' = tbl /\ waitset' = {t}
            BY <2>3, <2>8, <2>9 DEF exec_loop
        <3>2. SyncwaitSet(point', old, k, TRUE) /\ ~old[k].in_syncwait
            BY <2>4, <2>6, <2>9, <3>1 DEF is_busy
        <3> QED  BY <2>4, <2>5, <2>9, <3>1, <3>2 DEF old, k
    <2>10. CASE ~old[k].is_enabled
        <3>1. /\ Becomes(t, "idle", 0, -1) /\ waitset' = {}
              /\ point' = [tbl EXCEPT ![k].in_syncwait = FALSE]
            BY <2>3, <2>8, <2>10 DEF exec_loop, Return
        <3>2. SyncwaitSet(point', tbl, k, FALSE)
            BY <2>7, <3>1, SyncwaitAssign, Zenon
        <3>3. SyncwaitSet(point', old, k, FALSE)
            BY <2>4, <2>6, <3>2 DEF SyncwaitSet, SameTable
        <3> QED  BY <2>4, <2>5, <2>10, <3>1, <3>3 DEF old, k
    <2> QED  BY <2>9, <2>10
<1> QED  BY <1>1, <1>2, <1>3, ExecStep

(* A ds_exec that wakes up sleeps again, or ends its hold. *)
LEMMA ExecResumeShape ==
    ASSUME TypeInv, NEW t \in Threads, ds_exec_resume(t)
    PROVE  /\ pt[t] \in 1 .. Len(point)
           /\ \/ /\ point[pt[t]].in_syncwait /\ point[pt[t]].is_enabled
                 /\ point' = point
                 /\ Becomes(t, "cond", pt[t], 0) /\ waitset' = waitset \cup {t}
              \/ /\ ~(point[pt[t]].in_syncwait /\ point[pt[t]].is_enabled)
                 /\ SyncwaitSet(point', point, pt[t], FALSE)
                 /\ Becomes(t, "idle", 0, IF point[pt[t]].is_enabled THEN 0 ELSE -1)
                 /\ waitset' = waitset
<1>1. point \in Seq(Point) /\ pt[t] \in 1 .. Len(point) /\ exec_loop(t, point, pt[t], waitset)
    BY DEF TypeInv, TypeOK, ControlOK, ds_exec_resume, Region
<1>2. SyncwaitSet([point EXCEPT ![pt[t]].in_syncwait = FALSE], point, pt[t], FALSE)
    BY <1>1, SyncwaitAssign
<1> QED  BY <1>1, <1>2, Zenon DEF exec_loop, Return

(* One section less at point i, in the table. *)
LEMMA UnblockTable ==
    ASSUME TypeInv, NEW i \in 1 .. Len(point), unblock(i)
    PROVE  /\ SameTable(point', point)
           /\ \A j \in 1 .. Len(point) : j # i => point'[j] = point[j]
           /\ point'[i].nblocked = point[i].nblocked - 1
           /\ point'[i].is_enabled = point[i].is_enabled
           /\ point[i].nblocked = 1 => ~point'[i].in_syncwait /\ waitset' = {}
           /\ point[i].nblocked # 1 => /\ point'[i].in_syncwait = point[i].in_syncwait
                                       /\ waitset' = waitset
<1>0. point \in Seq(Point)
    BY DEF TypeInv, TypeOK
<1>1. CASE point[i].nblocked > 1
    <2> DEFINE new == [point EXCEPT ![i].nblocked = @ - 1]
    <2>1. point' = new /\ waitset' = waitset
        BY <1>1 DEF unblock
    <2>2. /\ SameTable(new, point)
          /\ \A j \in 1 .. Len(point) : j # i => new[j] = point[j]
          /\ new[i].is_enabled = point[i].is_enabled
          /\ new[i].in_syncwait = point[i].in_syncwait
          /\ new[i].nblocked = point[i].nblocked - 1
        BY <1>0, <1>1, CountDown
    <2> HIDE DEF new
    <2>3. point[i].nblocked # 1
        BY <1>1
    <2> QED  BY <2>1, <2>2, <2>3
<1>2. CASE point[i].nblocked = 1
    <2> DEFINE new == [point EXCEPT ![i] = [@ EXCEPT !.nblocked = 0, !.in_syncwait = FALSE]]
    <2>1. point' = new /\ waitset' = {}
        BY <1>2 DEF unblock
    <2>2. /\ SameTable(new, point)
          /\ \A j \in 1 .. Len(point) : j # i => new[j] = point[j]
          /\ new[i].is_enabled = point[i].is_enabled
          /\ new[i].in_syncwait = FALSE
          /\ new[i].nblocked = 0
        BY <1>0, CountOut
    <2> HIDE DEF new
    <2> QED  BY <1>2, <2>1, <2>2
<1> QED  BY <1>1, <1>2 DEF unblock

(* is_enabled = b in ds_enable, and the broadcast to the waits it errs out. *)
LEMMA EnableShape ==
    ASSUME TypeInv, NEW i \in 1 .. Len(point), NEW b \in BOOLEAN, set_enabled(i, b)
    PROVE  /\ SameTable(point', point)
           /\ \A j \in 1 .. Len(point) : /\ j # i => point'[j] = point[j]
                                         /\ point'[j].in_syncwait = point[j].in_syncwait
                                         /\ point'[j].nblocked = point[j].nblocked
           /\ point'[i].is_enabled = b
           /\ waitset' = IF ~b /\ point[i].nblocked > 0 THEN {} ELSE waitset
<1>0. point \in Seq(Point)
    BY DEF TypeInv, TypeOK
<1> DEFINE new == [point EXCEPT ![i].is_enabled = b]
<1>1. /\ SameTable(new, point)
      /\ \A j \in 1 .. Len(point) : j # i => new[j] = point[j]
      /\ new[i].is_enabled = b
      /\ new[i].in_syncwait = point[i].in_syncwait
      /\ new[i].nblocked = point[i].nblocked
    BY <1>0, SetEnabled
<1>2. point' = new
    BY DEF set_enabled
<1>3. waitset' = IF ~b /\ point[i].nblocked > 0 THEN {} ELSE waitset
    BY DEF set_enabled
<1> HIDE DEF new
<1> QED  BY <1>1, <1>2, <1>3

-----------------------------------------------------------------------------
(* Sleepers of ds_exec. *)

WakeInv == TypeInv /\ SyncwaitCounted /\ ExecNotLost

(* The sleepers other than t keep their point and their call. *)
LEMMA ExecSleepers ==
    ASSUME TypeInv, TypeInv', ExecNotLost, NEW t \in Threads, NEW l, NEW i, NEW r,
           Becomes(t, l, i, r), call' = call, waitset' \subseteq waitset \cup {t},
           t \in waitset' /\ call[t].fn = "ds_exec" =>
              point'[i].in_syncwait /\ point'[i].is_enabled,
           \A j \in 1 .. Len(point) : point[j].in_syncwait /\ point[j].is_enabled =>
              \/ waitset' \subseteq {t}
              \/ point'[j].in_syncwait /\ point'[j].is_enabled
    PROVE  ExecNotLost'
<1>1. /\ pt'[t] = i /\ \A u \in Threads \ {t} : pt'[u] = pt[u]
    BY DEF TypeInv, TypeOK, Becomes
<1> SUFFICES ASSUME NEW u \in waitset', call[u].fn = "ds_exec"
             PROVE  point'[pt'[u]].in_syncwait /\ point'[pt'[u]].is_enabled
    BY DEF ExecNotLost
<1>2. u \in Threads /\ waitset' \subseteq Threads
    BY DEF TypeInv, TypeOK
<1>3. CASE u = t
    BY <1>1, <1>3
<1>4. CASE u # t
    <2>1. u \in waitset /\ pt'[u] = pt[u] /\ ~(waitset' \subseteq {t})
        BY <1>1, <1>2, <1>4
    <2>2. point[pt[u]].in_syncwait /\ point[pt[u]].is_enabled
        BY <2>1 DEF ExecNotLost
    <2>3. pt[u] \in 1 .. Len(point)
        BY <1>2, <2>1 DEF TypeInv, TypeOK, ControlOK
    <2> QED  BY <2>1, <2>2, <2>3
<1> QED  BY <1>3, <1>4

(* A grown table, as far as the sync-wait is concerned. *)
LEMMA GrownSyncwait ==
    ASSUME TypeInv, SyncwaitCounted, NEW tbl, Grown(tbl)
    PROVE  /\ \A j \in 1 .. Len(tbl) : tbl[j].in_syncwait => tbl[j].nblocked > 0
           /\ DOMAIN tbl = 1 .. Len(tbl) /\ Len(tbl) \in Nat /\ Len(point) <= Len(tbl)
           /\ \A j \in 1 .. Len(point) : tbl[j] = point[j] /\ j \in 1 .. Len(tbl)
<1>1. point \in Seq(Point) /\ Len(point) \in Nat /\ DOMAIN point = 1 .. Len(point)
    BY DEF TypeInv, TypeOK
<1>2. /\ DOMAIN tbl = 1 .. Len(tbl) /\ Len(tbl) \in Nat /\ Len(point) <= Len(tbl)
      /\ \A j \in 1 .. Len(point) : tbl[j] = point[j] /\ j \in 1 .. Len(tbl)
    BY <1>1, BoundAssumption DEF Grown
<1>3. ASSUME NEW j \in 1 .. Len(tbl), tbl[j].in_syncwait PROVE tbl[j].nblocked > 0
    <2>1. j <= Len(point)
        BY <1>1, <1>3 DEF Grown
    <2> QED  BY <1>1, <1>2, <1>3, <2>1 DEF SyncwaitCounted
<1> QED  BY <1>2, <1>3

(* The sync-wait after a step of thread t, from what the step does to it. *)
LEMMA WakeRegion ==
    ASSUME WakeInv, TypeInv', NEW t \in Threads, NEW l, NEW i, NEW r,
           Becomes(t, l, i, r), call' = call, waitset' \subseteq waitset \cup {t},
           t \in waitset' /\ call[t].fn = "ds_exec" =>
              point'[i].in_syncwait /\ point'[i].is_enabled,
           \A j \in 1 .. Len(point) : point[j].in_syncwait /\ point[j].is_enabled =>
              \/ waitset' \subseteq {t}
              \/ point'[j].in_syncwait /\ point'[j].is_enabled,
           \A j \in 1 .. Len(point') : point'[j].in_syncwait => point'[j].nblocked > 0
    PROVE  WakeInv'
<1>1. TypeInv /\ ExecNotLost
    BY DEF WakeInv
<1>2. ExecNotLost'
    BY <1>1, ExecSleepers
<1>3. DOMAIN point' = 1 .. Len(point')
    BY DEF TypeInv, TypeOK
<1> QED  BY <1>2, <1>3 DEF WakeInv, SyncwaitCounted

(* The table part of WakeRegion when the table stays as it is. *)
LEMMA WakeSame ==
    ASSUME WakeInv, point' = point
    PROVE  /\ \A j \in 1 .. Len(point) : point[j].in_syncwait /\ point[j].is_enabled =>
                 point'[j].in_syncwait /\ point'[j].is_enabled
           /\ \A j \in 1 .. Len(point') : point'[j].in_syncwait => point'[j].nblocked > 0
  BY DEF WakeInv, TypeInv, TypeOK, SyncwaitCounted

(* ds_wait wakes nobody, and leaves every sync-wait as it is. *)
LEMMA WakeWait ==
    ASSUME WakeInv, NEW t \in Threads, ds_wait_locked(t) \/ ds_wait_resume(t)
    PROVE  WakeInv'
<1>0. TypeInv /\ SyncwaitCounted
    BY DEF WakeInv
<1>1. TypeInv'
    BY <1>0, TypeWait
<1>2. call' = call /\ call[t].fn # "ds_exec"
    BY DEF ds_wait_locked, ds_wait_resume, Region
<1>3. CASE ds_wait_resume(t)
    <2>1. PICK l, i, r : Becomes(t, l, i, r) /\ waitset' \subseteq waitset \cup {t}
        BY <1>3, WaitLoopStep DEF ds_wait_resume
    <2>2. point' = point
        BY <1>3 DEF ds_wait_resume
    <2> QED  BY <1>1, <1>2, <2>1, <2>2, WakeSame, WakeRegion
<1>4. CASE Becomes(t, "idle", 0, -1) /\ UNCHANGED <<point, waitset>>
    BY <1>1, <1>2, <1>4, WakeSame, WakeRegion
<1>5. CASE \E a \in acquire(call[t].name) :
              /\ Grown(a.tbl) /\ a.i \in 1 .. Len(a.tbl)
              /\ CountedUp(point', a.tbl, a.i) /\ wait_loop(t, point', a.i)
    <2>1. PICK tbl, k : /\ Grown(tbl) /\ k \in 1 .. Len(tbl)
                        /\ CountedUp(point', tbl, k) /\ wait_loop(t, point', k)
        BY <1>5
    <2>2. PICK l, i, r : Becomes(t, l, i, r) /\ waitset' \subseteq waitset \cup {t}
        BY <2>1, WaitLoopStep
    <2>3. /\ \A j \in 1 .. Len(tbl) : tbl[j].in_syncwait => tbl[j].nblocked > 0
          /\ \A j \in 1 .. Len(point) : tbl[j] = point[j] /\ j \in 1 .. Len(tbl)
        BY <1>0, <2>1, GrownSyncwait
    <2>a. tbl[k] \in Point
        BY <2>1 DEF Grown
    <2>b. tbl[k].nblocked \in Nat
        BY <2>a DEF Point
    <2>4. /\ Len(point') = Len(tbl)
          /\ \A j \in 1 .. Len(tbl) : /\ j # k => point'[j] = tbl[j]
                                      /\ point'[j].is_enabled = tbl[j].is_enabled
                                      /\ point'[j].in_syncwait = tbl[j].in_syncwait
          /\ point'[k].nblocked = tbl[k].nblocked + 1
        BY <2>1 DEF CountedUp, SameTable
    <2>5. \A j \in 1 .. Len(point') : point'[j].in_syncwait => point'[j].nblocked > 0
        BY <2>1, <2>3, <2>4, <2>b
    <2> QED  BY <1>1, <1>2, <2>2, <2>3, <2>4, <2>5, WakeRegion
<1> QED  BY <1>0, <1>3, <1>4, <1>5, WaitShape

(* ds_exec raises a point only with a section at it, and sleeps only while the
   point is raised; it lowers no point at which another ds_exec sleeps. *)
LEMMA WakeExec ==
    ASSUME WakeInv, NEW t \in Threads, ds_exec_locked(t) \/ ds_exec_resume(t)
    PROVE  WakeInv'
<1>0. TypeInv /\ SyncwaitCounted
    BY DEF WakeInv
<1>1. TypeInv'
    BY <1>0, TypeExec
<1>2. call' = call /\ Len(point) \in Nat /\ DOMAIN point = 1 .. Len(point)
    BY <1>0 DEF ds_exec_locked, ds_exec_resume, Region, TypeInv, TypeOK
<1>3. CASE ds_exec_resume(t)
    <2>1. CASE /\ point[pt[t]].in_syncwait /\ point[pt[t]].is_enabled
               /\ point' = point
               /\ Becomes(t, "cond", pt[t], 0) /\ waitset' = waitset \cup {t}
        BY <1>1, <1>2, <2>1, WakeSame, WakeRegion
    <2>2. CASE /\ ~(point[pt[t]].in_syncwait /\ point[pt[t]].is_enabled)
               /\ SyncwaitSet(point', point, pt[t], FALSE)
               /\ Becomes(t, "idle", 0, IF point[pt[t]].is_enabled THEN 0 ELSE -1)
               /\ waitset' = waitset
        <3>1. /\ Len(point') = Len(point) /\ ~point'[pt[t]].in_syncwait
              /\ \A j \in 1 .. Len(point) : j # pt[t] => point'[j] = point[j]
            BY <2>2 DEF SyncwaitSet, SameTable
        <3>2. t \notin waitset'
            BY <1>3, <2>2 DEF ds_exec_resume
        <3>3. \A j \in 1 .. Len(point') : point'[j].in_syncwait => point'[j].nblocked > 0
            BY <1>0, <1>2, <3>1 DEF SyncwaitCounted
        <3> QED  BY <1>1, <1>2, <2>2, <3>1, <3>2, <3>3, WakeRegion
    <2> QED  BY <1>0, <1>3, <2>1, <2>2, ExecResumeShape
<1>4. CASE ds_exec_locked(t)
    <2>0. t \notin waitset
        BY <1>0, <1>4 DEF TypeInv, ControlOK, ds_exec_locked, Region
    <2>1. CASE \E r \in {0, -1} : Becomes(t, "idle", 0, r) /\ UNCHANGED <<point, waitset>>
        BY <1>1, <1>2, <2>0, <2>1, WakeSame, WakeRegion
    <2>2. ASSUME NEW tbl, Grown(tbl), NEW r, Becomes(t, "idle", 0, r),
                 point' = tbl, waitset' = waitset
          PROVE  WakeInv'
        <3>1. /\ \A j \in 1 .. Len(tbl) : tbl[j].in_syncwait => tbl[j].nblocked > 0
              /\ \A j \in 1 .. Len(point) : tbl[j] = point[j] /\ j \in 1 .. Len(tbl)
            BY <1>0, <2>2, GrownSyncwait
        <3> QED  BY <1>1, <1>2, <2>0, <2>2, <3>1, WakeRegion
    <2>4. ASSUME NEW tbl, NEW k \in 1 .. Len(tbl), Grown(tbl), tbl[k].nblocked > 0,
                 NEW b \in BOOLEAN, SyncwaitSet(point', tbl, k, b),
                 NEW l, NEW i, NEW r, Becomes(t, l, i, r), waitset' \subseteq {t},
                 t \in waitset' => b /\ i = k /\ tbl[k].is_enabled
          PROVE  WakeInv'
        <3>1. /\ \A j \in 1 .. Len(tbl) : tbl[j].in_syncwait => tbl[j].nblocked > 0
              /\ \A j \in 1 .. Len(point) : tbl[j] = point[j] /\ j \in 1 .. Len(tbl)
            BY <1>0, <2>4, GrownSyncwait
        <3>2. /\ Len(point') = Len(tbl) /\ point'[k].in_syncwait = b
              /\ \A j \in 1 .. Len(tbl) : /\ j # k => point'[j] = tbl[j]
                                          /\ point'[j].is_enabled = tbl[j].is_enabled
                                          /\ point'[j].nblocked = tbl[j].nblocked
            BY <2>4 DEF SyncwaitSet, SameTable
        <3>3. \A j \in 1 .. Len(point') : point'[j].in_syncwait => point'[j].nblocked > 0
            BY <2>4, <3>1, <3>2
        <3> QED  BY <1>1, <1>2, <2>4, <3>2, <3>3, WakeRegion
    <2>3. CASE \E a \in acquire(call[t].name) :
              /\ Grown(a.tbl) /\ a.i \in 1 .. Len(a.tbl)
              /\ \/ \E r \in {0, -1} :
                       Becomes(t, "idle", 0, r) /\ point' = a.tbl /\ waitset' = waitset
                 \/ /\ a.tbl[a.i].nblocked > 0 /\ a.tbl[a.i].is_enabled /\ ~a.tbl[a.i].in_syncwait
                    /\ SyncwaitSet(point', a.tbl, a.i, TRUE)
                    /\ Becomes(t, "cond", a.i, 0) /\ waitset' = {t}
                 \/ /\ a.tbl[a.i].nblocked > 0 /\ ~a.tbl[a.i].is_enabled
                    /\ SyncwaitSet(point', a.tbl, a.i, FALSE)
                    /\ Becomes(t, "idle", 0, -1) /\ waitset' = {}
        <3>1. PICK tbl, k :
              /\ Grown(tbl) /\ k \in 1 .. Len(tbl)
              /\ \/ \E r \in {0, -1} :
                       Becomes(t, "idle", 0, r) /\ point' = tbl /\ waitset' = waitset
                 \/ /\ tbl[k].nblocked > 0 /\ tbl[k].is_enabled
                    /\ SyncwaitSet(point', tbl, k, TRUE)
                    /\ Becomes(t, "cond", k, 0) /\ waitset' = {t}
                 \/ /\ tbl[k].nblocked > 0 /\ ~tbl[k].is_enabled
                    /\ SyncwaitSet(point', tbl, k, FALSE)
                    /\ Becomes(t, "idle", 0, -1) /\ waitset' = {}
            BY <2>3
        <3> QED  BY <2>2, <2>4, <3>1
    <2> QED  BY <1>0, <1>4, <2>1, <2>3, ExecShape
<1> QED  BY <1>3, <1>4

(* The last ds_unblock lowers the point and wakes everybody. *)
LEMMA WakeUnblock ==
    ASSUME WakeInv, NEW t \in Threads, ds_unblock_locked(t)
    PROVE  WakeInv'
<1> DEFINE i == look_up(point, call[t].name)
<1>0. TypeInv /\ SyncwaitCounted /\ point \in Seq(Point)
    BY DEF WakeInv, TypeInv, TypeOK
<1>1. TypeInv'
    BY <1>0, TypeUnblock
<1>2. call' = call /\ t \notin waitset
    BY <1>0 DEF ds_unblock_locked, Region, TypeInv, ControlOK
<1>3. i # 0 => i \in 1 .. Len(point)
    BY <1>0, LookUp
<1>4. \/ \E l, k, r : Becomes(t, l, k, r) /\ UNCHANGED <<point, waitset>>
      \/ i # 0 /\ unblock(i) /\ Becomes(t, "idle", 0, 0)
    BY DEF ds_unblock_locked, Return
<1> HIDE DEF i
<1>5. CASE \E l, k, r : Becomes(t, l, k, r) /\ UNCHANGED <<point, waitset>>
    BY <1>1, <1>2, <1>5, WakeSame, WakeRegion
<1>6. CASE i # 0 /\ unblock(i) /\ Becomes(t, "idle", 0, 0)
    <2>1. /\ SameTable(point', point)
          /\ \A j \in 1 .. Len(point) : j # i => point'[j] = point[j]
          /\ point'[i].nblocked = point[i].nblocked - 1
          /\ point'[i].is_enabled = point[i].is_enabled
          /\ point[i].nblocked = 1 => ~point'[i].in_syncwait /\ waitset' = {}
          /\ point[i].nblocked # 1 => /\ point'[i].in_syncwait = point[i].in_syncwait
                                      /\ waitset' = waitset
        BY <1>0, <1>3, <1>6, UnblockTable
    <2>2. Len(point') = Len(point) /\ point[i] \in Point
        BY <1>0, <1>3, <1>6, <2>1 DEF SameTable
    <2>3. point[i].nblocked \in Nat /\ point[i].nblocked > 0
        BY <1>6, <2>2 DEF Point, unblock
    <2>4. \A j \in 1 .. Len(point') : point'[j].in_syncwait => point'[j].nblocked > 0
        BY <1>0, <2>1, <2>2, <2>3 DEF SyncwaitCounted
    <2>5. \A j \in 1 .. Len(point) : point[j].in_syncwait /\ point[j].is_enabled =>
              waitset' = {} \/ (point'[j].in_syncwait /\ point'[j].is_enabled)
        BY <2>1
    <2>6. waitset' \subseteq waitset
        BY <2>1
    <2> QED  BY <1>1, <1>2, <1>6, <2>4, <2>5, <2>6, WakeRegion
<1> QED  BY <1>4, <1>5, <1>6

(* A controller that disables a raised point finds a section at it, and so
   wakes the ds_exec that holds there. *)
LEMMA WakeControl ==
    ASSUME WakeInv, NEW t \in Threads,
           ds_enable_locked(t) \/ ds_disable_all_locked(t) \/ ds_activate_locked(t)
    PROVE  WakeInv'
<1> DEFINE i == look_up(point, call[t].name)
<1>0. /\ TypeInv /\ SyncwaitCounted /\ point \in Seq(Point) /\ call[t].flag \in BOOLEAN
      /\ DOMAIN point = 1 .. Len(point)
    BY DEF WakeInv, TypeInv, TypeOK, Call
<1>1. TypeInv'
    BY <1>0, TypeEnable, TypeDisableAll, TypeActivate
<1>2. call' = call /\ t \notin waitset
    BY <1>0 DEF ds_enable_locked, ds_disable_all_locked, ds_activate_locked,
                Region, TypeInv, ControlOK
<1>3. i # 0 => i \in 1 .. Len(point)
    BY <1>0, LookUp
<1>4. PICK l, k, r : Becomes(t, l, k, r)
    BY DEF ds_enable_locked, ds_disable_all_locked, ds_activate_locked, Return
<1>5. \/ UNCHANGED <<point, waitset>>
      \/ disable_all
      \/ i # 0 /\ set_enabled(i, call[t].flag)
    BY DEF ds_enable_locked, ds_disable_all_locked, ds_activate_locked
<1> HIDE DEF i
<1>6. CASE UNCHANGED <<point, waitset>>
    BY <1>1, <1>2, <1>4, <1>6, WakeSame, WakeRegion
<1>7. CASE disable_all
    <2>1. /\ Len(point') = Len(point) /\ waitset' \subseteq waitset
          /\ \A j \in 1 .. Len(point) : /\ point'[j].in_syncwait = point[j].in_syncwait
                                        /\ point'[j].nblocked = point[j].nblocked
        BY <1>0, <1>7, DisableAllStep
    <2>2. \A j \in 1 .. Len(point) : point[j].in_syncwait /\ point[j].is_enabled => waitset' = {}
        BY <1>0, <1>7 DEF disable_all, SyncwaitCounted
    <2>3. \A j \in 1 .. Len(point') : point'[j].in_syncwait => point'[j].nblocked > 0
        BY <1>0, <2>1 DEF SyncwaitCounted
    <2> QED  BY <1>1, <1>2, <1>4, <2>1, <2>2, <2>3, WakeRegion
<1>8. CASE i # 0 /\ set_enabled(i, call[t].flag)
    <2>1. /\ SameTable(point', point)
          /\ \A j \in 1 .. Len(point) : /\ j # i => point'[j] = point[j]
                                        /\ point'[j].in_syncwait = point[j].in_syncwait
                                        /\ point'[j].nblocked = point[j].nblocked
          /\ point'[i].is_enabled = call[t].flag
          /\ waitset' = IF ~call[t].flag /\ point[i].nblocked > 0 THEN {} ELSE waitset
        BY <1>0, <1>3, <1>8, EnableShape
    <2>2. Len(point') = Len(point) /\ waitset' \subseteq waitset
        BY <2>1 DEF SameTable
    <2>3. \A j \in 1 .. Len(point) : point[j].in_syncwait /\ point[j].is_enabled =>
              waitset' = {} \/ (point'[j].in_syncwait /\ point'[j].is_enabled)
        BY <1>0, <2>1 DEF SyncwaitCounted
    <2>4. \A j \in 1 .. Len(point') : point'[j].in_syncwait => point'[j].nblocked > 0
        BY <1>0, <2>1, <2>2 DEF SyncwaitCounted
    <2> QED  BY <1>1, <1>2, <1>4, <2>2, <2>3, <2>4, WakeRegion
<1> QED  BY <1>5, <1>6, <1>7, <1>8

(* The steps outside the mutex touch no point and no sleeper. *)
LEMMA WakeOutside ==
    ASSUME WakeInv, TypeInv', UNCHANGED <<point, waitset>>,
           \A u \in waitset : pt'[u] = pt[u] /\ call'[u] = call[u]
    PROVE  WakeInv'
  BY DEF WakeInv, SyncwaitCounted, ExecNotLost

(* Every step keeps WakeInv. *)
LEMMA WakeNext == WakeInv /\ [Next]_vars => WakeInv'
<1> SUFFICES ASSUME WakeInv, [Next]_vars PROVE WakeInv'
    OBVIOUS
<1>0. TypeInv /\ TypeOK /\ ControlOK /\ TypeInv'
    BY TypeNext DEF WakeInv, TypeInv
<1>1. CASE UNCHANGED vars
    BY <1>0, <1>1, WakeOutside DEF vars
<1>2. CASE \E t \in Threads : Start(t)
    <2>1. PICK t \in Threads : \E fn, c, l, i, r : Begin(t, fn, c) /\ Becomes(t, l, i, r)
        BY <1>2 DEF Start, ds_wait, ds_exec, ds_enable, ds_disable_all, ds_activate, Return
    <2>2. t \notin waitset
        BY <1>0, <2>1 DEF ControlOK, Begin
    <2>3. \A u \in Threads \ {t} : pt'[u] = pt[u] /\ call'[u] = call[u]
        BY <1>0, <2>1 DEF TypeOK, Begin, Becomes
    <2>4. UNCHANGED <<point, waitset>> /\ waitset \subseteq Threads
        BY <1>0, <2>1 DEF TypeOK, Begin
    <2> QED  BY <1>0, <2>2, <2>3, <2>4, WakeOutside
<1>3. CASE \E t \in Threads : ds_unblock(t) \/ ds_activate_store(t) \/ ds_activate_unlock(t)
    <2>1. PICK t \in Threads : ds_unblock(t) \/ ds_activate_store(t) \/ ds_activate_unlock(t)
        BY <1>3
    <2>2. PICK l, i, r : Becomes(t, l, i, r)
        BY <2>1 DEF ds_unblock, ds_activate_store, ds_activate_unlock, Return
    <2>3. t \notin waitset /\ UNCHANGED <<point, waitset>> /\ waitset \subseteq Threads
        BY <1>0, <2>1 DEF TypeOK, ControlOK, ds_unblock, ds_activate_store, ds_activate_unlock
    <2>4. \A u \in Threads \ {t} : pt'[u] = pt[u] /\ call'[u] = call[u]
        BY <1>0, <2>1, <2>2 DEF TypeOK, Becomes, ds_unblock, ds_activate_store, ds_activate_unlock
    <2> QED  BY <1>0, <2>3, <2>4, WakeOutside
<1>4. CASE \E t \in Threads : /\ Progress(t)
                              /\ ~(ds_unblock(t) \/ ds_activate_store(t) \/ ds_activate_unlock(t))
    BY <1>4, WakeWait, WakeExec, WakeUnblock, WakeControl DEF Progress
<1>5. CASE ds_init
    <2>1. waitset = {} /\ waitset' = {} /\ point' = <<>>
        BY <1>0, <1>5 DEF ds_init, TypeOK, ControlOK
    <2> QED  BY <1>0, <2>1 DEF WakeInv, SyncwaitCounted, ExecNotLost
<1>6. CASE ds_destroy
    BY <1>0, <1>6, WakeOutside DEF ds_destroy, local
<1>7. CASE \E t \in Threads : spurious_wakeup(t)
    BY <1>0, <1>7 DEF spurious_wakeup, local, WakeInv, SyncwaitCounted, ExecNotLost
<1> QED  BY <1>1, <1>2, <1>3, <1>4, <1>5, <1>6, <1>7 DEF Next

(* No ds_exec sleeps through the broadcast it waits for: while it sleeps its
   point is enabled and in sync-wait.  For every program. *)
THEOREM ExecWakeUp == Spec => []ExecNotLost
<1>1. Init => WakeInv
    BY TypeInit DEF Init, WakeInv, SyncwaitCounted, ExecNotLost
<1>2. WakeInv /\ [Next]_vars => WakeInv'
    BY WakeNext
<1>3. WakeInv => ExecNotLost
    BY DEF WakeInv
<1> QED  BY <1>1, <1>2, <1>3, PTL DEF Spec

-----------------------------------------------------------------------------
(* The holds. *)

HeldInv == TypeInv /\ SyncwaitHeld

(* Thread u holds at point j. *)
HoldsAt(u, j) == pc[u] = "cond" /\ call[u].fn = "ds_exec" /\ pt[u] = j

(* The step raises no point. *)
NoneRaised ==
    \A j \in 1 .. Len(point') :
        point'[j].in_syncwait => j \in 1 .. Len(point) /\ point[j].in_syncwait

(* A step of thread t keeps the holds of the others, so that what it raises is
   what it has to hold. *)
LEMMA HeldStep ==
    ASSUME HeldInv, TypeInv', NEW t \in Threads, NEW l, NEW i, NEW r, Becomes(t, l, i, r),
           \A u \in Threads \ {t} : call'[u] = call[u],
           \A j \in 1 .. Len(point') : point'[j].in_syncwait =>
              \/ j \in 1 .. Len(point) /\ point[j].in_syncwait /\ ~HoldsAt(t, j)
              \/ l = "cond" /\ call'[t].fn = "ds_exec" /\ i = j
    PROVE  HeldInv'
<1>0. TypeInv /\ SyncwaitHeld
    BY DEF HeldInv
<1>1. /\ pc'[t] = l /\ pt'[t] = i
      /\ \A u \in Threads \ {t} : pc'[u] = pc[u] /\ pt'[u] = pt[u]
    BY <1>0 DEF TypeInv, TypeOK, Becomes
<1>2. DOMAIN point = 1 .. Len(point) /\ DOMAIN point' = 1 .. Len(point')
    BY <1>0 DEF TypeInv, TypeOK
<1>3. ASSUME NEW j \in 1 .. Len(point'), point'[j].in_syncwait
      PROVE  \E u \in Threads : pc'[u] = "cond" /\ call'[u].fn = "ds_exec" /\ pt'[u] = j
    <2>1. CASE j \in 1 .. Len(point) /\ point[j].in_syncwait /\ ~HoldsAt(t, j)
        <3>1. PICK u \in Threads : HoldsAt(u, j)
            BY <1>0, <1>2, <2>1 DEF SyncwaitHeld, HoldsAt
        <3>2. u # t
            BY <2>1, <3>1
        <3> QED  BY <1>1, <3>1, <3>2 DEF HoldsAt
    <2>2. CASE l = "cond" /\ call'[t].fn = "ds_exec" /\ i = j
        BY <1>1, <2>2
    <2> QED  BY <1>3, <2>1, <2>2
<1> QED  BY <1>2, <1>3 DEF HeldInv, SyncwaitHeld

(* A step of a thread that does not hold, and raises nothing. *)
LEMMA HeldQuiet ==
    ASSUME HeldInv, TypeInv', NEW t \in Threads, NEW l, NEW i, NEW r, Becomes(t, l, i, r),
           \A u \in Threads \ {t} : call'[u] = call[u],
           ~(pc[t] = "cond" /\ call[t].fn = "ds_exec"), NoneRaised
    PROVE  HeldInv'
<1>1. \A j : ~HoldsAt(t, j)
    BY DEF HoldsAt
<1> QED  BY <1>1, HeldStep DEF NoneRaised

(* A step that leaves the table raises nothing. *)
LEMMA SameNotRaised ==
    ASSUME TypeInv, point' = point
    PROVE  NoneRaised
  BY DEF NoneRaised

(* acquire raises nothing. *)
LEMMA GrownNotRaised ==
    ASSUME TypeInv, NEW tbl, Grown(tbl), NEW j \in 1 .. Len(tbl), tbl[j].in_syncwait
    PROVE  j \in 1 .. Len(point) /\ point[j].in_syncwait
<1>1. Len(point) \in Nat /\ Len(tbl) \in Nat
    BY BoundAssumption DEF TypeInv, TypeOK, Grown
<1>2. ~(j > Len(point))
    BY DEF Grown
<1>3. j \in 1 .. Len(point)
    BY <1>1, <1>2
<1> QED  BY <1>3 DEF Grown

(* ds_wait raises nothing. *)
LEMMA HeldWait ==
    ASSUME HeldInv, NEW t \in Threads, ds_wait_locked(t) \/ ds_wait_resume(t)
    PROVE  HeldInv'
<1>0. TypeInv
    BY DEF HeldInv
<1>1. TypeInv'
    BY <1>0, TypeWait
<1>2. call' = call /\ call[t].fn # "ds_exec"
    BY DEF ds_wait_locked, ds_wait_resume, Region
<1>3. CASE ds_wait_resume(t)
    <2>1. PICK l, i, r : Becomes(t, l, i, r)
        BY <1>3, WaitLoopStep DEF ds_wait_resume
    <2>2. NoneRaised
        BY <1>0, <1>3, SameNotRaised DEF ds_wait_resume
    <2> QED  BY <1>1, <1>2, <2>1, <2>2, HeldQuiet
<1>4. CASE Becomes(t, "idle", 0, -1) /\ UNCHANGED <<point, waitset>>
    <2>1. NoneRaised
        BY <1>0, <1>4, SameNotRaised
    <2> QED  BY <1>1, <1>2, <1>4, <2>1, HeldQuiet
<1>5. CASE \E a \in acquire(call[t].name) :
              /\ Grown(a.tbl) /\ a.i \in 1 .. Len(a.tbl)
              /\ CountedUp(point', a.tbl, a.i) /\ wait_loop(t, point', a.i)
    <2>1. PICK tbl, k : /\ Grown(tbl) /\ CountedUp(point', tbl, k) /\ wait_loop(t, point', k)
        BY <1>5
    <2>2. PICK l, i, r : Becomes(t, l, i, r)
        BY <2>1, WaitLoopStep
    <2>3. /\ Len(point') = Len(tbl)
          /\ \A j \in 1 .. Len(tbl) : point'[j].in_syncwait = tbl[j].in_syncwait
        BY <2>1 DEF CountedUp, SameTable
    <2>4. NoneRaised
        BY <1>0, <2>1, <2>3, GrownNotRaised DEF NoneRaised
    <2> QED  BY <1>1, <1>2, <2>2, <2>4, HeldQuiet
<1> QED  BY <1>0, <1>3, <1>4, <1>5, WaitShape

(* ds_exec holds at the point it raises, and lowers the point when its hold
   ends, whatever ended it. *)
LEMMA HeldExec ==
    ASSUME HeldInv, NEW t \in Threads, ds_exec_locked(t) \/ ds_exec_resume(t)
    PROVE  HeldInv'
<1>0. TypeInv /\ Len(point) \in Nat
    BY DEF HeldInv, TypeInv, TypeOK
<1>1. TypeInv'
    BY <1>0, TypeExec
<1>2. call' = call /\ call[t].fn = "ds_exec"
    BY DEF ds_exec_locked, ds_exec_resume, Region
<1>3. CASE ds_exec_resume(t)
    <2>1. CASE /\ point[pt[t]].in_syncwait /\ point' = point /\ Becomes(t, "cond", pt[t], 0)
        <3>1. \A j \in 1 .. Len(point') : point'[j].in_syncwait =>
                  \/ j \in 1 .. Len(point) /\ point[j].in_syncwait /\ ~HoldsAt(t, j)
                  \/ "cond" = "cond" /\ call'[t].fn = "ds_exec" /\ pt[t] = j
            BY <1>2, <2>1 DEF HoldsAt
        <3> QED  BY <1>1, <1>2, <2>1, <3>1, HeldStep
    <2>2. CASE /\ SyncwaitSet(point', point, pt[t], FALSE)
               /\ \E r : Becomes(t, "idle", 0, r)
        <3>1. /\ Len(point') = Len(point) /\ ~point'[pt[t]].in_syncwait
              /\ \A j \in 1 .. Len(point) : j # pt[t] => point'[j] = point[j]
            BY <2>2 DEF SyncwaitSet, SameTable
        <3>2. \A j \in 1 .. Len(point') : point'[j].in_syncwait =>
                  j \in 1 .. Len(point) /\ point[j].in_syncwait /\ ~HoldsAt(t, j)
            BY <3>1 DEF HoldsAt
        <3> QED  BY <1>1, <1>2, <2>2, <3>2, HeldStep
    <2> QED  BY <1>0, <1>3, <2>1, <2>2, ExecResumeShape
<1>4. CASE ds_exec_locked(t)
    <2>0. \A j : ~HoldsAt(t, j)
        BY <1>4 DEF HoldsAt, ds_exec_locked, Region
    <2>1. CASE \E r \in {0, -1} : Becomes(t, "idle", 0, r) /\ UNCHANGED <<point, waitset>>
        <3>1. NoneRaised
            BY <1>0, <2>1, SameNotRaised
        <3> QED  BY <1>1, <1>2, <2>0, <2>1, <3>1, HeldStep DEF NoneRaised
    <2>2. ASSUME NEW tbl, Grown(tbl), NEW r, Becomes(t, "idle", 0, r), point' = tbl
          PROVE  HeldInv'
        <3>1. NoneRaised
            BY <1>0, <2>2, GrownNotRaised DEF NoneRaised
        <3> QED  BY <1>1, <1>2, <2>0, <2>2, <3>1, HeldStep DEF NoneRaised
    <2>3. ASSUME NEW tbl, NEW k, Grown(tbl), NEW b \in BOOLEAN, SyncwaitSet(point', tbl, k, b),
                 NEW l, NEW i, NEW r, Becomes(t, l, i, r), b => l = "cond" /\ i = k
          PROVE  HeldInv'
        <3>1. /\ Len(point') = Len(tbl) /\ point'[k].in_syncwait = b
              /\ \A j \in 1 .. Len(tbl) : j # k => point'[j] = tbl[j]
            BY <2>3 DEF SyncwaitSet, SameTable
        <3>2. ASSUME NEW j \in 1 .. Len(point'), point'[j].in_syncwait
              PROVE  \/ j \in 1 .. Len(point) /\ point[j].in_syncwait /\ ~HoldsAt(t, j)
                     \/ l = "cond" /\ call'[t].fn = "ds_exec" /\ i = j
            <4>1. CASE j = k
                BY <1>2, <2>3, <3>1, <3>2, <4>1
            <4>2. CASE j # k
                <5>1. j \in 1 .. Len(tbl) /\ tbl[j].in_syncwait
                    BY <3>1, <3>2, <4>2
                <5> QED  BY <1>0, <2>0, <2>3, <5>1, GrownNotRaised
            <4> QED  BY <4>1, <4>2
        <3> QED  BY <1>1, <1>2, <2>3, <3>2, HeldStep
    <2>4. CASE \E a \in acquire(call[t].name) :
              /\ Grown(a.tbl) /\ a.i \in 1 .. Len(a.tbl)
              /\ \/ \E r \in {0, -1} :
                       Becomes(t, "idle", 0, r) /\ point' = a.tbl /\ waitset' = waitset
                 \/ /\ a.tbl[a.i].nblocked > 0 /\ a.tbl[a.i].is_enabled /\ ~a.tbl[a.i].in_syncwait
                    /\ SyncwaitSet(point', a.tbl, a.i, TRUE)
                    /\ Becomes(t, "cond", a.i, 0) /\ waitset' = {t}
                 \/ /\ a.tbl[a.i].nblocked > 0 /\ ~a.tbl[a.i].is_enabled
                    /\ SyncwaitSet(point', a.tbl, a.i, FALSE)
                    /\ Becomes(t, "idle", 0, -1) /\ waitset' = {}
        <3>1. PICK tbl, k :
              /\ Grown(tbl)
              /\ \/ \E r \in {0, -1} : Becomes(t, "idle", 0, r) /\ point' = tbl
                 \/ SyncwaitSet(point', tbl, k, TRUE) /\ Becomes(t, "cond", k, 0)
                 \/ SyncwaitSet(point', tbl, k, FALSE) /\ Becomes(t, "idle", 0, -1)
            BY <2>4
        <3> QED  BY <2>2, <2>3, <3>1
    <2> QED  BY <1>0, <1>4, <2>1, <2>4, ExecShape
<1> QED  BY <1>3, <1>4

(* ds_unblock and the controllers raise nothing. *)
LEMMA HeldOthers ==
    ASSUME HeldInv, NEW t \in Threads,
           \/ ds_unblock_locked(t) \/ ds_enable_locked(t)
           \/ ds_disable_all_locked(t) \/ ds_activate_locked(t)
    PROVE  HeldInv'
<1> DEFINE i == look_up(point, call[t].name)
<1>0. TypeInv /\ point \in Seq(Point) /\ call[t].flag \in BOOLEAN
    BY DEF HeldInv, TypeInv, TypeOK, Call
<1>1. TypeInv'
    BY <1>0, TypeUnblock, TypeEnable, TypeDisableAll, TypeActivate
<1>2. call' = call /\ pc[t] # "cond"
    BY DEF ds_unblock_locked, ds_enable_locked, ds_disable_all_locked, ds_activate_locked, Region
<1>3. i # 0 => i \in 1 .. Len(point)
    BY <1>0, LookUp
<1>4. PICK l, k, r : Becomes(t, l, k, r)
    BY DEF ds_unblock_locked, ds_enable_locked, ds_disable_all_locked, ds_activate_locked, Return
<1>5. \/ point' = point \/ disable_all
      \/ i # 0 /\ (unblock(i) \/ set_enabled(i, call[t].flag))
    BY DEF ds_unblock_locked, ds_enable_locked, ds_disable_all_locked, ds_activate_locked
<1> HIDE DEF i
<1>6. CASE point' = point
    <2>1. NoneRaised
        BY <1>0, <1>6, SameNotRaised
    <2> QED  BY <1>1, <1>2, <1>4, <2>1, HeldQuiet
<1>7. CASE disable_all
    <2>1. NoneRaised
        BY <1>0, <1>7, DisableAllStep DEF NoneRaised
    <2> QED  BY <1>1, <1>2, <1>4, <2>1, HeldQuiet
<1>8. CASE i # 0 /\ unblock(i)
    <2>1. /\ SameTable(point', point)
          /\ \A j \in 1 .. Len(point) : j # i => point'[j] = point[j]
          /\ point[i].nblocked = 1 => ~point'[i].in_syncwait
          /\ point[i].nblocked # 1 => point'[i].in_syncwait = point[i].in_syncwait
        BY <1>0, <1>3, <1>8, UnblockTable
    <2>2. NoneRaised
        BY <2>1 DEF NoneRaised, SameTable
    <2> QED  BY <1>1, <1>2, <1>4, <2>2, HeldQuiet
<1>9. CASE i # 0 /\ set_enabled(i, call[t].flag)
    <2>1. /\ SameTable(point', point)
          /\ \A j \in 1 .. Len(point) : point'[j].in_syncwait = point[j].in_syncwait
        BY <1>0, <1>3, <1>9, EnableShape
    <2>2. NoneRaised
        BY <2>1 DEF NoneRaised, SameTable
    <2> QED  BY <1>1, <1>2, <1>4, <2>2, HeldQuiet
<1> QED  BY <1>5, <1>6, <1>7, <1>8, <1>9

(* Every step keeps HeldInv. *)
LEMMA HeldNext == HeldInv /\ [Next]_vars => HeldInv'
<1> SUFFICES ASSUME HeldInv, [Next]_vars PROVE HeldInv'
    OBVIOUS
<1>0. TypeInv /\ TypeOK /\ ControlOK /\ TypeInv'
    BY TypeNext DEF HeldInv, TypeInv
<1>1. CASE UNCHANGED vars
    BY <1>0, <1>1 DEF vars, HeldInv, SyncwaitHeld
<1>2. CASE \E t \in Threads : Start(t)
    <2>1. PICK t \in Threads : \E fn, c, l, i, r : Begin(t, fn, c) /\ Becomes(t, l, i, r)
        BY <1>2 DEF Start, ds_wait, ds_exec, ds_enable, ds_disable_all, ds_activate, Return
    <2>2. PICK fn, c, l, i, r : Begin(t, fn, c) /\ Becomes(t, l, i, r)
        BY <2>1
    <2>3. NoneRaised
        BY <1>0, <2>2, SameNotRaised DEF Begin
    <2>4. pc[t] # "cond" /\ \A u \in Threads \ {t} : call'[u] = call[u]
        BY <1>0, <2>2 DEF TypeOK, Begin
    <2> QED  BY <1>0, <2>2, <2>3, <2>4, HeldQuiet
<1>3. CASE \E t \in Threads : ds_unblock(t) \/ ds_activate_store(t) \/ ds_activate_unlock(t)
    <2>1. PICK t \in Threads : ds_unblock(t) \/ ds_activate_store(t) \/ ds_activate_unlock(t)
        BY <1>3
    <2>2. PICK l, i, r : Becomes(t, l, i, r)
        BY <2>1 DEF ds_unblock, ds_activate_store, ds_activate_unlock, Return
    <2>3. NoneRaised
        BY <1>0, <2>1, SameNotRaised DEF ds_unblock, ds_activate_store, ds_activate_unlock
    <2>4. pc[t] # "cond" /\ \A u \in Threads \ {t} : call'[u] = call[u]
        BY <1>0, <2>1 DEF TypeOK, ds_unblock, ds_activate_store, ds_activate_unlock
    <2> QED  BY <1>0, <2>2, <2>3, <2>4, HeldQuiet
<1>4. CASE \E t \in Threads : /\ Progress(t)
                              /\ ~(ds_unblock(t) \/ ds_activate_store(t) \/ ds_activate_unlock(t))
    BY <1>4, HeldWait, HeldExec, HeldOthers DEF Progress
<1>5. CASE ds_init
    <2>1. point' = <<>>
        BY <1>5 DEF ds_init
    <2> QED  BY <1>0, <2>1 DEF HeldInv, SyncwaitHeld
<1>6. CASE ds_destroy \/ \E t \in Threads : spurious_wakeup(t)
    <2>1. UNCHANGED <<point, pc, call, pt>>
        BY <1>6 DEF ds_destroy, spurious_wakeup, local
    <2> QED  BY <1>0, <2>1 DEF HeldInv, SyncwaitHeld
<1> QED  BY <1>1, <1>2, <1>3, <1>4, <1>5, <1>6 DEF Next

(* A point is locked in sync-wait only while a ds_exec holds its caller there,
   for every program: no interleaving of disables, switches, second executors
   and spurious wake-ups leaves a point locked after the last hold at it. *)
THEOREM HoldCorrect == Spec => []SyncwaitHeld
<1>1. Init => HeldInv
    BY TypeInit DEF Init, HeldInv, SyncwaitHeld
<1>2. HeldInv /\ [Next]_vars => HeldInv'
    BY HeldNext
<1>3. HeldInv => SyncwaitHeld
    BY DEF HeldInv
<1> QED  BY <1>1, <1>2, <1>3, PTL DEF Spec

-----------------------------------------------------------------------------
(* Names. *)

(* Every name is short enough for strndup to keep the whole of it. *)
Fits == \A n \in Names : Trunc[n] = n

Distinct(tbl) == \A i, j \in DOMAIN tbl : i # j => tbl[i].name # tbl[j].name

(* acquire appends a point only under a name that no point has. *)
LEMMA AcquireDistinct ==
    ASSUME Fits, TypeOK, Distinct(point), NEW n \in Names, NEW a \in acquire(n)
    PROVE  Distinct(a.tbl)
<1>0. point \in Seq(Point) /\ Len(point) \in Nat /\ DOMAIN point = 1 .. Len(point)
    BY DEF TypeOK
<1>1. CASE a.tbl = point
    BY <1>1
<1>2. CASE a.tbl = Append(point, new_point(n)) /\ look_up(point, n) = 0
    <2>1. \A i \in 1 .. Len(point) : point[i].name # n
        BY <1>0, <1>2, LookUp
    <2>2. /\ DOMAIN a.tbl = 1 .. Len(point) + 1 /\ a.tbl[Len(point) + 1] = new_point(n)
          /\ \A i \in 1 .. Len(point) : a.tbl[i] = point[i]
        BY <1>0, <1>2
    <2>3. a.tbl[Len(point) + 1].name = n
        BY <2>2 DEF Fits, new_point
    <2> QED  BY <1>0, <2>1, <2>2, <2>3 DEF Distinct
<1> QED  BY <1>0, <1>1, <1>2, Acquire

(* An assignment to a point keeps the names distinct. *)
LEMMA SameDistinct ==
    ASSUME NEW tbl \in Seq(Point), Distinct(tbl), NEW new, SameTable(new, tbl)
    PROVE  Distinct(new)
  BY DEF Distinct, SameTable

(* Every step keeps the names distinct. *)
LEMMA DistinctNext ==
    ASSUME Fits
    PROVE  TypeInv /\ Distinct(point) /\ [Next]_vars => Distinct(point')
<1> SUFFICES ASSUME TypeInv, Distinct(point), [Next]_vars PROVE Distinct(point')
    OBVIOUS
<1>0. TypeOK /\ ControlOK /\ point \in Seq(Point)
    BY DEF TypeInv, TypeOK
<1>1. CASE point' = point
    BY <1>1
<1>2. CASE \E t \in Threads : ds_wait_locked(t) \/ ds_exec_locked(t)
    <2>1. PICK t \in Threads : ds_wait_locked(t) \/ ds_exec_locked(t)
        BY <1>2
    <2>2. call[t].name \in Names
        BY <1>0, <2>1 DEF ControlOK, ds_wait_locked, ds_exec_locked, Region
    <2>3. \/ point' = point
          \/ \E a \in acquire(call[t].name) :
                point' = a.tbl \/ SameTable(point', a.tbl)
        BY <2>1, WaitShape, ExecShape DEF CountedUp, SyncwaitSet
    <2>4. \A a \in acquire(call[t].name) : Distinct(a.tbl) /\ a.tbl \in Seq(Point)
        BY <1>0, <2>2, AcquireDistinct, AcquireType
    <2> QED  BY <2>3, <2>4, SameDistinct
<1>3. CASE \E t \in Threads : ds_exec_resume(t)
    <2>1. point' = point \/ SameTable(point', point)
        BY <1>3, ExecResumeShape DEF SyncwaitSet
    <2> QED  BY <1>0, <2>1, SameDistinct
<1>4. CASE \E t \in Threads : ds_unblock_locked(t) \/ ds_enable_locked(t)
    <2>1. PICK t \in Threads : ds_unblock_locked(t) \/ ds_enable_locked(t)
        BY <1>4
    <2> DEFINE i == look_up(point, call[t].name)
    <2>2. point' = point \/ (i # 0 /\ (unblock(i) \/ set_enabled(i, call[t].flag)))
        BY <2>1 DEF ds_unblock_locked, ds_enable_locked
    <2>3. i # 0 => i \in 1 .. Len(point)
        BY <1>0, LookUp
    <2>4. call[t].flag \in BOOLEAN
        BY <1>0 DEF TypeOK, Call
    <2> HIDE DEF i
    <2>5. point' = point \/ SameTable(point', point)
        BY <2>2, <2>3, <2>4, UnblockTable, EnableShape
    <2> QED  BY <1>0, <2>5, SameDistinct
<1>5. CASE disable_all
    <2>1. SameTable(point', point)
        BY <1>0, <1>5, DisableAllStep DEF SameTable
    <2> QED  BY <1>0, <2>1, SameDistinct
<1>6. CASE ds_init
    BY <1>6 DEF ds_init, Distinct
<1>7. CASE ds_destroy \/ UNCHANGED vars \/ \E t \in Threads :
             \/ Start(t) \/ spurious_wakeup(t) \/ ds_unblock(t)
             \/ ds_activate_store(t) \/ ds_activate_unlock(t) \/ ds_wait_resume(t)
    BY <1>1, <1>7 DEF vars, ds_destroy, Start, ds_wait, ds_exec, ds_enable, ds_disable_all,
             ds_activate, Begin, spurious_wakeup, ds_unblock, ds_activate_store,
             ds_activate_unlock, ds_wait_resume
<1>8. CASE \E t \in Threads : ds_disable_all_locked(t) \/ ds_activate_locked(t)
    BY <1>1, <1>5, <1>8 DEF ds_disable_all_locked, ds_activate_locked
<1> QED  BY <1>2, <1>3, <1>4, <1>6, <1>7, <1>8 DEF Next, Progress

(* Each point has a "unique name to use as ID" (debugsync.c:38), as long as no
   name is longer than strndup keeps: two threads that reach a point for the
   first time at once still create it once. *)
THEOREM NamesUnique ==
    ASSUME Fits
    PROVE  Spec => []UniqueNames
<1>1. Init => TypeInv /\ Distinct(point)
    BY TypeInit DEF Init, Distinct
<1>2. TypeInv /\ Distinct(point) /\ [Next]_vars => TypeInv' /\ Distinct(point)'
    BY TypeNext, DistinctNext
<1>3. Distinct(point) => UniqueNames
    BY DEF Distinct, UniqueNames
<1> QED  BY <1>1, <1>2, <1>3, PTL DEF Spec

=============================================================================
