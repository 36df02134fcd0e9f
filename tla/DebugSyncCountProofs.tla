------------------------- MODULE DebugSyncCountProofs -------------------------
(* The counts of DebugSync: ds_unblock never finds nblocked = 0 as long as the
   facility is never switched off locally, no ds_wait sleeps through its
   broadcast then, and in a pure rendezvous the counts are exact, ds_exec
   outlasts the sections it released, and the facility is SyncPoints. *)
EXTENDS DebugSyncProofs

(* The first point of a name is what look_up returns. *)
LEMMA LookUpFirst ==
    ASSUME NEW tbl \in Seq(Point), NEW n, NEW i \in 1 .. Len(tbl), tbl[i].name = n,
           \A j \in 1 .. i - 1 : tbl[j].name # n
    PROVE  look_up(tbl, n) = i
<1>1. /\ look_up(tbl, n) \in 1 .. Len(tbl)
      /\ tbl[look_up(tbl, n)].name = n
      /\ \A j \in 1 .. look_up(tbl, n) - 1 : tbl[j].name # n
    BY LookUp
<1>2. ~(look_up(tbl, n) < i)
    BY <1>1
<1>3. ~(i < look_up(tbl, n))
    BY <1>1
<1> QED  BY <1>1, <1>2, <1>3

(* A table that grew, its old points keeping their names. *)
NamesKept(new, tbl) ==
    /\ Len(tbl) <= Len(new)
    /\ \A j \in 1 .. Len(tbl) : new[j].name = tbl[j].name

(* A point that was found stays where it is. *)
LEMMA LookUpKept ==
    ASSUME NEW tbl \in Seq(Point), NEW new \in Seq(Point), NamesKept(new, tbl), NEW n,
           look_up(tbl, n) # 0
    PROVE  look_up(new, n) = look_up(tbl, n)
<1> DEFINE i == look_up(tbl, n)
<1>1. /\ i \in 1 .. Len(tbl) /\ tbl[i].name = n /\ \A j \in 1 .. i - 1 : tbl[j].name # n
    BY LookUp
<1> HIDE DEF i
<1>2. /\ i \in 1 .. Len(new) /\ new[i].name = n /\ \A j \in 1 .. i - 1 : new[j].name # n
    BY <1>1 DEF NamesKept
<1>3. look_up(new, n) = i
    BY <1>2, LookUpFirst
<1> QED  BY <1>3 DEF i

(* A name that strndup cuts is never found. *)
LEMMA LongNotFound ==
    ASSUME NEW tbl \in Seq(Point), NEW n \in Names, Trunc[n] # n
    PROVE  look_up(tbl, n) = 0
<1> SUFFICES ASSUME look_up(tbl, n) # 0 PROVE FALSE
    OBVIOUS
<1>1. PICK i \in 1 .. Len(tbl) : tbl[i].name = n
    BY LookUp
<1>2. tbl[i] \in Point
    OBVIOUS
<1>3. PICK m \in Names : n = Trunc[m]
    BY <1>1, <1>2 DEF Point
<1> QED  BY <1>3, TruncAssumption

(* After acquire, look_up finds the point acquired, unless its name was cut. *)
LEMMA AcquireFound ==
    ASSUME TypeOK, NEW n \in Names, NEW a \in acquire(n), a.i # 0, Trunc[n] = n
    PROVE  look_up(a.tbl, n) = a.i
<1>0. point \in Seq(Point) /\ a.tbl \in Seq(Point) /\ Len(point) \in Nat
    BY AcquireType DEF TypeOK
<1>1. CASE a.tbl = point /\ a.i = look_up(point, n)
    BY <1>1
<1>2. CASE /\ a.tbl = Append(point, new_point(n)) /\ a.i = Len(point) + 1
           /\ look_up(point, n) = 0
    <2>1. \A j \in 1 .. Len(point) : point[j].name # n
        BY <1>0, <1>2, LookUp
    <2>2. /\ a.i \in 1 .. Len(a.tbl) /\ a.tbl[a.i] = new_point(n)
          /\ \A j \in 1 .. a.i - 1 : a.tbl[j] = point[j]
        BY <1>0, <1>2
    <2>3. /\ a.tbl[a.i].name = n
          /\ \A j \in 1 .. a.i - 1 : a.tbl[j].name # n
        BY <1>0, <1>2, <2>1, <2>2 DEF new_point
    <2> DEFINE tbl == a.tbl  k == a.i
    <2>4. /\ tbl \in Seq(Point) /\ k \in 1 .. Len(tbl) /\ tbl[k].name = n
          /\ \A j \in 1 .. k - 1 : tbl[j].name # n
        BY <1>0, <2>2, <2>3
    <2> HIDE DEF tbl, k
    <2>5. look_up(tbl, n) = k
        BY <2>4, LookUpFirst
    <2> QED  BY <2>5 DEF tbl, k
<1> QED  BY <1>0, <1>1, <1>2, Acquire

(* Counting: how a count that covers a set of threads may change with it. *)
LEMMA Cover ==
    ASSUME NEW S \in SUBSET Threads, NEW T \in SUBSET Threads, NEW t \in Threads,
           NEW k \in Nat, k >= Cardinality(S)
    PROVE  /\ T \subseteq S => k >= Cardinality(T)
           /\ T \subseteq S \cup {t} => k + 1 >= Cardinality(T)
           /\ t \in S /\ T \subseteq S \ {t} => k >= 1 /\ k - 1 >= Cardinality(T)
<1>1. IsFiniteSet(S) /\ Cardinality(S) \in Nat /\ IsFiniteSet(T) /\ Cardinality(T) \in Nat
    BY ThreadsAssumption, FS_Subset, FS_CardinalityType
<1>2. ASSUME T \subseteq S PROVE k >= Cardinality(T)
    <2>1. Cardinality(T) <= Cardinality(S)
        BY <1>1, <1>2, FS_Subset
    <2> QED  BY <1>1, <2>1
<1>3. ASSUME T \subseteq S \cup {t} PROVE k + 1 >= Cardinality(T)
    <2>0. /\ IsFiniteSet(S \cup {t})
          /\ Cardinality(S \cup {t}) = IF t \in S THEN Cardinality(S) ELSE Cardinality(S) + 1
        BY <1>1, FS_AddElement
    <2>1. /\ IsFiniteSet(S \cup {t}) /\ Cardinality(S \cup {t}) \in Nat
          /\ Cardinality(S \cup {t}) <= Cardinality(S) + 1
        BY <1>1, <2>0
    <2>2. Cardinality(T) <= Cardinality(S \cup {t})
        BY <2>1, <1>3, FS_Subset
    <2> QED  BY <1>1, <2>1, <2>2
<1>4. ASSUME t \in S, T \subseteq S \ {t} PROVE k >= 1 /\ k - 1 >= Cardinality(T)
    <2>1. /\ IsFiniteSet(S \ {t})
          /\ Cardinality(S \ {t}) = Cardinality(S) - 1
        BY <1>1, <1>4, FS_RemoveElement
    <2>2. Cardinality(S \ {t}) \in Nat
        BY <2>1, FS_CardinalityType
    <2>3. Cardinality(T) <= Cardinality(S \ {t})
        BY <2>1, <1>4, FS_Subset
    <2> QED  BY <1>1, <2>1, <2>2, <2>3
<1> QED  BY <1>2, <1>3, <1>4

(* A count that covers a nonempty set is positive. *)
LEMMA CoverPositive ==
    ASSUME NEW S \in SUBSET Threads, NEW t \in S, NEW k \in Nat, k >= Cardinality(S)
    PROVE  k >= 1
<1>1. IsFiniteSet(S)
    BY ThreadsAssumption, FS_Subset
<1>2. Cardinality(S) \in Nat /\ Cardinality(S) # 0
    BY <1>1, FS_CardinalityType, FS_EmptySet
<1> QED  BY <1>2

-----------------------------------------------------------------------------
(* The facility is never off for its callers: ds_init asks for DS_GLOBAL, or
   for DS_ACTIVE in a program that never switches it off. *)
AllGlobal == \A f \in InitFlags : "DS_GLOBAL" \in f

Listening ==
    \/ AllGlobal
    \/ /\ \A f \in InitFlags : "DS_ACTIVE" \in f
       /\ \A t \in Threads : Activate(FALSE) \notin Program[t]

ListenOK ==
    /\ life = "up" => IF AllGlobal THEN "DS_GLOBAL" \in activation
                                   ELSE "DS_ACTIVE" \in activation
    /\ \A t \in Threads :
        /\ pc[t] = "locked" => call[t].fn = "ds_activate"
        /\ pc[t] \in {"lock", "locked"} /\ call[t].fn = "ds_activate" => call[t] \in Program[t]

(* A call with a point found it under its name, and a section has a point. *)
PointOK ==
    \A t \in Threads :
        /\ pt[t] # 0 => call[t].fn \in {"ds_wait", "ds_exec", "ds_unblock"}
        /\ pt[t] # 0 /\ Trunc[call[t].name] = call[t].name
                => look_up(point, call[t].name) = pt[t]
        /\ pc[t] = "section" => pt[t] # 0
        /\ pc[t] = "lock" /\ call[t].fn = "ds_unblock" => pt[t] # 0

CountInv == TypeInv /\ ListenOK /\ PointOK /\ NblockedCoversSections /\ Alive

(* While the facility is up, the unlocked test lets every call in. *)
LEMMA NotLocalInactive ==
    ASSUME ListenOK, life = "up"
    PROVE  ~local_inactive
  BY DEF ListenOK, local_inactive

(* Facts about a thread inside the facility. *)
LEMMA BusyUp ==
    ASSUME TypeInv, NEW t \in Threads, pc[t] # "idle"
    PROVE  life = "up"
  BY DEF TypeInv, TypeOK, ControlOK

(* A region leaves ListenOK as it is when its thread leaves the lock. *)
LEMMA ListenRegion ==
    ASSUME TypeInv, ListenOK, NEW t \in Threads,
           NEW l \in {"idle", "cond", "section", "aborted"}, NEW i, NEW r, Becomes(t, l, i, r),
           NEW lbl, NEW fn, Region(t, lbl, fn)
    PROVE  ListenOK'
  BY DEF TypeInv, TypeOK, ListenOK, Becomes, Region, AllGlobal

(* PointOK after a region that keeps the names: only t's own point is new. *)
LEMMA PointRegion ==
    ASSUME TypeInv, TypeInv', PointOK, NEW t \in Threads, NamesKept(point', point),
           NEW l \in {"idle", "cond", "section", "aborted"}, NEW i, NEW r, Becomes(t, l, i, r),
           NEW lbl, NEW fn, Region(t, lbl, fn),
           l = "section" => i # 0,
           i # 0 => /\ fn \in {"ds_wait", "ds_exec", "ds_unblock"}
                    /\ Trunc[call[t].name] = call[t].name
                          => look_up(point', call[t].name) = i
    PROVE  PointOK'
<1>0. /\ point \in Seq(Point) /\ point' \in Seq(Point) /\ call' = call
      /\ pc'[t] = l /\ pt'[t] = i /\ call[t].fn = fn
      /\ \A u \in Threads \ {t} : pc'[u] = pc[u] /\ pt'[u] = pt[u]
    BY DEF TypeInv, TypeOK, Becomes, Region
<1>1. \A n : look_up(point, n) # 0 => look_up(point', n) = look_up(point, n)
    BY <1>0, LookUpKept
<1>2. SUFFICES ASSUME NEW u \in Threads
               PROVE  /\ pt'[u] # 0 => call[u].fn \in {"ds_wait", "ds_exec", "ds_unblock"}
                      /\ pt'[u] # 0 /\ Trunc[call[u].name] = call[u].name
                            => look_up(point', call[u].name) = pt'[u]
                      /\ pc'[u] = "section" => pt'[u] # 0
                      /\ pc'[u] = "lock" /\ call[u].fn = "ds_unblock" => pt'[u] # 0
    BY <1>0 DEF PointOK
<1>3. CASE u = t
    BY <1>0, <1>3
<1>4. CASE u # t
    BY <1>0, <1>1, <1>4 DEF PointOK
<1> QED  BY <1>3, <1>4

(* How a region changes the sections at point j. *)
LEMMA SectionsRegion ==
    ASSUME TypeInv, NEW t \in Threads, NEW l, NEW i, NEW r, Becomes(t, l, i, r),
           NEW lbl, NEW fn, Region(t, lbl, fn), NEW j
    PROVE  /\ Sections(j) \in SUBSET Threads /\ Sections(j)' \in SUBSET Threads
           /\ Sections(j)' \subseteq Sections(j) \cup {t}
           /\ i # j => Sections(j)' \subseteq Sections(j) \ {t}
           /\ fn = "ds_exec" => Sections(j)' \subseteq Sections(j)
           /\ pt[t] = i => Sections(j)' \subseteq Sections(j)
<1>1. /\ pt'[t] = i /\ call' = call /\ call[t].fn = fn
      /\ \A u \in Threads \ {t} : pt'[u] = pt[u]
    BY DEF TypeInv, TypeOK, Becomes, Region
<1>2. /\ Sections(j) = {u \in Threads : pt[u] = j /\ call[u].fn # "ds_exec"}
      /\ Sections(j)' = {u \in Threads : pt'[u] = j /\ call[u].fn # "ds_exec"}
    BY <1>1 DEF Sections
<1> QED  BY <1>1, <1>2

(* A region that lowers no count and adds no section keeps the counts. *)
LEMMA CoverKept ==
    ASSUME TypeInv, TypeInv', NblockedCoversSections,
           Len(point') = Len(point),
           \A j \in 1 .. Len(point) : point'[j].nblocked = point[j].nblocked,
           \A j \in 1 .. Len(point) :
              /\ Sections(j) \in SUBSET Threads
              /\ Sections(j)' \subseteq Sections(j)
    PROVE  NblockedCoversSections'
<1> SUFFICES ASSUME NEW j \in 1 .. Len(point)
             PROVE  point'[j].nblocked >= Cardinality(Sections(j)')
    BY DEF NblockedCoversSections, TypeInv, TypeOK
<1>1. point[j] \in Point
    BY DEF TypeInv, TypeOK
<1>2. point[j].nblocked \in Nat
    BY <1>1 DEF Point
<1>3. point[j].nblocked >= Cardinality(Sections(j))
    BY DEF NblockedCoversSections, TypeInv, TypeOK
<1>4. IsFiniteSet(Sections(j))
    BY ThreadsAssumption, FS_Subset
<1>5. /\ IsFiniteSet(Sections(j)') /\ Cardinality(Sections(j)') <= Cardinality(Sections(j))
    BY <1>4, FS_Subset
<1>6. Cardinality(Sections(j)') \in Nat /\ Cardinality(Sections(j)) \in Nat
    BY <1>4, <1>5, FS_CardinalityType
<1> QED  BY <1>2, <1>3, <1>5, <1>6

(* The counts of the table that acquire leaves. *)
LEMMA AcquireCover ==
    ASSUME TypeInv, NblockedCoversSections, NEW n \in Names, NEW a \in acquire(n)
    PROVE  \A j \in 1 .. Len(a.tbl) :
              /\ a.tbl[j].nblocked \in Nat
              /\ a.tbl[j].nblocked >= Cardinality(Sections(j))
<1>0. /\ TypeOK /\ point \in Seq(Point) /\ Len(point) \in Nat
      /\ a.tbl \in Seq(Point) /\ Len(a.tbl) \in Len(point) .. DS_MAX_POINT_COUNT
      /\ \A j \in 1 .. Len(point) : a.tbl[j] = point[j]
    BY AcquireType DEF TypeInv, TypeOK
<1> SUFFICES ASSUME NEW j \in 1 .. Len(a.tbl)
             PROVE  a.tbl[j].nblocked \in Nat /\ a.tbl[j].nblocked >= Cardinality(Sections(j))
    OBVIOUS
<1>1. CASE j \in 1 .. Len(point)
    <2>1. point[j] \in Point
        BY <1>0, <1>1
    <2> QED  BY <1>0, <1>1, <2>1 DEF NblockedCoversSections, Point
<1>2. CASE j \notin 1 .. Len(point)
    <2>1. a.tbl = Append(point, new_point(n)) /\ j = Len(point) + 1
        BY <1>0, <1>2, Acquire
    <2>2. a.tbl[j].nblocked = 0
        BY <1>0, <2>1 DEF new_point
    <2>3. Sections(j) = {}
        BY <1>0, <2>1 DEF Sections, TypeOK
    <2> QED  BY <2>2, <2>3, FS_EmptySet
<1> QED  BY <1>1, <1>2

(* A thread that does not abort leaves the process alive. *)
LEMMA AliveKept ==
    ASSUME TypeInv, Alive, NEW t \in Threads, NEW l, l # "aborted", NEW i, NEW r,
           Becomes(t, l, i, r)
    PROVE  Alive'
  BY DEF TypeInv, TypeOK, Alive, Becomes

(* ds_wait takes the count of the section it may start. *)
LEMMA CountWait ==
    ASSUME CountInv, NEW t \in Threads, ds_wait_locked(t) \/ ds_wait_resume(t)
    PROVE  CountInv'
<1>0. TypeInv /\ TypeOK /\ ControlOK /\ ListenOK /\ PointOK /\ NblockedCoversSections /\ Alive
    BY DEF CountInv, TypeInv
<1>1. TypeInv'
    BY <1>0, TypeWait
<1>2. point \in Seq(Point) /\ point' \in Seq(Point) /\ Len(point) \in Nat
    BY <1>0, <1>1 DEF TypeInv, TypeOK
<1>3. CASE ds_wait_locked(t)
    <2>0. Region(t, "lock", "ds_wait") /\ call[t].name \in Names
        BY <1>0, <1>3 DEF ds_wait_locked, Region, ControlOK
    <2>1. CASE Becomes(t, "idle", 0, -1) /\ UNCHANGED <<point, waitset>>
        <3>1. ListenOK'
            BY <1>0, <2>0, <2>1, ListenRegion
        <3>2. NamesKept(point', point)
            BY <1>2, <2>1 DEF NamesKept
        <3>3. PointOK'
            BY <1>0, <1>1, <2>0, <2>1, <3>2, PointRegion
        <3>4. \A j \in 1 .. Len(point) :
                 Sections(j) \in SUBSET Threads /\ Sections(j)' \subseteq Sections(j)
            BY <1>0, <2>0, <2>1, SectionsRegion
        <3>5. NblockedCoversSections'
            BY <1>0, <1>1, <2>1, <3>4, CoverKept
        <3>6. Alive'
            BY <1>0, <2>1, AliveKept
        <3> QED  BY <1>1, <3>1, <3>3, <3>5, <3>6 DEF CountInv
    <2>2. CASE \E a \in acquire(call[t].name) :
                  /\ a.i # 0
                  /\ point' = [a.tbl EXCEPT ![a.i].nblocked = @ + 1]
                  /\ wait_loop(t, [a.tbl EXCEPT ![a.i].nblocked = @ + 1], a.i)
        <3>1. PICK a \in acquire(call[t].name) :
                  /\ a.i # 0
                  /\ point' = [a.tbl EXCEPT ![a.i].nblocked = @ + 1]
                  /\ wait_loop(t, [a.tbl EXCEPT ![a.i].nblocked = @ + 1], a.i)
            BY <2>2
        <3> DEFINE tbl == a.tbl  k == a.i
        <3>2. /\ tbl \in Seq(Point) /\ k \in 1 .. Len(tbl) /\ NamesKept(tbl, point)
            BY <1>0, <1>2, <2>0, <3>1, AcquireType DEF NamesKept
        <3>3. Trunc[call[t].name] = call[t].name => look_up(tbl, call[t].name) = k
            BY <1>0, <2>0, <3>1, AcquireFound
        <3>4. \A j \in 1 .. Len(tbl) :
                 tbl[j].nblocked \in Nat /\ tbl[j].nblocked >= Cardinality(Sections(j))
            BY <1>0, <2>0, AcquireCover
        <3>5. /\ point' = [tbl EXCEPT ![k].nblocked = @ + 1] /\ k # 0
              /\ \E l \in {"cond", "section", "idle"}, i \in {0, k}, r \in {0, -1} :
                    Becomes(t, l, i, r) /\ (l # "idle" => i # 0)
            BY <3>1, WaitLoopStep
        <3> HIDE DEF tbl, k
        <3>6. /\ SameTable(point', tbl)
              /\ \A j \in 1 .. Len(tbl) : j # k => point'[j] = tbl[j]
              /\ point'[k].nblocked = tbl[k].nblocked + 1
            <4> DEFINE new == [tbl EXCEPT ![k].nblocked = @ + 1]
            <4>1. /\ SameTable(new, tbl)
                  /\ \A j \in 1 .. Len(tbl) : j # k => new[j] = tbl[j]
                  /\ new[k].nblocked = tbl[k].nblocked + 1
                BY <3>2, CountUp
            <4>2. point' = new
                BY <3>5
            <4> HIDE DEF new
            <4> QED  BY <4>1, <4>2
        <3>7. NamesKept(point', point) /\ NamesKept(point', tbl)
            BY <1>2, <3>2, <3>6 DEF NamesKept, SameTable
        <3>8. Trunc[call[t].name] = call[t].name => look_up(point', call[t].name) = k
            BY <1>2, <3>2, <3>3, <3>5, <3>7, LookUpKept, ZenonT(30)
        <3>9. PICK l \in {"cond", "section", "idle"}, i \in {0, k}, r \in {0, -1} :
                  Becomes(t, l, i, r) /\ (l # "idle" => i # 0)
            BY <3>5
        <3>10. ListenOK'
            BY <1>0, <2>0, <3>9, ListenRegion
        <3>11. PointOK'
            BY <1>0, <1>1, <2>0, <3>7, <3>8, <3>9, PointRegion
        <3>12. NblockedCoversSections'
            <4> SUFFICES ASSUME NEW j \in 1 .. Len(tbl)
                         PROVE  point'[j].nblocked >= Cardinality(Sections(j)')
                BY <1>2, <3>6 DEF NblockedCoversSections, SameTable
            <4>1. /\ Sections(j) \in SUBSET Threads /\ Sections(j)' \in SUBSET Threads
                  /\ Sections(j)' \subseteq Sections(j) \cup {t}
                  /\ i # j => Sections(j)' \subseteq Sections(j) \ {t}
                BY <1>0, <2>0, <3>9, SectionsRegion
            <4>2. tbl[j].nblocked \in Nat /\ tbl[j].nblocked >= Cardinality(Sections(j))
                BY <3>4
            <4>3. CASE j = k
                <5>1. tbl[j].nblocked + 1 >= Cardinality(Sections(j)')
                    BY <4>1, <4>2, Cover
                <5> QED  BY <5>1, <4>3, <3>6
            <4>4. CASE j # k
                <5>1. i # j
                    BY <3>2, <4>4
                <5>2. tbl[j].nblocked >= Cardinality(Sections(j)')
                    BY <4>1, <4>2, <5>1, Cover
                <5> QED  BY <5>2, <4>4, <3>6
            <4> QED  BY <4>3, <4>4
        <3>13. Alive'
            BY <1>0, <3>9, AliveKept
        <3> QED  BY <1>1, <3>10, <3>11, <3>12, <3>13 DEF CountInv
    <2> QED  BY <1>3, <2>1, <2>2 DEF ds_wait_locked, Return
<1>4. CASE ds_wait_resume(t)
    <2>1. Region(t, "cond", "ds_wait") /\ point' = point
        BY <1>4 DEF ds_wait_resume
    <2>2. PICK l \in {"cond", "section", "idle"}, i \in {0, pt[t]}, r \in {0, -1} :
              Becomes(t, l, i, r) /\ (l # "idle" => i # 0)
        <3>1. pt[t] # 0
            BY <1>0, <2>1 DEF ControlOK, Region
        <3>2. wait_loop(t, point, pt[t])
            BY <1>4 DEF ds_wait_resume
        <3> QED  BY <3>1, <3>2, WaitLoopStep
    <2>3. ListenOK'
        BY <1>0, <2>1, <2>2, ListenRegion
    <2>4. NamesKept(point', point)
        BY <1>2, <2>1 DEF NamesKept
    <2>5. PointOK'
        <3>1. i # 0 => (Trunc[call[t].name] = call[t].name => look_up(point', call[t].name) = i)
            BY <1>0, <2>1, <2>2 DEF PointOK
        <3> QED  BY <1>0, <1>1, <2>1, <2>2, <2>4, <3>1, PointRegion
    <2>6. \A j \in 1 .. Len(point) :
             Sections(j) \in SUBSET Threads /\ Sections(j)' \subseteq Sections(j)
        BY <1>0, <2>1, <2>2, SectionsRegion
    <2>7. NblockedCoversSections'
        BY <1>0, <1>1, <2>1, <2>6, CoverKept
    <2>8. Alive'
        BY <1>0, <2>2, AliveKept
    <2> QED  BY <1>1, <2>3, <2>5, <2>7, <2>8 DEF CountInv
<1> QED  BY <1>3, <1>4

(* ds_exec changes no count. *)
LEMMA ExecCounts ==
    ASSUME TypeInv, NEW t \in Threads, ds_exec_locked(t)
    PROVE  \/ \E r \in {0, -1} : Becomes(t, "idle", 0, r) /\ point' = point
           \/ \E a \in acquire(call[t].name) : \E l \in {"idle", "cond"}, i \in {0, a.i}, r \in {0, -1} :
                 /\ a.i # 0 /\ Becomes(t, l, i, r)
                 /\ SameTable(point', a.tbl)
                 /\ \A j \in 1 .. Len(a.tbl) : point'[j].nblocked = a.tbl[j].nblocked
<1>1. CASE \E r \in {0, -1} : Becomes(t, "idle", 0, r) /\ UNCHANGED <<point, waitset>>
    BY <1>1
<1>2. CASE \E a \in acquire(call[t].name) :
              /\ Grown(a.tbl) /\ a.i \in 1 .. Len(a.tbl)
              /\ \E l \in {"idle", "cond"}, i \in {0, a.i}, r \in {0, -1} : Becomes(t, l, i, r)
              /\ point' = a.tbl \/ \E b \in BOOLEAN : SyncwaitSet(point', a.tbl, a.i, b)
    <2>1. PICK a \in acquire(call[t].name) :
              /\ Grown(a.tbl) /\ a.i \in 1 .. Len(a.tbl)
              /\ \E l \in {"idle", "cond"}, i \in {0, a.i}, r \in {0, -1} : Becomes(t, l, i, r)
              /\ point' = a.tbl \/ \E b \in BOOLEAN : SyncwaitSet(point', a.tbl, a.i, b)
        BY <1>2
    <2>2. /\ SameTable(point', a.tbl)
          /\ \A j \in 1 .. Len(a.tbl) : point'[j].nblocked = a.tbl[j].nblocked
        BY <2>1 DEF Grown, SyncwaitSet, SameTable
    <2>3. a.i # 0
        BY <2>1
    <2> QED  BY <2>1, <2>2, <2>3
<1> QED  BY <1>1, <1>2, ExecShape

(* ds_exec leaves the counts alone. *)
LEMMA CountExec ==
    ASSUME CountInv, NEW t \in Threads, ds_exec_locked(t) \/ ds_exec_resume(t)
    PROVE  CountInv'
<1>0. TypeInv /\ TypeOK /\ ControlOK /\ ListenOK /\ PointOK /\ NblockedCoversSections /\ Alive
    BY DEF CountInv, TypeInv
<1>1. TypeInv'
    BY <1>0, TypeExec
<1>2. point \in Seq(Point) /\ point' \in Seq(Point) /\ Len(point) \in Nat
    BY <1>0, <1>1 DEF TypeInv, TypeOK
<1>3. PICK lbl \in {"lock", "cond"} : Region(t, lbl, "ds_exec")
    BY DEF ds_exec_locked, ds_exec_resume
<1>4. call[t].name \in Names
    BY <1>0, <1>3 DEF ControlOK, Region
<1>5. ASSUME NEW l \in {"idle", "cond"}, NEW i, NEW r \in {0, -1}, Becomes(t, l, i, r),
             NamesKept(point', point), NblockedCoversSections',
             i # 0 => (Trunc[call[t].name] = call[t].name => look_up(point', call[t].name) = i)
      PROVE  CountInv'
    <2>1. ListenOK'
        BY <1>0, <1>3, <1>5, ListenRegion
    <2>2. PointOK'
        BY <1>0, <1>1, <1>3, <1>5, PointRegion
    <2>3. Alive'
        BY <1>0, <1>5, AliveKept
    <2> QED  BY <1>1, <1>5, <2>1, <2>2, <2>3 DEF CountInv
<1>6. CASE \E l \in {"idle", "cond"}, i \in {0, pt[t]}, r \in {0, -1} :
             /\ Becomes(t, l, i, r) /\ SameTable(point', point)
             /\ \A j \in 1 .. Len(point) : point'[j].nblocked = point[j].nblocked
    <2>1. PICK l \in {"idle", "cond"}, i \in {0, pt[t]}, r \in {0, -1} :
             /\ Becomes(t, l, i, r) /\ SameTable(point', point)
             /\ \A j \in 1 .. Len(point) : point'[j].nblocked = point[j].nblocked
        BY <1>6
    <2>2. NamesKept(point', point) /\ Len(point') = Len(point)
        BY <1>2, <2>1 DEF NamesKept, SameTable
    <2>3. \A j \in 1 .. Len(point) :
             Sections(j) \in SUBSET Threads /\ Sections(j)' \subseteq Sections(j)
        BY <1>0, <1>3, <2>1, SectionsRegion
    <2>4. NblockedCoversSections'
        BY <1>0, <1>1, <2>1, <2>2, <2>3, CoverKept
    <2>5. i # 0 => (Trunc[call[t].name] = call[t].name => look_up(point', call[t].name) = i)
        <3> SUFFICES ASSUME i # 0, Trunc[call[t].name] = call[t].name
                     PROVE  look_up(point', call[t].name) = i
            OBVIOUS
        <3>1. look_up(point, call[t].name) = i
            BY <1>0, <2>1 DEF PointOK
        <3> QED  BY <1>2, <2>2, <3>1, LookUpKept
    <2> QED  BY <1>5, <2>1, <2>2, <2>4, <2>5
<1>7. CASE \E a \in acquire(call[t].name) : \E l \in {"idle", "cond"}, i \in {0, a.i}, r \in {0, -1} :
             /\ a.i # 0 /\ Becomes(t, l, i, r)
             /\ SameTable(point', a.tbl)
             /\ \A j \in 1 .. Len(a.tbl) : point'[j].nblocked = a.tbl[j].nblocked
    <2>0. PICK a \in acquire(call[t].name) :
             \E l \in {"idle", "cond"}, i \in {0, a.i}, r \in {0, -1} :
             /\ a.i # 0 /\ Becomes(t, l, i, r)
             /\ SameTable(point', a.tbl)
             /\ \A j \in 1 .. Len(a.tbl) : point'[j].nblocked = a.tbl[j].nblocked
        BY <1>7
    <2>1. PICK l \in {"idle", "cond"}, i \in {0, a.i}, r \in {0, -1} :
             /\ a.i # 0 /\ Becomes(t, l, i, r)
             /\ SameTable(point', a.tbl)
             /\ \A j \in 1 .. Len(a.tbl) : point'[j].nblocked = a.tbl[j].nblocked
        BY <2>0
    <2> DEFINE tbl == a.tbl  k == a.i
    <2>2. /\ tbl \in Seq(Point) /\ k \in 1 .. Len(tbl) /\ NamesKept(tbl, point)
        BY <1>0, <1>2, <1>4, <2>1, AcquireType DEF NamesKept
    <2>3. Trunc[call[t].name] = call[t].name => look_up(tbl, call[t].name) = k
        BY <1>0, <1>4, <2>1, AcquireFound
    <2>4. \A j \in 1 .. Len(tbl) :
             tbl[j].nblocked \in Nat /\ tbl[j].nblocked >= Cardinality(Sections(j))
        BY <1>0, <1>4, AcquireCover
    <2>5. /\ SameTable(point', tbl) /\ k # 0 /\ i \in {0, k}
          /\ \A j \in 1 .. Len(tbl) : point'[j].nblocked = tbl[j].nblocked
        BY <2>1
    <2> HIDE DEF tbl, k
    <2>6. NamesKept(point', point) /\ NamesKept(point', tbl)
        BY <1>2, <2>2, <2>5 DEF NamesKept, SameTable
    <2>7. i # 0 => (Trunc[call[t].name] = call[t].name => look_up(point', call[t].name) = i)
        BY <1>2, <2>2, <2>3, <2>5, <2>6, LookUpKept
    <2>8. NblockedCoversSections'
        <3> SUFFICES ASSUME NEW j \in 1 .. Len(tbl)
                     PROVE  point'[j].nblocked >= Cardinality(Sections(j)')
            BY <1>2, <2>5 DEF NblockedCoversSections, SameTable
        <3>1. /\ Sections(j) \in SUBSET Threads /\ Sections(j)' \in SUBSET Threads
              /\ Sections(j)' \subseteq Sections(j)
            BY <1>0, <1>3, <2>1, SectionsRegion
        <3>2. tbl[j].nblocked >= Cardinality(Sections(j)')
            BY <2>4, <3>1, Cover
        <3> QED  BY <2>5, <3>2
    <2> QED  BY <1>5, <2>1, <2>6, <2>7, <2>8
<1>8. CASE ds_exec_locked(t)
    <2>1. CASE \E r \in {0, -1} : Becomes(t, "idle", 0, r) /\ point' = point
        BY <1>2, <1>6, <2>1 DEF SameTable
    <2> QED  BY <1>0, <1>7, <1>8, <2>1, ExecCounts
<1>9. CASE ds_exec_resume(t)
    <2>1. exec_loop(t, point, pt[t], waitset) /\ pt[t] \in 1 .. Len(point)
        BY <1>0, <1>9 DEF ds_exec_resume, Region, TypeOK, ControlOK
    <2>3. point' = point \/ point' = [point EXCEPT ![pt[t]].in_syncwait = FALSE]
        BY <2>1 DEF exec_loop
    <2>4. \E l \in {"idle", "cond"}, i \in {0, pt[t]}, r \in {0, -1} : Becomes(t, l, i, r)
        BY <2>1 DEF exec_loop, Return
    <2>5. /\ SameTable(point', point)
          /\ \A j \in 1 .. Len(point) : point'[j].nblocked = point[j].nblocked
        <3>1. CASE point' = point
            BY <1>2, <3>1 DEF SameTable
        <3>2. CASE point' = [point EXCEPT ![pt[t]].in_syncwait = FALSE]
            <4>1. SyncwaitSet(point', point, pt[t], FALSE)
                BY <1>2, <2>1, <3>2, SyncwaitAssign, Zenon
            <4> QED  BY <4>1 DEF SyncwaitSet
        <3> QED  BY <2>3, <3>1, <3>2
    <2> QED  BY <1>6, <2>4, <2>5
<1> QED  BY <1>8, <1>9

(* ds_unblock gives back the count its section took: its point still has it,
   so the assertion holds. *)
LEMMA CountUnblock ==
    ASSUME CountInv, NEW t \in Threads, ds_unblock_locked(t)
    PROVE  CountInv'
<1> DEFINE i == look_up(point, call[t].name)
<1>0. TypeInv /\ TypeOK /\ ControlOK /\ ListenOK /\ PointOK /\ NblockedCoversSections /\ Alive
    BY DEF CountInv, TypeInv
<1>1. TypeInv'
    BY <1>0, TypeUnblock
<1>2. point \in Seq(Point) /\ point' \in Seq(Point) /\ Len(point) \in Nat
    BY <1>0, <1>1 DEF TypeInv, TypeOK
<1>3. /\ Region(t, "lock", "ds_unblock") /\ call[t].name \in Names /\ pt[t] # 0
      /\ call[t].fn = "ds_unblock"
    BY <1>0 DEF ds_unblock_locked, Region, ControlOK, PointOK
<1>4. ASSUME i # 0
      PROVE  /\ i \in 1 .. Len(point) /\ i = pt[t] /\ t \in Sections(i)
             /\ Sections(i) \in SUBSET Threads
             /\ point[i].nblocked \in Nat /\ point[i].nblocked >= Cardinality(Sections(i))
             /\ point[i].nblocked >= 1
    <2>1. i \in 1 .. Len(point)
        BY <1>2, <1>4, LookUp
    <2>2. i = pt[t]
        BY <1>0, <1>2, <1>3, <1>4, LongNotFound DEF PointOK
    <2>3. t \in Sections(i) /\ Sections(i) \in SUBSET Threads
        BY <1>3, <2>2 DEF Sections
    <2>4. point[i] \in Point
        BY <1>2, <2>1
    <2>5. point[i].nblocked \in Nat /\ point[i].nblocked >= Cardinality(Sections(i))
        BY <1>0, <1>2, <2>1, <2>4 DEF NblockedCoversSections, Point
    <2>6. point[i].nblocked >= 1
        BY <2>3, <2>5, CoverPositive
    <2> QED  BY <2>1, <2>2, <2>3, <2>5, <2>6
<1>5. \/ Becomes(t, "idle", 0, -1) /\ UNCHANGED <<point, waitset>>
      \/ i # 0 /\ point[i].nblocked = 0
      \/ i # 0 /\ unblock(i) /\ Becomes(t, "idle", 0, 0)
    BY DEF ds_unblock_locked, Return
<1> HIDE DEF i
<1>6. CASE Becomes(t, "idle", 0, -1) /\ UNCHANGED <<point, waitset>>
    <2>1. NamesKept(point', point)
        BY <1>2, <1>6 DEF NamesKept
    <2>2. ListenOK' /\ PointOK' /\ Alive'
        BY <1>0, <1>1, <1>3, <1>6, <2>1, ListenRegion, PointRegion, AliveKept
    <2>3. \A j \in 1 .. Len(point) :
             Sections(j) \in SUBSET Threads /\ Sections(j)' \subseteq Sections(j)
        BY <1>0, <1>3, <1>6, SectionsRegion
    <2>4. NblockedCoversSections'
        BY <1>0, <1>1, <1>6, <2>3, CoverKept
    <2> QED  BY <1>1, <2>2, <2>4 DEF CountInv
<1>7. CASE i # 0 /\ unblock(i) /\ Becomes(t, "idle", 0, 0)
    <2>1. /\ SameTable(point', point)
          /\ \A j \in 1 .. Len(point) : j # i => point'[j] = point[j]
          /\ point'[i].nblocked = point[i].nblocked - 1
        BY <1>0, <1>4, <1>7, UnblockTable
    <2>2. NamesKept(point', point)
        BY <1>2, <2>1 DEF NamesKept, SameTable
    <2>3. ListenOK' /\ PointOK' /\ Alive'
        BY <1>0, <1>1, <1>3, <1>7, <2>2, ListenRegion, PointRegion, AliveKept
    <2>4. NblockedCoversSections'
        <3> SUFFICES ASSUME NEW j \in 1 .. Len(point)
                     PROVE  point'[j].nblocked >= Cardinality(Sections(j)')
            BY <1>2, <2>1 DEF NblockedCoversSections, SameTable
        <3>1. /\ Sections(j) \in SUBSET Threads /\ Sections(j)' \in SUBSET Threads
              /\ Sections(j)' \subseteq Sections(j) \ {t}
            BY <1>0, <1>3, <1>7, SectionsRegion
        <3>2. point[j] \in Point
            BY <1>2
        <3>3. point[j].nblocked \in Nat /\ point[j].nblocked >= Cardinality(Sections(j))
            BY <1>0, <1>2, <3>2 DEF NblockedCoversSections, Point
        <3>4. CASE j = i
            <4>1. point[j].nblocked - 1 >= Cardinality(Sections(j)')
                BY <1>4, <1>7, <3>1, <3>3, <3>4, Cover
            <4> QED  BY <2>1, <3>4, <4>1
        <3>5. CASE j # i
            <4>1. point[j].nblocked >= Cardinality(Sections(j)')
                BY <3>1, <3>3, Cover
            <4> QED  BY <2>1, <3>5, <4>1
        <3> QED  BY <3>4, <3>5
    <2> QED  BY <1>1, <2>3, <2>4 DEF CountInv
<1> QED  BY <1>4, <1>5, <1>6, <1>7

(* The controllers under the mutex leave names and counts alone. *)
LEMMA ControlTable ==
    ASSUME TypeInv, NEW t \in Threads,
           ds_enable_locked(t) \/ ds_disable_all_locked(t) \/ ds_activate_locked(t)
    PROVE  /\ SameTable(point', point)
           /\ \A j \in 1 .. Len(point) : /\ point'[j].nblocked = point[j].nblocked
                                         /\ point'[j].in_syncwait = point[j].in_syncwait
<1>0. point \in Seq(Point) /\ call[t].flag \in BOOLEAN
    BY DEF TypeInv, TypeOK, Call
<1>1. CASE point' = point
    BY <1>0, <1>1 DEF SameTable
<1>2. CASE disable_all
    BY <1>0, <1>2, DisableAllStep DEF SameTable
<1>3. CASE \E i \in 1 .. Len(point) : point' = [point EXCEPT ![i].is_enabled = call[t].flag]
    <2>1. PICK i \in 1 .. Len(point) : point' = [point EXCEPT ![i].is_enabled = call[t].flag]
        BY <1>3
    <2> DEFINE new == [point EXCEPT ![i].is_enabled = call[t].flag]
    <2>2. /\ SameTable(new, point)
          /\ \A j \in 1 .. Len(point) : j # i => new[j] = point[j]
          /\ new[i].in_syncwait = point[i].in_syncwait
          /\ new[i].nblocked = point[i].nblocked
        BY <1>0, SetEnabled
    <2>3. point' = new
        BY <2>1
    <2> HIDE DEF new
    <2> QED  BY <2>2, <2>3
<1>4. look_up(point, call[t].name) # 0 => look_up(point, call[t].name) \in 1 .. Len(point)
    BY <1>0, LookUp
<1> QED  BY <1>1, <1>2, <1>3, <1>4
         DEF ds_enable_locked, ds_disable_all_locked, ds_activate_locked, set_enabled

(* ds_enable and ds_disable_all keep the counts. *)
LEMMA CountEnable ==
    ASSUME CountInv, NEW t \in Threads, ds_enable_locked(t) \/ ds_disable_all_locked(t)
    PROVE  CountInv'
<1>0. TypeInv /\ ListenOK /\ PointOK /\ NblockedCoversSections /\ Alive
    BY DEF CountInv
<1>1. TypeInv'
    BY <1>0, TypeEnable, TypeDisableAll
<1>2. point \in Seq(Point) /\ Len(point) \in Nat
    BY <1>0 DEF TypeInv, TypeOK
<1>3. PICK fn \in {"ds_enable", "ds_disable_all"}, r \in {0, -1} : Region(t, "lock", fn) /\ Becomes(t, "idle", 0, r)
    BY DEF ds_enable_locked, ds_disable_all_locked, Return
<1>4. /\ SameTable(point', point)
      /\ \A j \in 1 .. Len(point) : point'[j].nblocked = point[j].nblocked
    BY <1>0, ControlTable
<1>5. NamesKept(point', point) /\ Len(point') = Len(point)
    BY <1>2, <1>4 DEF NamesKept, SameTable
<1>6. ListenOK' /\ PointOK' /\ Alive'
    BY <1>0, <1>1, <1>3, <1>5, ListenRegion, PointRegion, AliveKept
<1>7. \A j \in 1 .. Len(point) :
         Sections(j) \in SUBSET Threads /\ Sections(j)' \subseteq Sections(j)
    BY <1>0, <1>3, SectionsRegion
<1>8. NblockedCoversSections'
    BY <1>0, <1>1, <1>4, <1>5, <1>7, CoverKept
<1> QED  BY <1>1, <1>6, <1>8 DEF CountInv

(* ds_activate keeps the counts, and never switches a local facility off. *)
LEMMA CountActivate ==
    ASSUME Listening, CountInv, NEW t \in Threads,
           ds_activate_store(t) \/ ds_activate_locked(t) \/ ds_activate_unlock(t)
    PROVE  CountInv'
<1>0. TypeInv /\ TypeOK /\ ControlOK /\ ListenOK /\ PointOK /\ NblockedCoversSections /\ Alive
    BY DEF CountInv, TypeInv
<1>1. TypeInv'
    BY <1>0, TypeActivate
<1>2. point \in Seq(Point) /\ point' \in Seq(Point) /\ Len(point) \in Nat
    BY <1>0, <1>1 DEF TypeInv, TypeOK
<1>3. PICK l \in {"idle", "locked"} : Becomes(t, l, 0, 0)
    BY DEF ds_activate_store, ds_activate_locked, ds_activate_unlock, Return
<1>4. /\ SameTable(point', point)
      /\ \A j \in 1 .. Len(point) : point'[j].nblocked = point[j].nblocked
    <2>1. CASE point' = point
        BY <1>2, <2>1 DEF SameTable
    <2> QED  BY <1>0, <2>1, ControlTable DEF ds_activate_store, ds_activate_unlock
<1>5. /\ pc'[t] = l /\ pt'[t] = 0 /\ call' = call /\ life' = life
      /\ \A u \in Threads \ {t} : pc'[u] = pc[u] /\ pt'[u] = pt[u]
    BY <1>0, <1>3 DEF TypeOK, Becomes, ds_activate_store, ds_activate_locked, ds_activate_unlock
<1>6. NamesKept(point', point) /\ Len(point') = Len(point)
    BY <1>2, <1>4 DEF NamesKept, SameTable
<1>7. PointOK'
    <2>1. \A n : look_up(point, n) # 0 => look_up(point', n) = look_up(point, n)
        BY <1>2, <1>6, LookUpKept
    <2> QED  BY <1>0, <1>5, <2>1 DEF PointOK
<1>8. \A j \in 1 .. Len(point) :
         Sections(j) \in SUBSET Threads /\ Sections(j)' \subseteq Sections(j)
    <2> TAKE j \in 1 .. Len(point)
    <2>1. /\ Sections(j) = {u \in Threads : pt[u] = j /\ call[u].fn # "ds_exec"}
          /\ Sections(j)' = {u \in Threads : pt'[u] = j /\ call[u].fn # "ds_exec"}
        BY <1>5 DEF Sections
    <2> QED  BY <1>5, <2>1
<1>9. NblockedCoversSections'
    BY <1>0, <1>1, <1>4, <1>6, <1>8, CoverKept
<1>10. Alive'
    BY <1>0, <1>3, AliveKept
<1>11. ListenOK'
    <2>1. CASE ds_activate_store(t)
        <3>1. activation' = activation \cup {"DS_ACTIVE"}
            BY <2>1 DEF ds_activate_store, do_activate
        <3>2. pc'[t] = "idle"
            BY <1>0, <2>1 DEF ds_activate_store, Return, Becomes, TypeOK
        <3> QED  BY <1>0, <1>5, <3>1, <3>2 DEF ListenOK, AllGlobal
    <2>2. CASE ds_activate_locked(t)
        <3>1. pc[t] = "lock" /\ call[t].fn = "ds_activate" /\ activation' = activation
            BY <2>2 DEF ds_activate_locked
        <3> QED  BY <1>0, <1>5, <3>1 DEF ListenOK, AllGlobal
    <2>3. CASE ds_activate_unlock(t)
        <3>1. pc[t] = "locked" /\ call[t] \in Program[t] /\ call[t].fn = "ds_activate"
            BY <1>0, <2>3 DEF ds_activate_unlock, ListenOK
        <3>2. AllGlobal \/ call[t].flag
            <4>1. call[t] \in ProgramCalls
                BY <3>1, ProgramAssumption
            <4>2. \E b \in BOOLEAN : call[t] = Activate(b)
                BY <3>1, <4>1 DEF ProgramCalls, Wait, Exec, Enable, DisableAll, Activate
            <4>3. CASE call[t] = Activate(TRUE)
                BY <4>3 DEF Activate
            <4>4. CASE call[t] = Activate(FALSE)
                BY <3>1, <4>4 DEF Listening
            <4> QED  BY <4>2, <4>3, <4>4
        <3>3. life' = "up" => IF AllGlobal THEN "DS_GLOBAL" \in activation'
                                          ELSE "DS_ACTIVE" \in activation'
            BY <1>0, <1>5, <2>3, <3>2 DEF ListenOK, ds_activate_unlock, do_activate
        <3>4. pc'[t] = "idle"
            BY <1>0, <2>3 DEF ds_activate_unlock, Return, Becomes, TypeOK
        <3> QED  BY <1>0, <1>5, <3>3, <3>4 DEF ListenOK, AllGlobal
    <2> QED  BY <2>1, <2>2, <2>3
<1> QED  BY <1>1, <1>7, <1>9, <1>10, <1>11 DEF CountInv

(* The call of ds_unblock is let in, and keeps its section's count. *)
LEMMA CountUnblockCall ==
    ASSUME CountInv, NEW t \in Threads, ds_unblock(t)
    PROVE  CountInv'
<1>0. TypeInv /\ TypeOK /\ ControlOK /\ ListenOK /\ PointOK /\ NblockedCoversSections /\ Alive
    BY DEF CountInv, TypeInv
<1>1. TypeInv'
    BY <1>0, TypeActivate
<1>2. ~local_inactive
    BY <1>0, BusyUp, NotLocalInactive DEF ds_unblock
<1>3. /\ Becomes(t, "lock", pt[t], 0) /\ pc[t] = "section"
      /\ UNCHANGED <<life, activation, point>>
      /\ call' = [call EXCEPT ![t].fn = "ds_unblock"]
    BY <1>2 DEF ds_unblock
<1>4. /\ pc'[t] = "lock" /\ pt' = pt
      /\ \A u \in Threads \ {t} : pc'[u] = pc[u] /\ call'[u] = call[u]
    BY <1>0, <1>3 DEF TypeOK, Becomes
<1>5. call'[t].fn = "ds_unblock" /\ call'[t].name = call[t].name /\ call[t].fn = "ds_wait"
    <2>1. call[t] \in Call /\ call[t].fn = "ds_wait"
        BY <1>0, <1>3 DEF TypeOK, ControlOK
    <2>2. /\ [call[t] EXCEPT !.fn = "ds_unblock"].fn = "ds_unblock"
          /\ [call[t] EXCEPT !.fn = "ds_unblock"].name = call[t].name
        BY <2>1 DEF Call
    <2>3. call'[t] = [call[t] EXCEPT !.fn = "ds_unblock"]
        BY <1>0, <1>3 DEF TypeOK
    <2> QED  BY <2>1, <2>2, <2>3
<1>6. ListenOK'
    BY <1>0, <1>3, <1>4, <1>5 DEF ListenOK, AllGlobal
<1>7. PointOK'
    <2>0. pt[t] # 0
        BY <1>0, <1>3 DEF PointOK
    <2> SUFFICES ASSUME NEW u \in Threads
                 PROVE  /\ pt[u] # 0 => call'[u].fn \in {"ds_wait", "ds_exec", "ds_unblock"}
                        /\ pt[u] # 0 /\ Trunc[call'[u].name] = call'[u].name
                              => look_up(point, call'[u].name) = pt[u]
                        /\ pc'[u] = "section" => pt[u] # 0
                        /\ pc'[u] = "lock" /\ call'[u].fn = "ds_unblock" => pt[u] # 0
        BY <1>3, <1>4 DEF PointOK
    <2>1. CASE u = t
        BY <1>0, <1>4, <1>5, <2>0, <2>1 DEF PointOK
    <2>2. CASE u # t
        BY <1>0, <1>4, <2>2 DEF PointOK
    <2> QED  BY <2>1, <2>2
<1>8. \A j \in 1 .. Len(point) :
         Sections(j) \in SUBSET Threads /\ Sections(j)' \subseteq Sections(j)
    <2> TAKE j \in 1 .. Len(point)
    <2>1. /\ Sections(j) = {u \in Threads : pt[u] = j /\ call[u].fn # "ds_exec"}
          /\ Sections(j)' = {u \in Threads : pt[u] = j /\ call'[u].fn # "ds_exec"}
        BY <1>4 DEF Sections
    <2>2. \A u \in Threads : call'[u].fn # "ds_exec" => call[u].fn # "ds_exec"
        BY <1>4, <1>5
    <2> QED  BY <2>1, <2>2
<1>9. NblockedCoversSections'
    BY <1>0, <1>1, <1>3, <1>8, CoverKept
<1>10. Alive'
    BY <1>0, <1>3, AliveKept
<1> QED  BY <1>1, <1>6, <1>7, <1>9, <1>10 DEF CountInv

(* A call starts without a point, so it is in no count. *)
LEMMA CountStart ==
    ASSUME CountInv, NEW t \in Threads, Start(t)
    PROVE  CountInv'
<1>0. TypeInv /\ TypeOK /\ ControlOK /\ ListenOK /\ PointOK /\ NblockedCoversSections /\ Alive
    BY DEF CountInv, TypeInv
<1>1. TypeInv'
    BY <1>0, TypeStart
<1>2. life = "up"
    BY DEF Start, ds_wait, ds_exec, ds_enable, ds_disable_all, ds_activate, Begin
<1>3. ~local_inactive
    BY <1>0, <1>2, NotLocalInactive
<1>4. PICK fn \in Functions, c \in Program[t] : Begin(t, fn, c) /\ Becomes(t, "lock", 0, 0)
    BY <1>3 DEF Start, ds_wait, ds_exec, ds_enable, ds_disable_all, ds_activate, Functions
<1>5. /\ UNCHANGED <<life, activation, point>> /\ pc[t] = "idle" /\ pt[t] = 0
      /\ pc'[t] = "lock" /\ pt' = pt /\ call'[t] = c /\ c.fn # "ds_unblock"
      /\ \A u \in Threads \ {t} : pc'[u] = pc[u] /\ call'[u] = call[u]
    BY <1>0, <1>4, ProgramNames DEF TypeOK, ControlOK, Begin, Becomes
<1>6. ListenOK'
    BY <1>0, <1>5 DEF ListenOK, AllGlobal
<1>7. PointOK'
    <2> SUFFICES ASSUME NEW u \in Threads
                 PROVE  /\ pt[u] # 0 => call'[u].fn \in {"ds_wait", "ds_exec", "ds_unblock"}
                        /\ pt[u] # 0 /\ Trunc[call'[u].name] = call'[u].name
                              => look_up(point, call'[u].name) = pt[u]
                        /\ pc'[u] = "section" => pt[u] # 0
                        /\ pc'[u] = "lock" /\ call'[u].fn = "ds_unblock" => pt[u] # 0
        BY <1>5 DEF PointOK
    <2>1. CASE u = t
        BY <1>5, <2>1
    <2>2. CASE u # t
        BY <1>0, <1>5, <2>2 DEF PointOK
    <2> QED  BY <2>1, <2>2
<1>8. \A j \in 1 .. Len(point) :
         Sections(j) \in SUBSET Threads /\ Sections(j)' \subseteq Sections(j)
    <2> TAKE j \in 1 .. Len(point)
    <2>1. /\ Sections(j) = {u \in Threads : pt[u] = j /\ call[u].fn # "ds_exec"}
          /\ Sections(j)' = {u \in Threads : pt[u] = j /\ call'[u].fn # "ds_exec"}
        BY <1>5 DEF Sections
    <2> QED  BY <1>5, <2>1
<1>9. NblockedCoversSections'
    BY <1>0, <1>1, <1>5, <1>8, CoverKept
<1>10. Alive'
    BY <1>0, <1>4, AliveKept
<1> QED  BY <1>1, <1>6, <1>7, <1>9, <1>10 DEF CountInv

(* The steps of main and of the scheduler keep the counts. *)
LEMMA CountMain ==
    ASSUME Listening, CountInv,
           ds_init \/ ds_destroy \/ (\E t \in Threads : spurious_wakeup(t))
    PROVE  CountInv'
<1>0. TypeInv /\ TypeOK /\ ControlOK /\ ListenOK /\ PointOK /\ NblockedCoversSections /\ Alive
    BY DEF CountInv, TypeInv
<1>1. TypeInv'
    BY <1>0, TypeMain
<1>2. UNCHANGED <<pc, pt, call>>
    BY DEF ds_init, ds_destroy, spurious_wakeup, local
<1>3. Alive'
    BY <1>0, <1>2 DEF Alive
<1>4. CASE ds_init
    <2>1. \A t \in Threads : pc[t] = "idle" /\ pt[t] = 0
        BY <1>0, <1>4 DEF ds_init, ControlOK
    <2>2. PointOK'
        BY <1>2, <2>1 DEF PointOK
    <2>3. NblockedCoversSections'
        BY <1>4 DEF ds_init, NblockedCoversSections
    <2>4. IF AllGlobal THEN "DS_GLOBAL" \in activation' ELSE "DS_ACTIVE" \in activation'
        BY <1>4 DEF ds_init, Listening, AllGlobal
    <2>5. ListenOK'
        BY <1>0, <1>2, <2>4 DEF ListenOK, AllGlobal
    <2> QED  BY <1>1, <1>3, <2>2, <2>3, <2>5 DEF CountInv
<1>5. CASE ds_destroy \/ (\E t \in Threads : spurious_wakeup(t))
    <2>1. UNCHANGED <<activation, point>> /\ (life' = "up" => life = "up")
        BY <1>5 DEF ds_destroy, spurious_wakeup
    <2>2. ListenOK' /\ PointOK' /\ NblockedCoversSections'
        BY <1>0, <1>2, <2>1 DEF ListenOK, AllGlobal, PointOK, NblockedCoversSections, Sections
    <2> QED  BY <1>1, <1>3, <2>2 DEF CountInv
<1> QED  BY <1>4, <1>5

(* Initially nothing is counted. *)
LEMMA CountInit == Init => CountInv
<1> SUFFICES ASSUME Init PROVE CountInv
    OBVIOUS
<1>1. TypeInv
    BY TypeInit
<1>2. Alive /\ PointOK /\ NblockedCoversSections
    BY DEF Init, Alive, PointOK, NblockedCoversSections
<1>3. ListenOK
    BY DEF Init, ListenOK
<1> QED  BY <1>1, <1>2, <1>3 DEF CountInv

(* Every step of a facility that is never off keeps the counts. *)
LEMMA CountNext ==
    ASSUME Listening
    PROVE  CountInv /\ [Next]_vars => CountInv'
<1> SUFFICES ASSUME CountInv, [Next]_vars PROVE CountInv'
    OBVIOUS
<1>1. CASE UNCHANGED vars
    <2>1. TypeInv' /\ ListenOK' /\ PointOK'
        BY <1>1 DEF CountInv, TypeInv, TypeOK, ControlOK, ListenOK, AllGlobal, PointOK, vars
    <2>2. NblockedCoversSections' /\ Alive'
        BY <1>1 DEF CountInv, NblockedCoversSections, Sections, Alive, vars
    <2> QED  BY <2>1, <2>2 DEF CountInv
<1>2. CASE \E t \in Threads : Start(t)
    BY <1>2, CountStart
<1>3. CASE \E t \in Threads : Progress(t)
    BY <1>3, CountWait, CountExec, CountUnblock, CountUnblockCall, CountEnable, CountActivate
    DEF Progress
<1>4. CASE ds_init \/ ds_destroy \/ (\E t \in Threads : spurious_wakeup(t))
    BY <1>4, CountMain
<1> QED  BY <1>1, <1>2, <1>3, <1>4 DEF Next

(* assert(pt->nblocked > 0) of ds_unblock never fails in a facility that was
   initialised with DS_GLOBAL, or active and never deactivated: whatever the
   threads do, points being enabled and disabled at any time. *)
THEOREM AssertionCorrect ==
    ASSUME Listening
    PROVE  Spec => []AssertionHolds
<1>1. Init => CountInv
    BY CountInit
<1>2. CountInv /\ [Next]_vars => CountInv'
    BY CountNext
<1>3. CountInv => AssertionHolds
    BY DEF CountInv, AssertionHolds
<1> QED  BY <1>1, <1>2, <1>3, PTL DEF Spec

(* nblocked is never below the number of sections at its point, in the same
   programs: this is what keeps the assertion. *)
THEOREM CountsCover ==
    ASSUME Listening
    PROVE  Spec => []NblockedCoversSections
<1>1. Init => CountInv
    BY CountInit
<1>2. CountInv /\ [Next]_vars => CountInv'
    BY CountNext
<1>3. CountInv => NblockedCoversSections
    BY DEF CountInv
<1> QED  BY <1>1, <1>2, <1>3, PTL DEF Spec

-----------------------------------------------------------------------------
(* Sleepers of ds_wait. *)

WaitInv == CountInv /\ WaitNotLost

(* The sleepers other than t keep their point and their call; the count of
   a point where one sleeps is positive. *)
LEMMA WaitSleepers ==
    ASSUME CountInv, CountInv', WaitNotLost, NEW t \in Threads, NEW l, NEW i, NEW r,
           Becomes(t, l, i, r), call' = call, waitset' \subseteq waitset \cup {t},
           t \in waitset' /\ call[t].fn = "ds_wait" =>
              ~point'[i].in_syncwait /\ point'[i].is_enabled,
           \A j \in 1 .. Len(point) :
              ~point[j].in_syncwait /\ point[j].is_enabled /\ point[j].nblocked > 0 =>
                 \/ waitset' \subseteq {t}
                 \/ ~point'[j].in_syncwait /\ point'[j].is_enabled
    PROVE  WaitInv'
<1>0. TypeOK /\ ControlOK /\ NblockedCoversSections /\ TypeOK'
    BY DEF CountInv, TypeInv
<1>1. /\ pt'[t] = i /\ \A u \in Threads \ {t} : pt'[u] = pt[u]
    BY <1>0 DEF TypeOK, Becomes
<1> SUFFICES ASSUME NEW u \in waitset', call[u].fn = "ds_wait"
             PROVE  ~point'[pt'[u]].in_syncwait /\ point'[pt'[u]].is_enabled
    BY DEF WaitInv, WaitNotLost
<1>2. u \in Threads
    BY <1>0 DEF TypeOK
<1>3. CASE u = t
    BY <1>1, <1>3
<1>4. CASE u # t
    <2>1. u \in waitset /\ pt'[u] = pt[u] /\ ~(waitset' \subseteq {t})
        BY <1>1, <1>2, <1>4
    <2>2. ~point[pt[u]].in_syncwait /\ point[pt[u]].is_enabled
        BY <2>1 DEF WaitNotLost
    <2>a. pt[u] \in 1 .. Len(point) /\ point \in Seq(Point)
        BY <1>0, <1>2, <2>1 DEF TypeOK, ControlOK
    <2>3. pt[u] \in 1 .. Len(point) /\ point[pt[u]] \in Point /\ DOMAIN point = 1 .. Len(point)
        BY <2>a
    <2>4. u \in Sections(pt[u]) /\ Sections(pt[u]) \in SUBSET Threads
        BY <1>2 DEF Sections
    <2>5. /\ point[pt[u]].nblocked \in Nat
          /\ point[pt[u]].nblocked >= Cardinality(Sections(pt[u]))
        BY <1>0, <2>3 DEF Point, NblockedCoversSections
    <2>6. point[pt[u]].nblocked >= 1
        BY <2>4, <2>5, CoverPositive
    <2> QED  BY <2>1, <2>2, <2>3, <2>5, <2>6
<1> QED  BY <1>3, <1>4

(* ds_wait sleeps on what it has just tested, and ds_exec wakes everybody
   when it raises a point. *)
LEMMA WaitWaitExec ==
    ASSUME WaitInv, CountInv', NEW t \in Threads,
           \/ ds_wait_locked(t) \/ ds_wait_resume(t)
           \/ ds_exec_locked(t) \/ ds_exec_resume(t)
    PROVE  WaitInv'
<1>0. CountInv /\ TypeInv /\ WaitNotLost /\ TypeInv'
    BY DEF WaitInv, CountInv
<1>1. call' = call /\ Len(point) \in Nat
    BY <1>0 DEF ds_wait_locked, ds_wait_resume, ds_exec_locked, ds_exec_resume, Region,
                TypeInv, TypeOK
<1>2. CASE ds_wait_resume(t)
    <2>1. wait_loop(t, point, pt[t]) /\ point' = point /\ t \notin waitset
        BY <1>2 DEF ds_wait_resume
    <2>2. CASE Becomes(t, "cond", pt[t], 0) /\ waitset' = waitset \cup {t}
               /\ ~point[pt[t]].in_syncwait /\ point[pt[t]].is_enabled
        BY <1>0, <1>1, <2>1, <2>2, WaitSleepers
    <2>3. CASE \E l, i, r : Becomes(t, l, i, r) /\ waitset' = waitset
        BY <1>0, <1>1, <2>1, <2>3, WaitSleepers
    <2> QED  BY <2>1, <2>2, <2>3 DEF wait_loop, Return
<1>3. CASE ds_exec_resume(t)
    <2>1. call[t].fn # "ds_wait"
        BY <1>3 DEF ds_exec_resume, Region
    <2>2. PICK l, i, r : Becomes(t, l, i, r)
        BY <1>0, <1>3, ExecResumeShape
    <2>3. /\ waitset' \subseteq waitset \cup {t}
          /\ \A j \in 1 .. Len(point) : ~point[j].in_syncwait /\ point[j].is_enabled =>
                ~point'[j].in_syncwait /\ point'[j].is_enabled
        <3>1. CASE SyncwaitSet(point', point, pt[t], FALSE) /\ waitset' = waitset
            BY <3>1 DEF SyncwaitSet
        <3> QED  BY <1>0, <1>3, <3>1, ExecResumeShape
    <2> QED  BY <1>0, <1>1, <2>1, <2>2, <2>3, WaitSleepers
<1>4. CASE ds_wait_locked(t)
    <2>0. t \notin waitset
        BY <1>0, <1>4 DEF TypeInv, ControlOK, ds_wait_locked, Region
    <2>1. CASE Becomes(t, "idle", 0, -1) /\ UNCHANGED <<point, waitset>>
        BY <1>0, <1>1, <2>0, <2>1, WaitSleepers
    <2>2. CASE \E tbl, k : /\ Grown(tbl) /\ k \in 1 .. Len(tbl)
                           /\ CountedUp(point', tbl, k) /\ wait_loop(t, point', k)
        <3>1. PICK tbl, k : /\ Grown(tbl) /\ k \in 1 .. Len(tbl)
                            /\ CountedUp(point', tbl, k) /\ wait_loop(t, point', k)
            BY <2>2
        <3>2. \A j \in 1 .. Len(point) : /\ point'[j].is_enabled = point[j].is_enabled
                                         /\ point'[j].in_syncwait = point[j].in_syncwait
            BY <1>1, <3>1 DEF Grown, CountedUp
        <3>3. CASE Becomes(t, "cond", k, 0) /\ waitset' = waitset \cup {t}
                   /\ ~point'[k].in_syncwait /\ point'[k].is_enabled
            BY <1>0, <1>1, <3>2, <3>3, WaitSleepers
        <3>4. CASE \E l, i, r : Becomes(t, l, i, r) /\ waitset' = waitset
            BY <1>0, <1>1, <2>0, <3>2, <3>4, WaitSleepers
        <3> QED  BY <3>1, <3>3, <3>4 DEF wait_loop, Return
    <2> QED  BY <1>0, <1>4, <2>1, <2>2, WaitShape
<1>5. CASE ds_exec_locked(t)
    <2>0. t \notin waitset /\ call[t].fn # "ds_wait"
        BY <1>0, <1>5 DEF TypeInv, ControlOK, ds_exec_locked, Region
    <2>1. CASE \E r \in {0, -1} : Becomes(t, "idle", 0, r) /\ UNCHANGED <<point, waitset>>
        BY <1>0, <1>1, <2>0, <2>1, WaitSleepers
    <2>2. CASE \E tbl, r : /\ Grown(tbl) /\ Becomes(t, "idle", 0, r)
                           /\ point' = tbl /\ waitset' = waitset
        <3>1. PICK tbl, r : /\ Grown(tbl) /\ Becomes(t, "idle", 0, r)
                            /\ point' = tbl /\ waitset' = waitset
            BY <2>2
        <3>2. \A j \in 1 .. Len(point) : point'[j] = point[j]
            BY <3>1 DEF Grown
        <3> QED  BY <1>0, <1>1, <2>0, <3>1, <3>2, WaitSleepers
    <2>3. CASE \E l, i, r : Becomes(t, l, i, r) /\ waitset' \subseteq {t}
        BY <1>0, <1>1, <2>0, <2>3, WaitSleepers
    <2> QED  BY <1>0, <1>5, <2>1, <2>2, <2>3, ExecShape
<1> QED  BY <1>2, <1>3, <1>4, <1>5

(* ds_unblock raises no point, and disabling a point with a sleeper wakes it. *)
LEMMA WaitOthers ==
    ASSUME WaitInv, CountInv', NEW t \in Threads,
           \/ ds_unblock_locked(t) \/ ds_enable_locked(t)
           \/ ds_disable_all_locked(t) \/ ds_activate_locked(t)
    PROVE  WaitInv'
<1> DEFINE i == look_up(point, call[t].name)
<1>a. CountInv /\ TypeInv /\ WaitNotLost
    BY DEF WaitInv, CountInv
<1>0. /\ CountInv /\ TypeInv /\ WaitNotLost /\ point \in Seq(Point) /\ call[t].flag \in BOOLEAN
      /\ DOMAIN point = 1 .. Len(point)
    BY <1>a DEF TypeInv, TypeOK, Call
<1>1. call' = call /\ t \notin waitset
    BY <1>0 DEF ds_unblock_locked, ds_enable_locked, ds_disable_all_locked, ds_activate_locked,
                Region, TypeInv, ControlOK
<1>2. i # 0 => i \in 1 .. Len(point)
    BY <1>0, LookUp
<1>3. PICK l, k, r : Becomes(t, l, k, r)
    BY DEF ds_unblock_locked, ds_enable_locked, ds_disable_all_locked, ds_activate_locked, Return
<1>4. \/ UNCHANGED <<point, waitset>>
      \/ disable_all
      \/ i # 0 /\ unblock(i)
      \/ i # 0 /\ set_enabled(i, call[t].flag)
    BY DEF ds_unblock_locked, ds_enable_locked, ds_disable_all_locked, ds_activate_locked
<1> HIDE DEF i
<1>5. CASE UNCHANGED <<point, waitset>>
    BY <1>0, <1>1, <1>3, <1>5, WaitSleepers
<1>6. CASE disable_all
    <2>1. waitset' \subseteq waitset
        BY <1>0, <1>6, DisableAllStep
    <2>2. \A j \in 1 .. Len(point) : point[j].is_enabled /\ point[j].nblocked > 0 => waitset' = {}
        BY <1>0, <1>6 DEF disable_all
    <2> QED  BY <1>0, <1>1, <1>3, <2>1, <2>2, WaitSleepers
<1>7. CASE i # 0 /\ unblock(i)
    <2>1. /\ waitset' \subseteq waitset
          /\ \A j \in 1 .. Len(point) : ~point[j].in_syncwait /\ point[j].is_enabled =>
                waitset' = {} \/ (~point'[j].in_syncwait /\ point'[j].is_enabled)
        BY <1>0, <1>2, <1>7, UnblockTable
    <2> QED  BY <1>0, <1>1, <1>3, <2>1, WaitSleepers
<1>8. CASE i # 0 /\ set_enabled(i, call[t].flag)
    <2>1. /\ waitset' \subseteq waitset
          /\ \A j \in 1 .. Len(point) :
                ~point[j].in_syncwait /\ point[j].is_enabled /\ point[j].nblocked > 0 =>
                   waitset' = {} \/ (~point'[j].in_syncwait /\ point'[j].is_enabled)
        BY <1>0, <1>2, <1>8, EnableShape
    <2> QED  BY <1>0, <1>1, <1>3, <2>1, WaitSleepers
<1> QED  BY <1>4, <1>5, <1>6, <1>7, <1>8

(* Every step of a facility that is never off keeps WaitInv. *)
LEMMA WaitNext ==
    ASSUME Listening
    PROVE  WaitInv /\ [Next]_vars => WaitInv'
<1> SUFFICES ASSUME WaitInv, [Next]_vars PROVE WaitInv'
    OBVIOUS
<1>0. CountInv /\ TypeOK /\ ControlOK /\ WaitNotLost /\ CountInv'
    BY CountNext DEF WaitInv, CountInv, TypeInv
<1>1. ASSUME UNCHANGED <<point, waitset>>, \A u \in waitset : pt'[u] = pt[u] /\ call'[u] = call[u]
      PROVE  WaitInv'
    BY <1>0, <1>1 DEF WaitInv, WaitNotLost
<1>2. CASE UNCHANGED vars \/ ds_destroy
    BY <1>1, <1>2 DEF vars, ds_destroy, local
<1>3. CASE \E t \in Threads : \/ Start(t)
                              \/ ds_unblock(t) \/ ds_activate_store(t) \/ ds_activate_unlock(t)
    <2>1. PICK t \in Threads : \/ Start(t)
                               \/ ds_unblock(t) \/ ds_activate_store(t) \/ ds_activate_unlock(t)
        BY <1>3
    <2>2. PICK l, i, r : Becomes(t, l, i, r)
        BY <2>1 DEF Start, ds_wait, ds_exec, ds_enable, ds_disable_all, ds_activate,
                    ds_unblock, ds_activate_store, ds_activate_unlock, Return
    <2>3. t \notin waitset /\ UNCHANGED <<point, waitset>> /\ waitset \subseteq Threads
        BY <1>0, <2>1 DEF TypeOK, ControlOK, Start, ds_wait, ds_exec, ds_enable, ds_disable_all,
                    ds_activate, Begin, ds_unblock, ds_activate_store, ds_activate_unlock
    <2>4. \A u \in Threads \ {t} : call'[u] = call[u]
        BY <1>0, <2>1 DEF TypeOK, Start, ds_wait, ds_exec, ds_enable, ds_disable_all,
                    ds_activate, Begin, ds_unblock, ds_activate_store, ds_activate_unlock
    <2>5. \A u \in Threads \ {t} : pt'[u] = pt[u]
        BY <1>0, <2>2 DEF TypeOK, Becomes
    <2> QED  BY <1>1, <2>3, <2>4, <2>5
<1>4. CASE \E t \in Threads : /\ Progress(t)
                              /\ ~(ds_unblock(t) \/ ds_activate_store(t) \/ ds_activate_unlock(t))
    BY <1>0, <1>4, WaitWaitExec, WaitOthers DEF Progress
<1>5. CASE ds_init
    <2>1. waitset' = {}
        BY <1>0, <1>5 DEF ds_init, TypeOK, ControlOK
    <2> QED  BY <1>0, <2>1 DEF WaitInv, WaitNotLost
<1>6. CASE \E t \in Threads : spurious_wakeup(t)
    BY <1>0, <1>6 DEF spurious_wakeup, local, WaitInv, WaitNotLost
<1> QED  BY <1>2, <1>3, <1>4, <1>5, <1>6 DEF Next

(* No ds_wait sleeps through the broadcast it waits for: while it sleeps its
   point is enabled and not yet raised.  This needs the counts: a controller
   broadcasts only when it finds nblocked > 0. *)
THEOREM WaitWakeUp ==
    ASSUME Listening
    PROVE  Spec => []WaitNotLost
<1>1. Init => WaitInv
    BY CountInit DEF Init, WaitInv, WaitNotLost
<1>2. WaitInv /\ [Next]_vars => WaitInv'
    BY WaitNext
<1>3. WaitInv => WaitNotLost
    BY DEF WaitInv
<1> QED  BY <1>1, <1>2, <1>3, PTL DEF Spec

-----------------------------------------------------------------------------
(* Programs that only wait and exec, in an active facility, under names that
   strndup keeps: the use debugsync.h describes. *)

OnlyRendezvous ==
    /\ \A f \in InitFlags : "DS_ACTIVE" \in f
    /\ \A t \in Threads : Program[t] \subseteq {Wait(n) : n \in Names} \cup {Exec(n) : n \in Names}
    /\ Fits

(* Nothing is switched off and nobody is in a controller's call. *)
Calm ==
    /\ life = "up" => "DS_ACTIVE" \in activation
    /\ \A j \in DOMAIN point : point[j].is_enabled
    /\ \A t \in Threads :
        /\ pc[t] \notin {"store", "locked"}
        /\ pc[t] # "idle" => call[t].fn \in {"ds_wait", "ds_exec", "ds_unblock"}
        /\ pc[t] = "lock" /\ call[t].fn # "ds_unblock" => pt[t] = 0

RendezvousInv == CountInv /\ Calm /\ NblockedCountsSections /\ SectionUnderSyncwait

(* Such a program makes no other call, and so listens. *)
LEMMA RendezvousCalls ==
    ASSUME OnlyRendezvous, NEW t \in Threads, NEW c \in Program[t]
    PROVE  c.fn \in {"ds_wait", "ds_exec"}
<1>1. (\E n \in Names : c = Wait(n)) \/ (\E n \in Names : c = Exec(n))
    BY DEF OnlyRendezvous
<1>2. CASE \E n \in Names : c = Wait(n)
    BY <1>2 DEF Wait
<1>3. CASE \E n \in Names : c = Exec(n)
    BY <1>3 DEF Exec
<1> QED  BY <1>1, <1>2, <1>3

(* A facility that is active and stays so. *)
LEMMA RendezvousListens == OnlyRendezvous => Listening
<1> SUFFICES ASSUME OnlyRendezvous PROVE Listening
    OBVIOUS
<1>1. Activate(FALSE).fn = "ds_activate"
    BY DEF Activate
<1>2. \A t \in Threads : Activate(FALSE) \notin Program[t]
    BY <1>1, RendezvousCalls
<1> QED  BY <1>2 DEF OnlyRendezvous, Listening

(* The counts after a region that lowers no point with a section at it. *)
LEMMA RendezvousRegion ==
    ASSUME RendezvousInv, CountInv', NEW t \in Threads,
           NEW l \in {"idle", "cond", "section"}, NEW i, NEW r, Becomes(t, l, i, r),
           NEW lbl \in {"lock", "cond"}, NEW fn, Region(t, lbl, fn),
           \A j \in 1 .. Len(point') : /\ point'[j].is_enabled
                                       /\ point'[j].nblocked = Cardinality(Sections(j)'),
           l = "section" => point'[i].in_syncwait,
           \A j \in 1 .. Len(point) :
              point[j].in_syncwait => point'[j].in_syncwait \/ Sections(j)' = {}
    PROVE  RendezvousInv'
<1>a. TypeOK /\ TypeOK' /\ Calm /\ SectionUnderSyncwait
    BY DEF RendezvousInv, CountInv, TypeInv
<1>b. DOMAIN point' = 1 .. Len(point')
    BY <1>a DEF TypeOK
<1>0. /\ TypeOK /\ TypeOK' /\ Calm /\ SectionUnderSyncwait
      /\ DOMAIN point' = 1 .. Len(point')
    BY <1>a, <1>b
<1>1. /\ pc'[t] = l /\ pt'[t] = i /\ call' = call /\ pc[t] # "idle"
      /\ life' = life /\ activation' = activation
      /\ \A u \in Threads \ {t} : pc'[u] = pc[u] /\ pt'[u] = pt[u]
    BY <1>0 DEF TypeOK, Becomes, Region
<1>2. Calm'
    BY <1>0, <1>1 DEF Calm
<1>3. NblockedCountsSections'
    BY <1>0 DEF NblockedCountsSections
<1>4. SectionUnderSyncwait'
    <2> SUFFICES ASSUME NEW u \in Threads, pc'[u] \in {"section", "lock"},
                        call[u].fn # "ds_exec", pt'[u] # 0
                 PROVE  point'[pt'[u]].in_syncwait
        BY <1>1 DEF SectionUnderSyncwait
    <2>1. CASE u = t
        BY <1>1, <2>1
    <2>2. CASE u # t
        <3>1. pc[u] = pc'[u] /\ pt[u] = pt'[u] /\ pt[u] \in 1 .. Len(point)
            BY <1>0, <1>1, <2>2 DEF TypeOK
        <3>2. point[pt[u]].in_syncwait
            BY <1>0, <3>1 DEF SectionUnderSyncwait
        <3>3. u \in Sections(pt[u])'
            BY <1>1, <3>1 DEF Sections
        <3> QED  BY <3>1, <3>2, <3>3
    <2> QED  BY <2>1, <2>2
<1> QED  BY <1>2, <1>3, <1>4 DEF RendezvousInv

(* How a region changes the sections at point j, exactly. *)
LEMMA SectionsExact ==
    ASSUME TypeInv, NEW t \in Threads, NEW l, NEW i, NEW r, Becomes(t, l, i, r),
           NEW lbl, NEW fn, Region(t, lbl, fn), NEW j
    PROVE  /\ fn = "ds_exec" \/ pt[t] = i \/ (pt[t] # j /\ i # j) => Sections(j)' = Sections(j)
           /\ fn # "ds_exec" /\ pt[t] # j /\ i = j =>
                 Sections(j)' = Sections(j) \cup {t} /\ t \notin Sections(j)
           /\ fn # "ds_exec" /\ pt[t] = j /\ i # j =>
                 Sections(j)' = Sections(j) \ {t} /\ t \in Sections(j)
           /\ IsFiniteSet(Sections(j))
<1>1. /\ pt'[t] = i /\ call' = call /\ call[t].fn = fn
      /\ \A u \in Threads \ {t} : pt'[u] = pt[u]
    BY DEF TypeInv, TypeOK, Becomes, Region
<1>2. /\ Sections(j) = {u \in Threads : pt[u] = j /\ call[u].fn # "ds_exec"}
      /\ Sections(j)' = {u \in Threads : pt'[u] = j /\ call[u].fn # "ds_exec"}
    BY <1>1 DEF Sections
<1>3. IsFiniteSet(Sections(j))
    BY <1>2, ThreadsAssumption, FS_Subset
<1> HIDE DEF Sections
<1>4. ASSUME fn = "ds_exec" \/ pt[t] = i \/ (pt[t] # j /\ i # j)
      PROVE  Sections(j)' = Sections(j)
    BY <1>1, <1>2, <1>4
<1>5. ASSUME fn # "ds_exec", pt[t] # j, i = j
      PROVE  Sections(j)' = Sections(j) \cup {t} /\ t \notin Sections(j)
    BY <1>1, <1>2, <1>5
<1>6. ASSUME fn # "ds_exec", pt[t] = j, i # j
      PROVE  Sections(j)' = Sections(j) \ {t} /\ t \in Sections(j)
    BY <1>1, <1>2, <1>6
<1> QED  BY <1>3, <1>4, <1>5, <1>6

(* The counts and switches of a grown table: nobody is at a new point. *)
LEMMA GrownExact ==
    ASSUME TypeInv, Calm, NblockedCountsSections, NEW tbl, Grown(tbl)
    PROVE  /\ Len(point) \in Nat /\ Len(tbl) \in Nat
           /\ \A j \in 1 .. Len(tbl) : tbl[j].is_enabled /\ tbl[j].nblocked = Cardinality(Sections(j))
           /\ \A j \in 1 .. Len(point) : tbl[j] = point[j] /\ j \in 1 .. Len(tbl)
<1>0. point \in Seq(Point) /\ Len(point) \in Nat /\ DOMAIN point = 1 .. Len(point)
    BY DEF TypeInv, TypeOK
<1>1. /\ Len(tbl) \in Nat
      /\ \A j \in 1 .. Len(point) : tbl[j] = point[j] /\ j \in 1 .. Len(tbl)
    BY <1>0, BoundAssumption DEF Grown
<1>2. ASSUME NEW j \in 1 .. Len(tbl)
      PROVE  tbl[j].is_enabled /\ tbl[j].nblocked = Cardinality(Sections(j))
    <2>1. CASE j \in 1 .. Len(point)
        BY <1>0, <1>1, <2>1 DEF Calm, NblockedCountsSections
    <2>2. CASE j \notin 1 .. Len(point)
        <3>1. tbl[j].is_enabled /\ tbl[j].nblocked = 0
            BY <1>0, <1>1, <2>2 DEF Grown
        <3>2. Sections(j) = {}
            BY <1>0, <2>2 DEF Sections, TypeInv, TypeOK
        <3> QED  BY <3>1, <3>2, FS_EmptySet
    <2> QED  BY <2>1, <2>2
<1> QED  BY <1>0, <1>1, <1>2

(* ds_wait counts the section it may start, once. *)
LEMMA RendezvousWait ==
    ASSUME RendezvousInv, CountInv', NEW t \in Threads, ds_wait_locked(t) \/ ds_wait_resume(t)
    PROVE  RendezvousInv'
<1>a. TypeInv /\ TypeInv' /\ Calm /\ NblockedCountsSections
    BY DEF RendezvousInv, CountInv
<1>b. DOMAIN point = 1 .. Len(point) /\ Len(point) \in Nat
    BY <1>a DEF TypeInv, TypeOK
<1>0. /\ TypeInv /\ TypeInv' /\ Calm /\ NblockedCountsSections
      /\ DOMAIN point = 1 .. Len(point) /\ Len(point) \in Nat
    BY <1>a, <1>b
<1>1. CASE ds_wait_resume(t)
    <2>1. /\ Region(t, "cond", "ds_wait") /\ point' = point /\ wait_loop(t, point, pt[t])
        BY <1>1 DEF ds_wait_resume
    <2>2. pt[t] \in 1 .. Len(point)
        BY <1>0, <2>1 DEF TypeInv, TypeOK, ControlOK, Region
    <2>3. \A j \in 1 .. Len(point) :
              point[j].is_enabled /\ point[j].nblocked = Cardinality(Sections(j))
        BY <1>0 DEF Calm, NblockedCountsSections
    <2>4. PICK l \in {"cond", "section"} :
              Becomes(t, l, pt[t], 0) /\ (l = "section" => point[pt[t]].in_syncwait)
        BY <2>1, <2>2, <2>3 DEF wait_loop
    <2>5. \A j : Sections(j)' = Sections(j)
        BY <1>0, <2>1, <2>4, SectionsExact
    <2> QED  BY <2>1, <2>3, <2>4, <2>5, RendezvousRegion
<1>2. CASE ds_wait_locked(t)
    <2>0. Region(t, "lock", "ds_wait") /\ pt[t] = 0
        BY <1>0, <1>2 DEF ds_wait_locked, Region, Calm
    <2>1. CASE Becomes(t, "idle", 0, -1) /\ UNCHANGED <<point, waitset>>
        <3>1. \A j : Sections(j)' = Sections(j)
            BY <1>0, <2>0, <2>1, SectionsExact
        <3>2. \A j \in 1 .. Len(point) :
                  point[j].is_enabled /\ point[j].nblocked = Cardinality(Sections(j))
            BY <1>0 DEF Calm, NblockedCountsSections
        <3> QED  BY <2>0, <2>1, <3>1, <3>2, RendezvousRegion
    <2>2. CASE \E tbl, k : /\ Grown(tbl) /\ k \in 1 .. Len(tbl)
                           /\ CountedUp(point', tbl, k) /\ wait_loop(t, point', k)
        <3>1. PICK tbl, k : /\ Grown(tbl) /\ k \in 1 .. Len(tbl)
                            /\ CountedUp(point', tbl, k) /\ wait_loop(t, point', k)
            BY <2>2
        <3>2. /\ \A j \in 1 .. Len(tbl) :
                    tbl[j].is_enabled /\ tbl[j].nblocked = Cardinality(Sections(j))
              /\ \A j \in 1 .. Len(point) : tbl[j] = point[j] /\ j \in 1 .. Len(tbl)
            BY <1>0, <3>1, GrownExact
        <3>3. /\ Len(point') = Len(tbl)
              /\ \A j \in 1 .. Len(tbl) : /\ j # k => point'[j] = tbl[j]
                                          /\ point'[j].is_enabled = tbl[j].is_enabled
                                          /\ point'[j].in_syncwait = tbl[j].in_syncwait
              /\ point'[k].nblocked = tbl[k].nblocked + 1
            BY <3>1 DEF CountedUp, SameTable
        <3>4. PICK l \in {"cond", "section"} :
                  Becomes(t, l, k, 0) /\ (l = "section" => point'[k].in_syncwait)
            BY <3>1, <3>2, <3>3 DEF wait_loop
        <3>5. k # 0
            BY <3>1
        <3>6. /\ \A j : j # k /\ j # 0 => Sections(j)' = Sections(j)
              /\ Sections(k)' = Sections(k) \cup {t} /\ t \notin Sections(k)
              /\ IsFiniteSet(Sections(k))
            BY <1>0, <2>0, <3>4, <3>5, SectionsExact
        <3>7. Cardinality(Sections(k)') = Cardinality(Sections(k)) + 1
            BY <3>6, FS_AddElement
        <3>8. \A j \in 1 .. Len(point') : /\ point'[j].is_enabled
                                          /\ point'[j].nblocked = Cardinality(Sections(j)')
            <4> SUFFICES ASSUME NEW j \in 1 .. Len(tbl)
                         PROVE  point'[j].is_enabled /\ point'[j].nblocked = Cardinality(Sections(j)')
                BY <3>3
            <4>1. CASE j = k
                BY <3>2, <3>3, <3>7, <4>1
            <4>2. CASE j # k
                <5>1. Sections(j)' = Sections(j)
                    BY <3>6, <4>2
                <5> QED  BY <3>2, <3>3, <4>2, <5>1
            <4> QED  BY <4>1, <4>2
        <3> QED  BY <2>0, <3>2, <3>3, <3>4, <3>8, RendezvousRegion
    <2> QED  BY <1>0, <1>2, <2>1, <2>2, WaitShape
<1> QED  BY <1>1, <1>2

(* ds_exec counts nothing, and ends its hold only at a point already lowered. *)
LEMMA RendezvousExec ==
    ASSUME RendezvousInv, CountInv', NEW t \in Threads, ds_exec_locked(t) \/ ds_exec_resume(t)
    PROVE  RendezvousInv'
<1>a. TypeInv /\ TypeInv' /\ Calm /\ NblockedCountsSections
    BY DEF RendezvousInv, CountInv
<1>b. DOMAIN point = 1 .. Len(point) /\ Len(point) \in Nat
    BY <1>a DEF TypeInv, TypeOK
<1>0. /\ TypeInv /\ TypeInv' /\ Calm /\ NblockedCountsSections
      /\ DOMAIN point = 1 .. Len(point) /\ Len(point) \in Nat
    BY <1>a, <1>b
<1>1. PICK lbl \in {"lock", "cond"} : Region(t, lbl, "ds_exec")
    BY DEF ds_exec_locked, ds_exec_resume
<1>2. ASSUME NEW tbl, Grown(tbl), NEW l \in {"idle", "cond"}, NEW i, NEW r, Becomes(t, l, i, r),
             Len(point') = Len(tbl),
             \A j \in 1 .. Len(tbl) : /\ point'[j].is_enabled = tbl[j].is_enabled
                                      /\ point'[j].nblocked = tbl[j].nblocked
                                      /\ tbl[j].in_syncwait => point'[j].in_syncwait
      PROVE  RendezvousInv'
    <2>1. \A j : Sections(j)' = Sections(j)
        BY <1>0, <1>1, <1>2, SectionsExact
    <2>2. /\ \A j \in 1 .. Len(tbl) :
                tbl[j].is_enabled /\ tbl[j].nblocked = Cardinality(Sections(j))
          /\ \A j \in 1 .. Len(point) : tbl[j] = point[j] /\ j \in 1 .. Len(tbl)
        BY <1>0, <1>2, GrownExact
    <2> QED  BY <1>1, <1>2, <2>1, <2>2, RendezvousRegion
<1>3. CASE ds_exec_resume(t)
    <2>1. Grown(point)
        BY <1>0, SameGrown DEF TypeInv
    <2>2. PICK l \in {"idle", "cond"} : \E i, r : Becomes(t, l, i, r)
        BY <1>0, <1>3, ExecResumeShape
    <2>3. \A j \in 1 .. Len(point) : point[j].is_enabled
        BY <1>0 DEF Calm
    <2>4. /\ Len(point') = Len(point)
          /\ \A j \in 1 .. Len(point) : /\ point'[j].is_enabled = point[j].is_enabled
                                        /\ point'[j].nblocked = point[j].nblocked
                                        /\ point[j].in_syncwait => point'[j].in_syncwait
        <3>1. CASE point' = point
            BY <3>1
        <3>2. CASE /\ pt[t] \in 1 .. Len(point)
                   /\ ~(point[pt[t]].in_syncwait /\ point[pt[t]].is_enabled)
                   /\ SyncwaitSet(point', point, pt[t], FALSE)
            BY <2>3, <3>2 DEF SyncwaitSet, SameTable
        <3> QED  BY <1>0, <1>3, <3>1, <3>2, ExecResumeShape
    <2> QED  BY <1>2, <2>1, <2>2, <2>4
<1>4. CASE ds_exec_locked(t)
    <2>1. CASE \E r \in {0, -1} : Becomes(t, "idle", 0, r) /\ UNCHANGED <<point, waitset>>
        <3>1. Grown(point)
            BY <1>0, SameGrown DEF TypeInv
        <3> QED  BY <1>2, <2>1, <3>1
    <2>2. CASE \E a \in acquire(call[t].name) :
             /\ Grown(a.tbl) /\ a.i \in 1 .. Len(a.tbl)
             /\ \E l \in {"idle", "cond"} : \E i, r : Becomes(t, l, i, r)
             /\ \/ point' = a.tbl
                \/ SyncwaitSet(point', a.tbl, a.i, TRUE)
                \/ ~a.tbl[a.i].is_enabled
        <3>1. PICK tbl, k :
                  /\ Grown(tbl) /\ k \in 1 .. Len(tbl)
                  /\ \E l \in {"idle", "cond"} : \E i, r : Becomes(t, l, i, r)
                  /\ \/ point' = tbl
                     \/ SyncwaitSet(point', tbl, k, TRUE)
                     \/ ~tbl[k].is_enabled
            BY <2>2
        <3>2. tbl[k].is_enabled
            BY <1>0, <3>1, GrownExact
        <3>3. /\ Len(point') = Len(tbl)
              /\ \A j \in 1 .. Len(tbl) : /\ point'[j].is_enabled = tbl[j].is_enabled
                                          /\ point'[j].nblocked = tbl[j].nblocked
                                          /\ tbl[j].in_syncwait => point'[j].in_syncwait
            BY <3>1, <3>2 DEF SyncwaitSet, SameTable
        <3> QED  BY <1>2, <3>1, <3>3
    <2>3. \/ \E r \in {0, -1} : Becomes(t, "idle", 0, r) /\ UNCHANGED <<point, waitset>>
          \/ \E a \in acquire(call[t].name) :
             /\ Grown(a.tbl) /\ a.i \in 1 .. Len(a.tbl)
             /\ \E l \in {"idle", "cond"} : \E i, r : Becomes(t, l, i, r)
             /\ \/ point' = a.tbl
                \/ SyncwaitSet(point', a.tbl, a.i, TRUE)
                \/ ~a.tbl[a.i].is_enabled
        BY <1>0, <1>4, ExecShape
    <2> QED  BY <2>1, <2>2, <2>3
<1> QED  BY <1>3, <1>4

(* The last ds_unblock leaves no section behind when it lowers the point. *)
LEMMA RendezvousUnblock ==
    ASSUME Fits, RendezvousInv, CountInv', NEW t \in Threads, ds_unblock_locked(t)
    PROVE  RendezvousInv'
<1>0. PICK i : i = look_up(point, call[t].name)
    OBVIOUS
<1>a. /\ TypeInv /\ TypeInv' /\ Calm /\ NblockedCountsSections /\ PointOK /\ TypeOK /\ ControlOK
      /\ Alive'
    BY DEF RendezvousInv, CountInv, TypeInv
<1>b. DOMAIN point = 1 .. Len(point) /\ point \in Seq(Point)
    BY <1>a DEF TypeOK
<1>1. Region(t, "lock", "ds_unblock") /\ call[t].fn = "ds_unblock" /\ pc[t] = "lock"
    BY DEF ds_unblock_locked, Region
<1>2. pt[t] # 0 /\ call[t].name \in Names /\ life = "up"
    BY <1>a, <1>1 DEF PointOK, ControlOK, TypeOK
<1>3. i = pt[t] /\ i \in 1 .. Len(point) /\ ~inactive
    <2>1. i = pt[t]
        BY <1>a, <1>0, <1>2 DEF PointOK, Fits
    <2>2. pt[t] \in 1 .. Len(point)
        BY <1>a, <1>2 DEF TypeOK
    <2> QED  BY <1>a, <1>2, <2>1, <2>2 DEF Calm, inactive
<1>4. unblock(i) /\ Becomes(t, "idle", 0, 0)
    <2>1. pc'[t] # "aborted"
        BY <1>a DEF Alive
    <2>2. ~Becomes(t, "aborted", pt[t], 0)
        BY <1>a, <2>1 DEF TypeOK, Becomes
    <2>3. i # 0
        BY <1>3
    <2> QED  BY <1>0, <1>3, <2>2, <2>3 DEF ds_unblock_locked, Return
<1>5. /\ SameTable(point', point)
      /\ \A j \in 1 .. Len(point) : j # i => point'[j] = point[j]
      /\ point'[i].nblocked = point[i].nblocked - 1
      /\ point'[i].is_enabled = point[i].is_enabled
      /\ point[i].nblocked # 1 => point'[i].in_syncwait = point[i].in_syncwait
    BY <1>a, <1>3, <1>4, UnblockTable
<1>6. /\ \A j : j # i /\ j # 0 => Sections(j)' = Sections(j)
      /\ Sections(i)' = Sections(i) \ {t} /\ t \in Sections(i)
      /\ IsFiniteSet(Sections(i))
    <2>1. pt[t] = i /\ i # 0
        BY <1>3
    <2> QED  BY <1>a, <1>1, <1>4, <2>1, SectionsExact
<1>7. /\ Cardinality(Sections(i)') = Cardinality(Sections(i)) - 1
      /\ IsFiniteSet(Sections(i)')
    BY <1>6, FS_RemoveElement
<1>8. \A j \in 1 .. Len(point) : point[j].is_enabled /\ point[j].nblocked = Cardinality(Sections(j))
    BY <1>a, <1>b DEF Calm, NblockedCountsSections
<1>9. point[i].nblocked = 1 => Sections(i)' = {}
    BY <1>3, <1>7, <1>8, FS_EmptySet
<1>10. Len(point') = Len(point)
    BY <1>5 DEF SameTable
<1>11. \A j \in 1 .. Len(point') : /\ point'[j].is_enabled
                                   /\ point'[j].nblocked = Cardinality(Sections(j)')
    <2> SUFFICES ASSUME NEW j \in 1 .. Len(point)
                 PROVE  point'[j].is_enabled /\ point'[j].nblocked = Cardinality(Sections(j)')
        BY <1>10
    <2>1. CASE j = i
        BY <1>5, <1>7, <1>8, <2>1
    <2>2. CASE j # i
        <3>1. Sections(j)' = Sections(j)
            BY <1>6, <2>2
        <3> QED  BY <1>5, <1>8, <2>2, <3>1
    <2> QED  BY <2>1, <2>2
<1>12. \A j \in 1 .. Len(point) :
           point[j].in_syncwait => point'[j].in_syncwait \/ Sections(j)' = {}
    BY <1>5, <1>9
<1> QED  BY <1>1, <1>4, <1>11, <1>12, RendezvousRegion

(* Calls that start, sections that end, and main. *)
LEMMA RendezvousOutside ==
    ASSUME OnlyRendezvous, RendezvousInv, CountInv',
           \/ \E t \in Threads : Start(t) \/ ds_unblock(t) \/ spurious_wakeup(t)
           \/ ds_init \/ ds_destroy \/ UNCHANGED vars
    PROVE  RendezvousInv'
<1>a. /\ TypeOK /\ ControlOK /\ TypeOK' /\ ListenOK /\ Calm /\ NblockedCountsSections
      /\ SectionUnderSyncwait /\ TypeInv
    BY DEF RendezvousInv, CountInv, TypeInv
<1>1. ASSUME UNCHANGED <<point, pt, activation>>, life' = "up" => life = "up",
             \A u \in Threads :
                \/ pc'[u] = pc[u] /\ call'[u] = call[u]
                \/ pc'[u] = "lock" /\ pt[u] = 0 /\ call'[u].fn \in {"ds_wait", "ds_exec"}
                \/ /\ pc[u] = "section" /\ call[u].fn = "ds_wait"
                   /\ pc'[u] = "lock" /\ call'[u].fn = "ds_unblock"
      PROVE  RendezvousInv'
    <2>1. Calm'
        BY <1>a, <1>1 DEF Calm
    <2>2. SectionUnderSyncwait'
        BY <1>a, <1>1 DEF SectionUnderSyncwait
    <2>3. \A j : j # 0 => Sections(j)' = Sections(j)
        <3> SUFFICES ASSUME NEW j, j # 0 PROVE Sections(j)' = Sections(j)
            OBVIOUS
        <3>1. /\ Sections(j) = {u \in Threads : pt[u] = j /\ call[u].fn # "ds_exec"}
              /\ Sections(j)' = {u \in Threads : pt[u] = j /\ call'[u].fn # "ds_exec"}
            BY <1>1 DEF Sections
        <3>2. \A u \in Threads : pt[u] # 0 => (call'[u].fn = "ds_exec" <=> call[u].fn = "ds_exec")
            BY <1>1
        <3> QED  BY <3>1, <3>2
    <2>4. \A j \in DOMAIN point : j # 0
        BY <1>a DEF TypeOK
    <2>5. NblockedCountsSections'
        BY <1>a, <1>1, <2>3, <2>4 DEF NblockedCountsSections
    <2> QED  BY <2>1, <2>2, <2>5 DEF RendezvousInv
<1>2. CASE UNCHANGED vars \/ ds_destroy \/ \E t \in Threads : spurious_wakeup(t)
    BY <1>1, <1>2 DEF vars, ds_destroy, spurious_wakeup, local
<1>3. CASE ds_init
    <2>1. /\ \A t \in Threads : pc'[t] = "idle" /\ pt'[t] = 0
          /\ point' = <<>> /\ "DS_ACTIVE" \in activation'
        BY <1>a, <1>3 DEF ds_init, local, ControlOK, OnlyRendezvous
    <2> QED  BY <2>1 DEF RendezvousInv, Calm, NblockedCountsSections, SectionUnderSyncwait
<1>4. CASE \E t \in Threads : Start(t)
    <2>1. PICK t \in Threads : Start(t)
        BY <1>4
    <2>2. ~local_inactive
        <3>1. life = "up"
            BY <2>1 DEF Start, ds_wait, ds_exec, ds_enable, ds_disable_all, ds_activate, Begin
        <3> QED  BY <1>a, <3>1, NotLocalInactive
    <2>3. PICK fn \in Functions, c \in Program[t] : Begin(t, fn, c) /\ Becomes(t, "lock", 0, 0)
        BY <2>1, <2>2 DEF Start, ds_wait, ds_exec, ds_enable, ds_disable_all, ds_activate, Functions
    <2>4. c.fn \in {"ds_wait", "ds_exec"}
        BY RendezvousCalls
    <2>5. /\ UNCHANGED <<point, activation, life>> /\ pt[t] = 0
          /\ pc'[t] = "lock" /\ pt' = pt /\ call'[t] = c
          /\ \A u \in Threads \ {t} : pc'[u] = pc[u] /\ call'[u] = call[u]
        BY <1>a, <2>3 DEF TypeOK, ControlOK, Begin, Becomes
    <2> QED  BY <1>1, <2>4, <2>5
<1>5. CASE \E t \in Threads : ds_unblock(t)
    <2>1. PICK t \in Threads : ds_unblock(t)
        BY <1>5
    <2>2. ~local_inactive
        BY <1>a, <2>1, BusyUp, NotLocalInactive DEF ds_unblock
    <2>3. /\ Becomes(t, "lock", pt[t], 0) /\ pc[t] = "section" /\ call[t].fn = "ds_wait"
          /\ UNCHANGED <<point, activation, life>>
          /\ call' = [call EXCEPT ![t].fn = "ds_unblock"]
        BY <1>a, <2>1, <2>2 DEF ds_unblock, ControlOK
    <2>4. /\ pc'[t] = "lock" /\ pt' = pt /\ call'[t].fn = "ds_unblock"
          /\ \A u \in Threads \ {t} : pc'[u] = pc[u] /\ call'[u] = call[u]
        <3>1. call[t] \in Call
            BY <1>a DEF TypeOK
        <3>2. [call[t] EXCEPT !.fn = "ds_unblock"].fn = "ds_unblock"
            BY <3>1 DEF Call
        <3>3. call'[t] = [call[t] EXCEPT !.fn = "ds_unblock"]
            BY <1>a, <2>3 DEF TypeOK
        <3> QED  BY <1>a, <2>3, <3>2, <3>3 DEF TypeOK, Becomes
    <2> QED  BY <1>1, <2>3, <2>4
<1> QED  BY <1>2, <1>3, <1>4, <1>5

(* Every step of such a program keeps RendezvousInv. *)
LEMMA RendezvousNext ==
    ASSUME OnlyRendezvous
    PROVE  RendezvousInv /\ [Next]_vars => RendezvousInv'
<1> SUFFICES ASSUME RendezvousInv, [Next]_vars PROVE RendezvousInv'
    OBVIOUS
<1>0. CountInv' /\ Calm /\ Fits
    BY CountNext, RendezvousListens DEF RendezvousInv, OnlyRendezvous
<1>1. CASE \E t \in Threads : Progress(t)
    <2>1. PICK t \in Threads : Progress(t)
        BY <1>1
    <2>2. ~(ds_enable_locked(t) \/ ds_disable_all_locked(t) \/ ds_activate_store(t)
            \/ ds_activate_locked(t) \/ ds_activate_unlock(t))
        BY <1>0 DEF Calm, ds_enable_locked, ds_disable_all_locked, ds_activate_store,
                    ds_activate_locked, ds_activate_unlock, Region
    <2> QED  BY <1>0, <2>1, <2>2, RendezvousWait, RendezvousExec, RendezvousUnblock,
                RendezvousOutside DEF Progress
<1>2. CASE \/ \E t \in Threads : Start(t) \/ ds_unblock(t) \/ spurious_wakeup(t)
           \/ ds_init \/ ds_destroy \/ UNCHANGED vars
    BY <1>0, <1>2, RendezvousOutside
<1> QED  BY <1>1, <1>2 DEF Next

(* Initially there is no point and nobody is at it. *)
LEMMA RendezvousInit == Init => RendezvousInv
<1> SUFFICES ASSUME Init PROVE RendezvousInv
    OBVIOUS
<1>1. CountInv
    BY CountInit
<1>2. Calm /\ NblockedCountsSections /\ SectionUnderSyncwait
    BY DEF Init, Calm, NblockedCountsSections, SectionUnderSyncwait
<1> QED  BY <1>1, <1>2 DEF RendezvousInv

(* In a rendezvous nblocked is exactly the "# of active waiting sections"
   (debugsync.c:44), for any number of threads, points and calls. *)
THEOREM CountsExact ==
    ASSUME OnlyRendezvous
    PROVE  Spec => []NblockedCountsSections
<1>1. Init => RendezvousInv
    BY RendezvousInit
<1>2. RendezvousInv /\ [Next]_vars => RendezvousInv'
    BY RendezvousNext
<1>3. RendezvousInv => NblockedCountsSections
    BY DEF RendezvousInv
<1> QED  BY <1>1, <1>2, <1>3, PTL DEF Spec

(* In a rendezvous a section runs only while its point is in sync-wait, which
   is what holds the caller of ds_exec. *)
THEOREM SectionHeld ==
    ASSUME OnlyRendezvous
    PROVE  Spec => []SectionUnderSyncwait
<1>1. Init => RendezvousInv
    BY RendezvousInit
<1>2. RendezvousInv /\ [Next]_vars => RendezvousInv'
    BY RendezvousNext
<1>3. RendezvousInv => SectionUnderSyncwait
    BY DEF RendezvousInv
<1> QED  BY <1>1, <1>2, <1>3, PTL DEF Spec

(* What ExecPassesLast says of one step. *)
PassesLast ==
    \A t \in Threads :
        (pc[t] = "cond" /\ call[t].fn = "ds_exec" /\ pc'[t] = "idle" /\ rc'[t] = 0)
            => \A u \in Threads : ~(pc[u] = "section" /\ pt[u] = pt[t])

(* A hold that ends with 0 ends at a lowered point, where no section runs. *)
LEMMA PassesLastStep ==
    ASSUME RendezvousInv, Next
    PROVE  PassesLast
<1>a. TypeInv /\ TypeOK /\ ControlOK /\ SectionUnderSyncwait
    BY DEF RendezvousInv, CountInv, TypeInv
<1> SUFFICES ASSUME NEW t \in Threads, pc[t] = "cond", call[t].fn = "ds_exec",
                    pc'[t] = "idle", rc'[t] = 0,
                    NEW u \in Threads, pc[u] = "section", pt[u] = pt[t]
             PROVE  FALSE
    BY DEF PassesLast
<1>1. ds_exec_resume(t)
    <2>1. CASE \E v \in Threads : Start(v) \/ Progress(v)
        <3>1. PICK v \in Threads : Start(v) \/ Progress(v)
            BY <2>1
        <3>2. PICK l, i, r : Becomes(v, l, i, r)
            <4>1. CASE Start(v)
                BY <4>1 DEF Start, ds_wait, ds_exec, ds_enable, ds_disable_all, ds_activate, Return
            <4>2. CASE ds_wait_locked(v) \/ ds_wait_resume(v)
                BY <4>2, WaitLoopStep DEF ds_wait_locked, ds_wait_resume, Return
            <4>3. CASE ds_exec_locked(v) \/ ds_exec_resume(v)
                BY <1>a, <4>3, ExecShape, ExecResumeShape
            <4> QED  BY <3>1, <4>1, <4>2, <4>3
                     DEF Progress, ds_unblock, ds_unblock_locked, ds_enable_locked,
                         ds_disable_all_locked, ds_activate_store, ds_activate_locked,
                         ds_activate_unlock, Return
        <3>3. v = t
            BY <1>a, <3>2 DEF TypeOK, Becomes
        <3> QED  BY <3>1, <3>3
                 DEF Start, ds_wait, ds_exec, ds_enable, ds_disable_all, ds_activate, Begin,
                     Progress, ds_wait_locked, ds_wait_resume, ds_exec_locked, ds_unblock,
                     ds_unblock_locked, ds_enable_locked, ds_disable_all_locked,
                     ds_activate_store, ds_activate_locked, ds_activate_unlock, Region
    <2>2. CASE ds_init \/ ds_destroy \/ \E v \in Threads : spurious_wakeup(v)
        BY <2>2 DEF ds_init, ds_destroy, spurious_wakeup, local
    <2> QED  BY <2>1, <2>2 DEF Next
<1>2. Becomes(t, "idle", 0, IF point[pt[t]].is_enabled THEN 0 ELSE -1)
      /\ ~(point[pt[t]].in_syncwait /\ point[pt[t]].is_enabled) /\ pt[t] \in 1 .. Len(point)
    <2>1. ~Becomes(t, "cond", pt[t], 0)
        BY <1>a DEF TypeOK, Becomes
    <2> QED  BY <1>a, <1>1, <2>1, ExecResumeShape
<1>3. ~point[pt[t]].in_syncwait
    BY <1>a, <1>2 DEF TypeOK, Becomes
<1>4. call[u].fn = "ds_wait" /\ pt[u] # 0
    BY <1>a, <1>2 DEF ControlOK
<1> QED  BY <1>a, <1>3, <1>4 DEF SectionUnderSyncwait

(* In a rendezvous, when ds_exec ends its hold with 0, no section it released
   still runs: they execute "right before the tested sections executes"
   (debugsync.h:11). *)
THEOREM HoldOutlastsSections ==
    ASSUME OnlyRendezvous
    PROVE  Spec => ExecPassesLast
<1>1. Init => RendezvousInv
    BY RendezvousInit
<1>2. RendezvousInv /\ [Next]_vars => RendezvousInv'
    BY RendezvousNext
<1>3. RendezvousInv /\ [Next]_vars => [PassesLast]_vars
    BY PassesLastStep
<1>4. Spec => [][PassesLast]_vars
    BY <1>1, <1>2, <1>3, PTL DEF Spec
<1> QED  BY <1>4 DEF ExecPassesLast, PassesLast

-----------------------------------------------------------------------------
(* The rendezvous is SyncPoints. *)

PointsInv == RendezvousInv /\ SyncwaitCounted /\ Distinct(point)

(* With unique names, a name is raised when its point is. *)
LEMMA RaisedName ==
    ASSUME NEW tbl \in Seq(Point), Distinct(tbl), NEW i \in 1 .. Len(tbl)
    PROVE  tbl[i].name \in Raised(tbl) <=> tbl[i].in_syncwait
<1>1. DOMAIN tbl = 1 .. Len(tbl)
    OBVIOUS
<1>2. CASE tbl[i].in_syncwait
    BY <1>1, <1>2 DEF Raised
<1>3. ASSUME tbl[i].name \in Raised(tbl) PROVE tbl[i].in_syncwait
    <2>1. PICK j \in DOMAIN tbl : tbl[j].in_syncwait /\ tbl[j].name = tbl[i].name
        BY <1>3 DEF Raised
    <2> QED  BY <1>1, <2>1 DEF Distinct
<1> QED  BY <1>2, <1>3

(* Tables with the same switches have the same names raised. *)
LEMMA RaisedSame ==
    ASSUME NEW tbl \in Seq(Point), NEW new \in Seq(Point), Len(tbl) <= Len(new),
           \A j \in 1 .. Len(tbl) : /\ new[j].name = tbl[j].name
                                    /\ new[j].in_syncwait = tbl[j].in_syncwait,
           \A j \in 1 .. Len(new) : j > Len(tbl) => ~new[j].in_syncwait
    PROVE  Raised(new) = Raised(tbl)
<1>1. DOMAIN tbl = 1 .. Len(tbl) /\ DOMAIN new = 1 .. Len(new) /\ Len(tbl) \in Nat /\ Len(new) \in Nat
    OBVIOUS
<1>2. ASSUME NEW n \in Raised(new) PROVE n \in Raised(tbl)
    <2>1. PICK j \in 1 .. Len(new) : new[j].in_syncwait /\ n = new[j].name
        BY <1>1 DEF Raised
    <2>2. j \in 1 .. Len(tbl) /\ tbl[j].in_syncwait /\ n = tbl[j].name
        BY <1>1, <2>1
    <2> QED  BY <1>1, <2>2 DEF Raised
<1>3. ASSUME NEW n \in Raised(tbl) PROVE n \in Raised(new)
    <2>1. PICK j \in 1 .. Len(tbl) : tbl[j].in_syncwait /\ n = tbl[j].name
        BY <1>1 DEF Raised
    <2>2. j \in 1 .. Len(new) /\ new[j].in_syncwait /\ n = new[j].name
        BY <1>1, <2>1
    <2> QED  BY <1>1, <2>2 DEF Raised
<1> QED  BY <1>2, <1>3

(* Raising a point adds its name, lowering it takes the name away. *)
LEMMA RaisedSet ==
    ASSUME NEW tbl \in Seq(Point), NEW new, NEW i \in 1 .. Len(tbl), SameTable(new, tbl),
           \A j \in 1 .. Len(tbl) : j # i => new[j] = tbl[j]
    PROVE  /\ new[i].in_syncwait => Raised(new) = Raised(tbl) \cup {tbl[i].name}
           /\ ~new[i].in_syncwait /\ Distinct(tbl) => Raised(new) = Raised(tbl) \ {tbl[i].name}
<1>1. /\ DOMAIN tbl = 1 .. Len(tbl) /\ DOMAIN new = 1 .. Len(tbl)
      /\ \A j \in 1 .. Len(tbl) : new[j].name = tbl[j].name
    BY DEF SameTable
<1>2. ASSUME new[i].in_syncwait PROVE Raised(new) = Raised(tbl) \cup {tbl[i].name}
    <2>1. ASSUME NEW n \in Raised(new) PROVE n \in Raised(tbl) \cup {tbl[i].name}
        BY <1>1, <2>1 DEF Raised
    <2>2. ASSUME NEW n \in Raised(tbl) PROVE n \in Raised(new)
        <3>1. PICK j \in 1 .. Len(tbl) : tbl[j].in_syncwait /\ n = tbl[j].name
            BY <1>1 DEF Raised
        <3>2. new[j].in_syncwait /\ n = new[j].name
            BY <1>1, <1>2, <3>1
        <3> QED  BY <1>1, <3>2 DEF Raised
    <2>3. tbl[i].name \in Raised(new)
        BY <1>1, <1>2 DEF Raised
    <2> QED  BY <2>1, <2>2, <2>3
<1>3. ASSUME ~new[i].in_syncwait, Distinct(tbl) PROVE Raised(new) = Raised(tbl) \ {tbl[i].name}
    <2>1. ASSUME NEW n \in Raised(new) PROVE n \in Raised(tbl) \ {tbl[i].name}
        <3>1. PICK j \in 1 .. Len(tbl) : new[j].in_syncwait /\ n = new[j].name
            BY <1>1 DEF Raised
        <3>2. j # i /\ tbl[j].in_syncwait /\ n = tbl[j].name
            BY <1>1, <1>3, <3>1
        <3>3. n # tbl[i].name
            BY <1>1, <1>3, <3>2 DEF Distinct
        <3> QED  BY <1>1, <3>2, <3>3 DEF Raised
    <2>2. ASSUME NEW n \in Raised(tbl), n # tbl[i].name PROVE n \in Raised(new)
        <3>1. PICK j \in 1 .. Len(tbl) : tbl[j].in_syncwait /\ n = tbl[j].name
            BY <1>1 DEF Raised
        <3>2. new[j].in_syncwait /\ n = new[j].name
            BY <1>1, <2>2, <3>1
        <3> QED  BY <1>1, <3>2 DEF Raised
    <2> QED  BY <2>1, <2>2
<1> QED  BY <1>2, <1>3

(* Whose place a thread's step changes: only its own. *)
LEMMA PlacesStep ==
    ASSUME TypeInv, NEW t \in Threads, NEW l, NEW i, NEW r, Becomes(t, l, i, r),
           NEW lbl, NEW fn, Region(t, lbl, fn),
           NEW tbl, Grown(tbl), SameTable(point', tbl) \/ point' = tbl
    PROVE  /\ Places' = [Places EXCEPT ![t] = Place(t)']
           /\ Places[t] = Place(t)
           /\ pt'[t] = i /\ pc'[t] = l /\ call'[t] = call[t] /\ call[t].fn = fn
<1>1. /\ pt'[t] = i /\ pc'[t] = l /\ call' = call /\ call[t].fn = fn
      /\ \A u \in Threads \ {t} : pt'[u] = pt[u] /\ pc'[u] = pc[u]
    BY DEF TypeInv, TypeOK, Becomes, Region
<1>2. \A j \in 1 .. Len(point) : point'[j].name = point[j].name
    <2>1. Len(point) \in Nat /\ Len(tbl) \in Nat /\ Len(point) <= Len(tbl)
        BY BoundAssumption DEF TypeInv, TypeOK, Grown
    <2> QED  BY <2>1 DEF Grown, SameTable
<1>3. \A u \in Threads : pt[u] = 0 \/ pt[u] \in 1 .. Len(point)
    BY DEF TypeInv, TypeOK
<1>4. ASSUME NEW u \in Threads \ {t} PROVE Place(u)' = Place(u)
    BY <1>1, <1>2, <1>3 DEF Place
<1>5. Places' = [Places EXCEPT ![t] = Place(t)']
    BY <1>4 DEF Places
<1> QED  BY <1>1, <1>5 DEF Places

(* A thread with a point is at the name of it. *)
LEMMA PlaceAt ==
    ASSUME TypeInv, NEW t \in Threads
    PROVE  /\ pt[t] = 0 => Place(t) = Points!Out
           /\ pt[t] # 0 =>
                /\ pt[t] \in 1 .. Len(point)
                /\ call[t].fn = "ds_exec" => Place(t) = Points!Held(point[pt[t]].name)
                /\ call[t].fn # "ds_exec" /\ pc[t] = "cond" =>
                      Place(t) = Points!Waits(point[pt[t]].name)
                /\ call[t].fn # "ds_exec" /\ pc[t] # "cond" =>
                      Place(t) = Points!Runs(point[pt[t]].name)
           /\ Places[t] = Place(t)
  BY DEF TypeInv, TypeOK, Place, Places, Points!Out, Points!Held, Points!Waits, Points!Runs

(* Those ds_exec waits for are the sections counted at the point. *)
LEMMA PartyIsSections ==
    ASSUME TypeInv, Distinct(point), NEW i \in 1 .. Len(point)
    PROVE  Points!Party(point[i].name) = Sections(i)
<1>0. DOMAIN point = 1 .. Len(point)
    BY DEF TypeInv, TypeOK
<1> DEFINE n == point[i].name
<1>1. ASSUME NEW t \in Threads
      PROVE  Places[t] \in {Points!Waits(n), Points!Runs(n)} <=> pt[t] = i /\ call[t].fn # "ds_exec"
    <2>1. CASE pt[t] = 0
        BY <2>1, PlaceAt DEF Points!Out, Points!Waits, Points!Runs
    <2>2. CASE pt[t] # 0
        <3>1. pt[t] \in 1 .. Len(point)
            BY <2>2, PlaceAt
        <3>2. point[pt[t]].name = n <=> pt[t] = i
            BY <1>0, <3>1 DEF Distinct
        <3> HIDE DEF n
        <3>3. CASE call[t].fn = "ds_exec"
            BY <2>2, <3>3, PlaceAt DEF Points!Held, Points!Waits, Points!Runs
        <3>4. CASE call[t].fn # "ds_exec" /\ pc[t] = "cond"
            BY <2>2, <3>2, <3>4, PlaceAt DEF Points!Waits, Points!Runs
        <3>5. CASE call[t].fn # "ds_exec" /\ pc[t] # "cond"
            BY <2>2, <3>2, <3>5, PlaceAt DEF Points!Waits, Points!Runs
        <3> QED  BY <3>3, <3>4, <3>5
    <2> QED  BY <2>1, <2>2
<1> QED  BY <1>1 DEF Points!Party, Sections

(* The table keeps the names it is given. *)
LEMMA PointName ==
    ASSUME Fits, NEW tbl \in Seq(Point), NEW i \in 1 .. Len(tbl)
    PROVE  tbl[i].name \in Names
<1>1. tbl[i] \in Point
    OBVIOUS
<1>2. tbl[i].name \in {Trunc[n] : n \in Names}
    BY <1>1 DEF Point
<1> QED  BY <1>2 DEF Fits

(* acquire finds or creates the point of that name. *)
LEMMA AcquireName ==
    ASSUME Fits, TypeOK, NEW n \in Names, NEW a \in acquire(n), a.i # 0
    PROVE  a.tbl[a.i].name = n
<1>0. point \in Seq(Point) /\ Len(point) \in Nat
    BY DEF TypeOK
<1>1. CASE a.tbl = point /\ a.i = look_up(point, n)
    BY <1>0, <1>1, LookUp
<1>2. CASE a.tbl = Append(point, new_point(n)) /\ a.i = Len(point) + 1
    <2>1. a.tbl[a.i] = new_point(n)
        BY <1>0, <1>2
    <2> QED  BY <2>1 DEF new_point, Fits
<1> QED  BY <1>0, <1>1, <1>2, Acquire

(* A region that moves nobody and raises nothing is not seen. *)
LEMMA PointsStutter ==
    ASSUME TypeInv, TypeInv', NEW t \in Threads, NEW l, NEW i, NEW r, Becomes(t, l, i, r),
           NEW lbl, NEW fn, Region(t, lbl, fn),
           NEW tbl, Grown(tbl), point' = tbl, pt[t] = i, pt[t] # 0 => pc[t] = l
    PROVE  UNCHANGED Points!pointVars
<1>1. /\ Places' = [Places EXCEPT ![t] = Place(t)'] /\ Places[t] = Place(t)
      /\ pt'[t] = i /\ pc'[t] = l /\ call'[t] = call[t]
    BY PlacesStep
<1>2. point \in Seq(Point) /\ Len(point) \in Nat /\ Len(point) <= Len(tbl)
    BY BoundAssumption DEF TypeInv, TypeOK, Grown
<1>3. Raised(point') = Raised(point)
    BY <1>2, RaisedSame DEF Grown
<1>4. Place(t)' = Place(t)
    <2>1. pt[t] # 0 => point'[pt[t]] = point[pt[t]]
        BY SMTT(30) DEF TypeInv, TypeOK, Grown
    <2> QED  BY <1>1, <2>1 DEF Place
<1>5. Places' = Places
    BY <1>1, <1>4 DEF Places
<1> QED  BY <1>3, <1>5 DEF Points!pointVars

(* ds_wait blocks or joins, a wake-up begins the section. *)
LEMMA PointsWait ==
    ASSUME Fits, PointsInv, PointsInv', NEW t \in Threads, ds_wait_locked(t) \/ ds_wait_resume(t)
    PROVE  \/ UNCHANGED Points!pointVars
           \/ \E n \in Names : Points!Wait(t, n) \/ Points!Enter(t, n)
<1>a. /\ TypeInv /\ TypeInv' /\ TypeOK /\ ControlOK /\ Calm /\ Calm'
      /\ Distinct(point) /\ Distinct(point')
    BY DEF PointsInv, RendezvousInv, CountInv, TypeInv
<1>b. /\ point \in Seq(Point) /\ Len(point) \in Nat /\ DOMAIN point = 1 .. Len(point)
      /\ point' \in Seq(Point) /\ DOMAIN point' = 1 .. Len(point') /\ Grown(point)
    BY <1>a, SameGrown DEF TypeInv, TypeOK
<1>c. PICK lbl \in {"lock", "cond"} : Region(t, lbl, "ds_wait")
    BY DEF ds_wait_locked, ds_wait_resume
<1>d. call[t].name \in Names /\ call[t].fn = "ds_wait"
    BY <1>a, <1>c DEF ControlOK, Region
<1>1. CASE ds_wait_resume(t)
    <2>1. /\ pt[t] \in 1 .. Len(point) /\ point' = point /\ pc[t] = "cond"
          /\ wait_loop(t, point, pt[t]) /\ point[pt[t]].is_enabled
        BY <1>a, <1>1 DEF TypeOK, ControlOK, Calm, ds_wait_resume, Region
    <2>2. CASE Becomes(t, "cond", pt[t], 0)
        BY <1>a, <1>b, <1>c, <2>1, <2>2, PointsStutter
    <2>3. CASE Becomes(t, "section", pt[t], 0) /\ point[pt[t]].in_syncwait
        <3>1. PICK n \in Names : n = point[pt[t]].name
            BY <1>b, <2>1, PointName
        <3>2. /\ Places' = [Places EXCEPT ![t] = Place(t)'] /\ pt'[t] = pt[t]
              /\ pc'[t] = "section" /\ call'[t] = call[t]
            BY <1>a, <1>b, <1>c, <2>1, <2>3, PlacesStep
        <3>3. Places[t] = Points!Waits(n)
            BY <1>a, <1>d, <2>1, <3>1, PlaceAt
        <3>4. Place(t)' = Points!Runs(n)
            BY <1>d, <2>1, <3>1, <3>2 DEF Place, Points!Runs
        <3>5. n \in Raised(point)
            BY <1>a, <1>b, <2>1, <2>3, <3>1, RaisedName
        <3> QED  BY <2>1, <3>2, <3>3, <3>4, <3>5 DEF Points!Enter, Points!Goes
    <2> QED  BY <2>1, <2>2, <2>3 DEF wait_loop
<1>2. CASE Becomes(t, "idle", 0, -1) /\ UNCHANGED <<point, waitset>> /\ ds_wait_locked(t)
    <2>1. pt[t] = 0
        BY <1>a, <1>2 DEF Calm, ds_wait_locked, Region
    <2> QED  BY <1>a, <1>b, <1>c, <1>2, <2>1, PointsStutter
<1>3. CASE /\ ds_wait_locked(t)
           /\ \E a \in acquire(call[t].name) :
                 /\ Grown(a.tbl) /\ a.i \in 1 .. Len(a.tbl)
                 /\ CountedUp(point', a.tbl, a.i) /\ wait_loop(t, point', a.i)
    <2>1. PICK a \in acquire(call[t].name) :
                 /\ Grown(a.tbl) /\ a.i \in 1 .. Len(a.tbl)
                 /\ CountedUp(point', a.tbl, a.i) /\ wait_loop(t, point', a.i)
        BY <1>3
    <2> DEFINE n == call[t].name
    <2>2. a.tbl[a.i].name = n
        BY <1>a, <1>d, <2>1, AcquireName
    <2>3. PICK tbl, i : /\ Grown(tbl) /\ i \in 1 .. Len(tbl) /\ tbl[i].name = n
                        /\ CountedUp(point', tbl, i) /\ wait_loop(t, point', i)
        BY <2>1, <2>2
    <2>4. /\ SameTable(point', tbl) /\ i \in 1 .. Len(point') /\ point'[i].name = n
          /\ point'[i].is_enabled /\ Len(point) <= Len(tbl) /\ Len(tbl) \in Nat
          /\ i # 0 /\ tbl \in Seq(Point)
        BY <1>a, <1>b, <2>3, BoundAssumption DEF CountedUp, SameTable, Calm, Grown
    <2>5. Raised(point') = Raised(point)
        <3>1. \A j \in 1 .. Len(tbl) : point'[j].in_syncwait = tbl[j].in_syncwait
                                       /\ point'[j].name = tbl[j].name
            BY <2>3 DEF CountedUp, SameTable
        <3>2. Raised(point') = Raised(tbl)
            BY <1>b, <2>4, <3>1, RaisedSame DEF SameTable
        <3>3. Raised(tbl) = Raised(point)
            BY <1>b, <2>3, <2>4, RaisedSame DEF Grown
        <3> QED  BY <3>2, <3>3
    <2>6. n \in Raised(point) <=> point'[i].in_syncwait
        BY <1>a, <1>b, <2>4, <2>5, RaisedName
    <2>7. Places[t] = Points!Out
        <3>1. pt[t] = 0
            BY <1>a, <1>3 DEF Calm, ds_wait_locked, Region
        <3> QED  BY <1>a, <3>1, PlaceAt
    <2> HIDE DEF n
    <2>8. ASSUME NEW l \in {"cond", "section"}, Becomes(t, l, i, 0),
                 l = "section" <=> point'[i].in_syncwait
          PROVE  Points!Wait(t, n)
        <3>1. /\ Places' = [Places EXCEPT ![t] = Place(t)'] /\ pt'[t] = i /\ pc'[t] = l
              /\ call'[t] = call[t]
            BY <1>a, <1>c, <2>3, <2>4, <2>8, PlacesStep
        <3>2. Place(t)' = IF n \in Raised(point) THEN Points!Runs(n) ELSE Points!Waits(n)
            BY <1>d, <2>4, <2>6, <2>8, <3>1 DEF Place, Points!Runs, Points!Waits
        <3> QED  BY <2>5, <2>7, <3>1, <3>2 DEF Points!Wait, Points!Goes
    <2>9. n \in Names
        BY <1>d DEF n
    <2> QED  BY <2>3, <2>4, <2>8, <2>9 DEF wait_loop
<1> QED  BY <1>a, <1>1, <1>2, <1>3, WaitShape

(* ds_exec is held for the sections, or passes; a wake-up lets it go on. *)
LEMMA PointsExec ==
    ASSUME Fits, PointsInv, PointsInv', NEW t \in Threads, ds_exec_locked(t) \/ ds_exec_resume(t)
    PROVE  \/ UNCHANGED Points!pointVars
           \/ \E n \in Names : Points!Exec(t, n) \/ Points!GoOn(t, n)
<1>a. /\ TypeInv /\ TypeInv' /\ TypeOK /\ ControlOK /\ Calm /\ NblockedCountsSections
      /\ SectionUnderSyncwait /\ Alive /\ Distinct(point) /\ Distinct(point')
    BY DEF PointsInv, RendezvousInv, CountInv, TypeInv
<1>b. /\ point \in Seq(Point) /\ Len(point) \in Nat /\ DOMAIN point = 1 .. Len(point)
      /\ Grown(point) /\ \A j \in 1 .. Len(point) : point[j].is_enabled
    BY <1>a, SameGrown DEF TypeOK, Calm
<1>c. PICK lbl \in {"lock", "cond"} : Region(t, lbl, "ds_exec")
    BY DEF ds_exec_locked, ds_exec_resume
<1>d. call[t].name \in Names /\ call[t].fn = "ds_exec"
    BY <1>a, <1>c DEF ControlOK, Region
<1>1. CASE ds_exec_resume(t)
    <2>1. pt[t] \in 1 .. Len(point) /\ pc[t] = "cond" /\ point[pt[t]].is_enabled /\ pt[t] # 0
        BY <1>a, <1>b, <1>1 DEF TypeOK, ControlOK, ds_exec_resume, Region
    <2>2. CASE Becomes(t, "cond", pt[t], 0) /\ point' = point
        BY <1>a, <1>b, <1>c, <2>1, <2>2, PointsStutter
    <2>3. CASE /\ ~point[pt[t]].in_syncwait /\ SyncwaitSet(point', point, pt[t], FALSE)
               /\ Becomes(t, "idle", 0, 0)
        <3>1. PICK n \in Names : n = point[pt[t]].name
            BY <1>b, <2>1, PointName
        <3>2. /\ SameTable(point', point)
              /\ \A j \in 1 .. Len(point) : j # pt[t] => point'[j] = point[j]
              /\ ~point'[pt[t]].in_syncwait
            BY <2>3 DEF SyncwaitSet
        <3>3. n \notin Raised(point)
            BY <1>a, <1>b, <2>1, <2>3, <3>1, RaisedName
        <3>4. Raised(point') = Raised(point)
            <4>1. Raised(point') = Raised(point) \ {point[pt[t]].name}
                BY <1>a, <1>b, <2>1, <3>2, RaisedSet
            <4> QED  BY <3>1, <3>3, <4>1
        <3>5. /\ Places' = [Places EXCEPT ![t] = Place(t)'] /\ pt'[t] = 0
            BY <1>a, <1>b, <1>c, <2>3, <3>2, PlacesStep
        <3>6. Places[t] = Points!Held(n)
            BY <1>a, <1>d, <2>1, <3>1, PlaceAt
        <3>7. Place(t)' = Points!Out
            BY <3>5 DEF Place, Points!Out
        <3>8. ASSUME NEW u \in Threads, Places[u] = Points!Runs(n) PROVE FALSE
            <4>1. pt[u] # 0 /\ pt[u] \in 1 .. Len(point) /\ call[u].fn # "ds_exec"
                  /\ pc[u] # "cond" /\ point[pt[u]].name = n
                BY <1>a, <3>8, PlaceAt DEF Points!Out, Points!Held, Points!Waits, Points!Runs
            <4>2. pt[u] = pt[t]
                BY <1>a, <1>b, <2>1, <3>1, <4>1 DEF Distinct
            <4>3. pc[u] \in {"section", "lock"}
                BY <1>a, <4>1 DEF TypeOK, Labels, ControlOK, Calm, Alive
            <4> QED  BY <1>a, <2>3, <4>1, <4>2, <4>3 DEF SectionUnderSyncwait
        <3> QED  BY <3>3, <3>4, <3>5, <3>6, <3>7, <3>8 DEF Points!GoOn, Points!Goes
    <2> QED  BY <1>a, <1>1, <2>1, <2>2, <2>3, ExecResumeShape
<1>2. CASE ds_exec_locked(t)
    <2>0. pt[t] = 0
        BY <1>a, <1>2 DEF Calm, ds_exec_locked, Region
    <2>1. CASE \E r \in {0, -1} : Becomes(t, "idle", 0, r) /\ UNCHANGED <<point, waitset>>
        BY <1>a, <1>b, <1>c, <2>0, <2>1, PointsStutter
    <2>2. CASE \E a \in acquire(call[t].name), r \in {0, -1} :
                  Grown(a.tbl) /\ Becomes(t, "idle", 0, r) /\ point' = a.tbl
        BY <1>a, <1>c, <2>0, <2>2, PointsStutter
    <2>3. CASE \E a \in acquire(call[t].name) :
                  /\ Grown(a.tbl) /\ a.i \in 1 .. Len(a.tbl) /\ a.tbl[a.i].nblocked > 0
                  /\ ~a.tbl[a.i].in_syncwait /\ SyncwaitSet(point', a.tbl, a.i, TRUE)
                  /\ Becomes(t, "cond", a.i, 0)
        <3> DEFINE n == call[t].name
        <3>1. PICK tbl, i :
                  /\ Grown(tbl) /\ i \in 1 .. Len(tbl) /\ tbl[i].nblocked > 0
                  /\ ~tbl[i].in_syncwait /\ SyncwaitSet(point', tbl, i, TRUE)
                  /\ Becomes(t, "cond", i, 0) /\ tbl[i].name = n
            <4>1. PICK a \in acquire(n) :
                  /\ Grown(a.tbl) /\ a.i \in 1 .. Len(a.tbl) /\ a.tbl[a.i].nblocked > 0
                  /\ ~a.tbl[a.i].in_syncwait /\ SyncwaitSet(point', a.tbl, a.i, TRUE)
                  /\ Becomes(t, "cond", a.i, 0)
                BY <2>3
            <4>2. a.tbl[a.i].name = n
                BY <1>a, <1>d, <4>1, AcquireName
            <4> QED  BY <4>1, <4>2
        <3>2. n \in Names
            BY <1>d
        <3> HIDE DEF n
        <3>3. /\ tbl \in Seq(Point) /\ Len(tbl) \in Nat /\ Len(point) <= Len(tbl)
              /\ i \in 1 .. Len(point) /\ tbl[i] = point[i]
            BY <1>b, <3>1, BoundAssumption DEF Grown
        <3>4. Raised(tbl) = Raised(point)
            BY <1>b, <3>1, <3>3, RaisedSame DEF Grown
        <3>5. Raised(point') = Raised(point) \cup {n}
            <4>1. /\ SameTable(point', tbl) /\ point'[i].in_syncwait
                  /\ \A j \in 1 .. Len(tbl) : j # i => point'[j] = tbl[j]
                BY <3>1 DEF SyncwaitSet
            <4> QED  BY <3>1, <3>3, <3>4, <4>1, RaisedSet
        <3>6. n \notin Raised(point)
            BY <1>a, <1>b, <3>1, <3>3, RaisedName
        <3>7. Points!Party(n) # {}
            <4>1. Cardinality(Sections(i)) > 0
                BY <1>a, <1>b, <3>1, <3>3 DEF NblockedCountsSections
            <4>2. Sections(i) # {}
                BY <4>1, FS_EmptySet
            <4> QED  BY <1>a, <3>1, <3>3, <4>2, PartyIsSections
        <3>8. Places[t] = Points!Out
            BY <1>a, <2>0, PlaceAt
        <3>9. /\ Places' = [Places EXCEPT ![t] = Place(t)'] /\ pt'[t] = i /\ call'[t] = call[t]
            BY <1>a, <1>c, <3>1, PlacesStep DEF SyncwaitSet
        <3>10. Place(t)' = Points!Held(n)
            <4>1. point'[i].name = n /\ i # 0
                BY <3>1, <3>3 DEF SyncwaitSet, SameTable
            <4> QED  BY <1>d, <3>9, <4>1 DEF Place, Points!Held
        <3> QED  BY <3>2, <3>5, <3>6, <3>7, <3>8, <3>9, <3>10 DEF Points!Exec, Points!Goes
    <2>4. ASSUME NEW a \in acquire(call[t].name), Grown(a.tbl), a.i \in 1 .. Len(a.tbl)
          PROVE  a.tbl[a.i].is_enabled
        <3>1. Len(a.tbl) \in Nat /\ Len(point) <= Len(a.tbl)
            BY <1>b, <2>4, BoundAssumption DEF Grown
        <3> QED  BY <1>b, <2>4, <3>1 DEF Grown
    <2> QED  BY <1>a, <1>2, <2>1, <2>2, <2>3, <2>4, ExecShape
<1> QED  BY <1>1, <1>2

(* The end of a section, and of the hold with the last one. *)
LEMMA PointsUnblock ==
    ASSUME Fits, PointsInv, PointsInv', NEW t \in Threads, ds_unblock_locked(t)
    PROVE  \E n \in Names : Points!Leave(t, n)
<1>a. /\ TypeInv /\ TypeInv' /\ TypeOK /\ TypeOK' /\ ControlOK /\ Calm /\ NblockedCountsSections
      /\ PointOK /\ Alive' /\ Distinct(point)
    BY DEF PointsInv, RendezvousInv, CountInv, TypeInv
<1>b. point \in Seq(Point) /\ Len(point) \in Nat /\ DOMAIN point = 1 .. Len(point) /\ Grown(point)
    BY <1>a, SameGrown DEF TypeOK
<1> DEFINE i == look_up(point, call[t].name)
<1>1. Region(t, "lock", "ds_unblock")
    BY DEF ds_unblock_locked
<1>2. /\ pt[t] # 0 /\ pt[t] \in 1 .. Len(point) /\ i = pt[t] /\ ~inactive
      /\ pc[t] = "lock" /\ call[t].fn = "ds_unblock"
    <2>1. pc[t] = "lock" /\ call[t].fn = "ds_unblock" /\ pt[t] # 0 /\ call[t].name \in Names
        BY <1>a, <1>1 DEF PointOK, ControlOK, Region
    <2>2. life = "up"
        BY <1>a, <2>1, BusyUp
    <2>3. i = pt[t]
        BY <1>a, <2>1 DEF PointOK, Fits
    <2> QED  BY <1>a, <2>1, <2>2, <2>3 DEF TypeOK, Calm, inactive
<1>3. unblock(i) /\ Becomes(t, "idle", 0, 0)
    <2>1. ~Becomes(t, "aborted", pt[t], 0)
        BY <1>a DEF TypeOK, Becomes, Alive
    <2> QED  BY <1>2, <2>1 DEF ds_unblock_locked, Return
<1> HIDE DEF i
<1>4. /\ SameTable(point', point)
      /\ \A j \in 1 .. Len(point) : j # i => point'[j] = point[j]
      /\ point[i].nblocked = 1 => ~point'[i].in_syncwait
      /\ point[i].nblocked # 1 => point'[i].in_syncwait = point[i].in_syncwait
    BY <1>a, <1>2, <1>3, UnblockTable
<1>5. PICK n \in Names : n = point[i].name
    BY <1>b, <1>2, PointName
<1>6. Points!Party(n) = Sections(i) /\ point[i].nblocked = Cardinality(Sections(i))
    BY <1>a, <1>b, <1>2, <1>5, PartyIsSections DEF NblockedCountsSections
<1>7. Sections(i) = {t} <=> point[i].nblocked = 1
    <2>1. IsFiniteSet(Sections(i)) /\ t \in Sections(i)
        BY <1>2, ThreadsAssumption, FS_Subset DEF Sections
    <2>2. Cardinality({t}) = 1 /\ IsFiniteSet({t})
        BY FS_Singleton
    <2>3. ASSUME Cardinality(Sections(i)) = 1 PROVE Sections(i) = {t}
        BY <2>1, <2>2, <2>3, FS_Subset
    <2> QED  BY <1>6, <2>2, <2>3
<1>8. Raised(point') = IF Points!Party(n) = {t} THEN Raised(point) \ {n} ELSE Raised(point)
    <2>1. CASE point[i].nblocked = 1
        <3>1. Raised(point') = Raised(point) \ {n}
            BY <1>a, <1>b, <1>2, <1>4, <1>5, <2>1, RaisedSet
        <3> QED  BY <1>6, <1>7, <2>1, <3>1
    <2>2. CASE point[i].nblocked # 1
        <3>1. /\ point' \in Seq(Point) /\ Len(point') = Len(point)
              /\ \A j \in 1 .. Len(point) : /\ point'[j].name = point[j].name
                                             /\ point'[j].in_syncwait = point[j].in_syncwait
            BY <1>4, <2>2 DEF SameTable
        <3>2. Raised(point') = Raised(point)
            BY <1>b, <3>1, RaisedSame
        <3> QED  BY <1>6, <1>7, <2>2, <3>2
    <2> QED  BY <2>1, <2>2
<1>9. Places[t] = Points!Runs(n)
    BY <1>a, <1>2, <1>5, PlaceAt
<1>10. Places' = [Places EXCEPT ![t] = Place(t)'] /\ pt'[t] = 0
    BY <1>a, <1>b, <1>1, <1>3, <1>4, PlacesStep
<1>11. Place(t)' = Points!Out
    BY <1>10 DEF Place, Points!Out
<1> QED  BY <1>8, <1>9, <1>10, <1>11 DEF Points!Leave, Points!Goes

(* Nobody is at a point while all threads are idle, so none is raised. *)
LEMMA PointsIdle ==
    ASSUME PointsInv, \A t \in Threads : pc[t] = "idle"
    PROVE  Raised(point) = {}
<1>a. TypeInv /\ ControlOK /\ NblockedCountsSections /\ SyncwaitCounted
      /\ DOMAIN point = 1 .. Len(point)
    BY DEF PointsInv, RendezvousInv, CountInv, TypeInv, TypeOK
<1>1. ASSUME NEW i \in DOMAIN point PROVE ~point[i].in_syncwait
    <2>1. \A t \in Threads : pt[t] = 0
        BY <1>a DEF ControlOK
    <2>2. i # 0
        BY <1>a
    <2>3. Sections(i) = {}
        BY <2>1, <2>2 DEF Sections
    <2>4. point[i].nblocked = 0
        BY <1>a, <2>3, FS_EmptySet DEF NblockedCountsSections
    <2> QED  BY <1>a, <2>4 DEF SyncwaitCounted
<1> QED  BY <1>1 DEF Raised

(* What happens outside of the locked regions is not seen. *)
LEMMA PointsOutside ==
    ASSUME OnlyRendezvous, PointsInv, PointsInv',
           \/ \E t \in Threads : Start(t) \/ ds_unblock(t) \/ spurious_wakeup(t)
           \/ ds_init \/ ds_destroy \/ UNCHANGED vars
    PROVE  UNCHANGED Points!pointVars
<1>a. TypeInv /\ TypeOK /\ ControlOK /\ ListenOK /\ PointOK
    BY DEF PointsInv, RendezvousInv, CountInv, TypeInv
<1>1. ASSUME UNCHANGED <<point, pt>>,
             \A u \in Threads : pt[u] # 0 =>
                \/ pc'[u] = pc[u] /\ call'[u].fn = call[u].fn
                \/ /\ pc[u] # "cond" /\ pc'[u] # "cond"
                   /\ call[u].fn # "ds_exec" /\ call'[u].fn # "ds_exec"
      PROVE  UNCHANGED Points!pointVars
    <2>1. ASSUME NEW u \in Threads PROVE Place(u)' = Place(u)
        BY <1>1 DEF Place
    <2>2. Places' = Places
        BY <2>1 DEF Places
    <2> QED  BY <1>1, <2>2 DEF Points!pointVars, Raised
<1>2. CASE UNCHANGED vars \/ ds_destroy \/ \E t \in Threads : spurious_wakeup(t)
    BY <1>1, <1>2 DEF vars, ds_destroy, spurious_wakeup, local
<1>3. CASE ds_init
    <2>1. UNCHANGED <<pc, pt>> /\ point' = <<>> /\ \A t \in Threads : pc[t] = "idle" /\ pt[t] = 0
        BY <1>a, <1>3 DEF ds_init, local, ControlOK
    <2>2. Raised(point) = {} /\ Raised(point') = {}
        <3>1. Raised(<<>>) = {}
            BY DEF Raised
        <3> QED  BY <2>1, <3>1, PointsIdle
    <2>3. Places' = Places
        <3>1. ASSUME NEW u \in Threads PROVE Place(u)' = Place(u)
            BY <2>1 DEF Place
        <3> QED  BY <3>1 DEF Places
    <2> QED  BY <2>2, <2>3 DEF Points!pointVars
<1>4. CASE \E t \in Threads : Start(t)
    <2>1. PICK t \in Threads : Start(t)
        BY <1>4
    <2>2. ~local_inactive
        <3>1. life = "up"
            BY <2>1 DEF Start, ds_wait, ds_exec, ds_enable, ds_disable_all, ds_activate, Begin
        <3> QED  BY <1>a, <3>1, NotLocalInactive
    <2>3. PICK fn \in Functions, c \in Program[t] : Begin(t, fn, c) /\ Becomes(t, "lock", 0, 0)
        BY <2>1, <2>2 DEF Start, ds_wait, ds_exec, ds_enable, ds_disable_all, ds_activate, Functions
    <2>4. /\ UNCHANGED <<point, pt>> /\ pt[t] = 0
          /\ \A u \in Threads \ {t} : pc'[u] = pc[u] /\ call'[u] = call[u]
        BY <1>a, <2>3 DEF TypeOK, ControlOK, Begin, Becomes
    <2> QED  BY <1>1, <2>4
<1>5. CASE \E t \in Threads : ds_unblock(t)
    <2>1. PICK t \in Threads : ds_unblock(t)
        BY <1>5
    <2>2. ~local_inactive
        BY <1>a, <2>1, BusyUp, NotLocalInactive DEF ds_unblock
    <2>3. /\ Becomes(t, "lock", pt[t], 0) /\ pc[t] = "section" /\ call[t].fn = "ds_wait"
          /\ point' = point /\ call' = [call EXCEPT ![t].fn = "ds_unblock"]
        BY <1>a, <2>1, <2>2 DEF ds_unblock, ControlOK
    <2>4. /\ pc'[t] = "lock" /\ pt' = pt /\ call'[t].fn = "ds_unblock"
          /\ \A u \in Threads \ {t} : pc'[u] = pc[u] /\ call'[u] = call[u]
        <3>1. call[t] \in Call
            BY <1>a DEF TypeOK
        <3>2. [call[t] EXCEPT !.fn = "ds_unblock"].fn = "ds_unblock"
            BY <3>1 DEF Call
        <3>3. call'[t] = [call[t] EXCEPT !.fn = "ds_unblock"]
            BY <1>a, <2>3 DEF TypeOK
        <3> QED  BY <1>a, <2>3, <3>2, <3>3 DEF TypeOK, Becomes
    <2> QED  BY <1>1, <2>3, <2>4
<1> QED  BY <1>2, <1>3, <1>4, <1>5

(* Every step is one of SyncPoints or is not seen. *)
LEMMA PointsStep ==
    ASSUME OnlyRendezvous
    PROVE  PointsInv /\ PointsInv' /\ [Next]_vars => [Points!Next]_Points!pointVars
<1> SUFFICES ASSUME PointsInv, PointsInv', [Next]_vars
             PROVE  [Points!Next]_Points!pointVars
    OBVIOUS
<1>0. Fits /\ Calm
    BY DEF OnlyRendezvous, PointsInv, RendezvousInv
<1>1. CASE \E t \in Threads : Progress(t)
    <2>1. PICK t \in Threads : Progress(t)
        BY <1>1
    <2>2. ~(ds_enable_locked(t) \/ ds_disable_all_locked(t) \/ ds_activate_store(t)
            \/ ds_activate_locked(t) \/ ds_activate_unlock(t))
        BY <1>0 DEF Calm, ds_enable_locked, ds_disable_all_locked, ds_activate_store,
                    ds_activate_locked, ds_activate_unlock, Region
    <2>3. CASE ds_unblock(t)
        BY <2>3, PointsOutside
    <2>4. CASE ds_wait_locked(t) \/ ds_wait_resume(t)
        BY <1>0, <2>4, PointsWait DEF Points!Next
    <2>5. CASE ds_exec_locked(t) \/ ds_exec_resume(t)
        BY <1>0, <2>5, PointsExec DEF Points!Next
    <2>6. CASE ds_unblock_locked(t)
        BY <1>0, <2>6, PointsUnblock DEF Points!Next
    <2> QED  BY <2>1, <2>2, <2>3, <2>4, <2>5, <2>6 DEF Progress
<1>2. CASE \/ \E t \in Threads : Start(t) \/ spurious_wakeup(t)
           \/ ds_init \/ ds_destroy \/ UNCHANGED vars
    BY <1>2, PointsOutside
<1> QED  BY <1>1, <1>2 DEF Next

(* While nobody disables a point the facility is the rendezvous of SyncPoints,
   for any number of threads, points and calls: a section runs only under a
   hold, and ds_exec goes on only after the last of them, whatever order the
   mutex, the broadcasts and spurious wake-ups bring about. *)
THEOREM IsSyncPoints ==
    ASSUME OnlyRendezvous
    PROVE  Spec => ImplementsPoints
<1>1. Init => PointsInv /\ WakeInv
    BY RendezvousInit, TypeInit
    DEF Init, PointsInv, WakeInv, SyncwaitCounted, ExecNotLost, Distinct
<1>2. PointsInv /\ WakeInv /\ [Next]_vars => (PointsInv /\ WakeInv)'
    <2> SUFFICES ASSUME PointsInv, WakeInv, [Next]_vars PROVE PointsInv' /\ WakeInv'
        OBVIOUS
    <2>1. RendezvousInv' /\ WakeInv'
        BY RendezvousNext, WakeNext DEF PointsInv
    <2>2. Distinct(point')
        BY DistinctNext DEF PointsInv, WakeInv, OnlyRendezvous
    <2> QED  BY <2>1, <2>2 DEF PointsInv, WakeInv
<1>3. Init => Points!Init
    <2> SUFFICES ASSUME Init PROVE Points!Init
        OBVIOUS
    <2>1. \A t \in Threads : Place(t) = Points!Out
        BY DEF Init, Place, Points!Out
    <2>2. Raised(point) = {}
        BY DEF Init, Raised
    <2> QED  BY <2>1, <2>2 DEF Points!Init, Places
<1>4. PointsInv /\ PointsInv' /\ [Next]_vars => [Points!Next]_Points!pointVars
    BY PointsStep
<1> QED  BY <1>1, <1>2, <1>3, <1>4, PTL DEF Spec, ImplementsPoints, Points!Spec

=============================================================================
