------------------------------ MODULE DebugSync ------------------------------
(***************************************************************************)
(* The debug synchronisation facility, debugsync/debugsync.c.              *)
(*                                                                         *)
(* Threads of the program under test call the API.  A thread that calls    *)
(* ds_wait(p) blocks until some thread reaches ds_exec(p); it then runs    *)
(* its code section and calls ds_unblock(p), and ds_exec(p) holds its      *)
(* caller until every waiting section is over.  Controllers enable and     *)
(* disable points and switch the whole facility on and off.                *)
(*                                                                         *)
(* One mutex guards the table of points and one condition variable serves  *)
(* every wait, so a locked region (from lock or wake-up to unlock or       *)
(* cond_wait) is one action.  Two kinds of step run without the mutex and  *)
(* are actions of their own: the local_inactive() test at the head of each *)
(* function and the do_activate(true) of ds_activate.  The locked region   *)
(* of ds_activate is split in two, because the unlocked store may fall     *)
(* between its test and its own store; mtx is its owner meanwhile.         *)
(*                                                                         *)
(* A thread makes at most MaxCalls[t] calls, taken from Program[t].  It    *)
(* follows debugsync/utest2.c: a section starts when ds_wait returned 0    *)
(* and ends with ds_unblock of the same name.                              *)
(***************************************************************************)
EXTENDS Integers, Sequences, FiniteSets

CONSTANTS
    Threads,             \* threads of the program under test
    Names,               \* names passed to the API
    Trunc,               \* what strndup keeps of a name (32 characters of it)
    Program,             \* Program[t]: the calls thread t may make
    MaxCalls,            \* bound: how many calls thread t makes
    InitFlags,           \* the activation flags ds_init may be given
    DS_MAX_POINT_COUNT,  \* size of the table of points
    NoThread,            \* owner of the free mutex
    NoName               \* the name of a call that takes none

Functions == {"ds_wait", "ds_exec", "ds_enable", "ds_disable_all", "ds_activate"}

Call == [fn : Functions \cup {"ds_unblock"}, name : Names \cup {NoName}, flag : BOOLEAN]

(* The calls a program is made of. *)
Wait(n)      == [fn |-> "ds_wait",        name |-> n,      flag |-> FALSE]
Exec(n)      == [fn |-> "ds_exec",        name |-> n,      flag |-> FALSE]
Enable(n, b) == [fn |-> "ds_enable",      name |-> n,      flag |-> b]
DisableAll   == [fn |-> "ds_disable_all", name |-> NoName, flag |-> FALSE]
Activate(b)  == [fn |-> "ds_activate",    name |-> NoName, flag |-> b]

Flags == {"DS_ACTIVE", "DS_GLOBAL"}

ProgramCalls ==
    {Wait(n) : n \in Names} \cup {Exec(n) : n \in Names}
        \cup {Enable(n, b) : n \in Names, b \in BOOLEAN}
        \cup {DisableAll} \cup {Activate(b) : b \in BOOLEAN}

ASSUME ThreadsAssumption == IsFiniteSet(Threads) /\ NoThread \notin Threads
ASSUME NamesAssumption   == NoName \notin Names
ASSUME TruncAssumption   == /\ DOMAIN Trunc = Names
                            /\ \A n \in Names : Trunc[n] \in Names => Trunc[Trunc[n]] = Trunc[n]
ASSUME ProgramAssumption == Program \in [Threads -> SUBSET ProgramCalls]
ASSUME BoundAssumption   == /\ MaxCalls \in [Threads -> Nat]
                            /\ DS_MAX_POINT_COUNT \in Nat
ASSUME FlagsAssumption   == InitFlags \subseteq SUBSET Flags

VARIABLES
    life,        \* "down" before ds_init and after ds_destroy, else "up"
    activation,  \* ds.activation, as the set of its flags
    point,       \* ds.point[0 .. ds.count-1], counted from 1
    waitset,     \* threads asleep on ds.cond
    mtx,         \* owner of ds.mtx between two actions
    pc,          \* where each thread stands
    call,        \* the call it is making (in a section: the ds_wait)
    pt,          \* the point that call acquired, 0 when none; a waiting
                 \* section keeps it until its ds_unblock returns
    rc,          \* its last return code
    left         \* how many calls it may still start

vars == <<life, activation, point, waitset, mtx, pc, call, pt, rc, left>>
local == <<pc, pt, rc>>

Labels == {"idle",     \* outside the facility
           "lock",     \* past the unlocked test, about to lock ds.mtx
           "cond",     \* in pthread_cond_wait
           "section",  \* ds_wait returned 0, ds_unblock not called yet
           "store",    \* in ds_activate, about to store without the mutex
           "locked",   \* in ds_activate, holding ds.mtx
           "aborted"}  \* assert() failed

Point == [name : {Trunc[n] : n \in Names}, is_enabled : BOOLEAN,
          in_syncwait : BOOLEAN, nblocked : Nat]

-----------------------------------------------------------------------------
(* Helpers of the source. *)

inactive == "DS_ACTIVE" \notin activation

(* Mutant: the test ignores DS_GLOBAL. *)
local_inactive_any == inactive

local_inactive == activation \cap {"DS_ACTIVE", "DS_GLOBAL"} = {}

do_activate(activate) ==
    activation' = IF activate THEN activation \cup {"DS_ACTIVE"}
                              ELSE activation \ {"DS_ACTIVE"}

(* Mutant: the points are disabled and nobody is told. *)
disable_all_silently ==
    /\ point' = [i \in DOMAIN point |-> [point[i] EXCEPT !.is_enabled = FALSE]]
    /\ UNCHANGED waitset

disable_all ==
    /\ point' = [i \in DOMAIN point |-> [point[i] EXCEPT !.is_enabled = FALSE]]
    /\ waitset' = IF \E i \in DOMAIN point :
                        point[i].is_enabled /\ point[i].nblocked > 0
                  THEN {} ELSE waitset

new_point(n) == [name |-> Trunc[n], is_enabled |-> TRUE,
                 in_syncwait |-> FALSE, nblocked |-> 0]

(* Mutant: the limit is tested with > instead of >=. *)
create_new_off_by_one(n) ==
    {point} \cup (IF Len(point) > DS_MAX_POINT_COUNT
                  THEN {} ELSE {Append(point, new_point(n))})

(* The table after create_new: unchanged when it is full, and when strndup
   finds no memory. *)
create_new(n) ==
    {point} \cup (IF Len(point) >= DS_MAX_POINT_COUNT
                  THEN {} ELSE {Append(point, new_point(n))})

(* Mutant: the scan stops one point short. *)
look_up_off_by_one(tbl, n) ==
    IF \E i \in 1 .. Len(tbl) - 1 : tbl[i].name = n
    THEN CHOOSE i \in 1 .. Len(tbl) - 1 :
            tbl[i].name = n /\ \A j \in 1 .. i - 1 : tbl[j].name # n
    ELSE 0

(* The first point of table tbl with name n, 0 for NULL. *)
look_up(tbl, n) ==
    IF \E i \in DOMAIN tbl : tbl[i].name = n
    THEN CHOOSE i \in DOMAIN tbl :
            tbl[i].name = n /\ \A j \in 1 .. i - 1 : tbl[j].name # n
    ELSE 0

(* The table and the point acquire may leave: found, created, or NULL. *)
acquire(n) ==
    IF look_up(point, n) # 0
    THEN {[tbl |-> point, i |-> look_up(point, n)]}
    ELSE {[tbl |-> tbl, i |-> IF Len(tbl) > Len(point) THEN Len(tbl) ELSE 0] :
              tbl \in create_new(n)}

-----------------------------------------------------------------------------
(* Steps of a thread. *)

Becomes(t, label, i, r) ==
    /\ pc' = [pc EXCEPT ![t] = label]
    /\ pt' = [pt EXCEPT ![t] = i]
    /\ rc' = [rc EXCEPT ![t] = r]

Return(t, r) == Becomes(t, "idle", 0, r)

(* Thread t starts a call of fn and runs its unlocked test.  Where the test
   sends it is up to the function. *)
Begin(t, fn, c) ==
    /\ life = "up" /\ pc[t] = "idle" /\ left[t] > 0
    /\ c \in Program[t] /\ c.fn = fn
    /\ call' = [call EXCEPT ![t] = c]
    /\ left' = [left EXCEPT ![t] = @ - 1]
    /\ UNCHANGED <<life, activation, point, waitset, mtx>>

(* Thread t runs a region under ds.mtx and leaves the mutex free. *)
Region(t, label, fn) ==
    /\ mtx = NoThread
    /\ pc[t] = label /\ call[t].fn = fn
    /\ UNCHANGED <<life, activation, mtx, call, left>>

-----------------------------------------------------------------------------
(* ds_wait *)

ds_wait(t) == \E c \in Program[t] :
    /\ Begin(t, "ds_wait", c)
    /\ IF local_inactive THEN Becomes(t, "section", 0, 0)
                         ELSE Becomes(t, "lock", 0, 0)

(* The wait loop, entered or resumed with the table tbl. *)
wait_loop(t, tbl, i) ==
    \/ /\ ~tbl[i].in_syncwait /\ tbl[i].is_enabled
       /\ waitset' = waitset \cup {t}
       /\ Becomes(t, "cond", i, 0)
    \/ /\ tbl[i].in_syncwait /\ tbl[i].is_enabled
       /\ Becomes(t, "section", i, 0)
       /\ UNCHANGED waitset
    \/ /\ ~tbl[i].is_enabled
       /\ Return(t, -1)
       /\ UNCHANGED waitset

ds_wait_locked(t) ==
    /\ Region(t, "lock", "ds_wait")
    /\ \/ /\ inactive
          /\ Return(t, -1)
          /\ UNCHANGED <<point, waitset>>
       \/ /\ ~inactive
          /\ \E a \in acquire(call[t].name) :
                IF a.i = 0
                THEN Return(t, -1) /\ UNCHANGED <<point, waitset>>
                ELSE LET tbl == [a.tbl EXCEPT ![a.i].nblocked = @ + 1]
                     IN  point' = tbl /\ wait_loop(t, tbl, a.i)

(* Mutant: nblocked++ is inside the wait loop. *)
ds_wait_resume_recount(t) ==
    /\ t \notin waitset
    /\ Region(t, "cond", "ds_wait")
    /\ wait_loop(t, point, pt[t])
    /\ point' = [point EXCEPT ![pt[t]].nblocked = @ + 1]

(* Mutant: a wake-up is taken for the release (if instead of while). *)
ds_wait_resume_once(t) ==
    /\ t \notin waitset
    /\ Region(t, "cond", "ds_wait")
    /\ Becomes(t, "section", pt[t], 0)
    /\ UNCHANGED <<point, waitset>>

ds_wait_resume(t) ==
    /\ t \notin waitset
    /\ Region(t, "cond", "ds_wait")
    /\ wait_loop(t, point, pt[t])
    /\ UNCHANGED point

-----------------------------------------------------------------------------
(* ds_exec *)

ds_exec(t) == \E c \in Program[t] :
    /\ Begin(t, "ds_exec", c)
    /\ IF local_inactive THEN Return(t, 0) ELSE Becomes(t, "lock", 0, 0)

(* Mutant: the hold does not look at is_enabled. *)
exec_loop_deaf(t, tbl, i, sleepers) ==
    \/ /\ tbl[i].in_syncwait
       /\ point' = tbl
       /\ waitset' = sleepers \cup {t}
       /\ Becomes(t, "cond", i, 0)
    \/ /\ ~tbl[i].in_syncwait
       /\ point' = tbl
       /\ waitset' = sleepers
       /\ Return(t, IF tbl[i].is_enabled THEN 0 ELSE -1)

(* Mutant: a hold that is cut short leaves the point locked. *)
exec_loop_keeps_syncwait(t, tbl, i, sleepers) ==
    \/ /\ tbl[i].in_syncwait /\ tbl[i].is_enabled
       /\ point' = tbl
       /\ waitset' = sleepers \cup {t}
       /\ Becomes(t, "cond", i, 0)
    \/ /\ ~(tbl[i].in_syncwait /\ tbl[i].is_enabled)
       /\ point' = tbl
       /\ waitset' = sleepers
       /\ Return(t, IF tbl[i].is_enabled THEN 0 ELSE -1)

(* The hold loop, with the table tbl and the sleepers asleep so far; once
   it ends the point is unlocked. *)
exec_loop(t, tbl, i, sleepers) ==
    \/ /\ tbl[i].in_syncwait /\ tbl[i].is_enabled
       /\ point' = tbl
       /\ waitset' = sleepers \cup {t}
       /\ Becomes(t, "cond", i, 0)
    \/ /\ ~(tbl[i].in_syncwait /\ tbl[i].is_enabled)
       /\ point' = [tbl EXCEPT ![i].in_syncwait = FALSE]
       /\ waitset' = sleepers
       /\ Return(t, IF tbl[i].is_enabled THEN 0 ELSE -1)

(* Mutant: the point is raised without a broadcast. *)
raise_silently(t, tbl, i) ==
    exec_loop(t, [tbl EXCEPT ![i].in_syncwait = TRUE], i, waitset)

(* Another ds_exec holds at the point. *)
is_busy(pnt) == pnt.is_enabled /\ pnt.in_syncwait

(* Lock the point, broadcast, and hold. *)
raise(t, tbl, i) ==
    exec_loop(t, [tbl EXCEPT ![i].in_syncwait = TRUE], i, {})

ds_exec_locked(t) ==
    /\ Region(t, "lock", "ds_exec")
    /\ \/ /\ inactive
          /\ Return(t, -1)
          /\ UNCHANGED <<point, waitset>>
       \/ /\ ~inactive
          /\ \E a \in acquire(call[t].name) :
                \/ /\ a.i = 0
                   /\ Return(t, -1)
                   /\ UNCHANGED <<point, waitset>>
                \/ /\ a.i # 0 /\ is_busy(a.tbl[a.i])
                   /\ Return(t, -1)
                   /\ point' = a.tbl /\ UNCHANGED waitset
                \/ /\ a.i # 0 /\ ~is_busy(a.tbl[a.i]) /\ a.tbl[a.i].nblocked = 0
                   /\ Return(t, 0)
                   /\ point' = a.tbl /\ UNCHANGED waitset
                \/ /\ a.i # 0 /\ ~is_busy(a.tbl[a.i]) /\ a.tbl[a.i].nblocked > 0
                   /\ raise(t, a.tbl, a.i)

(* Mutant: the hold ends at the first wake-up (if instead of while). *)
ds_exec_resume_once(t) ==
    /\ t \notin waitset
    /\ Region(t, "cond", "ds_exec")
    /\ point' = [point EXCEPT ![pt[t]].in_syncwait = FALSE]
    /\ Return(t, IF point[pt[t]].is_enabled THEN 0 ELSE -1)
    /\ UNCHANGED waitset

ds_exec_resume(t) ==
    /\ t \notin waitset
    /\ Region(t, "cond", "ds_exec")
    /\ exec_loop(t, point, pt[t], waitset)

-----------------------------------------------------------------------------
(* ds_unblock *)

ds_unblock(t) ==
    /\ pc[t] = "section"
    /\ call' = [call EXCEPT ![t].fn = "ds_unblock"]
    /\ IF local_inactive THEN Return(t, 0) ELSE Becomes(t, "lock", pt[t], 0)
    /\ UNCHANGED <<life, activation, point, waitset, mtx, left>>

(* Mutant: every ds_unblock ends the sync-wait, not only the last one. *)
unblock_early(i) ==
    /\ point' = [point EXCEPT ![i].nblocked = @ - 1, ![i].in_syncwait = FALSE]
    /\ waitset' = {}

(* Mutant: the last ds_unblock does not broadcast. *)
unblock_silently(i) ==
    /\ point' = [point EXCEPT ![i].nblocked = @ - 1,
                              ![i].in_syncwait = @ /\ point[i].nblocked > 1]
    /\ UNCHANGED waitset

(* One section less at point i; the last one ends the sync-wait. *)
unblock(i) ==
    \/ /\ point[i].nblocked > 1
       /\ point' = [point EXCEPT ![i].nblocked = @ - 1]
       /\ UNCHANGED waitset
    \/ /\ point[i].nblocked = 1
       /\ point' = [point EXCEPT ![i] = [@ EXCEPT !.nblocked = 0, !.in_syncwait = FALSE]]
       /\ waitset' = {}

ds_unblock_locked(t) ==
    LET i == look_up(point, call[t].name) IN
    /\ Region(t, "lock", "ds_unblock")
    /\ \/ /\ inactive \/ i = 0
          /\ Return(t, -1)
          /\ UNCHANGED <<point, waitset>>
       \/ /\ ~inactive /\ i # 0 /\ point[i].nblocked = 0
          /\ Becomes(t, "aborted", pt[t], 0)
          /\ UNCHANGED <<point, waitset>>
       \/ /\ ~inactive /\ i # 0 /\ point[i].nblocked > 0
          /\ unblock(i)
          /\ Return(t, 0)

-----------------------------------------------------------------------------
(* controllers *)

ds_enable(t) == \E c \in Program[t] :
    /\ Begin(t, "ds_enable", c)
    /\ IF local_inactive THEN Return(t, 0) ELSE Becomes(t, "lock", 0, 0)

(* Mutant: disabling a point forgets its sections. *)
set_enabled_forgets(i, enable) ==
    /\ point' = [point EXCEPT ![i].is_enabled = enable,
                              ![i].nblocked = IF enable THEN @ ELSE 0]
    /\ waitset' = IF ~enable /\ point[i].nblocked > 0 THEN {} ELSE waitset

(* Mutant: disabling a point wakes nobody. *)
set_enabled_silently(i, enable) ==
    /\ point' = [point EXCEPT ![i].is_enabled = enable]
    /\ UNCHANGED waitset

set_enabled(i, enable) ==
    /\ point' = [point EXCEPT ![i].is_enabled = enable]
    /\ waitset' = IF ~enable /\ point[i].nblocked > 0 THEN {} ELSE waitset

ds_enable_locked(t) ==
    LET i == look_up(point, call[t].name) IN
    /\ Region(t, "lock", "ds_enable")
    /\ \/ /\ inactive \/ i = 0
          /\ Return(t, -1)
          /\ UNCHANGED <<point, waitset>>
       \/ /\ ~inactive /\ i # 0
          /\ set_enabled(i, call[t].flag)
          /\ Return(t, 0)

ds_disable_all(t) == \E c \in Program[t] :
    /\ Begin(t, "ds_disable_all", c)
    /\ IF local_inactive THEN Return(t, 0) ELSE Becomes(t, "lock", 0, 0)

ds_disable_all_locked(t) ==
    /\ Region(t, "lock", "ds_disable_all")
    /\ IF inactive THEN UNCHANGED <<point, waitset>> ELSE disable_all
    /\ Return(t, 0)

ds_activate(t) == \E c \in Program[t] :
    /\ Begin(t, "ds_activate", c)
    /\ IF local_inactive /\ c.flag THEN Becomes(t, "store", 0, 0)
                                   ELSE Becomes(t, "lock", 0, 0)

(* The store ds_activate makes without the mutex. *)
ds_activate_store(t) ==
    /\ pc[t] = "store"
    /\ do_activate(TRUE)
    /\ Return(t, 0)
    /\ UNCHANGED <<life, point, waitset, mtx, call, left>>

(* Its locked region: test and disable_all, then the store. *)
ds_activate_locked(t) ==
    /\ mtx = NoThread
    /\ pc[t] = "lock" /\ call[t].fn = "ds_activate"
    /\ mtx' = t
    /\ IF inactive THEN UNCHANGED <<point, waitset>> ELSE disable_all
    /\ Becomes(t, "locked", 0, 0)
    /\ UNCHANGED <<life, activation, call, left>>

ds_activate_unlock(t) ==
    /\ pc[t] = "locked"
    /\ do_activate(call[t].flag)
    /\ mtx' = NoThread
    /\ Return(t, 0)
    /\ UNCHANGED <<life, point, waitset, call, left>>

-----------------------------------------------------------------------------
(* main *)

ds_init ==
    /\ life = "down"
    /\ life' = "up"
    /\ activation' \in InitFlags
    /\ point' = <<>>
    /\ UNCHANGED <<waitset, mtx, call, left, local>>

(* main joins the threads first, as utest2.c does; the names are freed but
   the count stays. *)
ds_destroy ==
    /\ life = "up"
    /\ \A t \in Threads : pc[t] = "idle"
    /\ life' = "down"
    /\ UNCHANGED <<activation, point, waitset, mtx, call, left, local>>

(* POSIX lets pthread_cond_wait return with no signal. *)
spurious_wakeup(t) ==
    /\ t \in waitset
    /\ waitset' = waitset \ {t}
    /\ UNCHANGED <<life, activation, point, mtx, call, left, local>>

-----------------------------------------------------------------------------

Init ==
    /\ life = "down" /\ activation = {} /\ point = <<>>
    /\ waitset = {} /\ mtx = NoThread
    /\ pc = [t \in Threads |-> "idle"]
    /\ call = [t \in Threads |-> DisableAll]
    /\ pt = [t \in Threads |-> 0]
    /\ rc = [t \in Threads |-> 0]
    /\ left = MaxCalls

(* What thread t does on its own once it has started a call. *)
Progress(t) ==
    \/ ds_wait_locked(t) \/ ds_wait_resume(t)
    \/ ds_exec_locked(t) \/ ds_exec_resume(t)
    \/ ds_unblock(t) \/ ds_unblock_locked(t)
    \/ ds_enable_locked(t) \/ ds_disable_all_locked(t)
    \/ ds_activate_store(t) \/ ds_activate_locked(t) \/ ds_activate_unlock(t)

(* The calls thread t may start. *)
Start(t) ==
    \/ ds_wait(t) \/ ds_exec(t)
    \/ ds_enable(t) \/ ds_disable_all(t) \/ ds_activate(t)

(* A failed assertion ends the process. *)
Alive == \A t \in Threads : pc[t] # "aborted"

Next ==
    /\ Alive
    /\ \/ ds_init \/ ds_destroy
       \/ \E t \in Threads : Start(t) \/ Progress(t) \/ spurious_wakeup(t)

Spec == Init /\ [][Next]_vars

(* A thread that holds or awaits the mutex runs on, and a section ends;
   nobody has to start a call. *)
FairSpec == Spec /\ \A t \in Threads : WF_vars(Alive /\ Progress(t))

-----------------------------------------------------------------------------
(* Properties. *)

TypeOK ==
    /\ life \in {"down", "up"}
    /\ activation \in SUBSET Flags
    /\ point \in Seq(Point) /\ Len(point) <= DS_MAX_POINT_COUNT
    /\ waitset \in SUBSET Threads
    /\ mtx \in Threads \cup {NoThread}
    /\ pc \in [Threads -> Labels]
    /\ call \in [Threads -> Call]
    /\ pt \in [Threads -> 0 .. Len(point)]
    /\ rc \in [Threads -> {0, -1}]
    /\ left \in [Threads -> Nat]

(* What ties a thread's place to its call and its point; with TypeOK it is
   inductive. *)
ControlOK ==
    /\ life = "down" => \A t \in Threads : pc[t] = "idle"
    /\ \A t \in waitset : pc[t] = "cond"
    /\ \A t \in Threads :
        /\ pc[t] = "idle" => pt[t] = 0
        /\ pc[t] = "cond" => pt[t] # 0 /\ call[t].fn \in {"ds_wait", "ds_exec"}
        /\ pc[t] = "section" => call[t].fn = "ds_wait"
        /\ call[t].fn \in {"ds_wait", "ds_exec", "ds_unblock"} => call[t].name \in Names

(* The waiting sections counted at point i: from the increment of nblocked
   in ds_wait to the end of ds_unblock. *)
Sections(i) == {t \in Threads : pt[t] = i /\ call[t].fn # "ds_exec"}

(* nblocked is "# of active waiting sections" (debugsync.c:44): as many
   threads as it says are blocked in ds_wait or run their section. *)
NblockedCountsSections ==
    \A i \in DOMAIN point : point[i].nblocked = Cardinality(Sections(i))

(* Under controllers that disable points, a count may outlive its section but
   is never too low: each section still owns one. *)
NblockedCoversSections ==
    \A i \in DOMAIN point : point[i].nblocked >= Cardinality(Sections(i))

(* assert(pt->nblocked > 0) of ds_unblock never fails: no thread gives back
   a count that it, or another section at the point, did not take. *)
AssertionHolds == Alive

(* A point in sync-wait has a count, which may be one that a wait left behind
   when it erred out (NblockedCountsSections is violated then).  A part of the
   inductive invariants: the broadcasts of disable_all and ds_enable test the
   count. *)
SyncwaitCounted ==
    \A i \in DOMAIN point : point[i].in_syncwait => point[i].nblocked > 0

(* A point is locked in sync-wait only while some ds_exec holds its caller
   there, however the hold ended: by the last section, by a disable or by a
   second ds_exec.  A lock left behind would let every later ds_wait pass
   without its ds_exec and refuse every later ds_exec as busy. *)
SyncwaitHeld ==
    \A i \in DOMAIN point : point[i].in_syncwait =>
        \E t \in Threads : pc[t] = "cond" /\ call[t].fn = "ds_exec" /\ pt[t] = i

(* No sleeper on ds.cond has missed its broadcast: the condition that sent
   it to sleep in ds_wait still holds. *)
WaitNotLost ==
    \A t \in waitset : call[t].fn = "ds_wait" =>
        ~point[pt[t]].in_syncwait /\ point[pt[t]].is_enabled

(* The same for a thread that sleeps in ds_exec. *)
ExecNotLost ==
    \A t \in waitset : call[t].fn = "ds_exec" =>
        point[pt[t]].in_syncwait /\ point[pt[t]].is_enabled

(* A thread runs its section only while its point is locked in sync-wait,
   which is what makes ds_exec hold its caller. *)
SectionUnderSyncwait ==
    \A t \in Threads :
        (pc[t] \in {"section", "lock"} /\ call[t].fn # "ds_exec" /\ pt[t] # 0)
            => point[pt[t]].in_syncwait

(* The sections execute "right before the tested sections executes"
   (debugsync.h:11): when ds_exec ends its hold with 0, no section it released
   still runs. *)
ExecPassesLast ==
    [][\A t \in Threads :
          (pc[t] = "cond" /\ call[t].fn = "ds_exec" /\ pc'[t] = "idle" /\ rc'[t] = 0)
              => \A u \in Threads : ~(pc[u] = "section" /\ pt[u] = pt[t])]_vars

(* What thread t does at its point, and the points of table tbl in sync-wait,
   by name. *)
Place(t) ==
    IF pt[t] = 0 THEN <<"out", NoName>>
    ELSE <<IF call[t].fn = "ds_exec" THEN "held" ELSE IF pc[t] = "cond" THEN "waits" ELSE "runs",
           point[pt[t]].name>>

Raised(tbl) == {tbl[i].name : i \in {j \in DOMAIN tbl : tbl[j].in_syncwait}}

Places == [t \in Threads |-> Place(t)]

Points == INSTANCE SyncPoints WITH place <- Places, hold <- Raised(point)

(* While nobody disables a point the facility is the rendezvous its header
   describes (debugsync.h:10): whatever the wake-ups, the table that fills and
   the sleepers of other points, each region under ds.mtx is one of the five
   steps of SyncPoints or changes nothing of it. *)
ImplementsPoints == Points!Spec

(* Each point has a "unique name to use as ID" (debugsync.c:38). *)
UniqueNames ==
    \A i, j \in DOMAIN point : i # j => point[i].name # point[j].name

(* ds_exec, once it holds, returns: its sections end it or a controller does. *)
ExecReturns ==
    \A t \in Threads :
        (pc[t] = "cond" /\ call[t].fn = "ds_exec") ~> (pc[t] = "idle")

(* ds_exec releases the waiters: one that is blocked at a point in sync-wait
   gets to its section. *)
WaiterReleased ==
    \A t \in Threads :
        (pc[t] = "cond" /\ call[t].fn = "ds_wait" /\ point[pt[t]].in_syncwait)
            ~> (pc[t] = "section")

(* "Err out pending waits" (debugsync.c:241): once the facility is switched
   off, no call stays blocked in it, unless the facility is switched on and the
   point enabled again before the caller runs. *)
DeactivatedErrsOut ==
    \A t \in Threads :
        (inactive /\ pc[t] = "cond")
            ~> (pc[t] = "idle" \/ (~inactive /\ pc[t] = "cond" /\ point[pt[t]].is_enabled))

(* "If disabled - err out pending waits" (debugsync.c:284): a wait pending
   when its point is disabled returns -1, unless the point is enabled again
   before the caller runs. *)
DisabledErrsOut ==
    \A t \in Threads :
        (pc[t] = "cond" /\ ~point[pt[t]].is_enabled)
            ~> (rc[t] = -1 \/ (pc[t] = "cond" /\ point[pt[t]].is_enabled))

=============================================================================
