-------------------------------- MODULE Prfm --------------------------------
(***************************************************************************)
(* The performance probes of src/prof/prfm.c, with the time arithmetic of  *)
(* nbsd_time.h and rusage_ops.h, under the program prfm_test.c: probe 0    *)
(* covers the whole of test_write, probe 1 its calls of write(2), probe 2  *)
(* its busy loops; main then takes a reading with a fourth probe.          *)
(*                                                                         *)
(* The clock counts nanoseconds and never goes back; NsPerSec of them make *)
(* a second (1000000000, and 1000000 for the microseconds of a timeval,    *)
(* which stand in the same arithmetic).  The resource usage of a process   *)
(* is its user time and one counter, which stands for ru_stime and the     *)
(* other fields.                                                           *)
(***************************************************************************)
EXTENDS Integers

CONSTANTS NsPerSec,     \* units in a second
          Elapses,      \* by how much the clock, the user time and the counter
                        \* may advance between two readings
          NIter         \* the arguments num_iter

ASSUME PrfmAssumption ==
    /\ NsPerSec \in Nat \ {0}
    /\ Elapses \subseteq [ns : Nat, cpu : Nat, flt : Nat]
    /\ NIter \subseteq Nat \ {0}

-----------------------------------------------------------------------------
(* Time as seconds and nanoseconds *)

timespec(sec, nsec) == [tv_sec |-> sec, tv_nsec |-> nsec]
timespecclear == timespec(0, 0)

\* The system's reading of a clock.
clock_reading(ns) == timespec(ns \div NsPerSec, ns % NsPerSec)

\* Mutant: the carry is missed at exactly one second.
timespecadd_no_carry(t, u) ==
    LET sec == t.tv_sec + u.tv_sec
        nsec == t.tv_nsec + u.tv_nsec
    IN  IF nsec > NsPerSec THEN timespec(sec + 1, nsec - NsPerSec)
                           ELSE timespec(sec, nsec)

timespecadd(t, u) ==
    LET sec == t.tv_sec + u.tv_sec
        nsec == t.tv_nsec + u.tv_nsec
    IN  IF nsec >= NsPerSec THEN timespec(sec + 1, nsec - NsPerSec)
                            ELSE timespec(sec, nsec)

timespecsub(t, u) ==
    LET sec == t.tv_sec - u.tv_sec
        nsec == t.tv_nsec - u.tv_nsec
    IN  IF nsec < 0 THEN timespec(sec - 1, nsec + NsPerSec)
                    ELSE timespec(sec, nsec)

rusage(utime, flt) == [ru_utime |-> utime, ru_minflt |-> flt]
rusage_clear == rusage(timespecclear, 0)

rusage_add(a, b) ==
    rusage(timespecadd(a.ru_utime, b.ru_utime), a.ru_minflt + b.ru_minflt)

rusage_sub(a, b) ==
    rusage(timespecsub(a.ru_utime, b.ru_utime), a.ru_minflt - b.ru_minflt)

-----------------------------------------------------------------------------
(* A probe *)

metrics(tm, ru) == [tm |-> tm, ru |-> ru]
cleared == metrics(timespecclear, rusage_clear)

\* capture, for the flags prfm_TIME and prfm_RUSAGE: prfm_init sets both.
capture(t) ==
    metrics(clock_reading(t.ns),
            rusage(clock_reading(t.cpu), t.flt))

prfm_xinit == [start |-> cleared, accum |-> cleared]

prfm_start(r, t) == [r EXCEPT !.start = capture(t)]

prfm_stop(r, t) ==
    LET curr == capture(t)
        took == metrics(timespecsub(curr.tm, r.start.tm),
                        rusage_sub(curr.ru, r.start.ru))
    IN  [r EXCEPT !.accum = metrics(timespecadd(took.tm, r.accum.tm),
                                    rusage_add(took.ru, r.accum.ru))]

prfm_probe(r, t) == [r EXCEPT !.accum = [capture(t) EXCEPT !.tm = timespecclear]]

-----------------------------------------------------------------------------
(* The program *)

VARIABLES prfm_pc,
          left,      \* what test_write's n counts down
          perf,      \* perf[0..2] of test_write, perf[3] of main
          now,       \* the clock, the process' user time and its counter
          began,     \* history: the readings at the last start of each probe
          spent      \* history: what the stopped intervals of each probe took

prfm_vars == <<prfm_pc, left, perf, now, began, spent>>

Probes == 0 .. 3

PrfmInit ==
    /\ prfm_pc = "init"
    /\ left \in NIter
    /\ perf = [i \in Probes |-> prfm_xinit]
    /\ now = [ns |-> 0, cpu |-> 0, flt |-> 0]
    /\ began = [i \in Probes |-> now]
    /\ spent = [i \in Probes |-> [ns |-> 0, cpu |-> 0, flt |-> 0]]

Between(a, b) ==
    [ns |-> b.ns - a.ns, cpu |-> b.cpu - a.cpu, flt |-> b.flt - a.flt]

After(a, d) ==
    [ns |-> a.ns + d.ns, cpu |-> a.cpu + d.cpu, flt |-> a.flt + d.flt]

\* Time passes.
Elapse(from) == {After(from, d) : d \in Elapses}

\* Probe i is started, or stopped, at the reading t.
Starts(i, t) ==
    /\ now' = t
    /\ perf' = [perf EXCEPT ![i] = prfm_start(@, t)]
    /\ began' = [began EXCEPT ![i] = t]
    /\ UNCHANGED spent

Stops(i, t) ==
    /\ now' = t
    /\ perf' = [perf EXCEPT ![i] = prfm_stop(@, t)]
    /\ spent' = [spent EXCEPT ![i] = After(@, Between(began[i], t))]
    /\ UNCHANGED began

test_write ==
    /\ prfm_pc = "init"
    /\ \E t \in Elapse(now) : Starts(0, t)
    /\ prfm_pc' = "opening"
    /\ UNCHANGED left

\* malloc or mkstemp fails: the program aborts.
open_file ==
    /\ prfm_pc = "opening"
    /\ prfm_pc' \in {"loop", "aborted"}
    /\ UNCHANGED <<left, perf, now, began, spent>>

\* while (--n): the first probe of an iteration is started.
begin_write ==
    /\ prfm_pc = "loop"
    /\ left' = left - 1
    /\ IF left' = 0
       THEN prfm_pc' = "closing" /\ UNCHANGED <<perf, now, began, spent>>
       ELSE prfm_pc' = "writing" /\ \E t \in Elapse(now) : Starts(1, t)

\* A write that fails leaves the loop, and the probe running.
end_write ==
    /\ prfm_pc = "writing"
    /\ \/ prfm_pc' = "written" /\ \E t \in Elapse(now) : Stops(1, t)
       \/ prfm_pc' = "closing" /\ UNCHANGED <<perf, now, began, spent>>
    /\ UNCHANGED left

begin_spin ==
    /\ prfm_pc = "written"
    /\ \E t \in Elapse(now) : Starts(2, t)
    /\ prfm_pc' = "spin"
    /\ UNCHANGED left

end_spin ==
    /\ prfm_pc = "spin"
    /\ \E t \in Elapse(now) : Stops(2, t)
    /\ prfm_pc' = "loop"
    /\ UNCHANGED left

\* Mutant: the whole is not measured to its end.
end_test_unstopped ==
    /\ prfm_pc = "closing"
    /\ prfm_pc' = "dump"
    /\ UNCHANGED <<left, perf, now, began, spent>>

end_test ==
    /\ prfm_pc = "closing"
    /\ \E t \in Elapse(now) : Stops(0, t)
    /\ prfm_pc' = "dump"
    /\ UNCHANGED left

\* The probes are printed and reset; main reads its own, and prints it.
probe_process ==
    /\ prfm_pc = "dump"
    /\ \E t \in Elapse(now) :
        /\ now' = t
        /\ perf' = [i \in Probes |-> IF i = 3 THEN prfm_probe(prfm_xinit, t)
                                              ELSE prfm_xinit]
    /\ spent' = [i \in Probes |->
                    IF i = 3 THEN [now' EXCEPT !.ns = 0]
                             ELSE [ns |-> 0, cpu |-> 0, flt |-> 0]]
    /\ prfm_pc' = "probed"
    /\ UNCHANGED <<left, began>>

\* main's probe is reset too.
prfm_destroy ==
    /\ prfm_pc = "probed"
    /\ perf' = [perf EXCEPT ![3] = prfm_xinit]
    /\ spent' = [spent EXCEPT ![3] = [ns |-> 0, cpu |-> 0, flt |-> 0]]
    /\ prfm_pc' = "exit"
    /\ UNCHANGED <<left, now, began>>

PrfmNext ==
    \/ test_write \/ open_file \/ begin_write \/ end_write
    \/ begin_spin \/ end_spin \/ end_test \/ probe_process \/ prfm_destroy

PrfmSpec == PrfmInit /\ [][PrfmNext]_prfm_vars

-----------------------------------------------------------------------------
(* Properties *)

Normal(t) == t.tv_nsec \in 0 .. NsPerSec - 1
Units(t) == t.tv_sec * NsPerSec + t.tv_nsec

\* Every probe holds exactly what its stopped intervals took, in normal form,
\* through any number of carries and borrows; one that was started and not
\* stopped, as after a failed write, adds nothing.
AccumExact ==
    \A i \in Probes :
        LET a == perf[i].accum
        IN  /\ Normal(a.tm) /\ Normal(a.ru.ru_utime)
            /\ Units(a.tm) = spent[i].ns
            /\ Units(a.ru.ru_utime) = spent[i].cpu
            /\ a.ru.ru_minflt = spent[i].flt

\* When the statistics are printed, the whole took at least as long as the
\* writes and the loops within it, by the clock and by resources.
WholeCoversParts ==
    prfm_pc = "dump" =>
        LET part(i) == perf[i].accum
            sum == timespecadd(part(1).tm, part(2).tm)
            ru == rusage_add(part(1).ru, part(2).ru)
        IN  /\ Units(part(0).tm) >= Units(sum)
            /\ Units(part(0).ru.ru_utime) >= Units(ru.ru_utime)
            /\ part(0).ru.ru_minflt >= ru.ru_minflt
=============================================================================
