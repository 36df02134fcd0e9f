----------------------------- MODULE SyncPoints ------------------------------
(***************************************************************************)
(* What debugsync/debugsync.h promises to a program that only waits and    *)
(* executes: a thread that waits at a point runs its section while another *)
(* one is held there in ds_exec, and that one goes on when all sections    *)
(* are over.  There is no table, mutex, count or condition variable.       *)
(***************************************************************************)
CONSTANTS Threads, Names, NoName

VARIABLES place,  \* what each thread does, and at which point
          hold    \* the points whose threads are held and sections released

pointVars == <<place, hold>>

Out      == <<"out", NoName>>
Waits(n) == <<"waits", n>>
Runs(n)  == <<"runs", n>>
Held(n)  == <<"held", n>>

(* The threads ds_exec waits for at point n. *)
Party(n) == {t \in Threads : place[t] \in {Waits(n), Runs(n)}}

Goes(t, there) == place' = [place EXCEPT ![t] = there]

Init == place = [t \in Threads |-> Out] /\ hold = {}

(* A thread blocks at n, or joins the sections that run. *)
Wait(t, n) ==
    /\ place[t] = Out
    /\ Goes(t, IF n \in hold THEN Runs(n) ELSE Waits(n))
    /\ UNCHANGED hold

(* A blocked thread begins its section. *)
Enter(t, n) ==
    /\ place[t] = Waits(n) /\ n \in hold
    /\ Goes(t, Runs(n))
    /\ UNCHANGED hold

(* A thread is held for those that wait at n. *)
Exec(t, n) ==
    /\ place[t] = Out
    /\ n \notin hold /\ Party(n) # {}
    /\ Goes(t, Held(n))
    /\ hold' = hold \cup {n}

(* A section ends, and the last one ends the hold. *)
Leave(t, n) ==
    /\ place[t] = Runs(n)
    /\ Goes(t, Out)
    /\ hold' = IF Party(n) = {t} THEN hold \ {n} ELSE hold

(* A held thread goes on when no section runs at its point. *)
GoOn(t, n) ==
    /\ place[t] = Held(n)
    /\ n \notin hold /\ \A u \in Threads : place[u] # Runs(n)
    /\ Goes(t, Out)
    /\ UNCHANGED hold

Next == \E t \in Threads, n \in Names :
    Wait(t, n) \/ Enter(t, n) \/ Exec(t, n) \/ Leave(t, n) \/ GoOn(t, n)

Spec == Init /\ [][Next]_pointVars

=============================================================================
