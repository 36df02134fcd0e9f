--------------------------- MODULE WriteBufProofs ---------------------------
(***************************************************************************)
(* The safety properties of wal/wbuft.c, for every command line, every     *)
(* limit and every choice of failing calls: no sync request is lost, no    *)
(* assertion fails, a write is synced before the next one, and status 0    *)
(* means that everything was written.                                      *)
(***************************************************************************)
EXTENDS WriteBuf, FiniteSetTheorems, TLAPS

Modes == SUBSET {"SYNC_ALL", "SYNC_DATA", "FALLOC", "SYNC_THREAD", "SEQ_WRITE"}

(* Where main stands in its loops. *)
LoopOK ==
    /\ pc \in {"write", "sync"} => ni < sp.nincr
    /\ pc = "sync" => i < sp.niter /\ SYNC_TYPE(sp.mode) # {}
    /\ pc \in {"args", "open", "falloc", "thread"} =>
           ni = 0 /\ i = 0 /\ written = 0 /\ sync_thr = "none" /\ thr = "none" /\ g_st.state = "sWAIT"

(* A request of main's is to sync the file in main's own way, and the mutex
   is held exactly while the thread serves one.  A sync that began covers all
   that is written, unless main has written more and waits for the mutex. *)
RequestOK ==
    /\ mtx = "thread" <=> thr = "syncing"
    /\ thr = "syncing" => g_st.state # "sWAIT" /\ begun \in synced .. written
    /\ thr = "syncing" /\ pc \in {"loop", "write", "close"} => begun = written
    /\ thr # "none" => sync_thr = "thread"
    /\ sync_thr = "thread" => SYNC_TYPE(sp.mode) # {} /\ "SYNC_THREAD" \in sp.mode
    /\ g_st.state = "sSYNC" => g_st.flags = sp.mode /\ SYNC_TYPE(sp.mode) # {}
    /\ g_st.state = "sQUIT" => pc \in {"join", "exit", "aborted"}

WbInv == TypeOK /\ LoopOK /\ RequestOK /\ UnsyncedIsRequested /\ RequestSeen

-----------------------------------------------------------------------------

(* The invariant holds at the start. *)
LEMMA InitWb == Init => WbInv
<1> SUFFICES ASSUME Init PROVE WbInv
    OBVIOUS
<1>1. NoSpec \in [mode : Modes, len : Int, niter : Int, incr : Int, nincr : Int, num_chunks : Int]
    BY DEF NoSpec, Modes
<1>2. NoSpec.niter = 0 /\ NoSpec.nincr = 0
    BY DEF NoSpec
<1>3. [fd |-> "none", flags |-> {}, state |-> "sWAIT"]
        \in [fd : {"none", "file"}, state : {"sWAIT", "sSYNC", "sQUIT"}, flags : Modes]
    BY DEF Modes
<1>4. TypeOK
    <2>1. sp \in [mode : Modes, len : Int, niter : Int, incr : Int, nincr : Int, num_chunks : Int]
        BY <1>1 DEF Init
    <2>2. g_st \in [fd : {"none", "file"}, state : {"sWAIT", "sSYNC", "sQUIT"}, flags : Modes]
        BY <1>3 DEF Init
    <2>3. ni \in 0 .. sp.nincr /\ i \in 0 .. sp.niter
        BY <1>2 DEF Init
    <2>4. open \in BOOLEAN
        BY Zenon DEF Init
    <2>5. written \in Nat /\ synced \in 0 .. written
        BY DEF Init
    <2> QED  BY <2>1, <2>2, <2>3, <2>4, <2>5 DEF Init, TypeOK, Modes
<1>5. LoopOK /\ RequestOK /\ UnsyncedIsRequested /\ RequestSeen
    BY DEF Init, LoopOK, RequestOK, UnsyncedIsRequested, RequestSeen
<1> QED  BY <1>4, <1>5 DEF WbInv

(* Options: a rejected command line ends the run, an accepted one gives a spec
   with at least one write of at least one size. *)
LEMMA ArgsWb ==
    ASSUME WbInv, main_args
    PROVE  WbInv'
<1>1. PICK a \in Args :
        /\ pc = "args"
        /\ \/ ~main_args_ok(a) /\ pc' = "exit" /\ rc' = "EINVAL" /\ sp' = sp
           \/ main_args_ok(a) /\ pc' = "open" /\ rc' = rc /\ sp' = test_spec(a)
    BY DEF main_args, At
<1>2. UNCHANGED <<sync_thr, ni, i, errno, file, shared>>
    BY DEF main_args
<1>3. main_args_ok(a) =>
        /\ test_spec(a) \in [mode : Modes, len : Int, niter : Int, incr : Int,
                             nincr : Int, num_chunks : Int]
        /\ test_spec(a).niter > 0 /\ test_spec(a).nincr > 0
    <2>1. a \in ArgRecord
        BY ArgsAssumption
    <2>2. mode_flags(a.opts) \in Modes
        BY DEF mode_flags, Modes
    <2> QED
        BY <2>1, <2>2, LimitsAssumption DEF main_args_ok, read_opt_ok, test_spec, ArgRecord
<1>4. TypeOK' /\ LoopOK'
    <2>1. ni = 0 /\ i = 0
        BY <1>1 DEF WbInv, LoopOK
    <2>2. sp' \in [mode : Modes, len : Int, niter : Int, incr : Int, nincr : Int, num_chunks : Int]
          /\ 0 \in 0 .. sp'.nincr /\ 0 \in 0 .. sp'.niter
        BY <1>1, <1>3, <2>1 DEF WbInv, TypeOK, Modes
    <2>3. TypeOK'
        BY <1>1, <1>2, <2>1, <2>2 DEF WbInv, TypeOK, Modes, file, shared
    <2> QED  BY <1>1, <1>2, <2>1, <2>3 DEF WbInv, LoopOK, file, shared
<1>5. RequestOK' /\ UnsyncedIsRequested' /\ RequestSeen'
    BY <1>1, <1>2 DEF WbInv, LoopOK, RequestOK, UnsyncedIsRequested, RequestSeen, file, shared
<1> QED  BY <1>4, <1>5 DEF WbInv

(* open and fallocate, failed or not, come before any request. *)
LEMMA OpenWb ==
    ASSUME WbInv, run_open \/ run_falloc
    PROVE  WbInv'
<1>1. /\ pc \in {"open", "falloc"} /\ pc' \in {"falloc", "thread", "exit"}
      /\ UNCHANGED <<main, written, synced, torn, shared>>
      /\ rc' \in {rc, "error"} /\ errno' \in {errno, "set"}
    BY DEF run_open, run_falloc, At, file
<1>2. open' \in BOOLEAN
    <2>1. open' = TRUE \/ open' = open
        BY Zenon DEF run_open, run_falloc, file
    <2> QED  BY <2>1, Zenon DEF WbInv, TypeOK
<1>3. TypeOK'
    BY <1>1, <1>2 DEF WbInv, TypeOK, main, shared
<1>4. LoopOK' /\ RequestOK' /\ UnsyncedIsRequested' /\ RequestSeen'
    BY <1>1 DEF WbInv, LoopOK, RequestOK, UnsyncedIsRequested, RequestSeen, main, shared
<1> QED  BY <1>3, <1>4 DEF WbInv

(* The thread is created only where the mode asks for it, with nothing written. *)
LEMMA ThreadStartWb ==
    ASSUME WbInv, run_thread
    PROVE  WbInv'
<1>1. /\ pc = "thread" /\ pc' = "loop"
      /\ UNCHANGED <<args, sp, ni, i, errno, file, g_st, mtx, begun, found>>
      /\ sync_thr' \in {"none", "thread", "stale"}
      /\ thr = "none" /\ (thr' = thr \/ (thr' = "awake" /\ sync_thr' = "thread"))
      /\ rc' \in {rc, "0", "error"}
      /\ sync_thr' = "thread" => SYNC_TYPE(sp.mode) # {} /\ "SYNC_THREAD" \in sp.mode
    BY DEF run_thread, start_sync_thread, At, Has, WbInv, LoopOK
<1>2. TypeOK' /\ LoopOK'
    BY <1>1 DEF WbInv, TypeOK, LoopOK, file
<1>3. written = 0 /\ thr = "none" /\ g_st.state = "sWAIT" /\ synced \in 0 .. 0
    BY <1>1 DEF WbInv, LoopOK, TypeOK
<1>4. RequestOK' /\ UnsyncedIsRequested' /\ RequestSeen'
    BY <1>1, <1>3 DEF WbInv, RequestOK, UnsyncedIsRequested, RequestSeen, file
<1> QED  BY <1>2, <1>4 DEF WbInv

(* The steps of main that leave the file and the thread alone. *)
LEMMA LoopWb ==
    ASSUME WbInv, run_loop \/ write_fails \/ write_done
    PROVE  WbInv'
<1>1. /\ UNCHANGED <<args, sp, sync_thr, open, written, synced, shared>>
      /\ rc' \in {rc, "error", "ENOMEM"} /\ errno' \in {errno, "set"}
      /\ pc \in {"loop", "write"} /\ pc' \in {"loop", "write", "close", "aborted"}
    BY DEF run_loop, write_fails, write_done, write_return, At, file
<1>2. ni' \in 0 .. sp.nincr /\ i' \in 0 .. sp.niter /\ (pc' = "write" => ni' < sp.nincr)
    <2>1. /\ ni \in 0 .. sp.nincr /\ i \in 0 .. sp.niter
          /\ sp.nincr \in Int /\ sp.niter \in Int /\ (pc = "write" => ni < sp.nincr)
        BY DEF WbInv, TypeOK, LoopOK
    <2>2. CASE run_loop
        <3>1. ni' = ni /\ i' = 0
            BY <2>2 DEF run_loop
        <3>2. pc' = "write" => ni < sp.nincr
            BY <2>2 DEF run_loop, At
        <3> QED  BY <2>1, <3>1, <3>2
    <2>3. CASE write_fails \/ write_done
        <3>1. pc = "write" /\ i' = i
            BY <2>3 DEF write_fails, write_done
        <3>2. (ni' = ni \/ ni' = ni + 1) /\ pc' # "write"
            BY <2>3 DEF write_fails, write_done, write_return
        <3> QED  BY <2>1, <3>1, <3>2
    <2> QED  BY <2>2, <2>3
<1>3. torn' \in BOOLEAN
    <2>1. torn' = TRUE \/ torn' = torn
        BY Zenon DEF run_loop, write_fails, write_done, file
    <2> QED  BY <2>1, Zenon DEF WbInv, TypeOK
<1>4. TypeOK' /\ LoopOK'
    BY <1>1, <1>2, <1>3 DEF WbInv, TypeOK, LoopOK, shared
<1>5. RequestOK' /\ UnsyncedIsRequested' /\ RequestSeen'
    BY <1>1 DEF WbInv, RequestOK, UnsyncedIsRequested, RequestSeen, shared
<1> QED  BY <1>4, <1>5 DEF WbInv

(* A write leaves more to sync, but main is then on its way to ask for it. *)
LEMMA WriteWb ==
    ASSUME WbInv, write_ok
    PROVE  WbInv'
<1>1. /\ UNCHANGED <<args, sp, sync_thr, ni, rc, errno, open, synced, torn, shared>>
      /\ written' = written + 1 /\ pc = "write" /\ i < sp.niter
      /\ \/ pc' = "sync" /\ i' = i /\ SYNC_TYPE(sp.mode) # {}
         \/ pc' = "write" /\ i' = i + 1 /\ SYNC_TYPE(sp.mode) = {}
    BY DEF write_ok
<1>2. TypeOK' /\ LoopOK'
    BY <1>1 DEF WbInv, TypeOK, LoopOK, shared
<1>3. RequestOK' /\ RequestSeen'
    BY <1>1 DEF WbInv, RequestOK, RequestSeen, shared
<1>4. UnsyncedIsRequested'
    BY <1>1 DEF WbInv, RequestOK, UnsyncedIsRequested
<1> QED  BY <1>2, <1>3, <1>4 DEF WbInv

(* What a sync leaves: either all written when it began is synced or nothing
   moved. *)
LEMMA SyncEffect ==
    ASSUME NEW fd, NEW flags, NEW from, NEW was_open, NEW ret,
           fd_sync(fd, flags, from, was_open, ret)
    PROVE  /\ synced' = synced \/ synced' \in from .. written
           /\ ret = "0" /\ SYNC_TYPE(flags) # {} => synced' \in from .. written
BY DEF fd_sync

(* do_sync: the request is made under the mutex, or main syncs by itself. *)
LEMMA WriteSyncWb ==
    ASSUME WbInv, write_sync
    PROVE  WbInv'
<1>1. /\ UNCHANGED <<args, sp, sync_thr, ni, rc, open, written, torn>>
      /\ pc = "sync" /\ SYNC_TYPE(sp.mode) # {} /\ i < sp.niter /\ ni < sp.nincr
      /\ \/ do_sync /\ pc' = "write" /\ i' = i + 1
         \/ pc' = "aborted" /\ UNCHANGED <<i, synced, torn, errno, shared>>
    BY DEF write_sync, WbInv, LoopOK
<1>2. CASE pc' = "aborted" /\ UNCHANGED <<i, synced, torn, errno, shared>>
    BY <1>1, <1>2 DEF WbInv, TypeOK, LoopOK, RequestOK, UnsyncedIsRequested, RequestSeen, shared
<1>3. CASE do_sync /\ pc' = "write" /\ i' = i + 1 /\ Has("SYNC_THREAD")
    <2>1. /\ g_st' = [fd |-> "file", flags |-> sp.mode, state |-> "sSYNC"]
          /\ mtx = "free" /\ mtx' = mtx /\ begun' = begun /\ found' = found
          /\ thr' = (IF thr = "asleep" THEN "awake" ELSE thr)
          /\ UNCHANGED <<synced, errno>>
        BY <1>3 DEF do_sync, toggle_sync_thread, Has
    <2>2. g_st' \in [fd : {"none", "file"}, state : {"sWAIT", "sSYNC", "sQUIT"}, flags : Modes]
          /\ g_st'.state = "sSYNC" /\ g_st'.flags = sp.mode
        BY <2>1 DEF WbInv, TypeOK, Modes
    <2>3. TypeOK' /\ LoopOK'
        BY <1>1, <1>3, <2>1, <2>2 DEF WbInv, TypeOK, LoopOK, Modes
    <2>4. RequestOK' /\ UnsyncedIsRequested' /\ RequestSeen'
        BY <1>1, <1>3, <2>1, <2>2 DEF WbInv, TypeOK, RequestOK, UnsyncedIsRequested, RequestSeen
    <2> QED  BY <2>3, <2>4 DEF WbInv
<1>4. CASE do_sync /\ pc' = "write" /\ i' = i + 1 /\ ~Has("SYNC_THREAD")
    <2>1. PICK ret \in {"0", "-1"} : fd_sync("file", sp.mode, written, open, ret)
        BY <1>4 DEF do_sync
    <2>2. synced' \in 0 .. written
        BY <2>1, SyncEffect DEF WbInv, TypeOK
    <2>3. UNCHANGED shared /\ errno' \in {errno, "set"} /\ sync_thr # "thread" /\ thr = "none"
        BY <1>4 DEF do_sync, WbInv, RequestOK, Has
    <2>4. TypeOK' /\ LoopOK'
        BY <1>1, <1>4, <2>2, <2>3 DEF WbInv, TypeOK, LoopOK, shared
    <2>5. RequestOK' /\ UnsyncedIsRequested' /\ RequestSeen'
        BY <1>1, <1>4, <2>3 DEF WbInv, RequestOK, UnsyncedIsRequested, RequestSeen, shared
    <2> QED  BY <2>4, <2>5 DEF WbInv
<1> QED  BY <1>1, <1>2, <1>3, <1>4

(* The end of run_odsync: sQUIT replaces whatever request there was. *)
LEMMA StopWb ==
    ASSUME WbInv, run_close \/ stop_sync_thread \/ join_sync_thread
    PROVE  WbInv'
<1>1. /\ UNCHANGED <<main, rc, errno, written, synced, torn>>
      /\ pc' \in {"exit", "stop", "join"}
    BY DEF run_close, stop_sync_thread, join_sync_thread, At, file
<1>2. open' \in BOOLEAN
    <2>1. open' = FALSE \/ open' = open
        BY Zenon DEF run_close, stop_sync_thread, join_sync_thread, file
    <2> QED  BY <2>1, Zenon DEF WbInv, TypeOK
<1>3. CASE UNCHANGED shared /\ ~stop_sync_thread
    <2>1. g_st.state = "sQUIT" => pc' = "exit"
        BY <1>3 DEF WbInv, RequestOK, run_close, stop_sync_thread, join_sync_thread, At
    <2>2. TypeOK' /\ LoopOK'
        BY <1>1, <1>2, <1>3 DEF WbInv, TypeOK, LoopOK, main, shared
    <2>3. RequestOK' /\ UnsyncedIsRequested' /\ RequestSeen'
        BY <1>1, <1>3, <2>1 DEF WbInv, RequestOK, UnsyncedIsRequested, RequestSeen, main, shared
    <2> QED  BY <2>2, <2>3 DEF WbInv
<1>4. CASE stop_sync_thread
    <2>1. /\ g_st' = [fd |-> "none", flags |-> {}, state |-> "sQUIT"] /\ pc' = "join"
          /\ mtx = "free" /\ mtx' = mtx /\ begun' = begun /\ found' = found
          /\ thr' = (IF thr = "asleep" THEN "awake" ELSE thr)
        BY <1>4 DEF stop_sync_thread, toggle_sync_thread, At
    <2>2. g_st' \in [fd : {"none", "file"}, state : {"sWAIT", "sSYNC", "sQUIT"}, flags : Modes]
          /\ g_st'.state = "sQUIT"
        BY <2>1 DEF Modes
    <2>3. TypeOK' /\ LoopOK'
        BY <1>1, <1>2, <2>1, <2>2 DEF WbInv, TypeOK, LoopOK, Modes, main
    <2>4. RequestOK' /\ UnsyncedIsRequested' /\ RequestSeen'
        BY <1>1, <2>1, <2>2 DEF WbInv, RequestOK, UnsyncedIsRequested, RequestSeen, main
    <2> QED  BY <2>3, <2>4 DEF WbInv
<1> QED  BY <1>3, <1>4 DEF run_close, join_sync_thread

(* The thread goes to sleep only on sWAIT, read under the mutex. *)
LEMMA ThreadWb ==
    ASSUME WbInv, thread_take \/ spurious_wakeup
    PROVE  WbInv'
<1>1. UNCHANGED <<main, pc, rc, errno, file, g_st>>
    BY DEF thread_take, spurious_wakeup
<1>2. TypeOK' /\ LoopOK'
    BY <1>1 DEF WbInv, TypeOK, LoopOK, thread_take, spurious_wakeup, main, file
<1>3. RequestOK' /\ UnsyncedIsRequested' /\ RequestSeen'
    <2>1. CASE thread_take
        <3>1. written \in synced .. written /\ mtx = "free" /\ thr = "awake"
            BY <2>1 DEF WbInv, TypeOK, thread_take
        <3> QED
            BY <1>1, <2>1, <3>1
            DEF WbInv, TypeOK, RequestOK, UnsyncedIsRequested, RequestSeen, thread_take, main, file
    <2>2. CASE spurious_wakeup
        BY <1>1, <2>2
        DEF WbInv, RequestOK, UnsyncedIsRequested, RequestSeen, spurious_wakeup, main, file
    <2> QED  BY <2>1, <2>2
<1> QED  BY <1>2, <1>3 DEF WbInv

(* A sync that succeeds covers what was written when it began, which is all
   that main has written unless main waits for the mutex. *)
LEMMA ThreadSyncWb ==
    ASSUME WbInv, pc # "aborted", thread_sync
    PROVE  WbInv'
<1>1. /\ UNCHANGED <<main, rc, errno, open, written, torn, begun, found>> /\ thr = "syncing" /\ mtx' = "free"
      /\ g_st.state \in {"sSYNC", "sQUIT"}
    BY DEF thread_sync, WbInv, RequestOK, TypeOK
<1>2. synced' \in 0 .. written /\ begun \in synced .. written
    <2>1. synced' = synced \/ synced' \in begun .. written
        BY SyncEffect DEF thread_sync
    <2> QED  BY <1>1, <2>1 DEF WbInv, TypeOK, RequestOK
<1>3. CASE thr' = "exit" /\ pc' \in {pc, "aborted"} /\ UNCHANGED g_st
    BY <1>1, <1>2, <1>3 DEF WbInv, TypeOK, LoopOK, RequestOK, UnsyncedIsRequested, RequestSeen, main
<1>4. CASE /\ thr' = "asleep" /\ pc' = pc /\ g_st.state # "sQUIT"
           /\ g_st' = [g_st EXCEPT !.state = "sWAIT"]
           /\ fd_sync(g_st.fd, g_st.flags, begun, found, "0")
    <2>1. pc \in {"loop", "write", "close"} => synced' = written
        <3>1. synced' \in begun .. written
            BY <1>1, <1>4, SyncEffect DEF WbInv, RequestOK
        <3> QED  BY <1>1, <3>1 DEF WbInv, TypeOK, RequestOK
    <2>2. g_st' \in [fd : {"none", "file"}, state : {"sWAIT", "sSYNC", "sQUIT"}, flags : Modes]
          /\ g_st'.state = "sWAIT"
        BY <1>4 DEF WbInv, TypeOK, Modes
    <2>3. TypeOK' /\ LoopOK'
        BY <1>1, <1>2, <1>4, <2>2 DEF WbInv, TypeOK, LoopOK, Modes, main
    <2>4. RequestOK' /\ UnsyncedIsRequested' /\ RequestSeen'
        BY <1>1, <1>4, <2>1, <2>2 DEF WbInv, TypeOK, RequestOK, UnsyncedIsRequested, RequestSeen, main
    <2> QED  BY <2>3, <2>4 DEF WbInv
<1> QED  BY <1>3, <1>4 DEF thread_sync

(* Every step keeps the invariant. *)
LEMMA NextWb == WbInv /\ [Next]_vars => WbInv'
<1>1. WbInv /\ Next => WbInv'
    BY ArgsWb, OpenWb, ThreadStartWb, LoopWb, WriteWb, WriteSyncWb, StopWb, ThreadWb, ThreadSyncWb
    DEF Next, Main, Thread
<1>2. WbInv /\ UNCHANGED vars => WbInv'
    BY DEF WbInv, TypeOK, LoopOK, RequestOK, UnsyncedIsRequested, RequestSeen, vars, main, file, shared
<1> QED  BY <1>1, <1>2

(* The variables of wbuft.c keep their types: ni never passes sp.nincr, nor i
   sp.niter, and the file is never synced beyond what was written. *)
THEOREM TypesKept == Spec => []TypeOK
<1>1. WbInv => TypeOK
    BY DEF WbInv
<1> QED  BY InitWb, NextWb, <1>1, PTL DEF Spec

(* With -T, whatever main has written and the thread has not synced is asked
   for, unless the thread has given up. *)
THEOREM NoRequestLost == Spec => []UnsyncedIsRequested
<1>1. WbInv => UnsyncedIsRequested
    BY DEF WbInv
<1> QED  BY InitWb, NextWb, <1>1, PTL DEF Spec

(* The sync thread never sleeps on a request, sSYNC or sQUIT. *)
THEOREM NoSleepOnRequest == Spec => []RequestSeen
<1>1. WbInv => RequestSeen
    BY DEF WbInv
<1> QED  BY InitWb, NextWb, <1>1, PTL DEF Spec

-----------------------------------------------------------------------------
(* Arithmetic of the buffer sizes. *)

(* Growing a factor does not shrink a product with a natural number. *)
LEMMA ProductGrows ==
    ASSUME NEW a \in Int, NEW b \in Int, NEW c \in Nat, a <= b
    PROVE  a * c <= b * c /\ a * c \in Int /\ b * c \in Int
<1>1. PICK d \in Nat : b = a + d
    <2>1. b - a \in Nat /\ b = a + (b - a)
        OBVIOUS
    <2> QED  BY <2>1
<1>2. b * c = a * c + d * c
    BY <1>1
<1>3. d * c \in Nat /\ a * c \in Int
    OBVIOUS
<1> QED  BY <1>2, <1>3

(* The division of writev_nbuf: with fewer chunks than bytes no chunk is
   empty, the last one included. *)
LEMMA ChunksNotEmpty ==
    ASSUME NEW n \in Nat, NEW c \in Nat, c > 0, c < n
    PROVE  n \div c >= 1 /\ n - (c - 1) * (n \div c) > 0
<1>1. n \div c \in Int /\ c * (n \div c) <= n /\ n < c * (n \div c) + c
    OBVIOUS
<1>2. PICK q \in Int : q = n \div c /\ c * q <= n /\ n < c * q + c
    BY <1>1
<1>3. q >= 1
    <2> SUFFICES ASSUME q <= 0 PROVE FALSE
        BY <1>2
    <2>1. q * c <= 0 * c
        BY ProductGrows, <1>2
    <2> QED  BY <1>2, <2>1
<1>4. (c - 1) * q = c * q - q
    BY <1>2
<1> QED  BY <1>2, <1>3, <1>4

-----------------------------------------------------------------------------
(* The assertions. *)

(* What main's tests leave of a command line. *)
Accepted(s) ==
    /\ "SYNC_ALL" \notin s.mode
    /\ s.niter > 0 /\ s.nincr > 0 /\ s.incr > 0
    /\ s.num_chunks = 0 \/ s.num_chunks >= 2
    /\ s.num_chunks < s.len

(* Only an accepted specification gets past the options, and the thread sees
   no flags but those of main. *)
SpecOK ==
    /\ "SYNC_ALL" \notin g_st.flags
    /\ rc = "EINVAL" => pc = "exit"
    /\ pc # "args" /\ rc # "EINVAL" => Accepted(sp)

SafeInv == WbInv /\ SpecOK /\ AssertionsHold

(* -S and -D both ask for SYNC_DATA: fd_sync knows what to do. *)
LEMMA OneSyncType ==
    ASSUME NEW flags, "SYNC_ALL" \notin flags
    PROVE  fd_sync_asserts(flags)
<1>1. SYNC_TYPE(flags) = {} \/ SYNC_TYPE(flags) = {"SYNC_DATA"}
    BY DEF SYNC_TYPE
<1>2. Cardinality(SYNC_TYPE(flags)) = 0 \/ Cardinality(SYNC_TYPE(flags)) = 1
    BY <1>1, FS_EmptySet, FS_Singleton
<1> QED  BY <1>2 DEF fd_sync_asserts

(* A buffer is never smaller than the first one. *)
LEMMA LenGrows ==
    ASSUME WbInv, Accepted(sp)
    PROVE  len \in Int /\ len >= sp.len
<1>1. sp.len \in Int /\ sp.incr \in Nat /\ ni \in Nat
    BY DEF WbInv, TypeOK, Accepted
<1>2. 0 * sp.incr <= ni * sp.incr /\ ni * sp.incr \in Int
    BY <1>1, ProductGrows
<1> QED  BY <1>1, <1>2 DEF len

(* The assertions of writev_nbuf hold in every size. *)
LEMMA WritevFine ==
    ASSUME WbInv, Accepted(sp)
    PROVE  writev_asserts
<1> SUFFICES ASSUME sp.num_chunks > 0
             PROVE  /\ sp.num_chunks > 1 /\ sp.num_chunks < len
                    /\ chunk_len >= 1 /\ len - (sp.num_chunks - 1) * chunk_len > 0
    BY DEF writev_asserts
<1>1. sp.num_chunks \in Int /\ sp.len \in Int
    BY DEF WbInv, TypeOK
<1>2. sp.num_chunks > 1 /\ sp.num_chunks < len /\ len \in Int
    BY <1>1, LenGrows DEF Accepted
<1>3. sp.num_chunks \in Nat /\ len \in Nat
    BY <1>1, <1>2
<1>4. len \div sp.num_chunks >= 1 /\ len - (sp.num_chunks - 1) * (len \div sp.num_chunks) > 0
    BY <1>2, <1>3, ChunksNotEmpty
<1> QED  BY <1>2, <1>4 DEF chunk_len

(* The options give no SYNC_ALL, and main's tests bound the rest. *)
LEMMA OptionsAccepted ==
    ASSUME NEW a \in Args, main_args_ok(a)
    PROVE  Accepted(test_spec(a))
<1>1. a \in ArgRecord
    BY ArgsAssumption
<1>2. "SYNC_ALL" \notin mode_flags(a.opts)
    BY DEF mode_flags
<1> QED
    BY <1>1, <1>2, LimitsAssumption
    DEF main_args_ok, read_opt_ok, test_spec, ArgRecord, Accepted

(* No step of an accepted run fails an assertion. *)
LEMMA SafeNext == SafeInv /\ [Next]_vars => SafeInv'
<1> SUFFICES ASSUME SafeInv, [Next]_vars PROVE SafeInv'
    OBVIOUS
<1> USE DEF SafeInv, SpecOK, AssertionsHold
<1>0. WbInv'
    BY NextWb
<1>1. CASE main_args
    <2>1. PICK a \in Args :
            /\ pc = "args"
            /\ \/ ~main_args_ok(a) /\ pc' = "exit" /\ rc' = "EINVAL"
               \/ main_args_ok(a) /\ pc' = "open" /\ rc' = rc /\ sp' = test_spec(a)
        BY <1>1 DEF main_args, At
    <2>2. g_st' = g_st
        BY <1>1 DEF main_args, shared
    <2> QED  BY <1>0, <2>1, <2>2, OptionsAccepted
<1>2. CASE run_open \/ run_falloc \/ run_thread
    BY <1>0, <1>2 DEF run_open, run_falloc, run_thread, start_sync_thread, At, main, shared
<1>3. CASE run_loop
    <2>1. pc = "loop" /\ UNCHANGED <<sp, shared>>
          /\ (pc' \in {"close", "write"} \/ (pc' = "aborted" /\ ~writev_asserts))
          /\ rc' \in {rc, "error", "ENOMEM"}
        BY <1>3 DEF run_loop, At
    <2>2. writev_asserts
        BY <2>1, WritevFine
    <2> QED  BY <1>0, <2>1, <2>2 DEF shared
<1>4. CASE write_ok \/ write_fails \/ write_done
    BY <1>0, <1>4 DEF write_ok, write_fails, write_done, write_return, shared
<1>5. CASE write_sync
    <2>1. pc = "sync" /\ UNCHANGED <<sp, rc>>
          /\ ((do_sync /\ pc' = "write") \/ (pc' = "aborted" /\ ~fd_sync_asserts(sp.mode)))
        BY <1>5 DEF write_sync
    <2>2. Accepted(sp) /\ fd_sync_asserts(sp.mode)
        BY <2>1, OneSyncType DEF Accepted
    <2>3. g_st' = g_st \/ g_st'.flags = sp.mode
        BY <2>1, <2>2 DEF do_sync, toggle_sync_thread, shared
    <2> QED  BY <1>0, <2>1, <2>2, <2>3 DEF Accepted
<1>6. CASE run_close \/ stop_sync_thread \/ join_sync_thread
    <2>1. g_st' = g_st \/ g_st'.flags = {}
        BY <1>6 DEF run_close, stop_sync_thread, join_sync_thread, toggle_sync_thread, shared
    <2>2. UNCHANGED <<sp, rc>> /\ pc # "args" /\ pc # "exit" /\ pc' # "aborted" /\ pc' # "args"
        BY <1>6 DEF run_close, stop_sync_thread, join_sync_thread, At, main
    <2> QED  BY <1>0, <2>1, <2>2
<1>7. CASE thread_take \/ spurious_wakeup
    BY <1>0, <1>7 DEF thread_take, spurious_wakeup, main
<1>8. CASE thread_sync
    <2>1. fd_sync_asserts(g_st.flags)
        BY OneSyncType
    <2>2. UNCHANGED <<sp, rc, pc>> /\ (g_st' = g_st \/ g_st' = [g_st EXCEPT !.state = "sWAIT"])
        BY <1>8, <2>1 DEF thread_sync, main
    <2>3. g_st'.flags = g_st.flags
        BY <2>2 DEF WbInv, TypeOK
    <2> QED  BY <1>0, <2>2, <2>3
<1>9. CASE UNCHANGED vars
    BY <1>0, <1>9 DEF vars, main, shared
<1> QED
    BY <1>1, <1>2, <1>3, <1>4, <1>5, <1>6, <1>7, <1>8, <1>9 DEF Next, Main, Thread

(* Before the options are read nothing is asked of the spec. *)
LEMMA InitSafe == Init => SafeInv
BY InitWb DEF Init, SafeInv, SpecOK, AssertionsHold

(* No assertion of wbuft.c fails, whatever the command line and the limits,
   however the buffers grow. *)
THEOREM NoAbort == Spec => []AssertionsHold
<1>1. SafeInv => AssertionsHold
    BY DEF SafeInv
<1> QED  BY InitSafe, SafeNext, <1>1, PTL DEF Spec

-----------------------------------------------------------------------------
(* Synced before the next write. *)

(* The same from the start of the run, wherever main is about to write. *)
SyncOK ==
    (~Has("SYNC_THREAD") /\ Syncing /\ pc \in {"open", "falloc", "thread", "loop", "write"})
        => synced = written \/ errno = "set"

(* Only do_sync stands between a write and the next, and errno stays set. *)
LEMMA SyncOKNext == SafeInv /\ SyncOK /\ [Next]_vars => SyncOK'
<1> SUFFICES ASSUME SafeInv, SyncOK, [Next]_vars,
                    (~Has("SYNC_THREAD") /\ Syncing
                       /\ pc \in {"open", "falloc", "thread", "loop", "write"})'
             PROVE  (synced = written \/ errno = "set")'
    BY DEF SyncOK
<1>1. CASE main_args
    <2>1. written = 0 /\ synced \in 0 .. written /\ UNCHANGED <<written, synced>>
        BY <1>1 DEF SafeInv, WbInv, TypeOK, LoopOK, main_args, At, file
    <2> QED  BY <2>1
<1>2. CASE run_open \/ run_falloc \/ run_thread \/ run_loop \/ write_fails \/ write_done
    <2>1. /\ pc \in {"open", "falloc", "thread", "loop", "write"}
          /\ UNCHANGED <<sp, written, synced>> /\ errno' \in {errno, "set"}
        BY <1>2
        DEF run_open, run_falloc, run_thread, run_loop, write_fails, write_done, At, main, file
    <2> QED  BY <2>1 DEF SyncOK, Has, Syncing
<1>3. CASE write_ok
    BY <1>3 DEF write_ok, Syncing
<1>4. CASE write_sync
    <2>1. UNCHANGED <<sp, written>> /\ do_sync /\ ~Has("SYNC_THREAD") /\ SYNC_TYPE(sp.mode) # {}
        BY <1>4 DEF write_sync, Has, Syncing
    <2>2. CASE fd_sync("file", sp.mode, written, open, "0")
        <3>1. synced' \in written .. written /\ written \in Nat
            BY <2>1, <2>2, SyncEffect DEF SafeInv, WbInv, TypeOK
        <3> QED  BY <2>1, <3>1
    <2>3. CASE errno' = "set"
        BY <2>3
    <2> QED  BY <2>1, <2>2, <2>3 DEF do_sync
<1>5. CASE run_close \/ stop_sync_thread \/ join_sync_thread
    BY <1>5 DEF run_close, stop_sync_thread, join_sync_thread, At
<1>6. CASE thread_take \/ spurious_wakeup \/ thread_sync
    <2>1. sp' = sp /\ thr # "none"
        BY <1>6 DEF thread_take, spurious_wakeup, thread_sync, main
    <2> QED  BY <2>1 DEF SafeInv, WbInv, RequestOK, Has
<1>7. CASE UNCHANGED vars
    BY <1>7 DEF vars, main, file, SyncOK, Has, Syncing
<1> QED
    BY <1>1, <1>2, <1>3, <1>4, <1>5, <1>6, <1>7 DEF Next, Main, Thread

(* Without -T every write is synced before the next one, or errno is left
   set. *)
THEOREM SyncedEachTime == Spec => []SyncedBeforeNextWrite
<1>1. Init => SyncOK
    BY DEF Init, SyncOK
<1>2. SyncOK => SyncedBeforeNextWrite
    BY DEF SyncOK, SyncedBeforeNextWrite
<1> QED  BY InitSafe, SafeNext, SyncOKNext, <1>1, <1>2, PTL DEF Spec

-----------------------------------------------------------------------------
(* Complete when the status is 0. *)

(* Every size done was below the limit, and so is the one being written. *)
SizesOK ==
    /\ ni > 0 => sp.len + (ni - 1) * sp.incr < MAX_BUFSZ
    /\ pc \in {"write", "sync"} => len < MAX_BUFSZ

(* While nothing has failed the file holds sp.niter buffers of every size
   done and the writes done with this one. *)
DoneOK ==
    rc = "0" /\ ~torn =>
        /\ pc = "loop" => written = sp.niter * ni
        /\ pc = "write" => written = sp.niter * ni + i
        /\ pc = "sync" => written = sp.niter * ni + i + 1
        /\ pc \in {"close", "stop", "join", "exit"} =>
               written = sp.niter * ni /\ (len >= MAX_BUFSZ \/ ni >= sp.nincr)

DoneInv == SafeInv /\ SizesOK /\ DoneOK

(* The return of write_data after its last write: one more size is done. *)
LEMMA DoneDone ==
    ASSUME DoneInv, write_done
    PROVE  SizesOK' /\ DoneOK'
<1>1. Accepted(sp) /\ pc = "write" /\ ni \in Nat /\ sp.niter \in Int /\ i = sp.niter
    BY DEF DoneInv, SafeInv, SpecOK, WbInv, TypeOK, write_done
<1>2. pc' = "loop" /\ ni' = ni + 1 /\ UNCHANGED <<sp, rc, torn, written>>
    BY <1>1 DEF write_done, write_return, Accepted, file
<1>3. sp.niter * ni + sp.niter = sp.niter * (ni + 1)
    BY <1>1
<1>4. ni' - 1 = ni
    BY <1>1, <1>2
<1>5. DoneOK'
    BY <1>1, <1>2, <1>3 DEF DoneInv, DoneOK
<1> QED  BY <1>1, <1>2, <1>4, <1>5 DEF DoneInv, SizesOK, len

(* What fails sets rc or leaves a torn buffer; all else keeps the count. *)
LEMMA DoneNext == DoneInv /\ [Next]_vars => DoneInv'
<1> SUFFICES ASSUME DoneInv, [Next]_vars PROVE DoneInv'
    OBVIOUS
<1>0. SafeInv'
    BY SafeNext DEF DoneInv
<1> SUFFICES SizesOK' /\ DoneOK'
    BY <1>0 DEF DoneInv
<1>1. CASE main_args
    <2>1. ni = 0 /\ ni' = ni /\ pc' \in {"open", "exit"} /\ (pc' = "exit" => rc' = "EINVAL")
        BY <1>1 DEF DoneInv, SafeInv, WbInv, LoopOK, main_args, At
    <2> QED  BY <2>1 DEF SizesOK, DoneOK
<1>2. CASE run_open \/ run_falloc
    <2>1. ni = 0 /\ ni' = ni /\ pc' \in {"falloc", "thread", "exit"} /\ (pc' = "exit" => rc' = "error")
        BY <1>2 DEF DoneInv, SafeInv, WbInv, LoopOK, run_open, run_falloc, At, main
    <2> QED  BY <2>1 DEF SizesOK, DoneOK
<1>3. CASE run_thread
    <2>1. ni = 0 /\ ni' = ni /\ pc' = "loop" /\ written' = 0 /\ sp' = sp
        BY <1>3 DEF DoneInv, SafeInv, WbInv, LoopOK, run_thread, At, file
    <2>2. sp.niter * 0 = 0
        BY DEF DoneInv, SafeInv, WbInv, TypeOK
    <2> QED  BY <2>1, <2>2 DEF SizesOK, DoneOK
<1>4. CASE run_loop
    <2>1. pc = "loop" /\ i' = 0 /\ UNCHANGED <<sp, ni, torn, written>> /\ sp.niter * ni \in Int
        BY <1>4 DEF DoneInv, SafeInv, WbInv, TypeOK, run_loop, At, file
    <2>2. \/ pc' = "write" /\ len < MAX_BUFSZ /\ rc' = rc
          \/ pc' = "close" /\ rc' # "0"
          \/ pc' = "close" /\ rc' = rc /\ (rc # "0" \/ len >= MAX_BUFSZ \/ ni >= sp.nincr)
          \/ pc' = "aborted"
        BY <1>4 DEF run_loop, At
    <2> QED  BY <2>1, <2>2 DEF DoneInv, SizesOK, DoneOK, len
<1>5. CASE write_ok
    <2>1. /\ pc = "write" /\ UNCHANGED <<sp, ni, rc, torn>> /\ written' = written + 1
          /\ (pc' = "sync" /\ i' = i) \/ (pc' = "write" /\ i' = i + 1)
        BY <1>5 DEF write_ok
    <2>2. sp.niter * ni \in Int /\ i \in Int
        BY DEF DoneInv, SafeInv, WbInv, TypeOK
    <2> QED  BY <2>1, <2>2 DEF DoneInv, SizesOK, DoneOK, len
<1>6. CASE write_fails
    <2>1. sp' = sp /\ pc = "write" /\ ((pc' = "close" /\ ni' = ni) \/ (pc' = "loop" /\ ni' = ni + 1))
        BY <1>6 DEF write_fails, write_return
    <2>2. ni \in Nat /\ len < MAX_BUFSZ
        BY <2>1 DEF DoneInv, SafeInv, WbInv, TypeOK, SizesOK
    <2>3. ni' = ni + 1 => ni' - 1 = ni
        BY <2>2
    <2>4. rc' = "error" \/ torn'
        BY <1>6 DEF write_fails, write_return
    <2> QED  BY <2>1, <2>2, <2>3, <2>4 DEF DoneInv, SizesOK, DoneOK, len
<1>7. CASE write_done
    BY <1>7, DoneDone
<1>8. CASE write_sync
    <2>1. /\ pc = "sync" /\ UNCHANGED <<sp, ni, rc, torn, written>>
          /\ (pc' = "write" /\ i' = i + 1) \/ pc' = "aborted"
        BY <1>8 DEF write_sync
    <2>2. sp.niter * ni \in Int /\ i \in Int
        BY DEF DoneInv, SafeInv, WbInv, TypeOK
    <2> QED  BY <2>1, <2>2 DEF DoneInv, SizesOK, DoneOK, len
<1>9. CASE run_close \/ stop_sync_thread \/ join_sync_thread
    <2>1. /\ pc \in {"close", "stop", "join"} /\ pc' \in {"stop", "join", "exit"}
          /\ UNCHANGED <<sp, ni, rc, torn, written>>
        BY <1>9 DEF run_close, stop_sync_thread, join_sync_thread, At, main, file
    <2> QED  BY <2>1 DEF DoneInv, SizesOK, DoneOK, len
<1>10. CASE thread_take \/ spurious_wakeup \/ UNCHANGED vars
    <2>1. UNCHANGED <<pc, sp, ni, i, rc, torn, written>>
        BY <1>10 DEF thread_take, spurious_wakeup, vars, main, file
    <2> QED  BY <2>1 DEF DoneInv, SizesOK, DoneOK, len
<1>11. CASE thread_sync
    <2>1. UNCHANGED <<sp, ni, i, rc, torn, written>> /\ pc' \in {pc, "aborted"}
        BY <1>11 DEF thread_sync, main
    <2> QED  BY <2>1 DEF DoneInv, SizesOK, DoneOK, len
<1> QED
    BY <1>1, <1>2, <1>3, <1>4, <1>5, <1>6, <1>7, <1>8, <1>9, <1>10, <1>11 DEF Next, Main, Thread

(* The sizes done are all the sizes asked for that are below the limit. *)
LEMMA AllSizes ==
    ASSUME DoneInv, Accepted(sp), len >= MAX_BUFSZ \/ ni >= sp.nincr
    PROVE  Cardinality({k \in 0 .. sp.nincr - 1 : sp.len + k * sp.incr < MAX_BUFSZ}) = ni
<1>1. /\ ni \in Nat /\ sp.nincr \in Int /\ ni <= sp.nincr
      /\ sp.len \in Int /\ sp.incr \in Nat /\ MAX_BUFSZ \in Int
    BY LimitsAssumption DEF DoneInv, SafeInv, WbInv, TypeOK, Accepted
<1>2. ASSUME NEW k \in 0 .. sp.nincr - 1
      PROVE  sp.len + k * sp.incr < MAX_BUFSZ <=> k \in 0 .. ni - 1
    <2>1. CASE k < ni
        <3>1. k * sp.incr <= (ni - 1) * sp.incr /\ k * sp.incr \in Int /\ (ni - 1) * sp.incr \in Int
            BY <1>1, <2>1, ProductGrows
        <3> QED  BY <1>1, <2>1, <3>1 DEF DoneInv, SizesOK
    <2>2. CASE k >= ni
        <3>1. ni * sp.incr <= k * sp.incr /\ k * sp.incr \in Int /\ ni * sp.incr \in Int
            BY <1>1, <2>2, ProductGrows
        <3>2. len >= MAX_BUFSZ
            BY <1>1, <2>2
        <3> QED  BY <1>1, <2>2, <3>1, <3>2 DEF len
    <2> QED  BY <1>1, <2>1, <2>2
<1>3. {k \in 0 .. sp.nincr - 1 : sp.len + k * sp.incr < MAX_BUFSZ} = 0 .. ni - 1
    BY <1>1, <1>2
<1>4. Cardinality(0 .. ni - 1) = ni
    BY <1>1, FS_Interval
<1> QED  BY <1>3, <1>4

(* A run that ends with status 0 and no short write has written every buffer
   of every size it was asked for. *)
THEOREM ZeroMeansComplete == Spec => []CompleteIfOk
<1>1. Init => DoneInv
    BY InitSafe DEF Init, DoneInv, SizesOK, DoneOK
<1>2. DoneInv => CompleteIfOk
    BY AllSizes DEF DoneInv, DoneOK, SafeInv, SpecOK, CompleteIfOk
<1> QED  BY <1>1, <1>2, DoneNext, PTL DEF Spec

=============================================================================
