------------------------------ MODULE WriteBuf ------------------------------
(***************************************************************************)
(* The write benchmark wal/wbuft.c: main writes buffers of growing size to *)
(* a file and has them synced, by itself or (-T) by a thread it signals.   *)
(*                                                                         *)
(* Main and the thread share g_st under a mutex.  The thread keeps the     *)
(* mutex while it syncs, but main writes to the file, and closes it,       *)
(* without the mutex.  The file is the number of buffers written and how   *)
(* many of them the last sync covered.                                     *)
(***************************************************************************)
EXTENDS Integers, FiniteSets

CONSTANTS
    Args,     \* command lines: option letters and the values given with them
    Faults,   \* which calls may fail in this instance
    MIN_BUFSZ, MAX_BUFSZ, MIN_INCR, MIN_NINCR, MAX_NINCR

FaultKinds == {"open", "fallocate", "pthread_create", "malloc", "lseek",
               "calloc", "write", "short write", "sync"}

(* The letters getopt knows, and those of the usage text. *)
getopt_letters == {"k", "t", "f", "a", "i", "d", "D", "S", "I", "N", "F", "T", "U", "Q"}
usage_letters == getopt_letters \cup {"s"}

(* A value counts only when its letter is given. *)
ArgRecord == [opts : SUBSET usage_letters, I : Int, N : Int, U : Int, bufsz : Int, niter : Int]

ASSUME ArgsAssumption == Args \subseteq ArgRecord
ASSUME FaultsAssumption == Faults \subseteq FaultKinds
ASSUME LimitsAssumption ==
    /\ MIN_BUFSZ \in Nat \ {0} /\ MAX_BUFSZ \in Nat
    /\ MIN_INCR \in Nat \ {0} /\ MIN_NINCR \in Nat \ {0} /\ MAX_NINCR \in Nat

VARIABLES
    args, sp,           \* the command line and the test_spec made of it
    pc, rc, errno,      \* main; errno is "0" or the error of a failed call
    sync_thr,           \* the thread id run_odsync keeps
    ni, i,              \* buffers done; writes done with this buffer
    open,               \* the descriptor is open
    written, synced,    \* buffers written; how many the last sync covered
    torn,               \* a short write left part of a buffer in the file
    g_st, mtx,          \* the shared request, and the owner of g_st.mtx
    thr, begun,         \* the sync thread; what was written when its sync began
    found               \* and whether the descriptor was open then

main == <<args, sp, sync_thr, ni, i>>
file == <<open, written, synced, torn>>
shared == <<g_st, mtx, thr, begun, found>>
vars == <<main, pc, rc, errno, file, shared>>

-----------------------------------------------------------------------------
(* Options. *)

mode_flags(opts) ==
    (IF opts \cap {"D", "S"} # {} THEN {"SYNC_DATA"} ELSE {})
        \cup (IF "F" \in opts THEN {"FALLOC"} ELSE {})
        \cup (IF "T" \in opts THEN {"SYNC_THREAD"} ELSE {})
        \cup (IF "Q" \in opts THEN {"SEQ_WRITE"} ELSE {})

read_opt_ok(a) ==
    /\ a.opts \subseteq getopt_letters
    /\ "I" \in a.opts => a.I \in MIN_INCR .. MIN_INCR + MAX_NINCR * MIN_BUFSZ
    /\ "N" \in a.opts => a.N \in MIN_NINCR .. MAX_NINCR
    /\ "U" \in a.opts => a.U >= 2

test_spec(a) ==
    [mode |-> mode_flags(a.opts), len |-> a.bufsz, niter |-> a.niter,
     incr |-> IF "I" \in a.opts THEN a.I ELSE MIN_INCR,
     nincr |-> IF "N" \in a.opts THEN a.N ELSE MIN_NINCR,
     num_chunks |-> IF "U" \in a.opts THEN a.U ELSE 0]

(* Mutant: as many chunks as bytes are let through. *)
main_args_ok_equal(a) ==
    /\ read_opt_ok(a)
    /\ a.bufsz \in MIN_BUFSZ .. MAX_BUFSZ /\ a.niter > 0
    /\ test_spec(a).num_chunks <= a.bufsz

main_args_ok(a) ==
    /\ read_opt_ok(a)
    /\ a.bufsz \in MIN_BUFSZ .. MAX_BUFSZ /\ a.niter > 0
    /\ test_spec(a).num_chunks < a.bufsz

Has(flag) == flag \in sp.mode
SYNC_TYPE(flags) == flags \cap {"SYNC_ALL", "SYNC_DATA"}

NoSpec == [mode |-> {}, len |-> 0, niter |-> 0, incr |-> 0, nincr |-> 0, num_chunks |-> 0]

-----------------------------------------------------------------------------
(* fd_sync: what it may return, and what the file is then. *)

MayFail(kind) == kind \in Faults

(* A sync of the descriptor with these flags; ret is its result.  It covers
   the first from buffers, and maybe some written while it ran.  A sync that
   found the descriptor open may succeed although it is closed since. *)
fd_sync(fd, flags, from, was_open, ret) ==
    \/ /\ SYNC_TYPE(flags) = {} /\ ret = "0"
       /\ UNCHANGED synced
    \/ /\ SYNC_TYPE(flags) # {} /\ fd = "file" /\ was_open /\ ret = "0"
       /\ synced' \in from .. written
    \/ /\ SYNC_TYPE(flags) # {} /\ ret = "-1"
       /\ MayFail("sync") \/ fd # "file" \/ ~open
       /\ UNCHANGED synced

(* assert(0) of its default case. *)
fd_sync_asserts(flags) == Cardinality(SYNC_TYPE(flags)) < 2

(* Mutant: the thread is not signalled. *)
toggle_sync_thread_silently(fd, flags, state) ==
    /\ mtx = "free"
    /\ g_st' = [fd |-> fd, flags |-> flags, state |-> state]
    /\ UNCHANGED <<thr, mtx, begun, found>>

toggle_sync_thread(fd, flags, state) ==
    /\ mtx = "free"
    /\ g_st' = [fd |-> fd, flags |-> flags, state |-> state]
    /\ thr' = IF thr = "asleep" THEN "awake" ELSE thr
    /\ UNCHANGED <<mtx, begun, found>>

-----------------------------------------------------------------------------
(* The sync thread. *)

(* Mutant: the mutex is released for the sync. *)
thread_take_unlocked ==
    /\ thr = "awake" /\ mtx = "free"
    /\ \/ g_st.state = "sWAIT" /\ thr' = "asleep" /\ UNCHANGED <<begun, found>>
       \/ g_st.state # "sWAIT" /\ thr' = "syncing" /\ begun' = written /\ found' = open
    /\ UNCHANGED <<main, pc, rc, errno, file, g_st, mtx>>

(* It gets the mutex, at its start or on return from pthread_cond_wait. *)
thread_take ==
    /\ thr = "awake" /\ mtx = "free"
    /\ \/ /\ g_st.state = "sWAIT" /\ thr' = "asleep"
          /\ UNCHANGED <<mtx, begun, found>>
       \/ /\ g_st.state # "sWAIT" /\ thr' = "syncing"
          /\ mtx' = "thread" /\ begun' = written /\ found' = open
    /\ UNCHANGED <<main, pc, rc, errno, file, g_st>>

(* Mutant: sQUIT is taken for a request. *)
thread_sync_again ==
    /\ thr = "syncing"
    /\ mtx' = "free"
    /\ fd_sync(g_st.fd, g_st.flags, begun, found, "0")
    /\ g_st' = [g_st EXCEPT !.state = "sWAIT"] /\ thr' = "asleep"
    /\ UNCHANGED <<main, pc, rc, errno, open, written, torn, begun, found>>

thread_sync ==
    /\ thr = "syncing"
    /\ mtx' = "free"
    /\ \/ /\ ~fd_sync_asserts(g_st.flags)
          /\ pc' = "aborted" /\ thr' = "exit"
          /\ UNCHANGED <<synced, g_st>>
       \/ /\ fd_sync_asserts(g_st.flags)
          /\ fd_sync(g_st.fd, g_st.flags, begun, found, "-1")
          /\ thr' = "exit"
          /\ UNCHANGED <<pc, g_st>>
       \/ /\ fd_sync_asserts(g_st.flags)
          /\ fd_sync(g_st.fd, g_st.flags, begun, found, "0")
          /\ \/ /\ g_st.state = "sQUIT"
                /\ thr' = "exit" /\ UNCHANGED g_st
             \/ /\ g_st.state # "sQUIT"
                /\ g_st' = [g_st EXCEPT !.state = "sWAIT"] /\ thr' = "asleep"
          /\ UNCHANGED pc
    /\ UNCHANGED <<main, rc, errno, open, written, torn, begun, found>>

(* POSIX lets pthread_cond_wait return with no signal. *)
spurious_wakeup ==
    /\ thr = "asleep" /\ thr' = "awake"
    /\ UNCHANGED <<main, pc, rc, errno, file, g_st, mtx, begun, found>>

-----------------------------------------------------------------------------
(* main *)

At(here, there) == pc = here /\ pc' = there

main_args == \E a \in Args :
    /\ args' = a
    /\ \/ /\ ~main_args_ok(a)
          /\ At("args", "exit") /\ rc' = "EINVAL"
          /\ UNCHANGED sp
       \/ /\ main_args_ok(a)
          /\ At("args", "open") /\ sp' = test_spec(a)
          /\ UNCHANGED rc
    /\ UNCHANGED <<sync_thr, ni, i, errno, file, shared>>

run_open ==
    /\ \/ /\ At("open", "falloc") /\ open' = TRUE
          /\ UNCHANGED <<rc, errno>>
       \/ /\ MayFail("open")
          /\ At("open", "exit") /\ rc' = "error" /\ errno' = "set"
          /\ UNCHANGED open
    /\ UNCHANGED <<main, written, synced, torn, shared>>

run_falloc ==
    /\ At("falloc", "thread")
    /\ \/ UNCHANGED <<rc, errno>>
       \/ /\ Has("FALLOC") /\ MayFail("fallocate")
          /\ rc' = "error" /\ errno' = "set"
    /\ UNCHANGED <<main, file, shared>>

(* The result of pthread_create replaces that of fallocate.  A failed one
   leaves the id unspecified. *)
start_sync_thread ==
    /\ Has("SYNC_THREAD") /\ SYNC_TYPE(sp.mode) # {}
    /\ \/ /\ sync_thr' = "thread" /\ thr' = "awake" /\ rc' = "0"
       \/ /\ MayFail("pthread_create")
          /\ sync_thr' \in {"none", "stale"} /\ rc' = "error"
          /\ UNCHANGED thr

run_thread ==
    /\ At("thread", "loop")
    /\ \/ start_sync_thread
       \/ /\ ~(Has("SYNC_THREAD") /\ SYNC_TYPE(sp.mode) # {})
          /\ UNCHANGED <<sync_thr, thr, rc>>
    /\ UNCHANGED <<args, sp, ni, i, errno, file, g_st, mtx, begun, found>>

len == sp.len + ni * sp.incr

(* The assertions of writev_nbuf, the last one on its division into chunks. *)
chunk_len == len \div sp.num_chunks
writev_asserts ==
    sp.num_chunks > 0 =>
        /\ sp.num_chunks > 1 /\ sp.num_chunks < len
        /\ chunk_len >= 1
        /\ len - (sp.num_chunks - 1) * chunk_len > 0

(* The head of the loop, malloc, and write_data up to its first write. *)
run_loop ==
    /\ \/ /\ rc # "0" \/ len >= MAX_BUFSZ \/ ni >= sp.nincr
          /\ At("loop", "close") /\ UNCHANGED <<rc, errno>>
       \/ /\ rc = "0" /\ len < MAX_BUFSZ /\ ni < sp.nincr
          /\ \/ /\ MayFail("malloc")
                /\ At("loop", "close") /\ rc' = "ENOMEM" /\ errno' = "set"
             \/ /\ ~writev_asserts
                /\ At("loop", "aborted") /\ UNCHANGED <<rc, errno>>
             \/ /\ writev_asserts
                /\ \/ ~Has("SEQ_WRITE") /\ MayFail("lseek")
                   \/ sp.num_chunks > 0 /\ MayFail("calloc")
                /\ At("loop", "close") /\ rc' = "error" /\ errno' = "set"
             \/ /\ writev_asserts
                /\ At("loop", "write") /\ UNCHANGED <<rc, errno>>
    /\ i' = 0
    /\ UNCHANGED <<args, sp, sync_thr, ni, file, shared>>

(* Mutant: the error is not returned. *)
write_return_total(err) ==
    \/ i = 0 /\ pc' = "close" /\ UNCHANGED <<rc, ni>>
    \/ i > 0 /\ pc' = "loop" /\ ni' = ni + 1 /\ UNCHANGED rc

(* write_data returns i buffers, or the error, to run_odsync. *)
write_return(err) ==
    \/ err # "0" /\ pc' = "close" /\ rc' = "error" /\ UNCHANGED ni
    \/ err = "0" /\ i = 0 /\ pc' = "close" /\ UNCHANGED <<rc, ni>>
    \/ err = "0" /\ i > 0 /\ pc' = "loop" /\ ni' = ni + 1 /\ UNCHANGED rc

(* Mutant: the loop runs once more. *)
write_ok_once_more ==
    /\ pc = "write" /\ i <= sp.niter
    /\ written' = written + 1
    /\ pc' = "write" /\ i' = i + 1
    /\ UNCHANGED <<args, sp, sync_thr, ni, rc, errno, open, synced, torn, shared>>

write_ok ==
    /\ pc = "write" /\ i < sp.niter
    /\ written' = written + 1
    /\ \/ /\ SYNC_TYPE(sp.mode) # {}
          /\ pc' = "sync" /\ UNCHANGED i
       \/ /\ SYNC_TYPE(sp.mode) = {}
          /\ pc' = "write" /\ i' = i + 1
    /\ UNCHANGED <<args, sp, sync_thr, ni, rc, errno, open, synced, torn, shared>>

write_fails ==
    /\ pc = "write" /\ i < sp.niter
    /\ \/ MayFail("write") /\ errno' = "set" /\ UNCHANGED torn
       \/ MayFail("short write") /\ torn' = TRUE /\ UNCHANGED errno
    /\ write_return(errno')
    /\ UNCHANGED <<args, sp, sync_thr, i, open, written, synced, shared>>

write_done ==
    /\ pc = "write" /\ i >= sp.niter
    /\ write_return("0")
    /\ UNCHANGED <<args, sp, sync_thr, i, errno, file, shared>>

(* Mutant: without -T nothing is synced. *)
do_sync_forgets ==
    \/ Has("SYNC_THREAD") /\ toggle_sync_thread("file", sp.mode, "sSYNC")
          /\ UNCHANGED <<synced, errno>>
    \/ ~Has("SYNC_THREAD") /\ UNCHANGED <<synced, errno, shared>>

(* do_sync of the descriptor just written; its result is not looked at. *)
do_sync ==
    \/ /\ Has("SYNC_THREAD")
       /\ toggle_sync_thread("file", sp.mode, "sSYNC")
       /\ UNCHANGED <<synced, errno>>
    \/ /\ ~Has("SYNC_THREAD")
       /\ \/ fd_sync("file", sp.mode, written, open, "0") /\ UNCHANGED errno
          \/ fd_sync("file", sp.mode, written, open, "-1") /\ errno' = "set"
       /\ UNCHANGED shared

write_sync ==
    /\ pc = "sync"
    /\ \/ /\ Has("SYNC_THREAD") \/ fd_sync_asserts(sp.mode)
          /\ do_sync
          /\ pc' = "write" /\ i' = i + 1
       \/ /\ ~Has("SYNC_THREAD") /\ ~fd_sync_asserts(sp.mode)
          /\ pc' = "aborted"
          /\ UNCHANGED <<i, synced, errno, shared>>
    /\ UNCHANGED <<args, sp, sync_thr, ni, rc, open, written, torn>>

run_close ==
    /\ pc = "close" /\ open' = FALSE
    /\ pc' = IF sync_thr = "none" THEN "exit" ELSE "stop"
    /\ UNCHANGED <<main, rc, errno, written, synced, torn, shared>>

stop_sync_thread ==
    /\ At("stop", "join")
    /\ toggle_sync_thread("none", {}, "sQUIT")
    /\ UNCHANGED <<main, rc, errno, file>>

(* A stale id has no thread to wait for. *)
join_sync_thread ==
    /\ At("join", "exit")
    /\ thr = "exit" \/ sync_thr = "stale"
    /\ UNCHANGED <<main, rc, errno, file, shared>>

-----------------------------------------------------------------------------

Init ==
    /\ args = [opts |-> {}, I |-> 0, N |-> 0, U |-> 0, bufsz |-> 0, niter |-> 0]
    /\ sp = NoSpec
    /\ pc = "args" /\ rc = "0" /\ errno = "0"
    /\ sync_thr = "none" /\ ni = 0 /\ i = 0
    /\ open = FALSE /\ written = 0 /\ synced = 0 /\ torn = FALSE
    /\ g_st = [fd |-> "none", flags |-> {}, state |-> "sWAIT"]
    /\ mtx = "free" /\ thr = "none" /\ begun = 0 /\ found = FALSE

Main ==
    \/ main_args \/ run_open \/ run_falloc \/ run_thread \/ run_loop
    \/ write_ok \/ write_fails \/ write_done \/ write_sync
    \/ run_close \/ stop_sync_thread \/ join_sync_thread

Thread == thread_take \/ thread_sync

(* A failed assertion ends the process. *)
Next == pc # "aborted" /\ (Main \/ Thread \/ spurious_wakeup)

Spec == Init /\ [][Next]_vars

(* Both threads are scheduled; a system call returns. *)
FairSpec == Spec /\ WF_vars(pc # "aborted" /\ Main) /\ WF_vars(pc # "aborted" /\ Thread)

-----------------------------------------------------------------------------
(* Properties. *)

TypeOK ==
    /\ sp \in [mode : SUBSET {"SYNC_ALL", "SYNC_DATA", "FALLOC", "SYNC_THREAD", "SEQ_WRITE"},
               len : Int, niter : Int, incr : Int, nincr : Int, num_chunks : Int]
    /\ pc \in {"args", "open", "falloc", "thread", "loop", "write", "sync",
               "close", "stop", "join", "exit", "aborted"}
    /\ rc \in {"0", "EINVAL", "ENOMEM", "error"} /\ errno \in {"0", "set"}
    /\ sync_thr \in {"none", "thread", "stale"}
    /\ ni \in 0 .. sp.nincr /\ i \in 0 .. sp.niter
    /\ open \in BOOLEAN /\ written \in Nat /\ synced \in 0 .. written
    /\ torn \in BOOLEAN
    /\ g_st \in [fd : {"none", "file"}, state : {"sWAIT", "sSYNC", "sQUIT"},
                 flags : SUBSET {"SYNC_ALL", "SYNC_DATA", "FALLOC", "SYNC_THREAD", "SEQ_WRITE"}]
    /\ mtx \in {"free", "thread"}
    /\ thr \in {"none", "awake", "asleep", "syncing", "exit"}
    /\ begun \in Nat /\ found \in BOOLEAN

Syncing == SYNC_TYPE(sp.mode) # {}

(* The assertions of fd_sync (wbuft.c:97) and writev_nbuf (242, 245, 268)
   hold for every command line that main accepts, however the sizes grow. *)
AssertionsHold == pc # "aborted"

(* "-D = fdatasync() after each write" (wbuft.c:442) without -T: when the
   next write starts, the file is synced, or a sync has failed and errno,
   which nothing clears, still says so. *)
SyncedBeforeNextWrite ==
    (pc = "write" /\ Syncing /\ ~Has("SYNC_THREAD")) => synced = written \/ errno = "set"

(* With -T no request gets lost while main goes on: whatever is not synced
   yet is asked for, unless the thread has given up on an error. *)
UnsyncedIsRequested ==
    (pc \in {"loop", "write", "close"} /\ sync_thr = "thread" /\ synced < written)
        => g_st.state = "sSYNC" \/ thr = "exit"

(* The thread does not sleep on a request, sSYNC or sQUIT: none comes between
   its test of the state and its sleep. *)
RequestSeen ==
    (thr = "asleep") => g_st.state = "sWAIT"

(* A run that ends with status 0 has written every buffer it was asked for,
   in every size below MAX_BUFSZ: no failed step is forgotten on the way,
   except a short write, which sets no errno. *)
CompleteIfOk ==
    (pc = "exit" /\ rc = "0" /\ ~torn) =>
        written = sp.niter * Cardinality({k \in 0 .. sp.nincr - 1 :
                                             sp.len + k * sp.incr < MAX_BUFSZ})

(* "-S = fsync() after each write", "-D = fdatasync() after each write"
   (wbuft.c:442-444): a run without errors ends with every write synced. *)
SyncedAtExit ==
    (pc = "exit" /\ rc = "0" /\ Syncing) => synced = written

(* The program ends: the thread is woken, quits and is joined. *)
Terminates == <>(pc \in {"exit", "aborted"})

=============================================================================
