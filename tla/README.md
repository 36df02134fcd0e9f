# Verification of bsl45-misc.tools

TLA+ models of the tools in this repository that keep state, run threads or
handle failure, with the TLC configurations that check them and the TLAPS
proofs of what holds for every instance.

## 1. Inventory

The repository is a collection of small C programs and libraries.  It has no
overall documentation; the headers' comments, the usage texts and the test
programs are what says how each part should behave.

| Component | State it keeps | Operations | What is hard |
|---|---|---|---|
| `debugsync/debugsync.c` | activation flags; a table of named points (`is_enabled`, `in_syncwait`, `nblocked`); one mutex, one condition variable | `ds_init`, `ds_destroy`, `ds_activate`, `ds_enable`, `ds_disable_all`, `ds_exec`, `ds_wait`, `ds_unblock` | every thread of the tested program calls it; tests made without the mutex; conditional broadcasts; counts that must survive error returns |
| `wal/wbuft.c` | `g_st` (state, fd, flags) under a mutex; file, options, loop counters | write loops, `toggle_sync_thread`, `thread_run`, start and stop | a request overwritten before it is served; the descriptor closed under the sync thread; errors of one step masked by the next |
| `queue/queue.c` | ring of pointers: `count`, `head`, `tail` | create, put, get, dump, free | wrap-around, empty and full; -1 is both a value and an error |
| `fdwatch/xvdat.c` | vector with `taken` flags, `len`, `max_len`, `avail` | reserve, expand, add, del | growth that fails half-way; the cached free slot |
| `fdwatch/fdio.c` | file offsets, bytes left | `nread`, `nwrite`, `nwritev`, `nsendfile`, `transfer` | partial and interrupted calls, stale `errno` |
| `fdwatch/frelay.c`, `writer.c` and `evrdr.c`, `reader.c`, `kqfile.c` | open descriptors, file names, event queue | write, roll over; follow, open anew | a file replaced between open and watch; counts that are out of date when used |
| `base64/b64.c` | encoding and decoding tables | encode, decode, the allocating variants | padding, truncation at buffer ends |
| `prof/prfm.c`, `nbsd_time.h`, `rusage_ops.h` | start and accumulated time and resources of each probe | start, stop, probe, reset | carries and borrows; a probe left running by an error |
| `crc32.intel/` | lookup tables, CPU feature bits | `crc32`, `crc32c`, `crc32c_hw`, `cpu_has` | the bytes before, in and after the groups of eight; an instruction the CPU may lack |
| `debugsync/debugsync_dyn.c`, `debugsync/coro/`, `debugsync/corocond.c`, `fdwatch/iorly.c`, `sort/`, `memalign/`, `tmtest/`, `bfd/`, `memcached/`, `pthr_cleanup/`, `hi/`, `lua_eh/`, `cfg/` | superseded, vendored, unfinished or straight-line | | not modelled, see section 8 |

Interaction is by calls only, except inside `debugsync` (threads share the
table), inside `wbuft` (writer and sync thread share `g_st` and the file) and
between `frelay`/`writer` and `evrdr`/`reader`/`kqfile` (processes share a
file).  The
`fdwatch` programs call `fdio` and `xvdat`.

What makes each part correct:

* **debugsync**: a waiting section runs inside the hold of `ds_exec` and the
  hold ends after the last of them; `nblocked` counts the sections; nobody
  sleeps through the broadcast meant for him; disabling or deactivating leaves
  no caller blocked; the assertion of `ds_unblock` holds.
* **wbuft**: a write that was asked to be synced is synced before the run
  ends; the program ends; a failed write makes it fail.
* **queue**: it is a bounded FIFO, whatever the position of the ring.
* **xvdat**: `len` is the number of taken slots and `avail` the lowest free one.
* **fdio**: all bytes, in order, once, or an error with the right count.
* **fdwatch follow**: no byte is read twice or out of order across a rollover,
  none is skipped within a file, and the follower catches up.
* **base64**: the result is base64, cut to the buffer; decode inverts encode.
* **prof**: a probe holds the sum of its intervals, in normal form.
* **crc32**: software and hardware routine compute the remainder of the
  polynomial, for every length and alignment.

## 2. Plan

1. `DebugSync` with its MC module, invariants, liveness; proofs of type
   correctness and of the counts.  *(done)*
2. `PQueue`, refining an abstract `BoundedFifo`, with the refinement proved.
   *(done)*
3. `WriteBuf` (wbuft): writer and sync thread; proof that no request is lost.
   *(done)*
4. `XvList` (xvdat), refining an abstract `SlotPool`: the slot list, its
   free-slot cache and the growth that fails between its two reallocations;
   slot invariant and refinement proved.  *(done)*
5. `FdIo`: the loops over partial and interrupted calls; `Follow`: relay and
   event readers over one file; the order of what is read proved.  *(done)*
6. `B64`, `Crc32` and `Prfm`: algorithms against reference definitions; the
   sums of the probes proved.  *(done)*
7. Proofs of the remaining safety properties: the wake-ups and the rendezvous
   of `DebugSync`, the six of `WriteBuf`, the I/O loops, the loads and the CPU
   test of `Crc32`.  *(done)*
8. `SyncPoints`, an abstract rendezvous that `DebugSync` implements while nobody
   disables a point, with the refinement proved.  *(done)*
9. Proofs that the routines of `B64` and `Crc32` compute what their reference
   definitions say, for every input.  *(done)*

The routines that keep no state between programs share one run, `libraries`;
each component that runs threads or processes has runs of its own.

## 3. The debugsync model

### Modules

| Module | Contents |
|---|---|
| `DebugSync` | the facility and its clients; properties |
| `SyncPoints` | what the header promises to a program that only waits and executes |
| `MCDebugSync` | programs, bounds and flags for the runs |
| `DebugSyncProofs` | lemmas about the table; types, wake-ups of executors, unique names |
| `DebugSyncCountProofs` | the counting argument; wake-ups of waiters, the rendezvous and its refinement |

### State and steps

`point` is `ds.point[0 .. count-1]`, `activation` the flag word as a set,
`waitset` the threads asleep on `ds.cond` (a broadcast empties it, and a thread
outside of it still has to get the mutex before it goes on), `pc`, `call`,
`pt`, `rc` what each thread has on its stack.  `life` says whether `ds_init`
ran.  Names are model values; `Trunc[n]` is what `strndup(n, 32)` keeps of a
name, the name itself when it fits.

Between a lock (or a return from `pthread_cond_wait`) and the next unlock or
wait no other thread sees the table, so each such region is one action:
`ds_wait_locked` runs from the lock to the first `pthread_cond_wait` or to the
return, `ds_wait_resume` from a wake-up on, and the same for `ds_exec`.  What
runs *without* the mutex is an action of its own:

* the `local_inactive()` test that opens every function (`ds_wait`, `ds_exec`,
  `ds_unblock`, `ds_enable`, `ds_disable_all`, `ds_activate`);
* the store `ds_activate` makes without locking (`ds_activate_store`).

Because that store may land anywhere, the locked region of `ds_activate`, which
reads the flag and later writes it, is two actions with `mtx` held between
them.  All other locked regions read the flag once.  The flag word is read and
written by threads without synchronisation; both competing writes change the
DS_ACTIVE bit only, so every outcome of the race is the outcome of some order
of the stores.

`strndup` may return NULL at any time (`create_new` may leave the table as it
is).  The calls of pthread functions are taken to succeed (their errors mean a
misused object), so `rc` is 0 where the code stores their result.
`spurious_wakeup` is what POSIX allows `pthread_cond_wait` to do.  A failed
assertion ends the process: `Next` requires `Alive`.

Clients follow `utest2.c`: a section begins when `ds_wait` returned 0 and ends
with `ds_unblock` of the same name; a thread whose `ds_wait` failed does not
call `ds_unblock`; `main` joins its threads before `ds_destroy`.  `Program[t]`
is the set of calls thread t may make and `MaxCalls[t]` bounds how many.

### Runs

All runs are over `MCDebugSync`.  Two waiters are the least that tell "a
section" from "the last section"; one executor more than needed meets the BUSY
path; a controller makes two calls, enough to disable and enable again
or to switch off and on; table sizes 1 and 2 against two names reach the full
table.  Deadlock is not checked: a waiter may wait for ever for a `ds_exec`
nobody calls, and after `MaxCalls` everybody stops.

| Run | Instance | What it shows |
|---|---|---|
| `ds_rendezvous` | 2 waiters, 2 executors, one point, 2 calls each | `NblockedCountsSections`, `SectionUnderSyncwait`, `ExecPassesLast`, `ImplementsPoints`, and under fairness `ExecReturns`, `WaiterReleased` |
| `ds_control` | 2 waiters, executor and a controller with every call, two points, DS_GLOBAL set | `AssertionHolds`, `NblockedCoversSections`, `WaitNotLost`, `UniqueNames`, and under fairness `DisabledErrsOut`, `DeactivatedErrsOut` |
| `ds_local` | every controller call, DS_GLOBAL not set, table of one point for two names | `TypeOK`, `SyncwaitHeld`, `ExecNotLost` |

The runs below find a property violated, and each is a disagreement between
the code and what a comment or an assertion says:

| Run | Property | Disagreement |
|---|---|---|
| `ds_assert` | `AssertionHolds` | `ds_wait` returned early while inactive, the facility is activated, `ds_unblock` asserts `nblocked > 0` |
| `ds_nblocked` | `NblockedCountsSections` | a wait that errs out of a disabled point keeps its count; later `ds_exec` calls hold for nobody |
| `ds_passes_last` | `ExecPassesLast` | a second `ds_exec` at a disabled point ends the first one's hold |

Observations without a run:

* A name longer than 32 characters is stored truncated (debugsync.c:135) and
  looked up whole (169), so each call with it appends another point, although
  the name is the "Unique name to use as ID" (38).  All runs use names that
  fit; `Trunc` says which do, and the theorems hold for any `Trunc`.
* A disable followed by an enable before the waiter runs hides the disable, and
  the wait goes on, although the comment at 284 says that it errs out.  This is
  why `DisabledErrsOut` and `DeactivatedErrsOut` except a point that is enabled
  again before the caller runs.
* `ds_activate` stores the flag without the lock since there is, says the comment at
  debugsync.c:237, "no chance of pending waits"; waits can be pending, as the test
  before it is older than the store.  Nothing follows from it: `disable_all` is
  what errs out waits, and it runs under the mutex.  `ds_local` lets the store
  land anywhere and finds `ExecNotLost` and `SyncwaitHeld` kept.
* `disable_all` and `ds_enable` broadcast only where `nblocked > 0`
  (debugsync.c:112, 285).  When a point is undercounted, as in `ds_assert`, a
  sleeping waiter of a disabled point is not woken.

### Fairness

`FairSpec` has weak fairness of `Progress(t)` for each thread: a thread in a
call goes on when it can.  This is what a scheduler and a mutex that is always
released justify; `Progress(t)` stays enabled while the thread waits for a free
mutex because `mtx` is held only across one step of `ds_activate`, whose owner
is scheduled too.  A section is assumed to end (`ds_unblock` is part of
`Progress`).  No thread has to *start* a call, and spurious wake-ups need not
happen.

`ExecReturns` is checked for bounded programs.  A stream of new waiters that
join a running sync-wait can keep `ds_exec` held for ever: the code has nothing
against it, and no property claims otherwise.

### Proofs

`DebugSyncProofs!TypeCorrect`: `Spec => [](TypeOK /\ ControlOK)`, for all
constants that satisfy the assumptions of `DebugSync`.  `TypeOK` is not
inductive: `ds_wait_resume` indexes the table with `pt[t]`, so `pt[t]` must be
nonzero in `cond`, which is one part of `ControlOK`; the others are that only
threads in `cond` are in the wait set, that a section belongs to a `ds_wait`,
and that nothing runs while the facility is down.  The lemmas on the way say what `look_up`,
`create_new` and `acquire` return, and that the updates of a point keep the
table's type and length.

`ExecWakeUp` proves `ExecNotLost` under the same assumptions, with every
controller's call and both flags.  It is inductive together with
`SyncwaitCounted` (`WakeInv`): whoever clears `in_syncwait` or `is_enabled`
under a sleeping `ds_exec` broadcasts, and the broadcast is conditional on
`nblocked`, which `SyncwaitCounted` says is positive in a sync-wait.  The count
may be one that an erred-out wait left behind (`ds_nblocked`), so this does not
say that a section is there to end the hold; no property does, as it is false.

`HoldCorrect` proves `SyncwaitHeld` as generally: a point is locked in
sync-wait only while some `ds_exec` holds its caller there.  A hold that ends by
a disable or by another `ds_exec` leaves no lock behind, which would let every
later `ds_wait` pass and refuse every later `ds_exec`.  `HeldInv` is the
property with the types.

`NamesUnique` proves `UniqueNames` under `Fits`: no name is longer than what
`strndup` keeps.  The observation on truncated names above is why it is needed.

`DebugSyncCountProofs!AssertionCorrect` and `CountsCover`: under `Listening` (either every
`ds_init` sets DS_GLOBAL, or every `ds_init` sets DS_ACTIVE and no program
calls `ds_activate(false)`), `AssertionHolds` and `NblockedCoversSections` are
invariants.  The inductive invariant `CountInv` joins:

* `ListenOK`: `local_inactive` is false while the facility is up, so no
  `ds_wait` returns 0 uncounted;
* `PointOK`: a section's `pt` is where `look_up` finds its name, so
  `ds_unblock` gives back the count at the point where `ds_wait` took it;
* `NblockedCoversSections`, the claim: at each point nblocked is at least the
  number of threads with a count there.

The steps are counted in lemmas about cardinality: a thread that enters a set
of sections adds one to one point (`CountUp`), one that leaves takes one away
(`CountDown`, `CountOut`).  A thread that errs out leaves without giving back
its count, which is why the invariant is an inequality.  `ds_assert` shows that
`Listening` is needed.

`WaitWakeUp` proves `WaitNotLost` under `Listening` too: a sleeping waiter has
its count, so the broadcasts that depend on `nblocked > 0` reach it.  `WaitInv`
is `CountInv` with the property itself.

The rendezvous is proved under `OnlyRendezvous`: every `ds_init` sets
DS_ACTIVE, programs call `ds_wait` and `ds_exec` only, and names fit.
`RendezvousInv` joins `CountInv`, `Calm` (no point is disabled and nobody is in
a controller's call) and the two invariants, which need each other: a hold ends
when the count is zero, so the count must be exact for no section to outlast
the hold, and a count is given back only by a section under a hold.

* `CountsExact`: `NblockedCountsSections`;
* `SectionHeld`: `SectionUnderSyncwait`;
* `HoldOutlastsSections`: the action property `ExecPassesLast`;
* `IsSyncPoints`: the refinement `ImplementsPoints`.

`SyncPoints` has neither table nor mutex, counts or condition variable: each
thread is out, waits, runs its section or is held, at a named point, and `hold`
is the set of points whose sections are released.  The mapping takes
`place` from `pt`, `call` and `pc` (`Place`) and `hold` from the points in
sync-wait (`Raised`).  Five kinds of region are its five steps, all else is a
stutter: giving up, a spurious wake-up, a table that grows, `ds_init` and
`ds_destroy`.  The proof needs the exact count (the last `ds_unblock` is the
one that finds the party of its point to be itself), `UniqueNames` (a name
stands for one point) and `SyncwaitCounted` (when all threads are out
nothing is held, so that `ds_init` forgets nothing).

The violations of `ds_nblocked` and `ds_passes_last` show that it takes
only a `ds_disable_all` to lose the first and the last.

Only model-checked: liveness, which needs fairness (`ExecReturns`,
`WaiterReleased`, `DisabledErrsOut`, `DeactivatedErrsOut`).

## 4. The queue model

| Module | Contents |
|---|---|
| `BoundedFifo` | what `queue.h` promises: a FIFO of at most `cap` items, and the answer each operation gives |
| `PQueue` | `queue.c` under the command loop of `testq.c`; properties |
| `PQueueProofs` | the ring invariant and the refinement |

`data`, `max_count`, `q_count`, `head`, `tail` are the fields of `struct pqueue`
(`q_` marks names that other libraries of the same run use too).
An operation is one action, except `pqueue_dump`, which is a step per item
(`dump_item`), so that the prefix it has shown can be stated.  The assertions
in `pqueue_get` and `pqueue_put` are branches to `aborted`.  -1 is an item and
also the error value of `pqueue_get`: `testq.c` clears `errno` before the call
and takes -1 for an error only together with an `errno`, and `answer_get` does
the same.  `calloc` may fail, `main` then returns 1.

The refinement mapping is `q <- Contents` (the items at `Slot(1)` to
`Slot(q_count)`), `cap <- max_count`, `phase <- Phase`.  The answers `q_out` are
the same variable on both sides: a dump must show all items in order, a get
must give the value that was put.

The run `libraries` (section 6) has a queue of capacity 0 to 3 with the items -1,
0 and 5, under command sequences of any length, and checks `QueueTypeOK`,
`RingOK` and `ImplementsFifo`.
Capacity 3 is the least at which head and tail stand in the middle of the ring,
apart from each other and from both ends; 0 and 1 are where first and last slot
meet.  The state space is finite, so no bound on the length of a run is needed.

`RingTypes`, `RingCorrect` and `RingIsFifo` prove `QueueTypeOK`, `RingOK` and
`ImplementsFifo` for every set of capacities and items.  The inductive invariant `RingInv` joins `QueueTypeOK`,
`RingOK` and `DumpOK` (what a dump has shown is a prefix of `Contents`, and it
stands at the slot of the next item).  The refinement then needs one lemma per
action that says what it does to `Contents`: a put appends (`put_slot` is
`Slot(q_count + 1)`), a get takes the tail (`next_slot(head)` is `Slot(2)`).

## 5. The wbuft model

| Module | Contents |
|---|---|
| `WriteBuf` | options, write loops, sync thread, exit; properties |
| `MCWriteBuf` | command lines |
| `WriteBufProofs` | the proofs of the six safety properties |

`args` is the command line, `sp` the `test_spec` made of it (`mode` as a set of
flags), `g_st` and `mtx` the shared request and its mutex, `thr` the sync
thread, `pc` where main stands, `ni` and `i` its loop counters, `rc` and
`errno` what it knows of failures.  The file is two numbers: buffers written,
and how many of them the last sync covered.

The thread keeps the mutex from its wake-up to the end of `fd_sync`, so
`thread_take` and `thread_sync` are the two ends of that region; `main` writes
and closes the descriptor *without* the mutex, hence between them.  `begun` is
what was written when the sync began: it covers at least that much, and may
cover what was written meanwhile.  `found` is whether the descriptor was open
then: a sync that has begun may succeed or fail when main closes the descriptor
under it, one that begins later fails.  `toggle_sync_thread` is atomic, being wholly
under the mutex.  `spurious_wakeup` is what POSIX allows.

Calls named in `Faults` may fail at any time.  Error paths keep what the code
does with them: `errno` is set by a failing call and cleared by nothing; a
short write sets no `errno`; the result of `do_sync` is dropped; the result of
`pthread_create` replaces that of `fallocate`, and a failed one leaves the id
unspecified (`sync_thr` none or stale; joining a stale one returns at once);
the failed `assert`s of `fd_sync` and `writev_nbuf` end the process.

| Run | What it shows |
|---|---|
| `wb_run` | all faults, command lines with and without `-T`, sizes, chunk counts and increments on both sides of each limit: `TypeOK`, `AssertionsHold`, `SyncedBeforeNextWrite`, `UnsyncedIsRequested`, `RequestSeen`, `CompleteIfOk`, and under fairness `Terminates` |
| `wb_sync_at_exit` (violation) | `SyncedAtExit`: with `-T` the stop request overwrites the last sync request, or the thread syncs a closed descriptor, and the program returns 0 |

The limits are scaled down (`MIN_BUFSZ` 2, `MAX_BUFSZ` 5, up to 3 increments),
so that a run starts below, reaches and passes them; two writes for each of two
sizes are enough for a request to be overwritten, served late, or pending when
the descriptor is closed.  Deadlock is not checked since the program ends.
`FairSpec` has weak fairness of main and of the thread: both are scheduled and
no system call blocks for ever; the mutex is held only by a thread in a system
call, which returns.

The six safety properties are proved for every set of command lines, limits and
faults:

* `TypesKept`, `NoRequestLost` and `NoSleepOnRequest` prove `TypeOK`,
  `UnsyncedIsRequested` and `RequestSeen`.  None is inductive: `WbInv` adds
  `LoopOK` (where main stands in its loops; before the thread starts nothing is
  written or requested) and `RequestOK` (the mutex is held exactly while the
  thread syncs; a sync that began covers all that is written unless main waits
  for the mutex with a new request, since main sends one after each write; a
  request has main's own flags, which ask for a sync, so the thread cannot
  answer it by doing nothing; sQUIT comes after the loop only).
* `NoAbort` proves `AssertionsHold`.  `SafeInv` adds `SpecOK`: past the options
  the specification is one they accept (`Accepted`), and the thread sees no
  other flags than main's.  Then `fd_sync` meets at most one kind of sync, and
  a buffer, which only grows, has at least one byte for each chunk.
* `SyncedEachTime` proves `SyncedBeforeNextWrite`; `SyncOK` extends it to all
  places of main but the one between a write and its sync.
* `ZeroMeansComplete` proves `CompleteIfOk`.  `DoneInv` adds the arithmetic of
  the loops: how many buffers are in the file at each place (`DoneOK`), and that
  every size begun was below the limit (`SizesOK`), so that the loop ended
  because all sizes were done.

Only model-checked: `Terminates`.

Observations without a run:

* `-S` sets SYNC_DATA (wbuft.c:519), so `fsync` is never called although the
  usage text (444) names it; SYNC_ALL is set by nothing.
* `-s` is in the usage text (440) and not in the `getopt` string (462).
* a size equal to `MAX_BUFSZ` is accepted (590) and never written (386).
* a short write with `errno` 0 ends the run with status 0.

## 6. The libraries

| Module | Contents |
|---|---|
| `XvList`, `SlotPool`, `XvListProofs` | `fdwatch/xvdat.c`; what its header promises; the proofs |
| `FdIo` | `fdwatch/fdio.c` |
| `Crc32` | `crc32.intel/`: tables, routines, CPU test, test programs |
| `B64` | `base64/b64.c` under the caller of `test_b64.c` |
| `CodecProofs` | the proofs about `Crc32` and `B64` |
| `Prfm` | `prof/prfm.c` under `prfm_test.c` |
| `LibraryProofs` | the proofs about `FdIo` and `Prfm` |
| `MCLibraries` | one instance of each; `lib` says which is in use |

They share no state with each other or with the queue of section 4, so the run
`libraries` takes all of them one at a time: `lib` is
chosen at the start, the others rest.  Deadlock is not checked since every
caller ends.  98059 distinct states.  A second run over the
same instance finds a property violated:

| Run | Property | Disagreement |
|---|---|---|
| `b64_new_decoded` | `NewDecodedDecodes` | `new_b64_decoded` calls `b64_encode` (b64.c:205) and returns an encoding of the encoding, where b64.h:55 promises the decoded string |

### Slot list (`XvList`)

`len`, `max_len`, `last`, `avail` are the fields of `struct xvlst`, `taken` the
set of indexes whose flag is nonzero and `ntaken` the size of the block of
flags, 0 for NULL.  `xvlst_reserve` grows two blocks one after the other:
`xvlst_reserve_ends` has every way this ends, among them the one where the
elements have grown and the flags are gone (`taken` is overwritten by the NULL
of `realloc`).  From then on `lost` holds and nothing is promised; a later
growth allocates flags whose old part is uninitialised, so any value.  An
assertion that fails ends in "aborted", a NULL followed in "crashed".  The
caller is that of `test_xvdat.c`: it reserves first, then adds and deletes; an
index to delete is anything up to `MaxElem`, taken or not.

`SlotsOK` is what the code relies on without testing it: `avail` is the lowest
free slot although `xvlst_add` searches only past the slot it hands out.
`FailsOnlyAfterLoss` says that the assertions hold and no NULL is followed
before a loss; `ImplementsPool` that the list is `SlotPool`, which hands out
the lowest free slot and changes nothing when it refuses; `VectorInBounds` that
the elements a caller fills, and the slot handed out next, exist.  With blocks of 2 and up to 5 elements the
list grows three times, with free slots below, at and behind the last one.

All are proved for every block size and number of elements (`SlotsCorrect`,
`FailuresExplained`, `VectorBounded`, `ListIsPool`).  `XvInv` adds `TypeOK` and
`StateOK` to the properties: a list that is up has slots, and the flags
that exist cover exactly `max_len`, which is what the search of `next_avail`
needs.

### I/O loops (`FdIo`)

A byte is its position in the source.  The caller uses one of `transfer` (over
`nread` or `npread`, then `nwrite`), `nwritev`, `bsd_nsendfile` and `nsendfile`,
call after call until one leaves `errno` set, as the relays do; `errno` may be
set before the first call.  Each system call is an action: it moves some of the
bytes, is interrupted (EINTR, which clears `errno`), or fails for good; the
`lseek`s around the loop of `bsd_nsendfile` may fail too.  On
success `errno` keeps its value.  `nwritev` writes a vector of consecutive
pieces, given by their ends: `writev` is the kernel's copying piece by piece,
which may stop anywhere, and `advance` the code's loop that drops the pieces
that are through and cuts the first one that is not.  A failed write adds -1 to
the offset, which may then be -1 and still a number, so `NULL` is -2.

`WritesInOrder`: what reaches the destination is a prefix of the source, byte
for byte.  `TransferExact`: after a call that leaves `errno` clear, exactly the
bytes taken have arrived and the answer counts them.  `OffsetKept` excepts
`bsd_nsendfile` with an offset, see below.  A source of 7 bytes, a transfer
limit of 4 and requests of 0, 2, 3 and 6 put the limit, the end of the source
and a request that is no multiple of the limit into three calls; the vectors
have empty pieces at each place, and one has nothing else.

`BytesInOrder` and `MovesExactly` prove both for every source, request, limit
and vector.  `FdInv` says, by where the caller stands, how far the output,
the file position, the offset and the count are from each other: a transfer in
progress has read all it will write (`TransferOK`), a position or offset moves
at the end of a call only (`SendfileOK`), the pieces left are chained from
where the output is to the end of the vector, and in the middle of `advance`
the output is `nbytes` into the first of them (`VectorOK`).

### CRC (`Crc32`)

A word is the set of its 1 bits.  A table is given by its entries at the powers
of two; every one of the 256 literals of each table in the source is the
exclusive or of those for its bits, so nothing is left out.  All routines are
then affine in data and first crc: they agree everywhere when they agree on the
zero buffer and on each single bit, which is what `Buffers` enumerates, for
lengths below, at and above the limits 4 and 8, and each address modulo 4.
`cpu_feature2.c` is the same text as `cpu_feature.c`; `cpu_fi.c` and
`ucrc32hw.c` compute the same.

`CrcIsRemainder` compares `crc32c`, `crc32c_hw` and `crc32` with the bitwise
division by the polynomial; `LoadsAligned` is about the words `crc32c` loads;
`NoIllegalInstruction` about the CPU test (`ucrc32hw.c` makes none).
`LoadsInBounds` and `TestedFirst` prove the last two, the former for a
buffer of any length at any address.

`RoutinesAgree` proves that for all data (not only the single bits of the run),
every first crc and address and both sizes of `unsigned long`, `crc32c` and
`crc32c_hw` are the remainder by the Castagnoli polynomial and `crc32` the
complemented one by its own; `RemainderComputed` carries this through the
programs as `CrcIsRemainder`, by `ResultsOK`: at each place, which results are
already the remainder.  What the crc32 instruction itself computes is an
assumption of the model (`crc32_instr` is external).  The argument:

* `Steps(p)[k]` is k steps of the division on zeros.  It is linear (`StepsLinear`)
  and adds up (`StepsAdd`); a byte of data is added first, then eight steps
  follow (`EightBits`), so the division goes from byte to byte (`RemainderBytes`)
  and can be cut anywhere in the data (`RemainderPart`).
* The tables: the last entry of the first table is the polynomial (`PolyWord`),
  each entry is one step after that for the next higher bit (`EntriesFollow`) and
  each table starts one step after the end of the one before (`TablesFollow`).
  These are facts about the literals of the source.  With linearity, a lookup in
  the n-th table is 8n steps, for every byte (`TablesRight`).
* `update` is then eight steps (`UpdateIs`), and `slice8` sixty-four: a byte added
  after k bytes of the division may be added k bytes higher before it (`ZUp`),
  which is why four bytes may be loaded as one word (`FirstFour`), and the four
  bytes of that word come down one by one (`FourDown`).
* The loops are folds; `UpdatesIs`, `SlicesIs`, `HwWordsIs` and `HwBytesIs` say
  that a fold ends with the last of the words it goes through, and those are the
  words of the division at the ends of the groups.

### Base64 (`B64`)

A string is its sequence of bytes.  `encode` and `decode` are the loops over
groups, the tables are the runs of assignments of the source, including the
entry the source forgets: the loop at b64.c:69 ends before the byte 255, whose
entry stays 0, so that it passes for an 'A'.  The allocating variants return
NULL for an empty string or when `malloc` fails (`no_string`).

`EncodesBase64` compares what `b64_encode` and `new_b64_encoded` leave with a
bitwise definition of base64, cut to the buffer.  `DecodesBack` says exactly
what `b64_decode` answers: which texts and sizes it refuses and with which error,
and that it refuses no other; that an encoding gives back the string, the empty
one too, or its first bytes where it was cut between groups; and that a
text it accepts, without pads and without the byte 255, is the encoding of the
answer.  With the byte 255 it is not, since that byte encodes back as 'A'.
Strings up to 4 bytes of 1, 107 and 255 meet both lengths of padding and all
carries between the sextets; the texts have pads in every place, refused
characters and the byte 255; the buffers are below, at and above each limit.

`EncodingCorrect` and `DecodingCorrect` prove both for all sets of strings and
texts without the byte 0 (a C string ends there) and all sizes of buffer from 1.
The sextets `encode` takes from a group are the bits of the reference in
sixes (`Sextets`, `FourChars`), group after group until the text is cut
(`EncodeAll`, `EncodeIs`).  Back, four letters give the bytes whose sextets they are
(`BytesBack`, `GroupDecoded`, `DecodeGroups`) and, for texts that are no
encoding, bytes with the same sextets (`SextetsBack`, `LettersEncoded`).  `B64Inv` says of
the caller what `CallOK` says of one call: the text is the cut encoding after
`b64_encode`, and `b64_decode` answers what `DecodesBack` says.

### Probes (`Prfm`)

The clock is a number of units that never decreases, `clock_reading` splits it
into seconds and the rest as the system does, and the arithmetic of
`timespecadd`, `timespecsub` and `rusage_ops.h` works on the parts.  `now` has
also the user time and one counter, which stand for the fields of `rusage`.
`AccumExact`: each probe holds exactly the sum of its stopped intervals, in
normal form; a probe that a failed write left running adds nothing.
`WholeCoversParts`: what `prfm_test.c` prints for the whole is at least what it
prints for the parts.  With 3 units to a second and steps of 0, 2 and 4 units
every carry and borrow occurs.

`AccumCorrect` and `WholeCorrect` prove both for every unit, clock and number
of iterations.  `ProbesInv` says that `start` and `accum` represent the history
variables `began` and `spent`; `SpansInv` that the parts lie one after the
other within the whole, by where the program stands.

### Observations

* xvdat: after the flags are lost `xvlst_add` answers -1 for ever or follows
  NULL; the next growth reads uninitialised flags.  `xvec_reserve(0)` on an
  empty vector wraps in `nblk`; no caller does that.
* fdio: `transfer` drops what it read when `errno` is stale or an error follows
  the data; a failed write moves the caller's offset back by one (-1 is added
  to it); `bsd_nsendfile` answers only what its last `sendfile` sent, adds that
  to the offset twice, and goes round for ever at the end of the source.
* crc32: `feature > LEN_cpu_ftr` (cpu_feature.c:171) lets one index too many
  pass; the header (cpu_feature.h:11) says -EINVAL for an unsupported CPU, the
  code answers -10 or -11.
* base64: the byte 255 decodes as 0; a buffer size of 0 wraps.
* prof: `prfm_tm_init` measures "resources only (no time)" (prfm.h:55), its flag
  is `prfm_TIME` (59).

## 7. The follow model

`Follow` has two processes that share the file system: a relay (`frelay.c` or
`writer.c`) and a follower (`evrdr.c`, `kqfile.c` or `reader.c`).  `files` is
every file there has been, each the part of the stream that went into it;
`path` and `rolled` are the files that have the name and the name after
`rename`.  At the start there is no file, or one that an earlier run left, with
up to `MaxOld` bytes.  Each system call of either process that the other can
notice is an action: the relay's first open, which creates the file or empties
the one that is there, under a follower that may have it open (`relay_start`),
its read, write(2) by write(2), rename with the close, open,
unlink (in the order of each program); the follower's open, registration with
kqueue, `kevent`, the read of what was announced, and the re-open.

A system call may fail.  For the relay this ends the process (`relay_fails`),
and for the follower too (`follower_fails`), except where the code goes on:

* `evrdr.c` does not look at the result of its first `kq_add` (177) and waits
  with the filter for renames alone, or with none (`kq_add`);
* `kqfile.c` waits without a file when the first open fails (228), as it does
  when there is none (`main`), and when the file does not come back after three
  attempts (`kqfremove`);
* `kqfile.c` says so and goes on when a read fails (`read_fails`), and goes to
  the end of a file that has shrunk (`read_shrunk`).

kqueue is modelled by what the followers use of it: the filters they added
(`watched`); the notes RENAME and DELETE about the file that is watched, which
`kevent` hands out and forgets (EV_CLEAR, which `kqfile.c` does not set); and a
level-triggered READ with the distance from the offset to the end of the file
at that time, which is negative after the file was cut.  The number is out of
date when it is used: the relay has written, renamed, unlinked or emptied the
file in between.  `missed` remembers that the file lost its name while it was
open and not watched, `cut` that it was emptied while it was open.

| Run | Bounds | What it shows |
|---|---|---|
| `follow` | chunks of 2, files of 4, reads of 1 byte, 1 old byte, 6 bytes in all, 3 files | `ReadsInOrder`, and under fairness `CatchesUp` |
| `follow_untold` (violation) | the same | `ReadAsItGrows`: `evrdr.c` is to "read file contents as the file grows" (evrdr.c:1); after the ignored failure of `kq_add`, or when the file was renamed between its opening and its registration, it waits for ever while the file grows |

A file takes two chunks, so a rollover can happen before, between and after the
follower's reads; 6 bytes and 3 files let a second rollover overtake the
handling of the first.  A read of one byte leaves most of what an event
announced; one old byte is enough to be read before it is cut away.  903933
distinct states.

`ReadsInOrder`: no byte twice, none out of order, none skipped within a file;
the follower is past the end of its file, or is told of bytes that are gone,
which ends `evrdr.c` and `reader.c` ("eof"), only where the relay emptied the
file under it.  Bytes left in the old file when it is opened anew *are*
skipped: the code does not read it to its end, so the property lets a re-open
skip.

`CatchesUp`: in the end the follower has read all of the file that has
the name (`reader.c`: of its own).  Each exception is named and is a state the
code really stays in:

* `Ended`: the program is over, by an error, a timeout or (`reader.c`) the
  deletion of its file;
* `NoFile`: `kqfile.c` waits on without a file;
* `NotTold`: `evrdr.c` waits on without the filter for reads; `follow_untold`
  shows it;
* `missed`: the file lost its name before it was watched, and nobody tells the
  follower; `ReadAsItGrows` does not except it either;
* `Beyond`: the file was emptied and has not grown to the follower's offset
  again;
* the reads of `kqfile.c` fail again and again.

What is left is the claim: a follower that is up, has a file and was told to
watch it does not stay behind, whatever the order of writes, rollovers,
events and re-opens.

Fairness is weak fairness of the follower's steps: it is scheduled, and its
system calls return.  The relay need not go on; a failure need not happen.

`FollowProofs!ReadsCorrect` proves `ReadsInOrder` for all sizes and any number
of rollovers.  `FollowInv` adds to it the types, where the relay's descriptor
points (`RelayInv`), that the files are consecutive parts of the stream
(`StreamInv`), that what was read lies before the end of the follower's file,
also when that was emptied since (`SeenInv`), and `WatchInv`, the heart: the
follower is told of a rename or a deletion only of a file that has lost the
name, so that "open anew" opens a later part of the stream and never the same
file again, and what an event announces is there unless the file was cut.
`CatchesUp` is only model-checked.

Observations without a run:

* `kqfreopen` is there to "reopen a file after it has been renamed or deleted"
  (kqfile.c:79), but a file that is renamed between its opening and
  `register_kevents` is kept for good, as in `evrdr.c`.
* `writer.c` never resets `ntotal`, so that once the limit is reached it rolls
  over after every chunk.
* a `nanosleep` that is interrupted leaves `errno` set in `frelay.c` (135), and
  the next `transfer` drops a chunk.
* a follower that was past the end of a file the relay emptied skips what is
  written up to its old offset.
* `writer.c` creates its files without a mode (53, 87).

## 8. Not modelled

* debugsync: TRACE output; pthread error codes; `ds_destroy` while threads are
  inside the facility, or API calls before `ds_init` (nothing in the repository
  does that); `ds_unblock` of a name the caller did not wait for.
* queue: parsing of commands; the range check of the capacity given on the
  command line (`Capacities` are the accepted ones).
* wbuft: the open flags that only change what the kernel does with a write, the
  preallocated size, the timing figures; command lines that lack a mandatory
  parameter, which end in `usage_exit` (wbuft.c:571-584) before any state is
  set up.
* follow: several files of one `kqfile.c`; the note about growth, which
  `evrdr.c` and `reader.c` only print; that `kqfile.c` drops the bytes of an
  unfinished line at the end of what it read (they count as read: `Wanted`).
* fdio: a write(2) that answers 0 for a positive count, which POSIX does not
  give for the files used here (`nwrite` would end with a short count,
  fdio.c:32-49); EINVAL of `bsd_nsendfile` for a negative offset (214-217), as
  no caller's offset is negative there.
* xvdat: `xvec_expand` leaves `len` to its caller, who sets it at once
  (test_xvdat.c:113, 134); the action has both.
* libraries: the elements of the vector; printing and option parsing.
* `debugsync_dyn.c`: superseded, and it defines `ds_init` without the parameter
  `debugsync.h` declares, so it does not build.
* `corocond.c`: a stub; `debugsync/coro/`: a third-party library that only the
  stub refers to.
* `iorly.c` and `sort/simple_sort.c` do not compile (unfinished; `N` is not
  declared).
* `cpuid.c`, `memalign/`, `bfd/`, `memcached/`, `pthr_cleanup/`, `hi/`,
  `lua_eh/`, `cfg/`: straight-line programs that show what a library or the CPU
  does.  `tmcmp.c` and `tmtest/clkgtm.c` subtract times as `timespecsub` of
  `Prfm` does.

What is only model-checked: the liveness properties, since TLAPS has neither
fairness nor `ENABLED`.  Every other property of a passing run is stated by a
theorem.  What loops and recursive definitions compute is proved without an
induction rule over data: `InductiveSet` gives induction for a set of naturals,
`Recursion` the existence of a function with given successive values, and a
definition by CHOOSE, as those of the folds, is then shown to have that function
as its only solution where it is used.
