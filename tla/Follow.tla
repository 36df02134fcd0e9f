------------------------------- MODULE Follow -------------------------------
(***************************************************************************)
(* A relay that writes a file and rolls it over (src/fdwatch/frelay.c or   *)
(* writer.c), beside a follower that reads the file as it grows, told by   *)
(* kqueue: evrdr.c, which opens the file anew after a rollover and creates *)
(* it if need be; kqfile.c, which waits for it; or reader.c, which ends    *)
(* with its file.  The two are processes that share nothing but the file   *)
(* system.                                                                 *)
(*                                                                         *)
(* A byte is its position in the stream the relay writes, after the bytes  *)
(* an earlier run left in the file; a file is the part of the stream that  *)
(* went into it.  A system call of either process may fail.  It ends the   *)
(* process, except where the code goes on: with a file that is not open,   *)
(* not watched, or read in part.                                           *)
(***************************************************************************)
EXTENDS Integers, Sequences

CONSTANTS Chunk,      \* the most one transfer moves
          MaxDst,     \* max_dst_len
          BufSize,    \* the follower reads at most this much at a time
          MaxOld,     \* bound: bytes of an earlier run in the file
          MaxStream,  \* bound: bytes there have ever been
          MaxFiles    \* bound: files there have ever been

ASSUME FollowAssumption ==
    /\ Chunk \in Nat \ {0} /\ MaxDst \in Nat \ {0} /\ BufSize \in Nat \ {0}
    /\ MaxOld \in Nat /\ MaxStream \in Nat /\ MaxFiles \in Nat

VARIABLES relay,      \* "frelay" or "writer"
          rpc, chunk, nsent, ntotal, out_fd,
          files,      \* every file there has been: its part of the stream
          path, rolled,  \* the files of that name and of the name it got, or 0
          sent,       \* bytes written to the stream
          follower,   \* "evrdr", "kqfile" or "reader"
          tmout,      \* whether it was given a timeout
          fpc, fd, off,
          watched,    \* the filters kqueue has for fd
          notes,      \* kqueue: what happened to the file, not yet fetched
          events,     \* fetched and not yet processed
          reopen,     \* f_REOPEN
          seen,       \* history: past the last byte read
          missed,     \* history: the file was renamed or deleted unwatched
          cut         \* history: the file was truncated while it was open

rvars == <<relay, rpc, chunk, nsent, ntotal, out_fd>>
fsvars == <<files, path, rolled, sent>>
fvars == <<follower, tmout, fpc, fd, off, watched, events, reopen, seen>>
watch == <<notes, missed, cut>>
vars == <<rvars, fsvars, fvars, watch>>

Least(a, b) == IF a < b THEN a ELSE b

Init ==
    /\ relay \in {"frelay", "writer"}
    /\ follower \in {"evrdr", "kqfile", "reader"}
    /\ tmout \in BOOLEAN
    /\ follower = "kqfile" => ~tmout
    /\ rpc = "start" /\ chunk = 0 /\ nsent = 0 /\ ntotal = 0 /\ out_fd = 0
    /\ \/ path = 0 /\ files = << >> /\ sent = 0
       \/ /\ path = 1 /\ sent \in 0 .. MaxOld
          /\ files = <<[first |-> 0, size |-> sent]>>
    /\ rolled = 0
    /\ fpc = "open" /\ fd = 0 /\ off = 0 /\ watched = {}
    /\ notes = {} /\ events = << >> /\ reopen = FALSE
    /\ seen = 0 /\ missed = FALSE /\ cut = FALSE

\* What the follower's kqueue makes of a note about file i.
Note(i, what) ==
    /\ notes' = IF fd = i /\ "VNODE" \in watched THEN notes \cup {what} ELSE notes
    /\ missed' = (missed \/ (fd = i /\ "VNODE" \notin watched))
    /\ UNCHANGED cut

-----------------------------------------------------------------------------
(* The relay *)

relay_fails ==
    /\ rpc # "exit"
    /\ rpc' = "exit"
    /\ UNCHANGED <<relay, chunk, nsent, ntotal, out_fd, fsvars, fvars, watch>>

\* The file is created, or an old one emptied under whoever has it open.
relay_start ==
    /\ rpc = "start"
    /\ IF path = 0
       THEN /\ files' = Append(files, [first |-> sent, size |-> 0])
            /\ path' = Len(files')
       ELSE /\ files' = [files EXCEPT ![path] = [first |-> sent, size |-> 0]]
            /\ UNCHANGED path
    /\ cut' = (cut \/ (path # 0 /\ fd = path /\ files[path].size > 0))
    /\ out_fd' = path'
    /\ rpc' = "read"
    /\ UNCHANGED <<relay, chunk, nsent, ntotal, rolled, sent, fvars, notes, missed>>

\* transfer reads up to Chunk; at the end of its source it goes to the start.
relay_read ==
    /\ rpc = "read"
    /\ \E n \in 0 .. Least(Chunk, MaxStream - sent) :
        /\ chunk' = n
        /\ nsent' = n
        /\ rpc' = IF n = 0 THEN "check" ELSE "write"
    /\ UNCHANGED <<relay, ntotal, out_fd, fsvars, fvars, watch>>

\* One write(2) of nwrite.
relay_write ==
    /\ rpc = "write"
    /\ \E n \in 1 .. chunk :
        /\ files' = [files EXCEPT ![out_fd].size = @ + n]
        /\ sent' = sent + n
        /\ chunk' = chunk - n
        /\ rpc' = IF n = chunk THEN "check" ELSE "write"
    /\ UNCHANGED <<relay, nsent, ntotal, out_fd, path, rolled, fvars, watch>>

\* Whether the file is full: writer.c looks ahead by a whole chunk, frelay.c by
\* what it just sent.
full(n) ==
    n + (IF relay = "frelay" THEN nsent ELSE Chunk) >= MaxDst

relay_check ==
    /\ rpc = "check"
    /\ ntotal' = ntotal + nsent
    /\ rpc' = IF full(ntotal') THEN "rename" ELSE "read"
    /\ UNCHANGED <<relay, chunk, nsent, out_fd, fsvars, fvars, watch>>

\* rollover: rename, then close.
relay_rename ==
    /\ rpc = "rename"
    /\ Len(files) < MaxFiles
    /\ rolled' = path
    /\ path' = 0
    /\ Note(path, "RENAME")
    /\ out_fd' = 0
    /\ rpc' = IF relay = "frelay" THEN "reopen" ELSE "unlink"
    /\ UNCHANGED <<relay, chunk, nsent, ntotal, files, sent, fvars>>

\* A file that the follower has created meanwhile is used.
relay_open ==
    /\ rpc = "reopen"
    /\ IF path = 0
       THEN /\ files' = Append(files, [first |-> sent, size |-> 0])
            /\ path' = Len(files')
       ELSE UNCHANGED <<files, path>>
    /\ out_fd' = path'
    /\ rpc' = IF relay = "frelay" THEN "unlink" ELSE "read"
    /\ UNCHANGED <<relay, chunk, nsent, ntotal, rolled, sent, fvars, watch>>

\* frelay.c starts its count anew here, writer.c never does.
relay_unlink ==
    /\ rpc = "unlink"
    /\ rolled' = 0
    /\ Note(rolled, "DELETE")
    /\ ntotal' = IF relay = "frelay" THEN 0 ELSE ntotal
    /\ rpc' = IF relay = "frelay" THEN "read" ELSE "reopen"
    /\ UNCHANGED <<relay, chunk, nsent, out_fd, files, path, sent, fvars>>

Relay ==
    \/ relay_fails \/ relay_start \/ relay_read \/ relay_write \/ relay_check
    \/ relay_rename \/ relay_open \/ relay_unlink

-----------------------------------------------------------------------------
(* The follower *)

\* A call fails and the program ends: kqueue, the registration of a file,
\* kevent, and for evrdr.c and reader.c a read or the opening of a file.
follower_fails ==
    /\ \/ fpc \in {"open", "add", "wait"}
       \/ /\ follower # "kqfile"
          /\ fpc = "reopen" \/ (fpc = "events" /\ Head(events).filter = "READ")
    /\ fpc' = "failed"
    /\ UNCHANGED <<follower, tmout, fd, off, watched, events, reopen, seen,
                   rvars, fsvars, watch>>

\* main opens the file; kqfile.c goes to its end.  Where the open fails, as it
\* does when there is no file, kqfile.c goes on without one.
main ==
    /\ fpc = "open"
    /\ \/ /\ path # 0
          /\ fpc' = "add"
          /\ fd' = path
          /\ off' = IF follower = "kqfile" THEN files[path].size ELSE 0
       \/ /\ fpc' = IF follower = "kqfile" THEN "wait" ELSE "failed"
          /\ UNCHANGED <<fd, off>>
    /\ UNCHANGED <<follower, tmout, watched, events, reopen, seen, rvars, fsvars, watch>>

\* From here on kqueue watches the file.  At its start evrdr.c does not look at
\* the answer and may go on without the filter for reads, or without both.
kq_add ==
    /\ fpc = "add"
    /\ \/ watched' = {"VNODE", "READ"}
       \/ /\ follower = "evrdr" /\ ~reopen
          /\ watched' \in {{}, {"VNODE"}}
    /\ fpc' = "wait"
    /\ UNCHANGED <<follower, tmout, fd, off, events, reopen, seen,
                   rvars, fsvars, watch>>

\* How far the end of the file is, which may be behind once the file was cut.
Unread == files[fd].size - off

Readable == IF Unread > 0 THEN Unread ELSE 0

Pending ==
    (IF fd # 0 /\ "READ" \in watched /\ Unread # 0
     THEN {[filter |-> "READ", data |-> Unread]} ELSE {})
        \cup (IF notes # {} THEN {[filter |-> "VNODE", fflags |-> notes]} ELSE {})

\* kevent gives what is pending: bytes to read, with their number, and the
\* notes, in some order; kqfile.c has it give one of them.  It forgets the
\* notes it has given, by EV_CLEAR, which kqfile.c does not ask for.
follow ==
    /\ fpc = "wait"
    /\ Pending # {}
    /\ \E evs \in {<<e>> : e \in Pending} \cup {<<e, f>> : e, f \in Pending} :
        /\ Len(evs) = 2 => evs[1] # evs[2]
        /\ follower = "kqfile" => Len(evs) = 1
        /\ follower # "kqfile" => {evs[i] : i \in DOMAIN evs} = Pending
        /\ events' = evs
    /\ notes' = IF follower = "kqfile" THEN notes ELSE {}
    /\ reopen' = FALSE
    /\ fpc' = "events"
    /\ UNCHANGED <<follower, tmout, fd, off, watched, seen, missed, cut, rvars, fsvars>>

follow_times_out ==
    /\ fpc = "wait"
    /\ Pending = {}
    /\ tmout
    /\ fpc' = "exit"
    /\ UNCHANGED <<follower, tmout, fd, off, watched, events, reopen, seen,
                   rvars, fsvars, watch>>

\* The next event; after the last one the file is opened anew if it was renamed
\* or deleted.
next_event(again) ==
    /\ events' = Tail(events)
    /\ fpc' = IF Tail(events) # << >> THEN "events"
              ELSE IF again THEN "reopen" ELSE "wait"

\* How much is read of what there is: what was announced, as far as the buffer
\* takes it; kqfile.c reads lines until all of it is read, and what may have
\* come since.
Wanted(data) ==
    IF follower = "kqfile" THEN Least(data, Readable) .. Readable
                           ELSE {Least(Least(data, BufSize), Readable)}

\* A file that has shrunk: kqfile.c goes to its end.
read_shrunk ==
    /\ off' = IF follower = "kqfile" THEN files[fd].size ELSE off
    /\ UNCHANGED seen
    /\ next_event(reopen)

\* len bytes are read.
read_bytes(len) ==
    /\ off' = off + len
    /\ seen' = IF len = 0 THEN seen ELSE files[fd].first + off'
    /\ next_event(reopen)

\* Nothing to read, although it was announced, ends evrdr.c and reader.c.
process_read ==
    /\ fpc = "events"
    /\ Head(events).filter = "READ"
    /\ \/ Head(events).data < 0 /\ read_shrunk
       \/ /\ Head(events).data > 0
          /\ \E len \in Wanted(Head(events).data) :
                IF len = 0 /\ follower # "kqfile"
                THEN fpc' = "eof" /\ UNCHANGED <<events, off, seen>>
                ELSE read_bytes(len)
    /\ UNCHANGED <<follower, tmout, fd, watched, reopen, rvars, fsvars, watch>>

\* A read fails; kqfile.c says so and goes on, where it got to.
read_fails ==
    /\ fpc = "events" /\ follower = "kqfile"
    /\ Head(events).filter = "READ" /\ Head(events).data > 0
    /\ \E len \in 0 .. Readable : read_bytes(len)
    /\ UNCHANGED <<follower, tmout, fd, watched, reopen, rvars, fsvars, watch>>

\* Mutant: a rename is not acted upon.
wants_reopen_deleted(fflags) == "DELETE" \in fflags

wants_reopen(fflags) == fflags \cap {"DELETE", "RENAME"} # {}

\* The file must be opened anew; reader.c ends with it.
process_vnode ==
    /\ fpc = "events"
    /\ Head(events).filter = "VNODE"
    /\ LET fflags == Head(events).fflags
       IN  IF follower # "reader"
           THEN /\ reopen' = (reopen \/ wants_reopen(fflags))
                /\ next_event(reopen')
           ELSE IF "DELETE" \in fflags
           THEN fpc' = "exit" /\ UNCHANGED <<events, reopen>>
           ELSE next_event(FALSE) /\ UNCHANGED reopen
    /\ UNCHANGED <<follower, tmout, fd, off, watched, seen, rvars, fsvars, watch>>

\* Mutant: reading goes on where it was in the file before.
re_open_in_place ==
    /\ fpc = "reopen"
    /\ path # 0
    /\ fd' = path
    /\ fpc' = "add"
    /\ watched' = {} /\ notes' = {} /\ missed' = FALSE /\ cut' = FALSE
    /\ UNCHANGED <<follower, tmout, off, events, reopen, seen, rvars, fsvars>>

\* The file is closed, whatever is left in it, and opened; evrdr.c creates it.
re_open ==
    /\ fpc = "reopen"
    /\ IF path = 0
       THEN /\ follower = "evrdr"
            /\ Len(files) < MaxFiles
            /\ files' = Append(files, [first |-> sent, size |-> 0])
            /\ path' = Len(files')
       ELSE UNCHANGED <<files, path>>
    /\ fd' = path'
    /\ off' = 0
    /\ fpc' = "add"
    /\ watched' = {} /\ notes' = {} /\ missed' = FALSE /\ cut' = FALSE
    /\ UNCHANGED <<follower, tmout, events, reopen, seen, rolled, sent, rvars>>

\* kqfile.c tries three times to open the file, gives it up, and waits on.
kqfremove ==
    /\ fpc = "reopen"
    /\ follower = "kqfile"
    /\ fpc' = "wait"
    /\ fd' = 0
    /\ watched' = {} /\ notes' = {} /\ missed' = FALSE /\ cut' = FALSE
    /\ UNCHANGED <<follower, tmout, off, events, reopen, seen, rvars, fsvars>>

FollowerSteps ==
    \/ main \/ kq_add \/ follow \/ follow_times_out
    \/ process_read \/ process_vnode \/ re_open \/ kqfremove

Next == Relay \/ FollowerSteps \/ follower_fails \/ read_fails

\* Both programs run until they end; the system schedules the follower.
Spec == Init /\ [][Next]_vars /\ WF_vars(FollowerSteps)

-----------------------------------------------------------------------------
(* Properties *)

\* The follower reads no byte twice and none out of order, although it reads by
\* counts that are out of date, the relay writes, renames and deletes meanwhile,
\* and a re-open may land on a file it had, a later one or one of its own making.
\* It is never past the end of its file, and no event promises bytes that are
\* not there, which would end it, unless the relay emptied the file under it.
ReadsInOrder ==
    /\ fpc = "eof" => cut
    /\ fd # 0 => /\ files[fd].first + off >= seen
                 /\ off <= files[fd].size \/ cut

\* The follower is at the end of its file, which has the name unless reader.c
\* follows it.
CaughtUp ==
    fd # 0 /\ off = files[fd].size /\ (follower # "reader" => fd = path)

Ended == fpc \in {"exit", "failed", "eof"}

\* kqfile.c waits on although it has no file.
NoFile == fpc = "wait" /\ fd = 0

\* evrdr.c waits on although it is not told of reads.
NotTold == fpc = "wait" /\ fd # 0 /\ "READ" \notin watched

\* evrdr.c or reader.c is past the end of a file that was emptied.
Beyond == fd # 0 /\ cut /\ off > files[fd].size

\* In the end the follower has read all there is in the current file, whenever
\* the file was rolled over and however often, and whatever the order in which
\* its events come.  It fails to only where it ended, has no file, is not told
\* of reads, had its file renamed or deleted before it was watched, or emptied
\* under it, or where its reads fail for ever.
CatchesUp ==
    \/ []<><<read_fails>>_vars
    \/ <>[](Ended \/ NoFile \/ NotTold \/ missed \/ Beyond \/ CaughtUp)

\* evrdr.c is there to "read file contents as the file grows" (evrdr.c:1): it
\* has read them in the end, unless it ends itself or the file was emptied.
ReadAsItGrows ==
    <>[](follower = "evrdr" => Ended \/ Beyond \/ CaughtUp)
=============================================================================
