---------------------------- MODULE FollowProofs ----------------------------
(***************************************************************************)
(* The follower of Follow reads the stream in order, for every size of     *)
(* chunks, buffers and files and however often the file is rolled over.    *)
(***************************************************************************)
EXTENDS Follow, SequenceTheorems, TLAPS

Event == [filter : {"READ"}, data : Int]
            \cup [filter : {"VNODE"}, fflags : SUBSET {"RENAME", "DELETE"}]
Part == [first : Nat, size : Nat]
End(i) == files[i].first + files[i].size

TypesInv ==
    /\ files \in Seq(Part)
    /\ path \in {0, Len(files)}
    /\ rolled \in 0 .. Len(files)
    /\ fd \in 0 .. Len(files)
    /\ chunk \in Nat /\ nsent \in Nat /\ sent \in Nat
    /\ off \in Nat /\ seen \in Nat
    /\ reopen \in BOOLEAN

\* At its start the relay finds at most one file.  It writes to the last file,
\* which has the name then; what it is about to unlink has not.
RelayInv ==
    /\ rpc = "start" => path = Len(files) /\ Len(files) <= 1
    /\ rpc \in {"read", "write", "check", "rename"} =>
            path = Len(files) /\ out_fd = path
    /\ path = 0 => rpc \in {"start", "reopen", "unlink", "exit"}
    /\ rpc = "unlink" => rolled # 0
    /\ rpc = "unlink" \/ (rpc = "reopen" /\ relay = "frelay") =>
            rolled # 0 /\ rolled # path
    /\ (rpc = "unlink" /\ relay = "frelay") => path = Len(files) /\ out_fd = path

\* The files are parts of the stream that follow each other.
StreamInv ==
    /\ Len(files) > 0 => End(Len(files)) = sent
    /\ \A i \in 1 .. Len(files) : End(i) <= sent
    /\ \A i, j \in 1 .. Len(files) : i < j => End(i) <= files[j].first

\* The follower is told of a rename or a deletion only of a file that has lost
\* the name: otherwise it would open the same file and read it again.  What it
\* is told there is to read is there, unless the file was emptied.
EventInv ==
    /\ events \in Seq(Event)
    /\ Len(events) \in 1 .. 2
    /\ Len(events) = 2 => events[1].filter # events[2].filter
    /\ \A k \in 1 .. Len(events) :
        /\ events[k].filter = "READ" =>
                cut \/ (events[k].data > 0 /\ events[k].data <= Unread)
        /\ events[k].filter = "VNODE" => fd # path

WatchInv ==
    /\ fd = 0 => fpc \in {"open", "failed", "wait", "exit"} /\ notes = {}
    /\ fpc = "open" => fd = 0 /\ seen = 0
    /\ notes # {} => fd # path
    /\ (fpc = "events" /\ reopen) => fd # path
    /\ fpc = "reopen" => fd # path
    /\ fpc = "events" => EventInv
    /\ notes \subseteq {"RENAME", "DELETE"}

\* What was read was in the file or in one before it, also where the file was
\* emptied since: the files that come lie beyond it.
SeenInv == fd # 0 => seen <= End(fd)

FollowInv ==
    TypesInv /\ RelayInv /\ StreamInv /\ WatchInv /\ SeenInv /\ ReadsInOrder

LEMMA FileTypes ==
    ASSUME FollowInv
    PROVE  /\ Len(files) \in Nat
           /\ \A i \in 1 .. Len(files) :
                files[i].first \in Nat /\ files[i].size \in Nat
           /\ fd # 0 => fd \in 1 .. Len(files)
           /\ path # 0 => path \in 1 .. Len(files)
<1>1. files \in Seq(Part) /\ Len(files) \in Nat
  BY DEF FollowInv, TypesInv
<1>2. \A i \in 1 .. Len(files) : files[i] \in Part
  BY <1>1
<1>3. \A i \in 1 .. Len(files) : files[i].first \in Nat /\ files[i].size \in Nat
  BY <1>2 DEF Part
<1> QED
  BY <1>1, <1>3 DEF FollowInv, TypesInv

-----------------------------------------------------------------------------
(* The relay's steps *)

\* What a step leaves alone when it changes neither the files nor the follower.
Same == UNCHANGED <<files, path, rolled, sent, fvars, watch>>

LEMMA SameKeeps ==
    ASSUME FollowInv, Same, chunk' \in Nat, nsent' \in Nat
    PROVE  TypesInv' /\ StreamInv' /\ WatchInv' /\ SeenInv' /\ ReadsInOrder'
<1>1. TypesInv' /\ StreamInv' /\ SeenInv' /\ ReadsInOrder'
  BY DEF FollowInv, Same, fvars, watch, TypesInv, StreamInv, SeenInv, ReadsInOrder, End
<1>2. fpc = "events" => EventInv'
  BY DEF FollowInv, Same, fvars, watch, WatchInv, EventInv, Unread
<1>3. WatchInv'
  BY <1>2 DEF FollowInv, Same, fvars, watch, WatchInv
<1> QED
  BY <1>1, <1>3

LEMMA FollowInit == Init => FollowInv
<1> SUFFICES ASSUME Init PROVE FollowInv
  OBVIOUS
<1>1. /\ files \in Seq(Part) /\ Len(files) \in 0 .. 1 /\ path = Len(files)
      /\ sent \in Nat /\ (Len(files) = 1 => End(1) = sent)
  <2>1. CASE path = 0 /\ files = << >> /\ sent = 0
    BY <2>1
  <2>2. CASE /\ path = 1 /\ sent \in 0 .. MaxOld
             /\ files = <<[first |-> 0, size |-> sent]>>
    BY <2>2, FollowAssumption DEF Part, End
  <2> QED
    BY <2>1, <2>2 DEF Init
<1>2. /\ rolled = 0 /\ fd = 0 /\ chunk = 0 /\ nsent = 0
      /\ off = 0 /\ seen = 0 /\ reopen \in BOOLEAN
  BY DEF Init
<1>3. TypesInv
  BY <1>1, <1>2 DEF TypesInv
<1>4. RelayInv
  BY <1>1 DEF Init, RelayInv
<1>5. StreamInv
  BY <1>1 DEF StreamInv, End
<1>6. WatchInv /\ SeenInv /\ ReadsInOrder
  BY DEF Init, WatchInv, SeenInv, ReadsInOrder
<1> QED
  BY <1>3, <1>4, <1>5, <1>6 DEF FollowInv

LEMMA RelayFails == FollowInv /\ relay_fails => FollowInv'
<1> SUFFICES ASSUME FollowInv, relay_fails PROVE FollowInv'
  OBVIOUS
<1>1. Same /\ chunk' \in Nat /\ nsent' \in Nat
  BY DEF relay_fails, Same, fsvars, FollowInv, TypesInv
<1>2. RelayInv'
  BY DEF relay_fails, fsvars, FollowInv, RelayInv
<1> QED
  BY <1>1, <1>2, SameKeeps DEF FollowInv

LEMMA RelayRead == FollowInv /\ relay_read => FollowInv'
<1> SUFFICES ASSUME FollowInv, relay_read PROVE FollowInv'
  OBVIOUS
<1>1. PICK n \in 0 .. Least(Chunk, MaxStream - sent) :
        /\ chunk' = n /\ nsent' = n
        /\ rpc' = IF n = 0 THEN "check" ELSE "write"
  BY DEF relay_read
<1>2. n \in Nat
  BY FollowAssumption DEF FollowInv, TypesInv, Least
<1>3. Same
  BY DEF relay_read, Same, fsvars
<1>4. RelayInv'
  BY <1>1 DEF relay_read, fsvars, FollowInv, RelayInv
<1> QED
  BY <1>1, <1>2, <1>3, <1>4, SameKeeps DEF FollowInv

LEMMA RelayCheck == FollowInv /\ relay_check => FollowInv'
<1> SUFFICES ASSUME FollowInv, relay_check PROVE FollowInv'
  OBVIOUS
<1>1. Same /\ chunk' \in Nat /\ nsent' \in Nat
  BY DEF relay_check, Same, fsvars, FollowInv, TypesInv
<1>2. RelayInv'
  BY DEF relay_check, fsvars, FollowInv, RelayInv
<1> QED
  BY <1>1, <1>2, SameKeeps DEF FollowInv

\* The last file grows, and the stream with it.
LEMMA RelayWrite == FollowInv /\ relay_write => FollowInv'
<1> SUFFICES ASSUME FollowInv, relay_write PROVE FollowInv'
  OBVIOUS
<1> USE DEF FollowInv
<1>1. PICK n \in 1 .. chunk :
        /\ files' = [files EXCEPT ![out_fd].size = @ + n]
        /\ sent' = sent + n /\ chunk' = chunk - n
        /\ rpc' = IF n = chunk THEN "check" ELSE "write"
  BY DEF relay_write
<1>2. /\ rpc = "write" /\ out_fd = Len(files) /\ path = Len(files)
      /\ UNCHANGED <<relay, nsent, ntotal, out_fd, path, rolled, fvars, watch>>
  BY DEF relay_write, RelayInv
<1>p. path # 0
  BY <1>2 DEF RelayInv
<1>3. n \in Nat /\ chunk \in Nat /\ chunk - n \in Nat
  BY DEF TypesInv
<1>4. /\ files' \in Seq(Part) /\ Len(files') = Len(files)
      /\ \A i \in 1 .. Len(files) :
            /\ files'[i].first = files[i].first
            /\ files'[i].size = IF i = Len(files) THEN files[i].size + n
                                                  ELSE files[i].size
            /\ files[i].first \in Nat /\ files[i].size \in Nat
  <2>1. files \in Seq(Part) /\ Len(files) \in Nat \ {0}
    BY <1>2, <1>p DEF TypesInv
  <2>2. \A i \in 1 .. Len(files) : files[i] \in Part
    BY <2>1
  <2> DEFINE L == Len(files)
             new == [files[L] EXCEPT !.size = @ + n]
  <2>3. files[L] \in Part
    BY <2>1, <2>2
  <2>4. new \in Part /\ new.first = files[L].first /\ new.size = files[L].size + n
    BY <1>3, <2>3 DEF Part
  <2>5. files' = [files EXCEPT ![L] = new]
    BY <1>1, <1>2
  <2> HIDE DEF new
  <2>6. /\ files' \in Seq(Part) /\ Len(files') = L
        /\ \A i \in 1 .. L : files'[i] = IF i = L THEN new ELSE files[i]
    BY <2>1, <2>4, <2>5
  <2> QED
    BY <2>2, <2>4, <2>6 DEF Part
<1>5. TypesInv'
  BY <1>1, <1>2, <1>3, <1>4 DEF TypesInv, fvars
<1>6. RelayInv'
  BY <1>1, <1>2, <1>4 DEF RelayInv
<1>7. StreamInv'
  <2>1. \A i \in 1 .. Len(files) :
            /\ End(i) \in Nat
            /\ End(i)' = IF i = Len(files) THEN End(i) + n ELSE End(i)
    BY <1>3, <1>4 DEF End
  <2>2. Len(files) \in Nat \ {0} /\ sent \in Nat
    BY <1>2, <1>p DEF TypesInv
  <2>3. End(Len(files))' = sent'
    BY <1>1, <1>3, <1>4, <2>1, <2>2 DEF StreamInv
  <2>4. \A i \in 1 .. Len(files) : End(i)' <= sent'
    <3> TAKE i \in 1 .. Len(files)
    <3>1. End(i) <= sent /\ End(i) \in Nat
      BY <2>1 DEF StreamInv
    <3>2. End(i)' = End(i) + n \/ End(i)' = End(i)
      BY <2>1
    <3> QED
      BY <1>1, <1>3, <2>2, <3>1, <3>2
  <2>5. ASSUME NEW i \in 1 .. Len(files), NEW j \in 1 .. Len(files), i < j
        PROVE  End(i)' <= files'[j].first
    <3>1. i # Len(files)
      BY <2>2, <2>5
    <3> QED
      BY <1>4, <2>1, <2>5, <3>1 DEF StreamInv
  <2> QED
    BY <1>4, <2>3, <2>4, <2>5 DEF StreamInv
<1>8. fd # 0 => fd \in 1 .. Len(files) /\ files'[fd].first = files[fd].first
                /\ files'[fd].size >= files[fd].size
                /\ files'[fd].size \in Nat
  BY <1>3, <1>4 DEF TypesInv
<1>9. WatchInv'
  <2>1. fpc = "events" => Unread' >= Unread /\ Unread' \in Int /\ Unread \in Int
    BY <1>2, <1>4, <1>8, SMTT(30) DEF WatchInv, Unread, fvars, TypesInv
  <2>2. fpc = "events" => EventInv'
    <3> SUFFICES ASSUME fpc = "events" PROVE EventInv'
      OBVIOUS
    <3>1. EventInv /\ UNCHANGED <<events, fd, path, cut>>
      BY <1>2 DEF WatchInv, fvars, watch
    <3>2. \A k \in 1 .. Len(events) : events[k].filter = "READ" => events[k].data \in Int
      BY <3>1 DEF EventInv, Event
    <3> QED
      BY <2>1, <3>1, <3>2 DEF EventInv
  <2> QED
    BY <1>2, <2>2 DEF WatchInv, fvars, watch
<1>10. ReadsInOrder' /\ SeenInv'
  <2>1. off \in Nat /\ seen \in Nat /\ (fd # 0 => files[fd].size \in Nat /\ files[fd].first \in Nat)
    BY <1>4, <1>8 DEF TypesInv
  <2>2. ReadsInOrder'
    BY <1>2, <1>8, <2>1 DEF ReadsInOrder, fvars, watch
  <2>3. SeenInv'
    BY <1>2, <1>8, <2>1 DEF SeenInv, End, fvars
  <2> QED
    BY <2>2, <2>3
<1> QED
  BY <1>5, <1>6, <1>7, <1>9, <1>10

\* The name is taken from the file: a note is about a file without it.
LEMMA RelayRename == FollowInv /\ relay_rename => FollowInv'
<1> SUFFICES ASSUME FollowInv, relay_rename PROVE FollowInv'
  OBVIOUS
<1> USE DEF FollowInv
<1>1. /\ rpc = "rename" /\ path = Len(files) /\ path # 0
      /\ rolled' = path /\ path' = 0 /\ out_fd' = 0
      /\ rpc' = IF relay = "frelay" THEN "reopen" ELSE "unlink"
      /\ notes' = IF fd = path /\ "VNODE" \in watched THEN notes \cup {"RENAME"} ELSE notes
      /\ UNCHANGED <<relay, chunk, nsent, ntotal, files, sent, fvars, cut>>
  BY DEF relay_rename, RelayInv, Note, TypesInv
<1>2. TypesInv'
  BY <1>1 DEF TypesInv, fvars
<1>3. RelayInv'
  BY <1>1 DEF RelayInv
<1>4. StreamInv'
  BY <1>1 DEF StreamInv, End
<1>5. WatchInv'
  <2>1. fpc = "events" => EventInv'
    BY <1>1 DEF WatchInv, EventInv, Unread, fvars
  <2>2. notes' # {} => fd # path'
    BY <1>1 DEF WatchInv
  <2> QED
    BY <1>1, <2>1, <2>2 DEF WatchInv, fvars
<1>6. ReadsInOrder' /\ SeenInv'
  BY <1>1 DEF ReadsInOrder, SeenInv, End, fvars
<1> QED
  BY <1>2, <1>3, <1>4, <1>5, <1>6

\* A new, empty file at the end of the stream.
LEMMA NewFile ==
    ASSUME FollowInv, files' = Append(files, [first |-> sent, size |-> 0]),
           sent' = sent
    PROVE  /\ files' \in Seq(Part) /\ Len(files') = Len(files) + 1
           /\ files'[Len(files')] = [first |-> sent, size |-> 0]
           /\ \A i \in 1 .. Len(files) : files'[i] = files[i]
           /\ StreamInv'
<1> USE DEF FollowInv
<1>1. [first |-> sent, size |-> 0] \in Part
  BY DEF TypesInv, Part
<1>2. /\ files' \in Seq(Part) /\ Len(files') = Len(files) + 1
      /\ files'[Len(files')] = [first |-> sent, size |-> 0]
      /\ \A i \in 1 .. Len(files) : files'[i] = files[i]
  BY <1>1 DEF TypesInv
<1>3. StreamInv'
  BY <1>2 DEF StreamInv, TypesInv, End
<1> QED
  BY <1>2, <1>3

\* A file of an earlier run is the only one: emptied, it holds what comes next.
LEMMA RelayStart == FollowInv /\ relay_start => FollowInv'
<1> SUFFICES ASSUME FollowInv, relay_start PROVE FollowInv'
  OBVIOUS
<1> USE DEF FollowInv
<1>1. /\ rpc = "start" /\ rpc' = "read" /\ out_fd' = path'
      /\ UNCHANGED <<relay, chunk, nsent, rolled, sent, fvars, notes>>
  BY DEF relay_start
<1>2. path = Len(files) /\ Len(files) <= 1 /\ Len(files) \in Nat
  BY <1>1, FileTypes DEF RelayInv
<1>3. cut => cut'
  BY DEF relay_start
<1>4. /\ files' \in Seq(Part) /\ Len(files') = 1 /\ path' = 1
      /\ files'[1] = [first |-> sent, size |-> 0] /\ StreamInv'
  <2>1. CASE path = 0
    BY <1>1, <1>2, <2>1, NewFile DEF relay_start
  <2>2. CASE path # 0
    <3>1. path = 1 /\ Len(files) = 1
      BY <1>2, <2>2
    <3>2. files' = [files EXCEPT ![1] = [first |-> sent, size |-> 0]] /\ path' = 1
      BY <2>2, <3>1 DEF relay_start
    <3>3. [first |-> sent, size |-> 0] \in Part
      BY DEF TypesInv, Part
    <3>4. /\ files' \in Seq(Part) /\ Len(files') = 1
          /\ files'[1] = [first |-> sent, size |-> 0]
      <4> DEFINE empty == [first |-> sent, size |-> 0]
      <4>1. files \in Seq(Part) /\ empty \in Part
        BY <3>3 DEF TypesInv
      <4> HIDE DEF empty
      <4>2. files' = [files EXCEPT ![1] = empty]
        BY <3>2 DEF empty
      <4>3. files' \in Seq(Part) /\ Len(files') = 1 /\ files'[1] = empty
        <5>1. 1 \in 1 .. Len(files)
          BY <3>1
        <5>2. /\ files' \in Seq(Part) /\ Len(files') = Len(files)
              /\ \A j \in 1 .. Len(files) : files'[j] = IF j = 1 THEN empty ELSE files[j]
          BY <4>1, <4>2, <5>1
        <5> QED
          BY <3>1, <5>1, <5>2
      <4> QED
        BY <4>3 DEF empty
    <3>5. End(1)' = sent'
      BY <1>1, <3>4 DEF End, TypesInv
    <3>6. StreamInv'
      BY <1>1, <3>4, <3>5 DEF StreamInv, TypesInv
    <3> QED
      BY <3>2, <3>4, <3>6
  <2> QED
    BY <2>1, <2>2
<1>5. fd \in 0 .. 1 /\ (fd = 1 => path = 1) /\ fd' = fd
  BY <1>1, <1>2 DEF TypesInv, fvars
<1>6. TypesInv'
  BY <1>1, <1>2, <1>4, <1>5 DEF TypesInv, fvars
<1>7. RelayInv'
  BY <1>1, <1>4 DEF RelayInv
<1>8. SeenInv'
  <2>1. fd = 1 => seen <= sent
    BY <1>2, <1>5 DEF SeenInv, StreamInv
  <2>2. End(1)' = sent
    BY <1>4 DEF End, TypesInv
  <2> QED
    BY <1>1, <1>5, <2>1, <2>2 DEF SeenInv, fvars
<1>9. fd = 1 => cut' \/ files[1].size = 0
  <2> SUFFICES ASSUME fd = 1 PROVE cut' \/ files[1].size = 0
    OBVIOUS
  <2>1. path = 1 /\ path # 0 /\ fd = path /\ files[1].size \in Nat
    BY <1>5, FileTypes
  <2>2. files[path].size > 0 => cut'
    BY <2>1, Zenon DEF relay_start
  <2> QED
    BY <2>1, <2>2
<1>10. ReadsInOrder'
  <2>1. fd = 1 => seen <= sent
    BY <1>2, <1>5 DEF SeenInv, StreamInv
  <2>2. fd = 1 => files'[fd].first + off >= seen
    BY <1>4, <2>1 DEF TypesInv
  <2>3. fd = 1 => off <= files'[fd].size \/ cut'
    BY <1>3, <1>4, <1>5, <1>9 DEF ReadsInOrder
  <2> QED
    BY <1>1, <1>3, <1>5, <2>2, <2>3 DEF ReadsInOrder, fvars
<1>11. fpc = "events" => EventInv'
  <2> SUFFICES ASSUME fpc = "events" PROVE EventInv'
    OBVIOUS
  <2>1. fd = 1 /\ path = 1 /\ EventInv /\ UNCHANGED <<events, fd, off>>
    BY <1>1, <1>5 DEF WatchInv, fvars
  <2>2. ~cut' => Unread' = Unread
    BY <1>4, <1>9, <2>1 DEF Unread
  <2> QED
    BY <1>3, <2>1, <2>2 DEF EventInv
<1>12. WatchInv'
  BY <1>1, <1>4, <1>5, <1>11 DEF WatchInv, fvars
<1> QED
  BY <1>4, <1>6, <1>7, <1>8, <1>10, <1>12

LEMMA RelayOpen == FollowInv /\ relay_open => FollowInv'
<1> SUFFICES ASSUME FollowInv, relay_open PROVE FollowInv'
  OBVIOUS
<1> USE DEF FollowInv
<1>1. /\ rpc = "reopen" /\ out_fd' = path'
      /\ rpc' = IF relay = "frelay" THEN "unlink" ELSE "read"
      /\ UNCHANGED <<relay, chunk, nsent, ntotal, rolled, sent, fvars, watch>>
  BY DEF relay_open
<1>2. CASE path # 0
  <2>1. files' = files /\ path' = path
    BY <1>2 DEF relay_open
  <2>2. path = Len(files)
    BY <1>2 DEF TypesInv
  <2>3. TypesInv' /\ StreamInv' /\ WatchInv' /\ SeenInv' /\ ReadsInOrder'
    BY <1>1, <2>1, SameKeeps DEF Same, TypesInv
  <2>4. RelayInv'
    BY <1>1, <2>1, <2>2, <1>2 DEF RelayInv
  <2> QED
    BY <2>3, <2>4
<1>3. CASE path = 0
  <2>1. /\ files' = Append(files, [first |-> sent, size |-> 0])
        /\ path' = Len(files')
    BY <1>3 DEF relay_open
  <2>2. /\ files' \in Seq(Part) /\ Len(files') = Len(files) + 1
        /\ \A i \in 1 .. Len(files) : files'[i] = files[i]
        /\ StreamInv'
    BY <1>1, <2>1, NewFile
  <2>3. fd \in 0 .. Len(files) /\ fd # path' /\ rolled \in 0 .. Len(files)
        /\ Len(files) \in Nat
    BY <2>1, <2>2 DEF TypesInv
  <2>4. TypesInv'
    BY <1>1, <2>1, <2>2, <2>3 DEF TypesInv, fvars
  <2>5. RelayInv'
    BY <1>1, <2>1, <2>2, <2>3, <1>3 DEF RelayInv
  <2>6. fd # 0 => files'[fd] = files[fd]
    BY <2>2, <2>3
  <2>7. WatchInv'
    <3>1. fpc = "events" => Unread' = Unread
      BY <1>1, <2>6 DEF WatchInv, Unread, fvars
    <3>2. fpc = "events" => EventInv'
      BY <1>1, <2>3, <3>1 DEF WatchInv, EventInv, fvars, watch
    <3> QED
      BY <1>1, <2>3, <3>2 DEF WatchInv, fvars, watch
  <2>8. ReadsInOrder' /\ SeenInv'
    BY <1>1, <2>6 DEF ReadsInOrder, SeenInv, End, fvars, watch
  <2> QED
    BY <2>2, <2>4, <2>5, <2>7, <2>8
<1> QED
  BY <1>2, <1>3

LEMMA RelayUnlink == FollowInv /\ relay_unlink => FollowInv'
<1> SUFFICES ASSUME FollowInv, relay_unlink PROVE FollowInv'
  OBVIOUS
<1> USE DEF FollowInv
<1>1. /\ rpc = "unlink" /\ rolled # 0 /\ rolled # path /\ rolled' = 0
      /\ rpc' = IF relay = "frelay" THEN "read" ELSE "reopen"
      /\ notes' = IF fd = rolled /\ "VNODE" \in watched THEN notes \cup {"DELETE"} ELSE notes
      /\ UNCHANGED <<relay, chunk, nsent, out_fd, files, path, sent, fvars, cut>>
  BY DEF relay_unlink, RelayInv, Note
<1>2. TypesInv'
  BY <1>1 DEF TypesInv, fvars
<1>3. RelayInv'
  BY <1>1 DEF RelayInv, TypesInv
<1>4. StreamInv'
  BY <1>1 DEF StreamInv, End
<1>5. WatchInv'
  <2>1. fpc = "events" => EventInv'
    BY <1>1 DEF WatchInv, EventInv, Unread, fvars
  <2>2. notes' # {} => fd # path'
    BY <1>1 DEF WatchInv
  <2> QED
    BY <1>1, <2>1, <2>2 DEF WatchInv, fvars
<1>6. ReadsInOrder' /\ SeenInv'
  BY <1>1 DEF ReadsInOrder, SeenInv, End, fvars
<1> QED
  BY <1>2, <1>3, <1>4, <1>5, <1>6

-----------------------------------------------------------------------------
(* The follower's steps *)

\* What the follower's own steps leave to the relay.
LEMMA RelayKept ==
    ASSUME FollowInv, UNCHANGED <<rvars, fsvars>>
    PROVE  /\ RelayInv' /\ StreamInv'
           /\ UNCHANGED <<files, path, rolled, sent, chunk, nsent>>
  BY DEF FollowInv, rvars, fsvars, RelayInv, StreamInv, End

\* A follower that ends, or goes on to wait, where it is.
LEMMA Quiet ==
    ASSUME FollowInv, fpc' \in {"failed", "wait", "exit"},
           UNCHANGED <<fd, off, seen, reopen, notes, cut>>, UNCHANGED <<rvars, fsvars>>
    PROVE  FollowInv'
<1>1. /\ RelayInv' /\ StreamInv'
      /\ UNCHANGED <<files, path, rolled, sent, chunk, nsent>>
  BY RelayKept
<1>2. TypesInv'
  BY <1>1 DEF FollowInv, TypesInv
<1>3. WatchInv'
  BY <1>1 DEF FollowInv, WatchInv
<1>4. SeenInv' /\ ReadsInOrder'
  BY <1>1 DEF FollowInv, SeenInv, End, ReadsInOrder
<1> QED
  BY <1>1, <1>2, <1>3, <1>4 DEF FollowInv

LEMMA QuietSteps ==
    FollowInv /\ (follower_fails \/ kq_add \/ follow_times_out) => FollowInv'
<1> SUFFICES ASSUME FollowInv, follower_fails \/ kq_add \/ follow_times_out
             PROVE  FollowInv'
  OBVIOUS
<1>1. /\ fpc' \in {"failed", "wait", "exit"}
      /\ UNCHANGED <<fd, off, seen, reopen, notes, cut>> /\ UNCHANGED <<rvars, fsvars>>
  BY DEF follower_fails, kq_add, follow_times_out, watch
<1> QED
  BY <1>1, Quiet

LEMMA MainStep == FollowInv /\ main => FollowInv'
<1> SUFFICES ASSUME FollowInv, main PROVE FollowInv'
  OBVIOUS
<1>1. /\ fpc = "open" /\ UNCHANGED <<seen, reopen, notes, cut>>
      /\ UNCHANGED <<rvars, fsvars>>
  BY DEF main, watch
<1>2. CASE fpc' \in {"wait", "failed"} /\ UNCHANGED <<fd, off>>
  BY <1>1, <1>2, Quiet
<1>3. CASE /\ path # 0 /\ fpc' = "add" /\ fd' = path
           /\ off' = IF follower = "kqfile" THEN files[path].size ELSE 0
  <2>1. /\ RelayInv' /\ StreamInv'
        /\ UNCHANGED <<files, path, rolled, sent, chunk, nsent>>
    BY <1>1, RelayKept
  <2>2. files[path].first \in Nat /\ files[path].size \in Nat
    BY <1>3, FileTypes
  <2>3. off' \in Nat /\ off' <= files[path].size
    BY <1>3, <2>2
  <2>4. fd = 0 /\ seen = 0 /\ notes = {}
    BY <1>1 DEF FollowInv, WatchInv
  <2>5. TypesInv'
    BY <1>1, <1>3, <2>1, <2>3 DEF FollowInv, TypesInv
  <2>6. WatchInv'
    BY <1>1, <1>3, <2>1, <2>4 DEF WatchInv
  <2>7. SeenInv' /\ ReadsInOrder'
    BY <1>1, <1>3, <2>1, <2>2, <2>3, <2>4 DEF SeenInv, End, ReadsInOrder
  <2> QED
    BY <2>1, <2>5, <2>6, <2>7 DEF FollowInv
<1> QED
  BY <1>2, <1>3 DEF main

\* The file is given up, and there is nothing left to be told of.
LEMMA KqfRemove == FollowInv /\ kqfremove => FollowInv'
<1> SUFFICES ASSUME FollowInv, kqfremove PROVE FollowInv'
  OBVIOUS
<1>1. /\ fpc' = "wait" /\ fd' = 0 /\ notes' = {}
      /\ UNCHANGED <<off, seen, reopen>> /\ UNCHANGED <<rvars, fsvars>>
  BY DEF kqfremove
<1>2. /\ RelayInv' /\ StreamInv'
      /\ UNCHANGED <<files, path, rolled, sent, chunk, nsent>>
  BY <1>1, RelayKept
<1>3. TypesInv'
  BY <1>1, <1>2, FileTypes DEF FollowInv, TypesInv
<1>4. WatchInv' /\ SeenInv' /\ ReadsInOrder'
  BY <1>1 DEF WatchInv, SeenInv, ReadsInOrder
<1> QED
  BY <1>2, <1>3, <1>4 DEF FollowInv

\* kevent's answer: the notes are about a file that has lost the name, and no
\* more bytes are promised than there are.
LEMMA FollowStep == FollowInv /\ follow => FollowInv'
<1> SUFFICES ASSUME FollowInv, follow PROVE FollowInv'
  OBVIOUS
<1>1. /\ fpc = "wait" /\ fpc' = "events" /\ UNCHANGED <<fd, off, seen, cut>>
      /\ UNCHANGED <<rvars, fsvars>>
  BY DEF follow
<1>r. reopen' = FALSE
  BY DEF follow
<1>n. notes' = notes \/ notes' = {}
  BY DEF follow
<1>2. /\ RelayInv' /\ StreamInv'
      /\ UNCHANGED <<files, path, rolled, sent, chunk, nsent>>
  BY <1>1, RelayKept
<1>p. fd # 0 \/ notes # {}
  BY DEF follow, Pending
<1>3. fd # 0 /\ (notes # {} => fd # path) /\ notes \in SUBSET {"RENAME", "DELETE"}
  BY <1>1, <1>p DEF FollowInv, WatchInv
<1>w. notes' \subseteq {"RENAME", "DELETE"} /\ (notes' # {} => fd' # path')
  BY <1>1, <1>2, <1>3, <1>n
<1>12. TypesInv'
  <2>1. reopen' \in BOOLEAN
    BY <1>r
  <2>2. UNCHANGED <<fd, off, seen>>
    BY <1>1
  <2> QED
    BY <1>2, <2>1, <2>2 DEF FollowInv, TypesInv
<1>4. Unread \in Int
  BY <1>3, FileTypes DEF FollowInv, TypesInv, Unread
<1>5. ASSUME NEW e \in Pending
      PROVE  /\ e \in Event
             /\ e.filter = "READ" => e = [filter |-> "READ", data |-> Unread] /\ Unread # 0
             /\ e.filter = "VNODE" =>
                    e = [filter |-> "VNODE", fflags |-> notes] /\ fd # path
  <2>1. CASE Unread # 0 /\ e = [filter |-> "READ", data |-> Unread]
    BY <1>4, <2>1 DEF Event
  <2>2. CASE notes # {} /\ e = [filter |-> "VNODE", fflags |-> notes]
    BY <1>3, <2>2 DEF Event
  <2> QED
    BY <1>5, <2>1, <2>2 DEF Pending
<1>6. ASSUME NEW e \in Pending, NEW f \in Pending, e # f
      PROVE  e.filter # f.filter
  BY <1>5, <1>6 DEF Event
<1>7. PICK evs \in {<<e>> : e \in Pending} \cup {<<e, f>> : e, f \in Pending} :
          (Len(evs) = 2 => evs[1] # evs[2]) /\ events' = evs
  BY DEF follow
<1>8. /\ evs \in Seq(Event) /\ Len(evs) \in 1 .. 2
      /\ \A k \in 1 .. Len(evs) : evs[k] \in Pending
  <2>1. CASE \E e \in Pending : evs = <<e>>
    BY <1>5, <2>1
  <2>2. CASE \E e, f \in Pending : evs = <<e, f>>
    BY <1>5, <2>2
  <2> QED
    BY <1>7, <2>1, <2>2
<1>9. Len(evs) = 2 => evs[1].filter # evs[2].filter
  BY <1>6, <1>7, <1>8
<1>u. Unread > 0 \/ Unread = 0 \/ cut
  BY <1>3, <1>4, FileTypes DEF FollowInv, ReadsInOrder, TypesInv, Unread
<1>10. \A k \in 1 .. Len(evs) :
          /\ evs[k].filter = "READ" =>
                cut \/ (evs[k].data > 0 /\ evs[k].data <= Unread)
          /\ evs[k].filter = "VNODE" => fd # path
  BY <1>4, <1>5, <1>8, <1>u
<1>11. Unread' = Unread
  BY <1>1, <1>2 DEF Unread
<1>13. WatchInv'
  <2>2. fd' # 0 /\ fpc' = "events" /\ ~reopen'
    BY <1>1, <1>3, <1>r
  <2>3. EventInv'
    BY <1>1, <1>2, <1>7, <1>8, <1>9, <1>10, <1>11 DEF EventInv
  <2> QED
    BY <1>w, <2>2, <2>3 DEF WatchInv
<1>14. SeenInv' /\ ReadsInOrder'
  BY <1>1, <1>2 DEF FollowInv, SeenInv, End, ReadsInOrder
<1> QED
  BY <1>2, <1>12, <1>13, <1>14 DEF FollowInv

\* The event at hand, and the one that may be left.
LEMMA EventsLeft ==
    ASSUME FollowInv, fpc = "events"
    PROVE  /\ Head(events) = events[1] /\ events[1] \in Event
           /\ Tail(events) \in Seq(Event) /\ Len(events) \in 1 .. 2
           /\ Len(events) = 1 => Tail(events) = << >>
           /\ Len(events) = 2 => /\ Tail(events) # << >> /\ Len(Tail(events)) = 1
                                 /\ Tail(events)[1] = events[2]
<1>1. events \in Seq(Event) /\ Len(events) \in 1 .. 2
  BY DEF FollowInv, WatchInv, EventInv
<1>2. Head(events) = events[1] /\ events[1] \in Event
  BY <1>1
<1>3. /\ Tail(events) \in Seq(Event) /\ Len(Tail(events)) = Len(events) - 1
      /\ \A k \in 1 .. Len(events) - 1 : Tail(events)[k] = events[k + 1]
  BY <1>1
<1>e. Tail(events) = << >> <=> Len(Tail(events)) = 0
  BY <1>3, EmptySeq
<1>4. CASE Len(events) = 1
  BY <1>1, <1>2, <1>3, <1>4, <1>e
<1>5. CASE Len(events) = 2
  <2>1. Len(Tail(events)) = 1 /\ Tail(events) # << >>
    BY <1>3, <1>5, <1>e
  <2>2. 1 \in 1 .. Len(events) - 1 /\ 1 + 1 = 2
    BY <1>5
  <2>3. Tail(events)[1] = events[1 + 1]
    BY <1>3, <2>2
  <2>4. Tail(events)[1] = events[2]
    BY <2>2, <2>3
  <2> QED
    BY <1>1, <1>2, <1>3, <1>5, <2>1, <2>4
<1> QED
  BY <1>1, <1>4, <1>5

\* The event at hand is done with, and another one may be left.
LEMMA NextEvent ==
    ASSUME FollowInv, fpc = "events", NEW again \in BOOLEAN, next_event(again),
           UNCHANGED <<fd, files, path, notes, cut>>, again \/ reopen' => fd # path,
           Head(events).filter # "READ" => off' = off
    PROVE  WatchInv' /\ fpc' \notin {"eof", "open"}
<1>1. EventInv /\ fd # 0 /\ (notes # {} => fd # path) /\ notes \subseteq {"RENAME", "DELETE"}
  BY DEF FollowInv, WatchInv
<1>2. CASE Len(events) = 1
  <2>1. fpc' = IF again THEN "reopen" ELSE "wait"
    BY <1>2, EventsLeft DEF next_event
  <2> QED
    BY <1>1, <2>1 DEF WatchInv
<1>3. CASE Len(events) = 2
  <2>1. /\ fpc' = "events" /\ events' \in Seq(Event) /\ Len(events') = 1
        /\ events'[1] = events[2] /\ Head(events) = events[1]
    BY <1>3, EventsLeft DEF next_event
  <2>2. events[2].filter = "READ" => Unread' = Unread
    BY <1>1, <1>3, <2>1 DEF EventInv, Unread
  <2>3. EventInv'
    BY <1>1, <1>3, <2>1, <2>2 DEF EventInv
  <2> QED
    BY <1>1, <2>1, <2>3 DEF WatchInv
<1> QED
  BY <1>2, <1>3, EventsLeft

\* Whatever was announced: so many bytes as there are, at most, are read.
LEMMA ReadBytes ==
    ASSUME FollowInv, fpc = "events", Head(events).filter = "READ",
           UNCHANGED <<fd, reopen, rvars, fsvars, watch>>,
           read_shrunk \/ \E len \in 0 .. Readable : read_bytes(len)
    PROVE  FollowInv'
<1>1. /\ UNCHANGED <<fd, reopen, notes, cut>> /\ UNCHANGED <<rvars, fsvars>>
      /\ next_event(reopen)
  BY DEF watch, read_shrunk, read_bytes
<1>2. /\ RelayInv' /\ StreamInv'
      /\ UNCHANGED <<files, path, rolled, sent, chunk, nsent>>
  BY <1>1, RelayKept
<1>3. reopen \in BOOLEAN /\ (reopen => fd # path)
  BY DEF FollowInv, TypesInv, WatchInv
<1>4. WatchInv' /\ fpc' \notin {"eof", "open"}
  <2>1. reopen \/ reopen' => fd # path
    BY <1>1, <1>3
  <2> QED
    BY <1>1, <1>2, <1>3, <2>1, NextEvent
<1>5. /\ fd # 0 /\ fd \in 1 .. Len(files) /\ off \in Nat /\ seen \in Nat
      /\ files[fd].first \in Nat /\ files[fd].size \in Nat
      /\ seen <= files[fd].first + files[fd].size
      /\ seen <= files[fd].first + off
      /\ off <= files[fd].size \/ cut
  BY FileTypes DEF FollowInv, WatchInv, TypesInv, SeenInv, End, ReadsInOrder
<1>6. /\ off' \in Nat /\ seen' \in Nat
      /\ seen' <= files[fd].first + files[fd].size
      /\ seen' <= files[fd].first + off'
      /\ off' <= files[fd].size \/ cut
  <2>1. CASE read_shrunk
    BY <1>5, <2>1 DEF read_shrunk
  <2>2. CASE \E len \in 0 .. Readable : read_bytes(len)
    <3>1. PICK len \in 0 .. Readable :
            /\ off' = off + len
            /\ seen' = IF len = 0 THEN seen ELSE files[fd].first + off'
      BY <2>2 DEF read_bytes
    <3>2. len = 0 \/ (len \in Nat /\ off + len <= files[fd].size)
      BY <1>5, <3>1 DEF Readable, Unread
    <3>3. CASE len = 0
      BY <1>5, <3>1, <3>3
    <3>4. CASE len # 0
      <4>1. /\ off' = off + len /\ seen' = files[fd].first + off'
            /\ len \in Nat /\ off + len <= files[fd].size
        BY <3>1, <3>2, <3>4
      <4> QED
        BY <1>5, <4>1
    <3> QED
      BY <3>3, <3>4
  <2> QED
    BY <2>1, <2>2
<1>7. TypesInv'
  BY <1>1, <1>2, <1>6 DEF FollowInv, TypesInv
<1>8. SeenInv' /\ ReadsInOrder'
  BY <1>1, <1>2, <1>4, <1>5, <1>6 DEF SeenInv, End, ReadsInOrder
<1> QED
  BY <1>2, <1>4, <1>7, <1>8 DEF FollowInv

LEMMA ReadFails == FollowInv /\ read_fails => FollowInv'
<1> SUFFICES ASSUME FollowInv, read_fails PROVE FollowInv'
  OBVIOUS
<1>1. /\ fpc = "events" /\ Head(events).filter = "READ"
      /\ UNCHANGED <<fd, reopen, rvars, fsvars, watch>>
      /\ \E len \in 0 .. Readable : read_bytes(len)
  BY DEF read_fails
<1> QED
  BY <1>1, ReadBytes

\* Nothing is read of what was announced only where the file was emptied.
LEMMA ProcessRead == FollowInv /\ process_read => FollowInv'
<1> SUFFICES ASSUME FollowInv, process_read PROVE FollowInv'
  OBVIOUS
<1> DEFINE ev == Head(events)
<1>1. /\ fpc = "events" /\ ev.filter = "READ"
      /\ UNCHANGED <<fd, reopen, rvars, fsvars, watch>>
  BY DEF process_read
<1>2. ev = events[1] /\ ev \in Event
  BY <1>1, EventsLeft
<1>3. ev.data \in Int /\ (cut \/ (ev.data > 0 /\ ev.data <= Unread))
  BY <1>1, <1>2, EventsLeft DEF FollowInv, WatchInv, EventInv, Event
<1>4. /\ fd # 0 /\ off \in Nat /\ Unread \in Int
  BY <1>1, FileTypes DEF FollowInv, WatchInv, TypesInv, Unread
<1>5. CASE ev.data < 0 /\ read_shrunk
  BY <1>1, <1>5, ReadBytes
<1>6. CASE ev.data > 0 /\ \E len \in Wanted(ev.data) :
                IF len = 0 /\ follower # "kqfile"
                THEN fpc' = "eof" /\ UNCHANGED <<events, off, seen>>
                ELSE read_bytes(len)
  <2>1. PICK len \in Wanted(ev.data) :
                IF len = 0 /\ follower # "kqfile"
                THEN fpc' = "eof" /\ UNCHANGED <<events, off, seen>>
                ELSE read_bytes(len)
    BY <1>6
  <2>2. Readable \in Nat /\ (Readable = 0 => Unread <= 0)
    BY <1>4 DEF Readable
  <2>3. len \in 0 .. Readable
    BY <1>3, <1>6, <2>1, <2>2, FollowAssumption DEF Wanted, Least
  <2>4. CASE len = 0 /\ follower # "kqfile"
    <3>1. Readable = 0
      BY <1>3, <1>6, <2>1, <2>2, <2>4, FollowAssumption DEF Wanted, Least
    <3>2. cut /\ fpc' = "eof" /\ UNCHANGED <<fd, off, seen, reopen, notes, cut>>
      BY <1>1, <1>3, <1>4, <2>1, <2>2, <2>4, <3>1 DEF watch
    <3>3. /\ RelayInv' /\ StreamInv'
          /\ UNCHANGED <<files, path, rolled, sent, chunk, nsent>>
      BY <1>1, RelayKept
    <3>4. TypesInv'
      BY <3>2, <3>3 DEF FollowInv, TypesInv
    <3>5. WatchInv'
      BY <1>4, <3>2, <3>3 DEF FollowInv, WatchInv
    <3>6. SeenInv' /\ ReadsInOrder'
      BY <3>2, <3>3 DEF FollowInv, SeenInv, End, ReadsInOrder
    <3> QED
      BY <3>3, <3>4, <3>5, <3>6 DEF FollowInv
  <2>5. CASE ~(len = 0 /\ follower # "kqfile")
    BY <1>1, <2>1, <2>3, <2>5, ReadBytes
  <2> QED
    BY <2>4, <2>5
<1> QED
  BY <1>5, <1>6 DEF process_read

LEMMA ProcessVnode == FollowInv /\ process_vnode => FollowInv'
<1> SUFFICES ASSUME FollowInv, process_vnode PROVE FollowInv'
  OBVIOUS
<1>1. /\ fpc = "events" /\ Head(events).filter = "VNODE"
      /\ UNCHANGED <<fd, off, seen, notes, cut>> /\ UNCHANGED <<rvars, fsvars>>
  BY DEF process_vnode, watch
<1>2. /\ RelayInv' /\ StreamInv'
      /\ UNCHANGED <<files, path, rolled, sent, chunk, nsent>>
  BY <1>1, RelayKept
<1>3. fd # path /\ fd # 0
  BY <1>1, EventsLeft DEF FollowInv, WatchInv, EventInv
<1>4. reopen' \in BOOLEAN
  <2>1. reopen \in BOOLEAN
    BY DEF FollowInv, TypesInv
  <2> QED
    BY <2>1 DEF process_vnode, wants_reopen
<1>5. TypesInv'
  BY <1>1, <1>2, <1>4 DEF FollowInv, TypesInv
<1>6. fpc' = "exit" \/ \E again \in BOOLEAN : next_event(again)
  BY <1>4 DEF process_vnode
<1>7. WatchInv' /\ fpc' # "eof"
  <2>1. CASE fpc' = "exit"
    BY <1>1, <1>2, <1>3, <2>1 DEF FollowInv, WatchInv
  <2>2. CASE \E again \in BOOLEAN : next_event(again)
    BY <1>1, <1>2, <1>3, <2>2, NextEvent
  <2> QED
    BY <1>6, <2>1, <2>2
<1>8. SeenInv' /\ ReadsInOrder'
  BY <1>1, <1>2, <1>7 DEF FollowInv, SeenInv, End, ReadsInOrder
<1> QED
  BY <1>2, <1>5, <1>7, <1>8 DEF FollowInv

\* The file that has the name now lies beyond all that was read: it is not the
\* one the follower has just left.
LEMMA ReOpen == FollowInv /\ re_open => FollowInv'
<1> SUFFICES ASSUME FollowInv, re_open PROVE FollowInv'
  OBVIOUS
<1>1. /\ fpc = "reopen" /\ fd' = path' /\ off' = 0
      /\ fpc' = "add" /\ notes' = {}
      /\ UNCHANGED <<seen, reopen, rolled, sent>> /\ UNCHANGED rvars
  BY DEF re_open
<1>2. /\ fd \in 1 .. Len(files) /\ fd # path /\ Len(files) \in Nat
      /\ files[fd].first \in Nat /\ files[fd].size \in Nat
      /\ off \in Nat /\ sent \in Nat /\ seen \in Nat
  BY <1>1, FileTypes DEF FollowInv, WatchInv, TypesInv
<1>3. seen <= End(fd) /\ End(fd) <= sent /\ End(fd) \in Nat
  BY <1>2 DEF FollowInv, SeenInv, StreamInv, End
<1>4. CASE path # 0
  <2>1. files' = files /\ path' = path
    BY <1>4 DEF re_open
  <2>2. path = Len(files)
    BY <1>4 DEF FollowInv, TypesInv
  <2>3. fd < path /\ path \in 1 .. Len(files)
    BY <1>2, <2>2
  <2>4. seen <= files[path].first /\ files[path].first \in Nat
        /\ files[path].size \in Nat
    BY <1>2, <1>3, <2>3, FileTypes DEF FollowInv, StreamInv
  <2>5. StreamInv' /\ RelayInv'
    BY <1>1, <2>1, RelayKept DEF fsvars
  <2>6. TypesInv'
    BY <1>1, <2>1, <2>3 DEF FollowInv, TypesInv, rvars
  <2>7. WatchInv'
    BY <1>1, <2>1, <2>2, <1>2 DEF WatchInv
  <2>8. SeenInv' /\ ReadsInOrder'
    BY <1>1, <1>2, <2>1, <2>4 DEF SeenInv, End, ReadsInOrder
  <2> QED
    BY <2>5, <2>6, <2>7, <2>8 DEF FollowInv
<1>5. CASE path = 0
  <2>1. /\ files' = Append(files, [first |-> sent, size |-> 0])
        /\ path' = Len(files')
    BY <1>5 DEF re_open
  <2>2. /\ files' \in Seq(Part) /\ Len(files') = Len(files) + 1
        /\ files'[Len(files')] = [first |-> sent, size |-> 0]
        /\ StreamInv'
    BY <1>1, <2>1, NewFile
  <2>3. rpc \in {"reopen", "unlink", "exit"}
        /\ ~(rpc = "unlink" /\ relay = "frelay")
    BY <1>2, <1>5 DEF FollowInv, RelayInv
  <2>4. rolled \in 0 .. Len(files)
    BY DEF FollowInv, TypesInv
  <2>5. RelayInv'
    BY <1>1, <1>2, <2>1, <2>2, <2>3, <2>4 DEF FollowInv, RelayInv, rvars
  <2>6. TypesInv'
    <3>1. reopen' \in BOOLEAN
      BY <1>1 DEF FollowInv, TypesInv
    <3>2. /\ path' \in {0, Len(files')} /\ fd' \in 0 .. Len(files')
          /\ rolled' \in 0 .. Len(files')
      BY <1>1, <1>2, <2>1, <2>2, <2>4
    <3>3. chunk' \in Nat /\ nsent' \in Nat /\ sent' \in Nat
          /\ off' \in Nat /\ seen' \in Nat
      BY <1>1, <1>2 DEF FollowInv, TypesInv, rvars
    <3> QED
      BY <2>2, <3>1, <3>2, <3>3 DEF TypesInv
  <2>7. WatchInv'
    BY <1>1, <1>2, <2>1, <2>2 DEF WatchInv
  <2>8. SeenInv' /\ ReadsInOrder'
    BY <1>1, <1>2, <1>3, <2>1, <2>2 DEF SeenInv, End, ReadsInOrder
  <2> QED
    BY <2>2, <2>5, <2>6, <2>7, <2>8 DEF FollowInv
<1> QED
  BY <1>4, <1>5

-----------------------------------------------------------------------------

LEMMA FollowNext == FollowInv /\ [Next]_vars => FollowInv'
<1> SUFFICES ASSUME FollowInv, [Next]_vars PROVE FollowInv'
  OBVIOUS
<1>1. CASE Relay
  BY <1>1, RelayFails, RelayStart, RelayRead, RelayWrite, RelayCheck, RelayRename,
     RelayOpen, RelayUnlink DEF Relay
<1>2. CASE FollowerSteps
  BY <1>2, MainStep, QuietSteps, FollowStep, ProcessRead, ProcessVnode, ReOpen, KqfRemove
     DEF FollowerSteps
<1>3. CASE follower_fails \/ read_fails
  BY <1>3, QuietSteps, ReadFails
<1>4. CASE UNCHANGED vars
  <2>1. Same /\ UNCHANGED rvars /\ UNCHANGED fsvars
    BY <1>4 DEF vars, Same, fsvars
  <2>2. chunk' \in Nat /\ nsent' \in Nat
    BY <2>1 DEF rvars, FollowInv, TypesInv
  <2> QED
    BY <2>1, <2>2, SameKeeps, RelayKept DEF FollowInv
<1> QED
  BY <1>1, <1>2, <1>3, <1>4 DEF Next

\* The followers of src/fdwatch read no byte twice and none out of order, and
\* are past the end of a file, or told of bytes that are gone, only where the
\* relay emptied it under them, for every size of chunks, buffers and files,
\* every number of rollovers and every interleaving with the relay.
THEOREM ReadsCorrect == Spec => []ReadsInOrder
<1>1. FollowInv => ReadsInOrder
  BY DEF FollowInv
<1> QED
  BY <1>1, FollowInit, FollowNext, PTL DEF Spec
=============================================================================
