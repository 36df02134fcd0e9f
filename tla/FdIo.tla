-------------------------------- MODULE FdIo --------------------------------
(***************************************************************************)
(* The descriptor I/O loops of src/fdwatch/fdio.c: transfer, over nread or *)
(* npread and nwrite; nwritev; and nsendfile, on FreeBSD and on Linux.     *)
(*                                                                         *)
(* A byte is its position in the source.  The caller sends the source on,  *)
(* from its beginning, by one of these ways, call after call, until a call *)
(* leaves errno set, as the relays of this directory do; nobody clears     *)
(* errno before a call.  Every system call may move fewer bytes than       *)
(* asked, be interrupted, or fail for good.                                *)
(***************************************************************************)
EXTENDS Integers, Sequences

CONSTANTS SrcLen,     \* bytes in the source
          Limit,      \* TRFBUF_LIMIT
          Counts,     \* what a caller asks to move, 0 for "don't know"
          Iovs,       \* vectors to write: where each of their pieces ends
          MaxCalls    \* bound: calls by the caller

ASSUME FdAssumption ==
    /\ SrcLen \in Nat /\ Limit \in Nat \ {0} /\ MaxCalls \in Nat
    /\ Counts \subseteq Nat
    /\ \A v \in Iovs :
          /\ v \in Seq(Nat) /\ v # << >>
          /\ \A i, j \in DOMAIN v : i <= j => v[i] <= v[j]

\* Errors for good; EINTR is retried and clears errno.
Errors == {"EAGAIN", "EIO"}
\* No offset; an error moves one of 0 back to -1.
NULL == -2

VARIABLES way,        \* what the caller uses
          pc,         \* "idle", or the loop that runs
          errno,      \* "0" or an error
          pos,        \* the source's file position
          offset,     \* the caller's offset, or NULL
          base,       \* where the call began in the source
          count, total,
          iov,        \* the pieces still to be written
          cur,        \* the piece that writev(2) has come to
          nbytes,     \* what it has written, less the pieces passed since
          dst,        \* what reached the other descriptor
          ret, ncalls

vector == <<iov, cur, nbytes>>
fd_vars == <<way, pc, errno, pos, offset, base, count, total, vector, dst, ret, ncalls>>

FdInit ==
    /\ way \in {"transfer", "nwritev", "bsd_nsendfile", "nsendfile"}
    /\ offset \in {NULL, 0}
    /\ way = "nwritev" => offset = NULL
    /\ errno \in {"0", "ENOENT"}          \* left over from some earlier call
    /\ pc = "idle"
    /\ pos = 0 /\ base = 0 /\ count = 0 /\ total = 0
    /\ iov = << >> /\ cur = 1 /\ nbytes = 0
    /\ dst = << >>
    /\ ret = 0 /\ ncalls = 0

\* The n bytes of the source from i on.
Bytes(i, n) == [k \in 1 .. n |-> i + k - 1]

Least(a, b) == IF a < b THEN a ELSE b

\* Where the next byte is taken from: an offset leaves the file position alone.
Place == IF offset = NULL THEN pos ELSE offset

-----------------------------------------------------------------------------
(* The caller *)

Call(loop, n) ==
    /\ pc = "idle"
    /\ ncalls < MaxCalls
    /\ ncalls > 0 => errno = "0"
    /\ ncalls' = ncalls + 1
    /\ pc' = loop
    /\ base' = Place
    /\ count' = n /\ total' = 0
    /\ UNCHANGED <<way, errno, offset, dst, ret>>

transfer(n) ==
    /\ way = "transfer"
    /\ Call("nread", IF n = 0 \/ n > Limit THEN Limit ELSE n)
    /\ UNCHANGED <<pos, vector>>

\* The next bytes of the source, which the caller has in memory in pieces.
call_nwritev(ends) ==
    /\ way = "nwritev"
    /\ LET start(i) == IF i = 1 THEN 0 ELSE ends[i - 1]
           n == ends[Len(ends)]
       IN  /\ pos + n <= SrcLen
           /\ Call("nwritev", n)
           /\ pos' = pos + n
           /\ iov' = [i \in DOMAIN ends |-> [iov_base |-> pos + start(i),
                                             iov_len |-> ends[i] - start(i)]]
    /\ cur' = 1 /\ nbytes' = 0

call_nsendfile(n) ==
    /\ way \in {"bsd_nsendfile", "nsendfile"}
    /\ Call(way, n)
    /\ UNCHANGED <<pos, vector>>

\* bsd_nsendfile cannot tell the file position and does nothing.
bsd_lseek_fails ==
    /\ way = "bsd_nsendfile" /\ offset = NULL
    /\ pc = "idle"
    /\ ncalls < MaxCalls
    /\ ncalls > 0 => errno = "0"
    /\ ncalls' = ncalls + 1
    /\ ret' = -1
    /\ errno' \in Errors
    /\ UNCHANGED <<way, pc, pos, offset, base, count, total, vector, dst>>

-----------------------------------------------------------------------------
(* transfer *)

\* Mutant: the offset is left to the caller.
transfer_end_in_place(ntotal, e) ==
    /\ ret' = ntotal
    /\ errno' = e
    /\ pc' = "idle"
    /\ UNCHANGED offset

\* The end of transfer moves the caller's offset; an error moves it back.
transfer_end(ntotal, e) ==
    /\ ret' = ntotal
    /\ offset' = IF offset = NULL THEN NULL ELSE offset + ntotal
    /\ errno' = e
    /\ pc' = "idle"

\* transfer goes on to write, unless nothing was read or errno is set, be it
\* since before the call: what was read is then dropped.
after_read(nrd, e) ==
    IF nrd <= 0 \/ e # "0"
    THEN transfer_end(0, e) /\ UNCHANGED <<count, total>>
    ELSE /\ count' = nrd /\ total' = 0
         /\ pc' = "nwrite"
         /\ errno' = e
         /\ UNCHANGED <<ret, offset>>

\* nread, and npread with an offset: one read(2) or pread(2).
nread ==
    /\ pc = "nread"
    /\ \/ \E k \in 1 .. Least(count - total, SrcLen - (base + total)) :
            /\ pos' = IF offset = NULL THEN pos + k ELSE pos
            /\ IF total + k = count
               THEN after_read(count, errno)
               ELSE total' = total + k /\ UNCHANGED <<pc, errno, offset, count, ret>>
       \/ /\ base + total >= SrcLen                  \* the end of the source
          /\ after_read(total, errno)
          /\ UNCHANGED pos
       \/ /\ errno' = "0"                            \* EINTR
          /\ UNCHANGED <<pc, pos, offset, count, total, ret>>
       \/ \E e \in Errors : after_read(total, e) /\ UNCHANGED pos
    /\ UNCHANGED <<way, base, vector, dst, ncalls>>

\* One write(2).
nwrite ==
    /\ pc = "nwrite"
    /\ \/ \E k \in 1 .. count - total :
            /\ dst' = dst \o Bytes(base + total, k)
            /\ total' = total + k
            /\ IF total' = count THEN transfer_end(count, errno)
                                 ELSE UNCHANGED <<ret, offset, errno, pc>>
       \/ /\ errno' = "0"
          /\ UNCHANGED <<pc, dst, total, ret, offset>>
       \/ \E e \in Errors : transfer_end(-1, e) /\ UNCHANGED <<dst, total>>
    /\ UNCHANGED <<way, pos, count, base, vector, ncalls>>

-----------------------------------------------------------------------------
(* nwritev *)

\* writev(2) copies the pieces in order and stops anywhere; having copied
\* nothing it was interrupted, or had nothing to copy.
writev ==
    /\ pc = "nwritev"
    /\ \E n \in 0 .. iov[cur].iov_len :
        /\ dst' = dst \o Bytes(iov[cur].iov_base, n)
        /\ nbytes' = nbytes + n
        /\ \/ /\ n = iov[cur].iov_len /\ cur < Len(iov)
              /\ cur' = cur + 1
              /\ UNCHANGED <<pc, errno, total>>
           \/ /\ pc' = "advance"
              /\ \/ nbytes' = 0 /\ errno' = "0"
                 \/ /\ nbytes' > 0 \/ (n = iov[cur].iov_len /\ cur = Len(iov))
                    /\ UNCHANGED errno
              /\ total' = total + nbytes'
              /\ UNCHANGED cur
    /\ UNCHANGED <<way, pos, offset, count, base, iov, ret, ncalls>>

writev_fails ==
    /\ pc = "nwritev" /\ cur = 1
    /\ \E e \in Errors : errno' = e
    /\ ret' = -1
    /\ pc' = "idle"
    /\ UNCHANGED <<way, pos, offset, count, base, total, vector, dst, ncalls>>

\* Mutant: a piece that was written in part is written again.
cut_whole ==
    /\ iov # << >> /\ nbytes < iov[1].iov_len
    /\ pc' = "nwritev" /\ cur' = 1 /\ nbytes' = 0
    /\ UNCHANGED <<iov, ret>>

\* The piece that the call stopped in keeps what is left of it, and the call
\* is made again.
cut ==
    /\ iov # << >> /\ nbytes < iov[1].iov_len
    /\ iov' = [iov EXCEPT ![1] = [iov_base |-> @.iov_base + nbytes,
                                  iov_len |-> @.iov_len - nbytes]]
    /\ pc' = "nwritev" /\ cur' = 1 /\ nbytes' = 0
    /\ UNCHANGED ret

\* The loop over the pieces after a call: those written are passed.
advance ==
    /\ pc = "advance"
    /\ \/ /\ iov # << >> /\ nbytes >= iov[1].iov_len
          /\ iov' = Tail(iov)
          /\ nbytes' = nbytes - iov[1].iov_len
          /\ UNCHANGED <<pc, cur, ret>>
       \/ cut
       \/ /\ iov = << >>
          /\ ret' = total /\ pc' = "idle"
          /\ UNCHANGED vector
    /\ UNCHANGED <<way, errno, pos, offset, count, base, total, dst, ncalls>>

-----------------------------------------------------------------------------
(* nsendfile *)

\* The end of bsd_nsendfile: it answers what the last sendfile(2) sent, and
\* adds that to the caller's offset once more.  Without an offset it moves the
\* file position, which may fail.
bsd_end(sent, sbytes, e) ==
    /\ ret' = sbytes
    /\ offset' = IF offset = NULL THEN NULL ELSE base + sent + sbytes
    /\ \/ /\ pos' = IF offset = NULL /\ sent > 0 THEN base + sent ELSE pos
          /\ errno' = e
       \/ /\ offset = NULL /\ sent > 0
          /\ UNCHANGED pos
          /\ errno' \in IF e \in Errors THEN {e} ELSE Errors
    /\ pc' = "idle"

\* One sendfile(2) of FreeBSD, which may send bytes before it is interrupted
\* or fails.  A failure for good ends the loop before they are counted; at the
\* end of the source the loop goes round without end.
bsd_nsendfile ==
    /\ pc = "bsd_nsendfile"
    /\ \E k \in 0 .. Least(count - total, SrcLen - (base + total)) :
        /\ dst' = dst \o Bytes(base + total, k)
        /\ \/ /\ total' = total + k
              /\ \E e \in {errno, "0"} :
                    IF total' >= count THEN bsd_end(total', k, e)
                    ELSE errno' = e /\ UNCHANGED <<ret, offset, pos, pc>>
           \/ /\ UNCHANGED total
              /\ \E e \in Errors : bsd_end(total, k, e)
    /\ UNCHANGED <<way, count, base, vector, ncalls>>

\* Linux: a single sendfile(2).
nsendfile ==
    /\ pc = "nsendfile"
    /\ \/ \E k \in 0 .. Least(count, SrcLen - base) :
            /\ dst' = dst \o Bytes(base, k)
            /\ ret' = k
            /\ offset' = IF offset = NULL THEN NULL ELSE offset + k
            /\ pos' = IF offset = NULL THEN pos + k ELSE pos
            /\ UNCHANGED errno
       \/ \E e \in Errors \cup {"EINTR"} :
            /\ ret' = -1
            /\ errno' = e
            /\ UNCHANGED <<dst, offset, pos>>
    /\ pc' = "idle"
    /\ UNCHANGED <<way, base, count, total, vector, ncalls>>

FdNext ==
    \/ \E n \in Counts : transfer(n)
    \/ \E v \in Iovs : call_nwritev(v)
    \/ \E n \in Counts \ {0} : call_nsendfile(n)
    \/ bsd_lseek_fails
    \/ nread \/ nwrite \/ writev \/ writev_fails \/ advance
    \/ bsd_nsendfile \/ nsendfile

FdSpec == FdInit /\ [][FdNext]_fd_vars

-----------------------------------------------------------------------------
(* Properties *)

\* bsd_nsendfile moves a caller's offset too far, so that the next call skips.
OffsetKept == way = "bsd_nsendfile" => offset = NULL

\* What reaches the other descriptor is the source, byte after byte from its
\* beginning: short reads and writes, interruptions and vectors cut anywhere
\* repeat nothing, drop nothing and change no order, in a call or across calls.
WritesInOrder == OffsetKept => dst = Bytes(0, Len(dst))

\* A call that leaves errno clear moved exactly what it took: nothing that was
\* read is lost, the position or the offset is past the bytes written and no
\* further, and the answer is their number (bsd_nsendfile's is not).
TransferExact ==
    (pc = "idle" /\ errno = "0" /\ OffsetKept) =>
        /\ Len(dst) = Place
        /\ way # "bsd_nsendfile" => ret = Place - base
=============================================================================
