---------------------------- MODULE LibraryProofs ----------------------------
(***************************************************************************)
(* The descriptor I/O loops of fdwatch/fdio.c move every byte once and in  *)
(* order, for every source, limit and vector.  And what the probes of      *)
(* prof/prfm.c accumulate, for any length of a second, any advances of the *)
(* clocks and any number of iterations.                                    *)
(***************************************************************************)
EXTENDS FdIo, Prfm, SequenceTheorems, TLAPS

-----------------------------------------------------------------------------
(* Sequences *)

(* A function on 1 .. n is a sequence of length n. *)
LEMMA FunctionIsSeq ==
    ASSUME NEW S, NEW n \in Nat, NEW f \in [1 .. n -> S]
    PROVE  f \in Seq(S) /\ Len(f) = n
<1>1. f \in Seq(S)
    BY SeqDef
<1> QED  BY <1>1, LenProperties

(* A source read from its beginning. *)
InOrder(s) == s \in Seq(Nat) /\ \A j \in 1 .. Len(s) : s[j] = j - 1

(* Appending the next bytes keeps the order. *)
LEMMA AppendBytes ==
    ASSUME NEW s, NEW n \in Nat, NEW i, InOrder(s), i = Len(s)
    PROVE  InOrder(s \o Bytes(i, n)) /\ Len(s \o Bytes(i, n)) = Len(s) + n
<1>1. PICK t \in Seq(Nat) : t = Bytes(i, n) /\ Len(t) = n /\ \A k \in 1 .. n : t[k] = Len(s) + k - 1
    <2>1. Bytes(i, n) \in Seq(Nat) /\ Len(Bytes(i, n)) = n
          /\ \A k \in 1 .. n : Bytes(i, n)[k] = Len(s) + k - 1
        BY DEF Bytes, InOrder
    <2> QED  BY <2>1
<1>2. s \in Seq(Nat) /\ Len(s) \in Nat
    BY DEF InOrder
<1>3. /\ s \o t \in Seq(Nat) /\ Len(s \o t) = Len(s) + n
      /\ \A j \in 1 .. Len(s) + n : (s \o t)[j] = IF j <= Len(s) THEN s[j] ELSE t[j - Len(s)]
    <2>1. /\ s \o t \in Seq(Nat) /\ Len(s \o t) = Len(s) + Len(t)
          /\ \A j \in 1 .. Len(s) + Len(t) : (s \o t)[j] = IF j <= Len(s) THEN s[j] ELSE t[j - Len(s)]
        BY <1>2, ConcatProperties
    <2>2. Len(t) = n
        BY <1>1
    <2> QED  BY <2>1, <2>2, Zenon
<1>4. ASSUME NEW j \in 1 .. Len(s) + n
      PROVE  (s \o t)[j] = j - 1
    <2>1. CASE j <= Len(s)
        BY <1>2, <1>3, <2>1 DEF InOrder
    <2>2. CASE j > Len(s)
        <3>1. j - Len(s) \in 1 .. n /\ Len(s) + (j - Len(s)) - 1 = j - 1
            BY <1>2, <2>2
        <3>2. (s \o t)[j] = t[j - Len(s)]
            BY <1>2, <1>3, <2>2
        <3> QED  BY <1>1, <3>1, <3>2
    <2>3. j <= Len(s) \/ j > Len(s)
        BY <1>2
    <2> QED  BY <2>1, <2>2, <2>3
<1> QED  BY <1>1, <1>3, <1>4 DEF InOrder

(* A sequence in order is the source up to its length. *)
LEMMA OrderIsSource ==
    ASSUME NEW s, InOrder(s)
    PROVE  s = Bytes(0, Len(s))
<1>1. DOMAIN s = 1 .. Len(s) /\ s = [j \in 1 .. Len(s) |-> s[j]]
    BY DEF InOrder
<1>2. \A j \in 1 .. Len(s) : s[j] = 0 + j - 1
    BY DEF InOrder
<1> QED  BY <1>1, <1>2 DEF Bytes

-----------------------------------------------------------------------------
(* The inductive invariant: what has been written when, in each loop, and
   where the source stands. *)

Iovec == [iov_base : Nat, iov_len : Nat]

(* The types, and which loop belongs to which way of sending. *)
FdTypes ==
    /\ pos \in Nat /\ total \in Nat /\ count \in Nat /\ nbytes \in Nat /\ ncalls \in Nat
    /\ offset \in Int /\ base \in Int
    /\ iov \in Seq(Iovec)
    /\ pc \in {"idle", "nread", "nwrite", "nwritev", "advance", "bsd_nsendfile", "nsendfile"}
    /\ pc # "idle" => ncalls > 0
    /\ pc \in {"nread", "nwrite"} => way = "transfer"
    /\ pc \in {"nwritev", "advance"} => way = "nwritev"
    /\ way = "nwritev" => offset = NULL
    /\ pc \in {"bsd_nsendfile", "nsendfile"} => way = pc
    /\ way = "bsd_nsendfile" /\ offset # NULL => offset \in Nat /\ base \in Nat

(* Between calls, as long as none has failed. *)
IdleOK ==
    pc = "idle" /\ (errno = "0" \/ ncalls = 0) =>
        /\ Len(dst) = Place
        /\ way # "bsd_nsendfile" => ret = Place - base

(* What was read waits in the buffer; an offset moves at the end only. *)
TransferOK ==
    /\ pc = "nread" =>
          /\ Len(dst) = base /\ total < count
          /\ IF offset = NULL THEN pos = base + total ELSE offset = base
    /\ pc = "nwrite" =>
          /\ Len(dst) = base + total /\ total < count
          /\ IF offset = NULL THEN pos = base + count ELSE offset = base

(* The file position of FreeBSD's form moves at the end only. *)
SendfileOK ==
    /\ pc = "bsd_nsendfile" => Len(dst) = base + total /\ pos = base
    /\ pc = "nsendfile" => Len(dst) = base /\ Place = base

(* The pieces left lie one after the other and end where the call ends. *)
Chained ==
    /\ \A i \in 1 .. Len(iov) - 1 : iov[i + 1].iov_base = iov[i].iov_base + iov[i].iov_len
    /\ \A i \in 1 .. Len(iov) : iov[i].iov_base + iov[i].iov_len <= pos
    /\ iov # << >> => iov[Len(iov)].iov_base + iov[Len(iov)].iov_len = pos

(* In the middle of writev(2) the cursor is where the output is; after it the
   output is nbytes into the pieces left. *)
VectorOK ==
    /\ pc \in {"nwritev", "advance"} => Chained
    /\ pc = "nwritev" =>
          /\ cur \in 1 .. Len(iov)
          /\ Len(dst) = iov[cur].iov_base
          /\ Len(dst) = iov[1].iov_base + nbytes
          /\ base + total + nbytes = Len(dst)
    /\ pc = "advance" =>
          /\ base + total = Len(dst) /\ Len(dst) <= pos
          /\ Len(dst) = IF iov = << >> THEN pos ELSE iov[1].iov_base + nbytes

FdOK == InOrder(dst) /\ IdleOK /\ TransferOK /\ SendfileOK /\ VectorOK

FdInv == FdTypes /\ (OffsetKept => FdOK)


(* An offset of bsd_nsendfile never becomes NULL. *)
LEMMA KeptBackwards ==
    ASSUME FdTypes, FdNext, OffsetKept'
    PROVE  OffsetKept
<1>1. CASE bsd_nsendfile
    <2>1. offset' = offset \/ offset = NULL
          \/ \E sent, sbytes \in Nat : offset' = base + sent + sbytes
        <3>1. PICK k \in 0 .. Least(count - total, SrcLen - (base + total)) :
                \/ UNCHANGED offset
                \/ \E e : bsd_end(total + k, k, e)
                \/ \E e : bsd_end(total, k, e)
            BY <1>1 DEF bsd_nsendfile
        <3>2. k \in Nat /\ total \in Nat /\ total + k \in Nat
            BY DEF FdTypes
        <3> QED  BY <3>1, <3>2 DEF bsd_end
    <2>2. way' = way
        BY <1>1 DEF bsd_nsendfile
    <2> QED  BY <2>1, <2>2 DEF OffsetKept, FdTypes, NULL
<1>2. CASE ~bsd_nsendfile
    <2>1. way' = way /\ (way = "bsd_nsendfile" => offset' = offset)
        BY <1>2
        DEF FdNext, FdTypes, transfer, call_nwritev, call_nsendfile, Call, nread, nwrite, writev,
            writev_fails, advance, nsendfile, bsd_lseek_fails
    <2> QED  BY <2>1 DEF OffsetKept
<1> QED  BY <1>1, <1>2

(* The source is where the last call left it when the next one begins. *)
LEMMA CallBegins ==
    ASSUME FdInv, NEW loop, NEW n, Call(loop, n), OffsetKept
    PROVE  /\ InOrder(dst) /\ InOrder(dst') /\ Len(dst) \in Nat
           /\ Len(dst) = Place /\ base' = Place /\ dst' = dst
           /\ pc = "idle" /\ pc' = loop /\ total' = 0 /\ count' = n
           /\ ncalls' > 0 /\ ncalls' \in Nat /\ UNCHANGED <<way, errno, offset>>
<1>1. errno = "0" \/ ncalls = 0
    BY DEF Call, FdInv, FdTypes
<1> QED  BY <1>1 DEF Call, FdInv, FdOK, IdleOK, InOrder, FdTypes

(* A call of transfer or nsendfile starts with an empty count where the last
   one ended. *)
LEMMA FdCall ==
    ASSUME FdInv, OffsetKept, NEW n \in Counts, transfer(n) \/ (n # 0 /\ call_nsendfile(n))
    PROVE  FdOK'
<1>1. PICK loop, m : Call(loop, m) /\ UNCHANGED <<pos, vector>>
                     /\ loop \in {"nread", "bsd_nsendfile", "nsendfile"}
                     /\ m > 0 /\ m \in Nat
                     /\ (loop = "bsd_nsendfile" => way = loop)
    <2>1. n \in Nat /\ Limit \in Nat \ {0}
        BY FdAssumption
    <2>2. CASE transfer(n)
        BY <2>1, <2>2 DEF transfer
    <2>3. CASE n # 0 /\ call_nsendfile(n)
        BY <2>1, <2>3 DEF call_nsendfile
    <2> QED  BY <2>2, <2>3
<1>2. /\ InOrder(dst') /\ Len(dst) \in Nat
      /\ Len(dst) = Place /\ base' = Place /\ dst' = dst
      /\ pc' = loop /\ total' = 0 /\ count' = m /\ UNCHANGED <<way, errno, offset, pos>>
    BY <1>1, CallBegins
<1>3. IdleOK' /\ VectorOK'
    BY <1>1, <1>2 DEF IdleOK, VectorOK
<1>4. TransferOK'
    BY <1>1, <1>2 DEF TransferOK, Place
<1>5. SendfileOK'
    BY <1>1, <1>2 DEF SendfileOK, Place, OffsetKept
<1> QED  BY <1>2, <1>3, <1>4, <1>5 DEF FdOK

(* The vector a caller hands over is a chain of pieces. *)
LEMMA FdCallVector ==
    ASSUME FdInv, OffsetKept, NEW v \in Iovs, call_nwritev(v)
    PROVE  FdOK' /\ iov' \in Seq(Iovec) /\ pos' \in Nat /\ v[Len(v)] \in Nat
<1> DEFINE start(i) == IF i = 1 THEN 0 ELSE v[i - 1]
           n == v[Len(v)]
<1>1. /\ v \in Seq(Nat) /\ v # << >> /\ Len(v) \in Nat \ {0} /\ DOMAIN v = 1 .. Len(v)
      /\ \A i, j \in 1 .. Len(v) : i <= j => v[i] <= v[j]
      /\ \A i \in 1 .. Len(v) : v[i] \in Nat
    <2>1. v \in Seq(Nat) /\ v # << >> /\ \A i, j \in DOMAIN v : i <= j => v[i] <= v[j]
        BY FdAssumption
    <2>2. Len(v) \in Nat \ {0} /\ DOMAIN v = 1 .. Len(v) /\ \A i \in 1 .. Len(v) : v[i] \in Nat
        BY <2>1
    <2> QED  BY <2>1, <2>2
<1>2. /\ Call("nwritev", n) /\ pos' = pos + n /\ cur' = 1 /\ nbytes' = 0 /\ pos \in Nat
      /\ iov' = [i \in 1 .. Len(v) |-> [iov_base |-> pos + start(i), iov_len |-> v[i] - start(i)]]
    BY <1>1 DEF call_nwritev, FdInv, FdTypes
<1>3. ASSUME NEW i \in 1 .. Len(v)
      PROVE  start(i) \in Nat /\ start(i) <= v[i] /\ v[i] <= n
    <2>1. CASE i = 1
        BY <1>1, <2>1
    <2>2. CASE i # 1
        <3>1. i - 1 \in 1 .. Len(v) /\ i - 1 <= i /\ Len(v) \in 1 .. Len(v) /\ i <= Len(v)
            BY <1>1, <2>2
        <3> QED  BY <1>1, <2>2, <3>1
    <2> QED  BY <2>1, <2>2
<1>4. \A i \in 1 .. Len(v) : iov'[i] = [iov_base |-> pos + start(i), iov_len |-> v[i] - start(i)]
                             /\ iov'[i] \in Iovec
                             /\ iov'[i].iov_base = pos + start(i)
                             /\ iov'[i].iov_base + iov'[i].iov_len = pos + v[i]
    <2> SUFFICES ASSUME NEW i \in 1 .. Len(v)
                 PROVE  iov'[i] = [iov_base |-> pos + start(i), iov_len |-> v[i] - start(i)]
                        /\ iov'[i] \in Iovec
                        /\ iov'[i].iov_base = pos + start(i)
                        /\ iov'[i].iov_base + iov'[i].iov_len = pos + v[i]
        OBVIOUS
    <2>1. iov'[i] = [iov_base |-> pos + start(i), iov_len |-> v[i] - start(i)]
        BY <1>2
    <2>2. PICK b \in Nat : b = start(i) /\ b <= v[i] /\ v[i] \in Nat /\ pos \in Nat
        BY <1>1, <1>2, <1>3
    <2>3. pos + b \in Nat /\ v[i] - b \in Nat /\ pos + b + (v[i] - b) = pos + v[i]
        BY <2>2
    <2> QED  BY <2>1, <2>2, <2>3 DEF Iovec
<1>5. iov' \in Seq(Iovec) /\ Len(iov') = Len(v) /\ iov' # << >>
    <2>1. iov' \in [1 .. Len(v) -> Iovec]
        BY <1>2, <1>4
    <2>2. iov' \in Seq(Iovec) /\ Len(iov') = Len(v)
        BY <1>1, <2>1, FunctionIsSeq
    <2> QED  BY <1>1, <2>2, EmptySeq
<1>6. /\ InOrder(dst') /\ Len(dst) \in Nat
      /\ Len(dst) = Place /\ base' = Place /\ dst' = dst
      /\ pc = "idle" /\ pc' = "nwritev" /\ total' = 0 /\ UNCHANGED <<way, errno, offset>>
    BY <1>2, CallBegins
<1>7. offset = NULL
    BY DEF call_nwritev, FdInv, FdTypes
<1>8. Chained'
    <2>1. ASSUME NEW i \in 1 .. Len(v) - 1
          PROVE  iov'[i + 1].iov_base = iov'[i].iov_base + iov'[i].iov_len
        <3>1. i \in 1 .. Len(v) /\ i + 1 \in 1 .. Len(v) /\ i + 1 # 1 /\ (i + 1) - 1 = i
            BY <1>1
        <3>2. start(i + 1) = v[i]
            BY <3>1
        <3>3. iov'[i + 1].iov_base = pos + start(i + 1)
            BY <1>4, <3>1
        <3>4. iov'[i].iov_base + iov'[i].iov_len = pos + v[i]
            BY <1>4, <3>1
        <3> HIDE DEF start
        <3> QED  BY <3>2, <3>3, <3>4
    <2>2. \A i \in 1 .. Len(v) : iov'[i].iov_base + iov'[i].iov_len <= pos'
        BY <1>1, <1>2, <1>3, <1>4
    <2>3. iov'[Len(v)].iov_base + iov'[Len(v)].iov_len = pos'
        BY <1>1, <1>2, <1>4
    <2> QED  BY <1>5, <2>1, <2>2, <2>3 DEF Chained
<1>9. VectorOK'
    <2>1. 1 \in 1 .. Len(v) /\ start(1) = 0
        BY <1>1
    <2>3. iov'[1].iov_base = pos
        BY <1>2, <1>4, <2>1
    <2>2. Len(dst) = pos
        BY <1>6, <1>7 DEF Place
    <2> QED  BY <1>2, <1>5, <1>6, <1>8, <2>1, <2>2, <2>3 DEF VectorOK
<1>10. IdleOK' /\ TransferOK' /\ SendfileOK'
    BY <1>6 DEF IdleOK, TransferOK, SendfileOK
<1>11. n \in Nat
    BY <1>1
<1> QED  BY <1>2, <1>5, <1>6, <1>9, <1>10, <1>11 DEF FdOK

(* A read, short or not, leaves the destination alone. *)
LEMMA FdRead ==
    ASSUME FdInv, OffsetKept, nread
    PROVE  FdOK'
<1>1. /\ pc = "nread" /\ UNCHANGED <<way, base, vector, dst, ncalls>> /\ ncalls > 0
      /\ InOrder(dst) /\ Len(dst) = base /\ total < count
      /\ IF offset = NULL THEN pos = base + total ELSE offset = base
    BY DEF nread, FdInv, FdTypes, FdOK, TransferOK
<1>2. base \in Nat /\ total \in Nat /\ count \in Nat /\ pos \in Nat /\ offset \in Int /\ ncalls # 0
    BY <1>1 DEF FdInv, FdTypes, InOrder
<1>3. ASSUME NEW nrd \in Nat, NEW e, after_read(nrd, e),
             IF offset = NULL THEN pos' = base + nrd ELSE pos' = pos
      PROVE  FdOK'
    <2>1. CASE nrd <= 0 \/ e # "0"
        <3>1. /\ pc' = "idle" /\ errno' = e /\ ret' = 0
              /\ offset' = IF offset = NULL THEN NULL ELSE offset + 0
            BY <1>3, <2>1 DEF after_read, transfer_end
        <3>2. e = "0" => nrd = 0
            BY <2>1
        <3>3. e = "0" => Len(dst) = Place' /\ 0 = Place' - base
            BY <1>1, <1>2, <1>3, <3>1, <3>2 DEF Place
        <3> QED  BY <1>1, <1>2, <3>1, <3>3 DEF FdOK, IdleOK, TransferOK, SendfileOK, VectorOK
    <2>2. CASE ~(nrd <= 0 \/ e # "0")
        <3>1. pc' = "nwrite" /\ count' = nrd /\ total' = 0 /\ offset' = offset
            BY <1>3, <2>2 DEF after_read
        <3> QED  BY <1>1, <1>2, <1>3, <2>2, <3>1 DEF FdOK, IdleOK, TransferOK, SendfileOK, VectorOK
    <2> QED  BY <2>1, <2>2
<1>4. CASE \E k \in 1 .. Least(count - total, SrcLen - (base + total)) :
            /\ pos' = IF offset = NULL THEN pos + k ELSE pos
            /\ IF total + k = count
               THEN after_read(count, errno)
               ELSE total' = total + k /\ UNCHANGED <<pc, errno, offset, count, ret>>
    <2>1. PICK k \in 1 .. Least(count - total, SrcLen - (base + total)) :
            /\ pos' = IF offset = NULL THEN pos + k ELSE pos
            /\ IF total + k = count
               THEN after_read(count, errno)
               ELSE total' = total + k /\ UNCHANGED <<pc, errno, offset, count, ret>>
        BY <1>4
    <2>2. k \in Nat /\ k <= count - total
        BY <1>2, FdAssumption DEF Least
    <2>3. CASE total + k = count
        BY <1>1, <1>2, <1>3, <2>1, <2>2, <2>3
    <2>4. CASE total + k # count
        BY <1>1, <1>2, <2>1, <2>2, <2>4 DEF FdOK, IdleOK, TransferOK, SendfileOK, VectorOK
    <2> QED  BY <2>3, <2>4
<1>5. CASE (base + total >= SrcLen /\ after_read(total, errno) /\ UNCHANGED pos)
           \/ \E e \in Errors : after_read(total, e) /\ UNCHANGED pos
    BY <1>1, <1>2, <1>3, <1>5
<1>6. CASE errno' = "0" /\ UNCHANGED <<pc, pos, offset, count, total, ret>>
    BY <1>1, <1>2, <1>6 DEF FdOK, IdleOK, TransferOK, SendfileOK, VectorOK
<1> QED  BY <1>4, <1>5, <1>6 DEF nread

(* A write appends the next bytes of the buffer. *)
LEMMA FdWrite ==
    ASSUME FdInv, OffsetKept, nwrite
    PROVE  FdOK'
<1>1. /\ pc = "nwrite" /\ UNCHANGED <<way, pos, count, base, vector, ncalls>> /\ ncalls > 0
      /\ InOrder(dst) /\ Len(dst) = base + total /\ total < count
      /\ IF offset = NULL THEN pos = base + count ELSE offset = base
    BY DEF nwrite, FdInv, FdTypes, FdOK, TransferOK
<1>2. Len(dst) \in Nat /\ base \in Int /\ total \in Nat /\ count \in Nat /\ pos \in Nat /\ ncalls # 0
    BY <1>1 DEF FdInv, FdTypes, InOrder
<1>3. CASE \E k \in 1 .. count - total :
            /\ dst' = dst \o Bytes(base + total, k)
            /\ total' = total + k
            /\ IF total' = count THEN transfer_end(count, errno)
                                 ELSE UNCHANGED <<ret, offset, errno, pc>>
    <2>1. PICK k \in 1 .. count - total :
            /\ dst' = dst \o Bytes(base + total, k)
            /\ total' = total + k
            /\ IF total' = count THEN transfer_end(count, errno)
                                 ELSE UNCHANGED <<ret, offset, errno, pc>>
        BY <1>3
    <2>0. k \in Nat /\ k > 0
        OBVIOUS
    <2>2. InOrder(dst') /\ Len(dst') = Len(dst) + k
        BY <1>1, <2>0, <2>1, AppendBytes
    <2>3. CASE total' = count
        <3>1. /\ pc' = "idle" /\ ret' = count
              /\ offset' = IF offset = NULL THEN NULL ELSE offset + count
            BY <2>1, <2>3 DEF transfer_end
        <3>2. Len(dst') = base + count
            BY <1>1, <1>2, <2>1, <2>2, <2>3
        <3>3. offset # NULL => offset' # NULL
            <4>1. offset # NULL => offset + total \in Nat /\ offset \in Int
                BY <1>1, <1>2
            <4> QED  BY <1>1, <1>2, <3>1, <4>1, <2>2, <3>2 DEF NULL
        <3>4. Len(dst') = Place' /\ ret' = Place' - base
            BY <1>1, <1>2, <3>1, <3>2, <3>3 DEF Place
        <3> QED  BY <1>1, <2>2, <3>1, <3>4 DEF FdOK, IdleOK, TransferOK, SendfileOK, VectorOK
    <2>4. CASE total' # count
        BY <1>1, <1>2, <2>1, <2>2, <2>4 DEF FdOK, IdleOK, TransferOK, SendfileOK, VectorOK
    <2> QED  BY <2>3, <2>4
<1>4. CASE errno' = "0" /\ UNCHANGED <<pc, dst, total, ret, offset>>
    BY <1>1, <1>2, <1>4 DEF FdOK, IdleOK, TransferOK, SendfileOK, VectorOK
<1>5. CASE \E e \in Errors : transfer_end(-1, e) /\ UNCHANGED <<dst, total>>
    BY <1>1, <1>2, <1>5
    DEF transfer_end, Errors, FdOK, IdleOK, TransferOK, SendfileOK, VectorOK
<1> QED  BY <1>3, <1>4, <1>5 DEF nwrite

(* sendfile(2), in the loop for FreeBSD or alone. *)
LEMMA FdSend ==
    ASSUME FdInv, OffsetKept, bsd_nsendfile \/ nsendfile
    PROVE  FdOK'
<1>1. CASE bsd_nsendfile
    <2>1. /\ pc = "bsd_nsendfile" /\ UNCHANGED <<way, count, base, vector, ncalls>> /\ ncalls > 0
          /\ InOrder(dst) /\ Len(dst) = base + total /\ pos = base /\ offset = NULL
          /\ way = "bsd_nsendfile"
        BY <1>1 DEF bsd_nsendfile, FdInv, FdTypes, FdOK, SendfileOK, OffsetKept
    <2>2. Len(dst) \in Nat /\ base \in Nat /\ total \in Nat /\ count \in Nat /\ ncalls # 0
        BY <2>1 DEF FdInv, FdTypes, InOrder
    <2>3. PICK k \in 0 .. Least(count - total, SrcLen - (base + total)) :
            /\ dst' = dst \o Bytes(base + total, k)
            /\ \/ /\ total' = total + k
                  /\ \E e \in {errno, "0"} :
                        IF total' >= count THEN bsd_end(total', k, e)
                        ELSE errno' = e /\ UNCHANGED <<ret, offset, pos, pc>>
               \/ /\ UNCHANGED total
                  /\ \E e \in Errors : bsd_end(total, k, e)
        BY <1>1 DEF bsd_nsendfile
    <2>0. k \in Nat
        BY <2>2, FdAssumption DEF Least
    <2>4. k \in Nat /\ InOrder(dst') /\ Len(dst') = base + total + k
        BY <2>0, <2>1, <2>3, AppendBytes
    <2>5. CASE pc' = "idle" /\ errno' \in Errors
        BY <2>1, <2>2, <2>4, <2>5 DEF Errors, FdOK, IdleOK, TransferOK, SendfileOK, VectorOK
    <2>6. CASE /\ pc' = "idle" /\ offset' = NULL /\ total' = total + k
               /\ pos' = IF total' > 0 THEN base + total' ELSE pos
        BY <2>1, <2>2, <2>4, <2>6 DEF Place, FdOK, IdleOK, TransferOK, SendfileOK, VectorOK
    <2>7. CASE total' = total + k /\ UNCHANGED <<ret, offset, pos, pc>>
        BY <2>1, <2>2, <2>4, <2>7 DEF FdOK, IdleOK, TransferOK, SendfileOK, VectorOK
    <2> QED  BY <2>1, <2>3, <2>5, <2>6, <2>7 DEF bsd_end
<1>2. CASE nsendfile
    <2>1. /\ pc = "nsendfile" /\ pc' = "idle" /\ UNCHANGED <<way, base, count, total, vector, ncalls>>
          /\ InOrder(dst) /\ Len(dst) = base /\ Place = base /\ ncalls > 0
        BY <1>2 DEF nsendfile, FdInv, FdTypes, FdOK, SendfileOK
    <2>2. Len(dst) \in Nat /\ base \in Nat /\ pos \in Nat /\ offset \in Int /\ ncalls # 0
        BY <2>1 DEF FdInv, FdTypes, InOrder
    <2>3. CASE \E k \in 0 .. Least(count, SrcLen - base) :
            /\ dst' = dst \o Bytes(base, k)
            /\ ret' = k
            /\ offset' = IF offset = NULL THEN NULL ELSE offset + k
            /\ pos' = IF offset = NULL THEN pos + k ELSE pos
            /\ UNCHANGED errno
        <3>1. PICK k \in 0 .. Least(count, SrcLen - base) :
                /\ dst' = dst \o Bytes(base, k)
                /\ ret' = k
                /\ offset' = IF offset = NULL THEN NULL ELSE offset + k
                /\ pos' = IF offset = NULL THEN pos + k ELSE pos
            BY <2>3
        <3>0. k \in Nat
            BY <2>2, FdAssumption DEF Least, FdInv, FdTypes
        <3>2. k \in Nat /\ InOrder(dst') /\ Len(dst') = base + k
            BY <2>1, <3>0, <3>1, AppendBytes
        <3>3. offset # NULL => offset = base /\ offset' # NULL
            BY <2>1, <2>2, <3>1, <3>2 DEF Place, NULL
        <3>4. Place' = base + k
            BY <2>1, <2>2, <3>1, <3>2, <3>3 DEF Place
        <3>5. Len(dst') = Place' /\ ret' = Place' - base'
            BY <2>1, <2>2, <3>1, <3>2, <3>4
        <3> QED  BY <2>1, <3>2, <3>5 DEF FdOK, IdleOK, TransferOK, SendfileOK, VectorOK
    <2>4. CASE \E e \in Errors \cup {"EINTR"} : errno' = e /\ UNCHANGED <<dst, offset, pos>>
        BY <2>1, <2>2, <2>4 DEF Errors, FdOK, IdleOK, TransferOK, SendfileOK, VectorOK
    <2> QED  BY <1>2, <2>3, <2>4 DEF nsendfile
<1> QED  BY <1>1, <1>2

(* writev(2) appends the next bytes of the chain. *)
LEMMA FdWritev ==
    ASSUME FdInv, OffsetKept, writev
    PROVE  FdOK'
<1>1. /\ pc = "nwritev" /\ UNCHANGED <<way, pos, offset, count, base, iov, ret, ncalls>>
      /\ InOrder(dst) /\ Chained /\ cur \in 1 .. Len(iov)
      /\ Len(dst) = iov[cur].iov_base /\ Len(dst) = iov[1].iov_base + nbytes
      /\ base + total + nbytes = Len(dst)
    BY DEF writev, FdInv, FdOK, VectorOK
<1>2. /\ iov \in Seq(Iovec) /\ Len(iov) \in Nat /\ Len(dst) \in Nat /\ total \in Nat /\ nbytes \in Nat
      /\ base \in Int /\ pos \in Nat
    BY <1>1 DEF FdInv, FdTypes, InOrder
<1>3. /\ iov[cur] \in Iovec /\ iov[1] \in Iovec /\ iov # << >>
    <2>1. 1 \in 1 .. Len(iov)
        BY <1>1, <1>2
    <2> QED  BY <1>1, <1>2, <2>1, ElementOfSeq, EmptySeq
<1>4. PICK n \in 0 .. iov[cur].iov_len :
        /\ dst' = dst \o Bytes(iov[cur].iov_base, n)
        /\ nbytes' = nbytes + n
        /\ \/ /\ n = iov[cur].iov_len /\ cur < Len(iov)
              /\ cur' = cur + 1
              /\ UNCHANGED <<pc, errno, total>>
           \/ /\ pc' = "advance"
              /\ total' = total + nbytes'
              /\ UNCHANGED cur
    BY DEF writev
<1>5. /\ iov[cur].iov_base \in Nat /\ iov[cur].iov_len \in Nat /\ iov[1].iov_base \in Nat /\ n \in Nat
    BY <1>3 DEF Iovec
<1>6. InOrder(dst') /\ Len(dst') = Len(dst) + n
    BY <1>1, <1>4, <1>5, AppendBytes
<1>7. Chained'
    BY <1>1 DEF Chained
<1>8. CASE n = iov[cur].iov_len /\ cur < Len(iov) /\ cur' = cur + 1 /\ UNCHANGED <<pc, errno, total>>
    <2>1. cur \in 1 .. Len(iov) - 1 /\ cur' \in 1 .. Len(iov)
        BY <1>1, <1>2, <1>8
    <2>2. iov[cur'].iov_base = iov[cur].iov_base + n
        BY <1>1, <1>8, <2>1 DEF Chained
    <2>3. /\ Len(dst') = iov[cur'].iov_base /\ Len(dst') = iov[1].iov_base + nbytes'
          /\ base + total + nbytes' = Len(dst')
        <3>1. Len(dst') = iov[cur'].iov_base
            BY <1>1, <1>6, <2>2
        <3>2. Len(dst') = iov[1].iov_base + nbytes'
            BY <1>1, <1>2, <1>4, <1>5, <1>6, SMTT(30)
        <3>3. base + total + nbytes' = Len(dst')
            BY <1>1, <1>2, <1>4, <1>5, <1>6
        <3> QED  BY <3>1, <3>2, <3>3
    <2>4. VectorOK'
        BY <1>1, <1>7, <1>8, <2>1, <2>3 DEF VectorOK
    <2> QED  BY <1>1, <1>6, <1>8, <2>4 DEF FdOK, IdleOK, TransferOK, SendfileOK
<1>9. CASE pc' = "advance" /\ total' = total + nbytes'
    <2>1. iov[cur].iov_base + iov[cur].iov_len <= pos
        BY <1>1 DEF Chained
    <2>2. /\ base + total' = Len(dst') /\ Len(dst') <= pos
          /\ Len(dst') = iov[1].iov_base + nbytes'
        <3>1. base + total' = Len(dst')
            <4>1. total' = total + (nbytes + n) /\ base + total + nbytes = Len(dst)
                BY <1>1, <1>4, <1>9
            <4>2. base + (total + (nbytes + n)) = (base + total + nbytes) + n
                BY <1>2, <1>5
            <4> QED  BY <1>6, <4>1, <4>2
        <3>2. Len(dst') <= pos
            <4>1. n <= iov[cur].iov_len
                BY <1>5
            <4>2. Len(dst') = iov[cur].iov_base + n
                BY <1>1, <1>6
            <4> QED  BY <1>2, <1>5, <2>1, <4>1, <4>2, SMTT(30)
        <3>3. Len(dst') = iov[1].iov_base + nbytes'
            BY <1>1, <1>2, <1>4, <1>5, <1>6, SMTT(30)
        <3> QED  BY <3>1, <3>2, <3>3
    <2>3. VectorOK'
        BY <1>1, <1>3, <1>7, <1>9, <2>2 DEF VectorOK
    <2> QED  BY <1>6, <1>9, <2>3 DEF FdOK, IdleOK, TransferOK, SendfileOK
<1> QED  BY <1>4, <1>8, <1>9

(* The pieces written are passed, and the one it stopped in is cut. *)
LEMMA FdAdvance ==
    ASSUME FdInv, OffsetKept, advance
    PROVE  FdOK' /\ iov' \in Seq(Iovec) /\ nbytes' \in Nat
<1>1. /\ pc = "advance" /\ UNCHANGED <<way, errno, pos, offset, count, base, total, dst, ncalls>>
      /\ InOrder(dst) /\ Chained /\ base + total = Len(dst) /\ Len(dst) <= pos
      /\ Len(dst) = (IF iov = << >> THEN pos ELSE iov[1].iov_base + nbytes)
    BY DEF advance, FdInv, FdOK, VectorOK
<1>2. /\ iov \in Seq(Iovec) /\ Len(iov) \in Nat /\ Len(dst) \in Nat /\ total \in Nat /\ nbytes \in Nat
      /\ base \in Int /\ pos \in Nat /\ offset = NULL
    BY <1>1 DEF FdInv, FdTypes, InOrder
<1>3. CASE iov # << >> /\ nbytes >= iov[1].iov_len /\ iov' = Tail(iov)
           /\ nbytes' = nbytes - iov[1].iov_len /\ UNCHANGED <<pc, cur, ret>>
    <2>1. Len(iov) \in Nat \ {0} /\ 1 \in 1 .. Len(iov) /\ iov[1] \in Iovec
        BY <1>2, <1>3, EmptySeq, ElementOfSeq
    <2>2. iov' \in Seq(Iovec) /\ Len(iov') = Len(iov) - 1 /\ \A i \in 1 .. Len(iov') : iov'[i] = iov[i + 1]
        BY <1>2, <1>3, HeadTailProperties
    <2>3. iov[1].iov_len \in Nat /\ iov[1].iov_base \in Nat /\ nbytes' \in Nat
        BY <1>2, <1>3, <2>1 DEF Iovec
    <2>4. iov' # << >> => Len(iov) >= 2 /\ Len(iov') \in Nat \ {0}
        BY <1>2, <2>1, <2>2, EmptySeq
    <2>5. Chained'
        <3>1. ASSUME NEW i \in 1 .. Len(iov') - 1
              PROVE  iov'[i + 1].iov_base = iov'[i].iov_base + iov'[i].iov_len
            <4>1. i \in 1 .. Len(iov') /\ i + 1 \in 1 .. Len(iov') /\ i + 1 \in 1 .. Len(iov) - 1
                BY <2>1, <2>2
            <4>2. iov'[i] = iov[i + 1] /\ iov'[i + 1] = iov[(i + 1) + 1]
                BY <2>2, <4>1
            <4> QED  BY <1>1, <4>1, <4>2 DEF Chained
        <3>2. ASSUME NEW i \in 1 .. Len(iov')
              PROVE  iov'[i].iov_base + iov'[i].iov_len <= pos
            <4>1. i + 1 \in 1 .. Len(iov)
                BY <2>1, <2>2
            <4> QED  BY <1>1, <2>2, <4>1 DEF Chained
        <3>3. iov' # << >> => iov'[Len(iov')] = iov[Len(iov)]
            <4>1. iov' # << >> => Len(iov') \in 1 .. Len(iov') /\ Len(iov') + 1 = Len(iov)
                BY <2>1, <2>2, <2>4
            <4> QED  BY <2>2, <4>1
        <3> QED  BY <1>1, <1>3, <3>1, <3>2, <3>3 DEF Chained
    <2>6. iov' = << >> => Len(dst) = pos
        <3>1. iov' = << >> => Len(iov) = 1
            BY <2>1, <2>2
        <3>2. Len(iov) = 1 => iov[1].iov_base + iov[1].iov_len = pos
            BY <1>1, <1>3 DEF Chained
        <3> QED  BY <1>1, <1>2, <1>3, <2>3, <3>1, <3>2
    <2>7. iov' # << >> => Len(dst) = iov'[1].iov_base + nbytes'
        <3>1. iov' # << >> => 1 \in 1 .. Len(iov') /\ 1 \in 1 .. Len(iov) - 1
            BY <2>1, <2>2, <2>4
        <3>2. iov' # << >> => iov'[1] = iov[1 + 1] /\ iov[1 + 1].iov_base = iov[1].iov_base + iov[1].iov_len
            BY <1>1, <2>2, <3>1 DEF Chained
        <3>3. nbytes \in Nat /\ nbytes' = nbytes - iov[1].iov_len
              /\ Len(dst) = iov[1].iov_base + nbytes
            BY <1>1, <1>2, <1>3
        <3> SUFFICES ASSUME iov' # << >>
                     PROVE  Len(dst) = iov[1 + 1].iov_base + nbytes'
            BY <3>2
        <3>4. iov[1 + 1].iov_base = iov[1].iov_base + iov[1].iov_len
            BY <3>2
        <3> QED  BY <2>3, <3>3, <3>4, SMTT(30)
    <2>8. VectorOK'
        BY <1>1, <1>3, <2>5, <2>6, <2>7 DEF VectorOK
    <2> QED  BY <1>1, <1>3, <2>2, <2>3, <2>8 DEF FdOK, IdleOK, TransferOK, SendfileOK
<1>4. CASE cut
    <2>1. /\ iov # << >> /\ nbytes < iov[1].iov_len /\ pc' = "nwritev" /\ cur' = 1 /\ nbytes' = 0
          /\ iov' = [iov EXCEPT ![1] = [iov_base |-> iov[1].iov_base + nbytes,
                                        iov_len |-> iov[1].iov_len - nbytes]]
        BY <1>4 DEF cut
    <2>2. Len(iov) \in Nat \ {0} /\ 1 \in 1 .. Len(iov) /\ iov[1] \in Iovec
        BY <1>2, <2>1, EmptySeq, ElementOfSeq
    <2>3. iov[1].iov_len \in Nat /\ iov[1].iov_base \in Nat
        BY <2>2 DEF Iovec
    <2>4. PICK p \in Iovec : /\ p = [iov_base |-> iov[1].iov_base + nbytes,
                                     iov_len |-> iov[1].iov_len - nbytes]
                             /\ p.iov_base = iov[1].iov_base + nbytes
                             /\ p.iov_base + p.iov_len = iov[1].iov_base + iov[1].iov_len
        <3>0. iov[1].iov_base + nbytes \in Nat /\ iov[1].iov_len - nbytes \in Nat
              /\ iov[1].iov_base + nbytes + (iov[1].iov_len - nbytes) = iov[1].iov_base + iov[1].iov_len
            BY <1>2, <2>1, <2>3, SMTT(30)
        <3>1. PICK b, l \in Nat : b = iov[1].iov_base + nbytes /\ l = iov[1].iov_len - nbytes
                                  /\ b + l = iov[1].iov_base + iov[1].iov_len
            BY <3>0
        <3>2. [iov_base |-> b, iov_len |-> l] \in Iovec
            BY DEF Iovec
        <3> QED  BY <3>1, <3>2
    <2>5. iov' \in Seq(Iovec) /\ Len(iov') = Len(iov)
          /\ \A j \in 1 .. Len(iov) : iov'[j] = IF j = 1 THEN p ELSE iov[j]
        BY <1>2, <2>1, <2>2, <2>4, ExceptSeq
    <2>6. Chained'
        <3>1. ASSUME NEW i \in 1 .. Len(iov)
              PROVE  iov'[i].iov_base + iov'[i].iov_len = iov[i].iov_base + iov[i].iov_len
            BY <2>4, <2>5
        <3>2. ASSUME NEW i \in 1 .. Len(iov) - 1
              PROVE  iov'[i + 1].iov_base = iov'[i].iov_base + iov'[i].iov_len
            <4>1. i \in 1 .. Len(iov) /\ i + 1 \in 1 .. Len(iov) /\ i + 1 # 1
                BY <1>2
            <4> QED  BY <1>1, <2>5, <3>1, <4>1 DEF Chained
        <3>3. Len(iov) \in 1 .. Len(iov)
            BY <2>2
        <3> QED  BY <1>1, <2>1, <2>5, <3>1, <3>2, <3>3 DEF Chained
    <2>7. iov'[1].iov_base = Len(dst)
        BY <1>1, <2>1, <2>2, <2>4, <2>5
    <2>8. VectorOK'
        BY <1>1, <1>2, <2>1, <2>2, <2>5, <2>6, <2>7 DEF VectorOK
    <2> QED  BY <1>1, <2>1, <2>5, <2>8 DEF FdOK, IdleOK, TransferOK, SendfileOK
<1>5. CASE iov = << >> /\ ret' = total /\ pc' = "idle" /\ UNCHANGED vector
    <2>1. Place' = pos /\ Len(dst) = pos /\ ret' = pos - base
        BY <1>1, <1>2, <1>5 DEF Place
    <2>2. IdleOK'
        BY <1>1, <2>1 DEF IdleOK
    <2> QED  BY <1>1, <1>2, <1>5, <2>2 DEF vector, FdOK, TransferOK, SendfileOK, VectorOK
<1> QED  BY <1>3, <1>4, <1>5 DEF advance

(* Every step keeps the types and the pairing of loops and ways. *)
LEMMA FdTypesNext ==
    ASSUME FdInv, FdNext
    PROVE  FdTypes'
<1> USE DEF FdTypes
<1>0. FdTypes
    BY DEF FdInv
<1>1. CASE \E n \in Counts : transfer(n) \/ (n # 0 /\ call_nsendfile(n))
    <2>1. PICK n \in Counts : transfer(n) \/ (n # 0 /\ call_nsendfile(n))
        BY <1>1
    <2>2. n \in Nat /\ Limit \in Nat
        BY FdAssumption
    <2>3. Place \in Int /\ (way = "bsd_nsendfile" /\ offset # NULL => Place \in Nat)
        BY <1>0 DEF Place
    <2> QED
        BY <1>0, <2>1, <2>2, <2>3 DEF transfer, call_nsendfile, Call, vector
<1>2. CASE \E v \in Iovs : call_nwritev(v)
    <2>1. PICK v \in Iovs : call_nwritev(v)
        BY <1>2
    <2>2. way = "nwritev" /\ OffsetKept
        BY <2>1 DEF call_nwritev, OffsetKept
    <2>3. iov' \in Seq(Iovec) /\ pos' \in Nat /\ v[Len(v)] \in Nat
        BY <2>1, <2>2, FdCallVector
    <2>4. Place \in Int
        BY <1>0 DEF Place
    <2>5. Call("nwritev", v[Len(v)]) /\ nbytes' = 0
        BY <2>1 DEF call_nwritev
    <2> QED  BY <1>0, <2>2, <2>3, <2>4, <2>5 DEF Call
<1>3. CASE nread
    <2>1. way = "transfer" /\ UNCHANGED <<way, base, vector, dst, ncalls>> /\ ncalls > 0
        BY <1>0, <1>3 DEF nread
    <2>2. pc' \in {"nread", "nwrite", "idle"} /\ offset' \in Int /\ pos' \in Nat
          /\ total' \in Nat /\ count' \in Nat
        BY <1>0, <1>3 DEF nread, after_read, transfer_end, NULL
    <2> QED  BY <1>0, <2>1, <2>2 DEF vector
<1>4. CASE nwrite
    <2>1. way = "transfer" /\ UNCHANGED <<way, pos, count, base, vector, ncalls>> /\ ncalls > 0
        BY <1>0, <1>4 DEF nwrite
    <2>2. pc' \in {"nwrite", "idle"} /\ offset' \in Int /\ total' \in Nat
        BY <1>0, <1>4 DEF nwrite, transfer_end, NULL
    <2> QED  BY <1>0, <2>1, <2>2 DEF vector
<1>5. CASE writev
    <2>1. /\ UNCHANGED <<way, pos, offset, count, base, iov, ret, ncalls>> /\ pc = "nwritev"
          /\ pc' \in {"nwritev", "advance"} /\ nbytes' \in Nat /\ total' \in Nat
        BY <1>0, <1>5 DEF writev
    <2> QED  BY <1>0, <2>1
<1>6. CASE writev_fails
    BY <1>0, <1>6 DEF writev_fails, vector
<1>7. CASE advance
    <2>1. /\ way = "nwritev" /\ pc = "advance" /\ pc' \in {"nwritev", "advance", "idle"}
          /\ UNCHANGED <<way, errno, pos, offset, count, base, total, dst, ncalls>>
        BY <1>0, <1>7 DEF advance, cut
    <2>2. iov' \in Seq(Iovec) /\ nbytes' \in Nat
        BY <1>7, <2>1, FdAdvance DEF OffsetKept
    <2> QED  BY <1>0, <2>1, <2>2
<1>8. CASE bsd_nsendfile
    <2>1. way = "bsd_nsendfile" /\ UNCHANGED <<way, count, base, vector, ncalls>> /\ ncalls > 0
          /\ pc' \in {"bsd_nsendfile", "idle"}
        BY <1>0, <1>8 DEF bsd_nsendfile, bsd_end
    <2>2. PICK k \in 0 .. Least(count - total, SrcLen - (base + total)) :
            \/ total' = total + k /\ UNCHANGED <<offset, pos>>
            \/ total' = total + k /\ \E e : bsd_end(total + k, k, e)
            \/ total' = total /\ \E e : bsd_end(total, k, e)
        BY <1>8 DEF bsd_nsendfile
    <2>3. k \in Nat /\ total + k \in Nat
        BY <1>0
    <2>4. offset = NULL => base \in Nat
        BY <1>8, <2>1 DEF FdInv, FdOK, SendfileOK, OffsetKept, bsd_nsendfile
    <2>5. /\ total' \in Nat /\ pos' \in Nat /\ offset' \in Int
          /\ (offset' # NULL => offset' \in Nat /\ base \in Nat)
        BY <1>0, <2>1, <2>2, <2>3, <2>4 DEF bsd_end, NULL
    <2> QED  BY <1>0, <2>1, <2>5 DEF vector
<1>9. CASE nsendfile
    <2>1. way = "nsendfile" /\ UNCHANGED <<way, base, count, total, vector, ncalls>> /\ pc' = "idle"
        BY <1>0, <1>9 DEF nsendfile
    <2>2. pos' \in Nat /\ offset' \in Int
        BY <1>0, <1>9 DEF nsendfile, NULL
    <2> QED  BY <1>0, <2>1, <2>2 DEF vector
<1>10. CASE bsd_lseek_fails
    BY <1>0, <1>10 DEF bsd_lseek_fails, vector
<1> QED
    BY <1>1, <1>2, <1>3, <1>4, <1>5, <1>6, <1>7, <1>8, <1>9, <1>10 DEF FdNext

(* Every step keeps the invariant; an offset that bsd_nsendfile has moved is
   out of its reach. *)
LEMMA FdNextInv == FdInv /\ [FdNext]_fd_vars => FdInv'
<1> SUFFICES ASSUME FdInv, [FdNext]_fd_vars PROVE FdInv'
    OBVIOUS
<1>1. CASE FdNext
    <2>1. FdTypes'
        BY <1>1, FdTypesNext
    <2>2. ASSUME OffsetKept' PROVE FdOK'
        <3>1. OffsetKept
            BY <1>1, <2>2, KeptBackwards DEF FdInv
        <3>2. CASE writev_fails
            <4>1. /\ pc' = "idle" /\ errno' \in Errors /\ UNCHANGED <<dst, ncalls>>
                  /\ ncalls # 0 /\ InOrder(dst)
                BY <3>1, <3>2 DEF writev_fails, FdInv, FdTypes, FdOK
            <4> QED  BY <4>1 DEF Errors, FdOK, IdleOK, TransferOK, SendfileOK, VectorOK
        <3>3. CASE bsd_lseek_fails
            <4>1. /\ pc' = "idle" /\ errno' \in Errors /\ dst' = dst /\ ncalls' # 0
                  /\ InOrder(dst)
                BY <3>1, <3>3 DEF bsd_lseek_fails, FdInv, FdTypes, FdOK
            <4> QED  BY <4>1 DEF Errors, FdOK, IdleOK, TransferOK, SendfileOK, VectorOK
        <3> QED
            BY <1>1, <3>1, <3>2, <3>3, FdCall, FdCallVector, FdRead, FdWrite, FdSend, FdWritev, FdAdvance
            DEF FdNext
    <2> QED  BY <2>1, <2>2 DEF FdInv
<1>2. CASE UNCHANGED fd_vars
    BY <1>2
    DEF FdInv, FdTypes, OffsetKept, FdOK, IdleOK, TransferOK, SendfileOK, VectorOK, Chained, Place,
        fd_vars, vector
<1> QED  BY <1>1, <1>2

(* Nothing is written and the source stands at its beginning. *)
LEMMA FdInitInv == FdInit => FdInv
<1> SUFFICES ASSUME FdInit PROVE FdInv
    OBVIOUS
<1>1. /\ pc = "idle" /\ pos = 0 /\ base = 0 /\ count = 0 /\ total = 0 /\ nbytes = 0 /\ ncalls = 0
      /\ ret = 0 /\ offset \in {NULL, 0} /\ (way = "nwritev" => offset = NULL)
      /\ iov = << >> /\ dst = << >>
    BY DEF FdInit
<1>2. iov \in Seq(Iovec) /\ dst \in Seq(Nat) /\ Len(dst) = 0
    BY <1>1, EmptySeq
<1>3. FdTypes
    BY <1>1, <1>2 DEF FdTypes, NULL
<1>4. Place = 0
    BY <1>1 DEF Place
<1>5. FdOK
    BY <1>1, <1>2, <1>4 DEF FdOK, InOrder, IdleOK, TransferOK, SendfileOK, VectorOK
<1> QED  BY <1>3, <1>5 DEF FdInv

(* For every source, every limit and every vector: what reaches the other
   descriptor is the source in order, nothing twice and nothing left out. *)
THEOREM BytesInOrder == FdSpec => []WritesInOrder
<1>1. FdInv => WritesInOrder
    BY OrderIsSource DEF FdInv, FdOK, WritesInOrder
<1> QED  BY FdInitInv, FdNextInv, <1>1, PTL DEF FdSpec

(* A call that leaves errno clear has moved exactly what it took from the
   source, and says so. *)
THEOREM MovesExactly == FdSpec => []TransferExact
<1>1. FdInv => TransferExact
    BY DEF FdInv, FdOK, IdleOK, TransferExact
<1> QED  BY FdInitInv, FdNextInv, <1>1, PTL DEF FdSpec

-----------------------------------------------------------------------------
(* The probes *)

Reading == [ns : Int, cpu : Int, flt : Int]
Time == [tv_sec : Int, tv_nsec : 0 .. NsPerSec - 1]
Metrics == [tm : Time, ru : [ru_utime : Time, ru_minflt : Int]]
Probe == [start : Metrics, accum : Metrics]

-----------------------------------------------------------------------------
(* Time arithmetic *)

\* A sum of two times in normal form is in normal form, and is their sum.
LEMMA AddExact ==
    ASSUME NEW t \in Time, NEW u \in Time
    PROVE  /\ timespecadd(t, u) \in Time
           /\ Units(timespecadd(t, u)) = Units(t) + Units(u)
<1>1. NsPerSec \in Nat \ {0}
  BY PrfmAssumption
<1>2. /\ t.tv_sec \in Int /\ u.tv_sec \in Int
      /\ t.tv_nsec \in 0 .. NsPerSec - 1 /\ u.tv_nsec \in 0 .. NsPerSec - 1
  BY DEF Time
<1>3. (t.tv_sec + u.tv_sec + 1) * NsPerSec
        = t.tv_sec * NsPerSec + u.tv_sec * NsPerSec + NsPerSec
  BY <1>1, <1>2
<1>4. (t.tv_sec + u.tv_sec) * NsPerSec
        = t.tv_sec * NsPerSec + u.tv_sec * NsPerSec
  BY <1>1, <1>2
<1>5. CASE t.tv_nsec + u.tv_nsec >= NsPerSec
  BY <1>1, <1>2, <1>3, <1>5 DEF timespecadd, timespec, Units, Time
<1>6. CASE ~(t.tv_nsec + u.tv_nsec >= NsPerSec)
  BY <1>1, <1>2, <1>4, <1>6 DEF timespecadd, timespec, Units, Time
<1> QED
  BY <1>5, <1>6

\* Likewise for a difference, also when it borrows.
LEMMA SubExact ==
    ASSUME NEW t \in Time, NEW u \in Time
    PROVE  /\ timespecsub(t, u) \in Time
           /\ Units(timespecsub(t, u)) = Units(t) - Units(u)
<1>1. NsPerSec \in Nat \ {0}
  BY PrfmAssumption
<1>2. /\ t.tv_sec \in Int /\ u.tv_sec \in Int
      /\ t.tv_nsec \in 0 .. NsPerSec - 1 /\ u.tv_nsec \in 0 .. NsPerSec - 1
  BY DEF Time
<1>3. (t.tv_sec - u.tv_sec - 1) * NsPerSec
        = t.tv_sec * NsPerSec - u.tv_sec * NsPerSec - NsPerSec
  BY <1>1, <1>2
<1>4. (t.tv_sec - u.tv_sec) * NsPerSec
        = t.tv_sec * NsPerSec - u.tv_sec * NsPerSec
  BY <1>1, <1>2
<1>5. CASE t.tv_nsec - u.tv_nsec < 0
  BY <1>1, <1>2, <1>3, <1>5 DEF timespecsub, timespec, Units, Time
<1>6. CASE ~(t.tv_nsec - u.tv_nsec < 0)
  BY <1>1, <1>2, <1>4, <1>6 DEF timespecsub, timespec, Units, Time
<1> QED
  BY <1>5, <1>6

\* A reading of the clock is a time in normal form.
LEMMA ReadingExact ==
    ASSUME NEW n \in Int
    PROVE  clock_reading(n) \in Time /\ Units(clock_reading(n)) = n
<1>1. NsPerSec \in Nat \ {0}
  BY PrfmAssumption
<1>2. n \div NsPerSec \in Int
  BY <1>1
<1>3. n % NsPerSec \in 0 .. NsPerSec - 1
  BY <1>1
<1>4. (n \div NsPerSec) * NsPerSec + (n % NsPerSec) = n
  BY <1>1
<1> QED
  BY <1>2, <1>3, <1>4 DEF clock_reading, timespec, Units, Time

LEMMA ClearExact ==
    timespecclear \in Time /\ Units(timespecclear) = 0
  BY PrfmAssumption DEF timespecclear, timespec, Units, Time

LEMMA UnitsInt == ASSUME NEW t \in Time PROVE Units(t) \in Int
  BY PrfmAssumption DEF Units, Time

-----------------------------------------------------------------------------
(* What a probe's metrics stand for *)

Holds(m, r) ==
    /\ Units(m.tm) = r.ns
    /\ Units(m.ru.ru_utime) = r.cpu
    /\ m.ru.ru_minflt = r.flt

Zero == [ns |-> 0, cpu |-> 0, flt |-> 0]

LEMMA ClearedHoldsZero == cleared \in Metrics /\ Holds(cleared, Zero)
  BY ClearExact DEF cleared, metrics, rusage_clear, rusage, Metrics, Holds, Zero

LEMMA XinitProbe ==
    prfm_xinit \in Probe /\ Holds(prfm_xinit.start, Zero)
                         /\ Holds(prfm_xinit.accum, Zero)
  BY ClearedHoldsZero DEF prfm_xinit, Probe

LEMMA CaptureHolds ==
    ASSUME NEW r \in Reading
    PROVE  capture(r) \in Metrics /\ Holds(capture(r), r)
<1>1. r.ns \in Int /\ r.cpu \in Int /\ r.flt \in Int
  BY DEF Reading
<1>2. /\ clock_reading(r.ns) \in Time /\ Units(clock_reading(r.ns)) = r.ns
      /\ clock_reading(r.cpu) \in Time /\ Units(clock_reading(r.cpu)) = r.cpu
  BY <1>1, ReadingExact
<1> QED
  BY <1>1, <1>2 DEF capture, metrics, rusage, Metrics, Holds

LEMMA StartHolds ==
    ASSUME NEW p \in Probe, NEW t \in Reading
    PROVE  /\ prfm_start(p, t) \in Probe
           /\ Holds(prfm_start(p, t).start, t)
           /\ prfm_start(p, t).accum = p.accum
  BY CaptureHolds DEF prfm_start, Probe

\* A stop adds to the accumulated metrics the time since the start.
LEMMA StopHolds ==
    ASSUME NEW p \in Probe, NEW b \in Reading, NEW s \in Reading,
           NEW t \in Reading, Holds(p.start, b), Holds(p.accum, s)
    PROVE  /\ prfm_stop(p, t) \in Probe
           /\ prfm_stop(p, t).start = p.start
           /\ Holds(prfm_stop(p, t).accum, After(s, Between(b, t)))
<1> DEFINE c == capture(t)
           dt == timespecsub(c.tm, p.start.tm)
           du == timespecsub(c.ru.ru_utime, p.start.ru.ru_utime)
           at == timespecadd(dt, p.accum.tm)
           au == timespecadd(du, p.accum.ru.ru_utime)
           df == c.ru.ru_minflt - p.start.ru.ru_minflt
<1>1. /\ b.ns \in Int /\ b.cpu \in Int /\ b.flt \in Int
      /\ s.ns \in Int /\ s.cpu \in Int /\ s.flt \in Int
      /\ t.ns \in Int /\ t.cpu \in Int /\ t.flt \in Int
  BY DEF Reading
<1>2. c \in Metrics /\ Holds(c, t)
  BY CaptureHolds
<1>3. p.start \in Metrics /\ p.accum \in Metrics
  BY DEF Probe
<1>4. /\ c.tm \in Time /\ c.ru.ru_utime \in Time /\ c.ru.ru_minflt \in Int
      /\ p.start.tm \in Time /\ p.start.ru.ru_utime \in Time
      /\ p.accum.tm \in Time /\ p.accum.ru.ru_utime \in Time
      /\ p.start.ru.ru_minflt \in Int /\ p.accum.ru.ru_minflt \in Int
  BY <1>2, <1>3 DEF Metrics
<1> HIDE DEF c
<1>5. dt \in Time /\ Units(dt) = Units(c.tm) - Units(p.start.tm)
  BY <1>4, SubExact
<1>6. du \in Time /\ Units(du) = Units(c.ru.ru_utime) - Units(p.start.ru.ru_utime)
  BY <1>4, SubExact
<1> HIDE DEF dt, du
<1>7. at \in Time /\ Units(at) = Units(dt) + Units(p.accum.tm)
  BY <1>4, <1>5, AddExact
<1>8. au \in Time /\ Units(au) = Units(du) + Units(p.accum.ru.ru_utime)
  BY <1>4, <1>6, AddExact
<1>9. Units(at) = s.ns + (t.ns - b.ns)
  BY <1>1, <1>2, <1>5, <1>7 DEF Holds
<1>10. Units(au) = s.cpu + (t.cpu - b.cpu)
  BY <1>1, <1>2, <1>6, <1>8 DEF Holds
<1>11. df + p.accum.ru.ru_minflt = s.flt + (t.flt - b.flt)
  BY <1>1, <1>2, <1>4 DEF Holds
<1>12. prfm_stop(p, t) =
          [p EXCEPT !.accum = [tm |-> at,
              ru |-> [ru_utime |-> au, ru_minflt |-> df + p.accum.ru.ru_minflt]]]
  BY DEF prfm_stop, metrics, rusage_sub, rusage_add, rusage, c, dt, du
<1> HIDE DEF at, au, df
<1>13. [tm |-> at, ru |-> [ru_utime |-> au,
                           ru_minflt |-> df + p.accum.ru.ru_minflt]] \in Metrics
  BY <1>1, <1>7, <1>8, <1>11 DEF Metrics
<1>14. prfm_stop(p, t) \in Probe /\ prfm_stop(p, t).start = p.start
  BY <1>12, <1>13 DEF Probe
<1>15. prfm_stop(p, t).accum =
          [tm |-> at, ru |-> [ru_utime |-> au,
                              ru_minflt |-> df + p.accum.ru.ru_minflt]]
  BY <1>12 DEF Probe
<1> QED
  BY <1>9, <1>10, <1>11, <1>14, <1>15 DEF Holds, After, Between

-----------------------------------------------------------------------------
(* The inductive invariant *)

\* A probe's start holds the readings of its last start (until the probes are
\* reset), and its accumulated metrics what it was stopped for.
ProbesInv ==
    /\ now \in Reading
    /\ began \in [Probes -> Reading]
    /\ spent \in [Probes -> Reading]
    /\ perf \in [Probes -> Probe]
    /\ prfm_pc \notin {"probed", "exit"} => \A i \in Probes : Holds(perf[i].start, began[i])
    /\ \A i \in Probes : Holds(perf[i].accum, spent[i])

Leq(a, b) == a.ns <= b.ns /\ a.cpu <= b.cpu /\ a.flt <= b.flt

\* The parts lie one after the other since the whole began, up to r.
Covered(r) == Leq(After(began[0], After(spent[1], spent[2])), r)

SpansInv ==
    /\ prfm_pc = "init" => spent[1] = Zero /\ spent[2] = Zero
    /\ prfm_pc \notin {"dump", "probed", "exit"} => spent[0] = Zero
    /\ prfm_pc \in {"opening", "loop", "written", "closing"} => Covered(now)
    /\ prfm_pc = "writing" => Covered(began[1]) /\ Leq(began[1], now)
    /\ prfm_pc = "spin" => Covered(began[2]) /\ Leq(began[2], now)
    /\ prfm_pc = "dump" => Leq(After(spent[1], spent[2]), spent[0])

LEMMA ElapseReading ==
    ASSUME NEW r \in Reading, NEW t \in Elapse(r)
    PROVE  t \in Reading /\ Leq(r, t)
<1>1. PICK d \in Elapses : t = After(r, d)
  BY DEF Elapse
<1>2. d.ns \in Nat /\ d.cpu \in Nat /\ d.flt \in Nat
  BY PrfmAssumption
<1>3. r.ns \in Int /\ r.cpu \in Int /\ r.flt \in Int
  BY DEF Reading
<1> QED
  BY <1>1, <1>2, <1>3 DEF After, Reading, Leq

LEMMA StartsKeepsProbes ==
    ASSUME ProbesInv, prfm_pc \notin {"probed", "exit"},
           NEW i \in Probes, NEW t \in Reading, Starts(i, t)
    PROVE  ProbesInv'
<1> USE DEF ProbesInv
<1>1. /\ now' = t /\ spent' = spent
      /\ perf' = [perf EXCEPT ![i] = prfm_start(perf[i], t)]
      /\ began' = [began EXCEPT ![i] = t]
  BY DEF Starts
<1>2. /\ prfm_start(perf[i], t) \in Probe
      /\ Holds(prfm_start(perf[i], t).start, t)
      /\ prfm_start(perf[i], t).accum = perf[i].accum
  BY StartHolds
<1>3. perf' \in [Probes -> Probe] /\ began' \in [Probes -> Reading]
  BY <1>1, <1>2
<1>4. ASSUME NEW j \in Probes
      PROVE  Holds(perf'[j].start, began'[j]) /\ Holds(perf'[j].accum, spent'[j])
  <2>1. CASE j = i
    BY <1>1, <1>2, <2>1
  <2>2. CASE j # i
    BY <1>1, <2>2
  <2> QED
    BY <2>1, <2>2
<1> QED
  BY <1>1, <1>3, <1>4

LEMMA AfterBetweenReading ==
    ASSUME NEW s \in Reading, NEW b \in Reading, NEW t \in Reading
    PROVE  After(s, Between(b, t)) \in Reading
  BY DEF After, Between, Reading

LEMMA StopsKeepsProbes ==
    ASSUME ProbesInv, prfm_pc \notin {"probed", "exit"},
           NEW i \in Probes, NEW t \in Reading, Stops(i, t)
    PROVE  ProbesInv'
<1> USE DEF ProbesInv
<1>1. /\ now' = t /\ began' = began
      /\ perf' = [perf EXCEPT ![i] = prfm_stop(perf[i], t)]
      /\ spent' = [spent EXCEPT ![i] = After(spent[i], Between(began[i], t))]
  BY DEF Stops
<1>2. /\ prfm_stop(perf[i], t) \in Probe
      /\ prfm_stop(perf[i], t).start = perf[i].start
      /\ Holds(prfm_stop(perf[i], t).accum,
               After(spent[i], Between(began[i], t)))
  BY StopHolds
<1>3. perf' \in [Probes -> Probe] /\ spent' \in [Probes -> Reading]
  BY <1>1, <1>2, AfterBetweenReading
<1>4. ASSUME NEW j \in Probes
      PROVE  Holds(perf'[j].start, began'[j]) /\ Holds(perf'[j].accum, spent'[j])
  <2>1. CASE j = i
    BY <1>1, <1>2, <2>1
  <2>2. CASE j # i
    BY <1>1, <2>2
  <2> QED
    BY <2>1, <2>2
<1> QED
  BY <1>1, <1>3, <1>4

LEMMA ProbesInit == PrfmInit => ProbesInv
<1> SUFFICES ASSUME PrfmInit PROVE ProbesInv
  OBVIOUS
<1>1. /\ now = Zero /\ now \in Reading
      /\ began = [i \in Probes |-> now] /\ spent = [i \in Probes |-> Zero]
      /\ perf = [i \in Probes |-> prfm_xinit]
  BY DEF PrfmInit, Zero, Reading
<1> QED
  BY <1>1, XinitProbe DEF ProbesInv

LEMMA ProbesNext == ProbesInv /\ [PrfmNext]_prfm_vars => ProbesInv'
<1> SUFFICES ASSUME ProbesInv, [PrfmNext]_prfm_vars
             PROVE  ProbesInv'
  OBVIOUS
<1>0. now \in Reading /\ 0 \in Probes /\ 1 \in Probes /\ 2 \in Probes
  BY DEF ProbesInv, Probes
<1>s. ASSUME UNCHANGED <<perf, now, began, spent>>,
             prfm_pc \notin {"probed", "exit"} \/ prfm_pc' = prfm_pc
      PROVE  ProbesInv'
  BY <1>s DEF ProbesInv
<1>1. CASE test_write
  BY <1>0, <1>1, ElapseReading, StartsKeepsProbes DEF test_write
<1>2. CASE open_file
  BY <1>2, <1>s DEF open_file
<1>3. CASE begin_write
  BY <1>0, <1>3, <1>s, ElapseReading, StartsKeepsProbes DEF begin_write
<1>4. CASE end_write
  BY <1>0, <1>4, <1>s, ElapseReading, StopsKeepsProbes DEF end_write
<1>5. CASE begin_spin
  BY <1>0, <1>5, ElapseReading, StartsKeepsProbes DEF begin_spin
<1>6. CASE end_spin
  BY <1>0, <1>6, ElapseReading, StopsKeepsProbes DEF end_spin
<1>7. CASE end_test
  BY <1>0, <1>7, ElapseReading, StopsKeepsProbes DEF end_test
<1>8. CASE probe_process
  <2>1. PICK t \in Elapse(now) :
          /\ now' = t
          /\ perf' = [i \in Probes |-> IF i = 3 THEN prfm_probe(prfm_xinit, t)
                                                ELSE prfm_xinit]
    BY <1>8 DEF probe_process
  <2>2. /\ prfm_pc' = "probed" /\ began' = began
        /\ spent' = [i \in Probes |-> IF i = 3 THEN [now' EXCEPT !.ns = 0] ELSE Zero]
    BY <1>8 DEF probe_process, Zero
  <2>3. t \in Reading
    BY <1>0, ElapseReading
  <2>4. capture(t) \in Metrics /\ Holds(capture(t), t)
    BY <2>3, CaptureHolds
  <2>5. [capture(t) EXCEPT !.tm = timespecclear] \in Metrics
    BY <2>4, ClearExact DEF Metrics
  <2>6. Holds([capture(t) EXCEPT !.tm = timespecclear], [t EXCEPT !.ns = 0])
    BY <2>3, <2>4, ClearExact DEF Holds, Metrics, Reading
  <2>7. prfm_probe(prfm_xinit, t) \in Probe
        /\ prfm_probe(prfm_xinit, t).accum = [capture(t) EXCEPT !.tm = timespecclear]
    BY <2>5, XinitProbe DEF prfm_probe, Probe
  <2>8. [t EXCEPT !.ns = 0] \in Reading /\ Zero \in Reading
    BY <2>3 DEF Reading, Zero
  <2>9. spent' \in [Probes -> Reading] /\ perf' \in [Probes -> Probe]
    BY <2>1, <2>2, <2>7, <2>8, XinitProbe
  <2>10. ASSUME NEW j \in Probes
         PROVE  Holds(perf'[j].accum, spent'[j])
    BY <2>1, <2>2, <2>6, <2>7, XinitProbe
  <2> QED
    BY <2>1, <2>2, <2>3, <2>9, <2>10 DEF ProbesInv
<1>9. CASE prfm_destroy
  <2>1. /\ prfm_pc' = "exit" /\ now' = now /\ began' = began
        /\ perf' = [perf EXCEPT ![3] = prfm_xinit]
        /\ spent' = [spent EXCEPT ![3] = Zero]
    BY <1>9 DEF prfm_destroy, Zero
  <2>2. Zero \in Reading
    BY DEF Reading, Zero
  <2>3. spent' \in [Probes -> Reading] /\ perf' \in [Probes -> Probe]
    BY <2>1, <2>2, XinitProbe DEF ProbesInv
  <2>4. ASSUME NEW j \in Probes
        PROVE  Holds(perf'[j].accum, spent'[j])
    BY <2>1, XinitProbe DEF ProbesInv
  <2> QED
    BY <2>1, <2>3, <2>4 DEF ProbesInv
<1>10. CASE UNCHANGED prfm_vars
  BY <1>10 DEF ProbesInv, prfm_vars
<1> QED
  BY <1>1, <1>2, <1>3, <1>4, <1>5, <1>6, <1>7, <1>8, <1>9, <1>10 DEF PrfmNext

LEMMA ProbesInvAccumExact == ProbesInv => AccumExact
<1> SUFFICES ASSUME ProbesInv, NEW i \in Probes
             PROVE  LET a == perf[i].accum
                    IN  /\ Normal(a.tm) /\ Normal(a.ru.ru_utime)
                        /\ Units(a.tm) = spent[i].ns
                        /\ Units(a.ru.ru_utime) = spent[i].cpu
                        /\ a.ru.ru_minflt = spent[i].flt
  BY DEF AccumExact
<1>1. perf[i].accum \in Metrics /\ Holds(perf[i].accum, spent[i])
  BY DEF ProbesInv, Probe
<1>2. perf[i].accum.tm \in Time /\ perf[i].accum.ru.ru_utime \in Time
  BY <1>1 DEF Metrics
<1> QED
  BY <1>1, <1>2 DEF Holds, Normal, Time

\* Whatever the length of a second, the advances of the clocks and the number
\* of iterations, a probe of src/prof/prfm.c holds exactly the sum of its
\* stopped intervals, in normal form.
THEOREM AccumCorrect == PrfmSpec => []AccumExact
<1> QED
  BY ProbesInit, ProbesNext, ProbesInvAccumExact, PTL DEF PrfmSpec

-----------------------------------------------------------------------------
(* The whole covers its parts *)

LEMMA SpansInit == PrfmInit => SpansInv
  BY DEF PrfmInit, SpansInv, Zero, Probes

\* A part that is stopped at t ends no later than t.
LEMMA CoveredStop ==
    ASSUME NEW b0 \in Reading, NEW s1 \in Reading, NEW s2 \in Reading,
           NEW b \in Reading, NEW t \in Reading,
           Leq(After(b0, After(s1, s2)), b)
    PROVE  /\ Leq(After(b0, After(After(s1, Between(b, t)), s2)), t)
           /\ Leq(After(b0, After(s1, After(s2, Between(b, t)))), t)
           /\ Leq(After(s1, s2), After(Zero, Between(b0, b)))
  BY DEF Reading, Leq, After, Between, Zero

LEMMA LeqTrans ==
    ASSUME NEW a \in Reading, NEW b \in Reading, NEW c \in Reading,
           Leq(a, b), Leq(b, c)
    PROVE  Leq(a, c)
  BY DEF Reading, Leq

LEMMA AfterReading ==
    ASSUME NEW a \in Reading, NEW b \in Reading
    PROVE  After(a, b) \in Reading
  BY DEF Reading, After

LEMMA SpansNext == ProbesInv /\ SpansInv /\ [PrfmNext]_prfm_vars => SpansInv'
<1> SUFFICES ASSUME ProbesInv, SpansInv, [PrfmNext]_prfm_vars
             PROVE  SpansInv'
  OBVIOUS
<1>0. /\ now \in Reading
      /\ began \in [Probes -> Reading] /\ spent \in [Probes -> Reading]
      /\ began[0] \in Reading /\ began[1] \in Reading /\ began[2] \in Reading
      /\ spent[0] \in Reading /\ spent[1] \in Reading /\ spent[2] \in Reading
      /\ 0 \in Probes /\ 1 \in Probes /\ 2 \in Probes
  BY DEF ProbesInv, Probes
<1>sum. After(began[0], After(spent[1], spent[2])) \in Reading
  BY <1>0, AfterReading
<1>1. CASE test_write
  <2>1. PICK t \in Elapse(now) : Starts(0, t)
    BY <1>1 DEF test_write
  <2>2. t \in Reading
    BY <1>0, ElapseReading
  <2>3. /\ prfm_pc = "init" /\ prfm_pc' = "opening"
        /\ spent' = spent /\ now' = t /\ began'[0] = t
    BY <1>0, <1>1, <2>1 DEF test_write, Starts
  <2>4. spent[0] = Zero /\ spent[1] = Zero /\ spent[2] = Zero
    BY <2>3 DEF SpansInv
  <2>5. Leq(After(t, After(Zero, Zero)), t)
    BY <2>2 DEF Reading, Leq, After, Zero
  <2> QED
    BY <2>3, <2>4, <2>5 DEF SpansInv, Covered
<1>2. CASE open_file
  BY <1>2 DEF open_file, SpansInv, Covered
<1>3. CASE begin_write
  <2>1. CASE prfm_pc' = "closing" /\ UNCHANGED <<perf, now, began, spent>>
    BY <1>3, <2>1 DEF begin_write, SpansInv, Covered
  <2>2. CASE prfm_pc' = "writing" /\ \E t \in Elapse(now) : Starts(1, t)
    <3>1. PICK t \in Elapse(now) : Starts(1, t)
      BY <2>2
    <3>2. t \in Reading /\ Leq(now, t)
      BY <1>0, ElapseReading
    <3>3. /\ prfm_pc = "loop" /\ spent' = spent /\ now' = t
          /\ began'[0] = began[0] /\ began'[1] = t
      BY <1>0, <1>3, <3>1 DEF begin_write, Starts
    <3>4. Leq(After(began[0], After(spent[1], spent[2])), t)
      BY <1>0, <1>sum, <3>2, <3>3, LeqTrans DEF SpansInv, Covered
    <3>5. Leq(t, t)
      BY <3>2 DEF Reading, Leq
    <3> QED
      BY <2>2, <3>3, <3>4, <3>5 DEF SpansInv, Covered
  <2> QED
    BY <1>3, <2>1, <2>2 DEF begin_write
<1>4. CASE end_write
  <2>1. CASE prfm_pc' = "written" /\ \E t \in Elapse(now) : Stops(1, t)
    <3>1. PICK t \in Elapse(now) : Stops(1, t)
      BY <2>1
    <3>2. t \in Reading
      BY <1>0, ElapseReading
    <3>3. /\ prfm_pc = "writing" /\ began' = began /\ now' = t
          /\ spent'[1] = After(spent[1], Between(began[1], t))
          /\ spent'[0] = spent[0] /\ spent'[2] = spent[2]
      BY <1>0, <1>4, <3>1 DEF end_write, Stops
    <3>4. Leq(After(began[0], After(After(spent[1], Between(began[1], t)),
                                    spent[2])), t)
      BY <1>0, <3>2, <3>3, CoveredStop DEF SpansInv, Covered
    <3> QED
      BY <2>1, <3>3, <3>4 DEF SpansInv, Covered
  <2>2. CASE prfm_pc' = "closing" /\ UNCHANGED <<perf, now, began, spent>>
    <3>1. prfm_pc = "writing"
      BY <1>4 DEF end_write
    <3>2. Leq(After(began[0], After(spent[1], spent[2])), now)
      BY <1>0, <1>sum, <3>1, LeqTrans DEF SpansInv, Covered
    <3> QED
      BY <2>2, <3>1, <3>2 DEF SpansInv, Covered
  <2> QED
    BY <1>4, <2>1, <2>2 DEF end_write
<1>5. CASE begin_spin
  <2>1. PICK t \in Elapse(now) : Starts(2, t)
    BY <1>5 DEF begin_spin
  <2>2. t \in Reading /\ Leq(now, t)
    BY <1>0, ElapseReading
  <2>3. /\ prfm_pc = "written" /\ prfm_pc' = "spin" /\ spent' = spent
        /\ now' = t /\ began'[0] = began[0] /\ began'[2] = t
    BY <1>0, <1>5, <2>1 DEF begin_spin, Starts
  <2>4. Leq(After(began[0], After(spent[1], spent[2])), t)
    BY <1>0, <1>sum, <2>2, <2>3, LeqTrans DEF SpansInv, Covered
  <2>5. Leq(t, t)
    BY <2>2 DEF Reading, Leq
  <2> QED
    BY <2>3, <2>4, <2>5 DEF SpansInv, Covered
<1>6. CASE end_spin
  <2>1. PICK t \in Elapse(now) : Stops(2, t)
    BY <1>6 DEF end_spin
  <2>2. t \in Reading
    BY <1>0, ElapseReading
  <2>3. /\ prfm_pc = "spin" /\ prfm_pc' = "loop" /\ began' = began /\ now' = t
        /\ spent'[2] = After(spent[2], Between(began[2], t))
        /\ spent'[0] = spent[0] /\ spent'[1] = spent[1]
    BY <1>0, <1>6, <2>1 DEF end_spin, Stops
  <2>4. Leq(After(began[0], After(spent[1],
                                  After(spent[2], Between(began[2], t)))), t)
    BY <1>0, <2>2, <2>3, CoveredStop DEF SpansInv, Covered
  <2> QED
    BY <2>3, <2>4 DEF SpansInv, Covered
<1>7. CASE end_test
  <2>1. PICK t \in Elapse(now) : Stops(0, t)
    BY <1>7 DEF end_test
  <2>2. t \in Reading /\ Leq(now, t)
    BY <1>0, ElapseReading
  <2>3. /\ prfm_pc = "closing" /\ prfm_pc' = "dump"
        /\ spent'[0] = After(spent[0], Between(began[0], t))
        /\ spent'[1] = spent[1] /\ spent'[2] = spent[2]
    BY <1>0, <1>7, <2>1 DEF end_test, Stops
  <2>4. spent[0] = Zero
    BY <2>3 DEF SpansInv
  <2>5. Leq(After(began[0], After(spent[1], spent[2])), t)
    BY <1>0, <1>sum, <2>2, <2>3, LeqTrans DEF SpansInv, Covered
  <2>6. Leq(After(spent[1], spent[2]), After(Zero, Between(began[0], t)))
    BY <1>0, <2>2, <2>5, CoveredStop
  <2> QED
    BY <2>3, <2>4, <2>6 DEF SpansInv
<1>8. CASE probe_process
  BY <1>8 DEF probe_process, SpansInv
<1>9. CASE prfm_destroy
  BY <1>9 DEF prfm_destroy, SpansInv
<1>10. CASE UNCHANGED prfm_vars
  BY <1>10 DEF SpansInv, Covered, prfm_vars
<1> QED
  BY <1>1, <1>2, <1>3, <1>4, <1>5, <1>6, <1>7, <1>8, <1>9, <1>10 DEF PrfmNext

LEMMA SpansInvWhole == ProbesInv /\ SpansInv => WholeCoversParts
<1> SUFFICES ASSUME ProbesInv, SpansInv, prfm_pc = "dump"
             PROVE  LET part(i) == perf[i].accum
                        sum == timespecadd(part(1).tm, part(2).tm)
                        ru == rusage_add(part(1).ru, part(2).ru)
                    IN  /\ Units(part(0).tm) >= Units(sum)
                        /\ Units(part(0).ru.ru_utime) >= Units(ru.ru_utime)
                        /\ part(0).ru.ru_minflt >= ru.ru_minflt
  BY DEF WholeCoversParts
<1>1. Leq(After(spent[1], spent[2]), spent[0])
  BY DEF SpansInv
<1>2. ASSUME NEW i \in {0, 1, 2}
      PROVE  /\ spent[i] \in Reading /\ perf[i].accum \in Metrics
             /\ Holds(perf[i].accum, spent[i])
  BY DEF ProbesInv, Probe, Probes
<1>3. ASSUME NEW i \in {0, 1, 2}
      PROVE  /\ perf[i].accum.tm \in Time /\ perf[i].accum.ru.ru_utime \in Time
             /\ Units(perf[i].accum.tm) = spent[i].ns /\ spent[i].ns \in Int
             /\ Units(perf[i].accum.ru.ru_utime) = spent[i].cpu /\ spent[i].cpu \in Int
             /\ perf[i].accum.ru.ru_minflt = spent[i].flt /\ spent[i].flt \in Int
  BY <1>2 DEF Metrics, Holds, Reading
<1>4. Units(timespecadd(perf[1].accum.tm, perf[2].accum.tm))
        = spent[1].ns + spent[2].ns
  BY <1>3, AddExact
<1>5. Units(timespecadd(perf[1].accum.ru.ru_utime, perf[2].accum.ru.ru_utime))
        = spent[1].cpu + spent[2].cpu
  BY <1>3, AddExact
<1>6. /\ spent[1].ns + spent[2].ns <= spent[0].ns
      /\ spent[1].cpu + spent[2].cpu <= spent[0].cpu
      /\ spent[1].flt + spent[2].flt <= spent[0].flt
  BY <1>1 DEF Leq, After
<1> QED
  BY <1>3, <1>4, <1>5, <1>6 DEF rusage_add, rusage

\* When test_write of src/prof/prfm_test.c prints its statistics, the probe
\* around the whole has at least the time and resources of the probes within.
THEOREM WholeCorrect == PrfmSpec => []WholeCoversParts
<1> QED
  BY ProbesInit, ProbesNext, SpansInit, SpansNext, SpansInvWhole, PTL DEF PrfmSpec

=============================================================================
