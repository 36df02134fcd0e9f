------------------------------- MODULE Crc32 -------------------------------
(***************************************************************************)
(* The CRC routines of src/crc32.intel: the table-driven crc32 and crc32c  *)
(* of crc32.c, the crc32c_hw of cpu_feature.c, cpu_feature2.c, cpu_fi.c    *)
(* and ucrc32hw.c, the CPU test that guards it, and the programs           *)
(* test_cpuf.c, test_cpuf_i.c and ucrc32hw.c that run both on a buffer.    *)
(*                                                                         *)
(* A 32-bit word is the set of its bits that are 1, a byte a subset of     *)
(* 0 .. 7, exclusive or the symmetric difference.  A lookup table is given *)
(* by its entries at the powers of two, as in the source; entry i of each  *)
(* table of the source is the exclusive or of those for the bits of i.     *)
(***************************************************************************)
EXTENDS Integers, Sequences, FiniteSetsExt, SequencesExt

CONSTANTS CrcLengths,     \* the lengths of the buffers
          LongSize        \* sizeof(unsigned long): 8 or 4

ASSUME CrcAssumption == CrcLengths \subseteq Nat \ {0} /\ LongSize \in {4, 8}

Byte == SUBSET (0 .. 7)

\* The word of two halves of 16 bits.
Word(h) ==
    {b \in 0 .. 31 : (IF b < 16 THEN h[2] \div 2^b
                                ELSE h[1] \div 2^(b - 16)) % 2 = 1}

Ones == 0 .. 31
Shr(w, n) == {b - n : b \in {c \in w : c >= n}}
Shl(w, n) == {b + n : b \in w}
LowByte(w) == w \cap (0 .. 7)

\* The table with these entries at 1, 2, 4 .. 128.
Table(powers) ==
    LET entry == [i \in 0 .. 7 |-> Word(powers[i + 1])]
    IN  [byte \in Byte |-> FoldFunctionOnSet(SymDiff, {}, entry, byte)]

-----------------------------------------------------------------------------
(* The tables *)

crc32_table == Table(<<
    <<\h7707, \h3096>>, <<\hee0e, \h612c>>, <<\h076d, \hc419>>,
    <<\h0edb, \h8832>>, <<\h1db7, \h1064>>, <<\h3b6e, \h20c8>>,
    <<\h76dc, \h4190>>, <<\hedb8, \h8320>>>>)

crc32c_table == Table(<<
    <<\hf26b, \h8303>>, <<\he13b, \h70f7>>, <<\hc79a, \h971f>>,
    <<\h8ad9, \h58cf>>, <<\h105e, \hc76f>>, <<\h20bd, \h8ede>>,
    <<\h417b, \h1dbc>>, <<\h82f6, \h3b78>>>>)

sctp_crc_tableil8_o32 == Table(<<
    <<\hf26b, \h8303>>, <<\he13b, \h70f7>>, <<\hc79a, \h971f>>,
    <<\h8ad9, \h58cf>>, <<\h105e, \hc76f>>, <<\h20bd, \h8ede>>,
    <<\h417b, \h1dbc>>, <<\h82f6, \h3b78>>>>)

sctp_crc_tableil8_o40 == Table(<<
    <<\h13a2, \h9877>>, <<\h2745, \h30ee>>, <<\h4e8a, \h61dc>>,
    <<\h9d14, \hc3b8>>, <<\h3fc5, \hf181>>, <<\h7f8b, \he302>>,
    <<\hff17, \hc604>>, <<\hfbc3, \hfaf9>>>>)

sctp_crc_tableil8_o48 == Table(<<
    <<\ha541, \h927e>>, <<\h4f6f, \h520d>>, <<\h9ede, \ha41a>>,
    <<\h3851, \h3ec5>>, <<\h70a2, \h7d8a>>, <<\he144, \hfb14>>,
    <<\hc765, \h80d9>>, <<\h8b27, \h7743>>>>)

sctp_crc_tableil8_o56 == Table(<<
    <<\hdd45, \haab8>>, <<\hbf67, \h2381>>, <<\h7b22, \h31f3>>,
    <<\hf644, \h63e6>>, <<\he964, \hb13d>>, <<\hd725, \h148b>>,
    <<\haba6, \h5fe7>>, <<\h52a0, \hc93f>>>>)

sctp_crc_tableil8_o64 == Table(<<
    <<\h3811, \h6fac>>, <<\h7022, \hdf58>>, <<\he045, \hbeb0>>,
    <<\hc567, \h0b91>>, <<\h8f22, \h61d3>>, <<\h1ba8, \hb557>>,
    <<\h3751, \h6aae>>, <<\h6ea2, \hd55c>>>>)

sctp_crc_tableil8_o72 == Table(<<
    <<\hef30, \h6b19>>, <<\hdb8c, \ha0c3>>, <<\hb2f5, \h3777>>,
    <<\h6006, \h181f>>, <<\hc00c, \h303e>>, <<\h85f4, \h168d>>,
    <<\h0e04, \h5beb>>, <<\h1c08, \hb7d6>>>>)

sctp_crc_tableil8_o80 == Table(<<
    <<\h6803, \h2cc8>>, <<\hd006, \h5990>>, <<\ha5e0, \hc5d1>>,
    <<\h4e2d, \hfd53>>, <<\h9c5b, \hfaa6>>, <<\h3d5b, \h83bd>>,
    <<\h7ab7, \h077a>>, <<\hf56e, \h0ef4>>>>)

sctp_crc_tableil8_o88 == Table(<<
    <<\h493c, \h7d27>>, <<\h9278, \hfa4e>>, <<\h211d, \h826d>>,
    <<\h423b, \h04da>>, <<\h8476, \h09b4>>, <<\h0d00, \h6599>>,
    <<\h1a00, \hcb32>>, <<\h3401, \h9664>>>>)

-----------------------------------------------------------------------------
(* The software routines *)

\* One byte, through a table.
update(table, crc, byte) ==
    SymDiff(table[LowByte(SymDiff(crc, byte))], Shr(crc, 8))

crc32(buf) ==
    LET step(crc, byte) == update(crc32_table, crc, byte)
    IN  SymDiff(FoldLeft(step, Ones, buf), Ones)

singletable_crc32c(crc, buf) ==
    LET step(c, byte) == update(crc32c_table, c, byte)
    IN  FoldLeft(step, crc, buf)

\* Mutant: two of the tables are swapped.
slice8_swapped(crc, b) ==
    LET w == SymDiff(crc, UNION {Shl(b[i], 8 * (i - 1)) : i \in 1 .. 4})
        terms == << sctp_crc_tableil8_o88[LowByte(w)],
                    sctp_crc_tableil8_o80[LowByte(Shr(w, 8))],
                    sctp_crc_tableil8_o72[LowByte(Shr(w, 16))],
                    sctp_crc_tableil8_o64[LowByte(Shr(w, 24))],
                    sctp_crc_tableil8_o56[b[5]], sctp_crc_tableil8_o40[b[6]],
                    sctp_crc_tableil8_o48[b[7]], sctp_crc_tableil8_o32[b[8]] >>
    IN  FoldLeft(SymDiff, {}, terms)

\* Eight bytes at once: the first four are loaded as a word onto the crc.
slice8(crc, b) ==
    LET w == SymDiff(crc, UNION {Shl(b[i], 8 * (i - 1)) : i \in 1 .. 4})
        terms == << sctp_crc_tableil8_o88[LowByte(w)],
                    sctp_crc_tableil8_o80[LowByte(Shr(w, 8))],
                    sctp_crc_tableil8_o72[LowByte(Shr(w, 16))],
                    sctp_crc_tableil8_o64[LowByte(Shr(w, 24))],
                    sctp_crc_tableil8_o56[b[5]], sctp_crc_tableil8_o48[b[6]],
                    sctp_crc_tableil8_o40[b[7]], sctp_crc_tableil8_o32[b[8]] >>
    IN  FoldLeft(SymDiff, {}, terms)

\* The n-th group of size bytes after the first skip bytes.
Group(buf, skip, size, n) ==
    SubSeq(buf, skip + size * (n - 1) + 1, skip + size * n)

\* Up to the first word boundary byte by byte, then eight by eight, then the
\* bytes that are left.
crc32c_sb8_64_bit(crc, buf, init_bytes) ==
    LET groups == (Len(buf) - init_bytes) \div 8
        byte(c, b) == update(sctp_crc_tableil8_o32, c, b)
        group(c, n) == slice8(c, Group(buf, init_bytes, 8, n))
        head == FoldLeft(byte, crc, SubSeq(buf, 1, init_bytes))
        body == FoldLeft(group, head, [n \in 1 .. groups |-> n])
    IN  FoldLeft(byte, body,
                 SubSeq(buf, init_bytes + 8 * groups + 1, Len(buf)))

\* Mutant: an aligned buffer is not told from one a byte before the boundary.
to_even_word_short(addr) == 3 - (addr % 4)

\* A word boundary is at most four bytes ahead, and never none.
to_even_word(addr) == 4 - (addr % 4)

multitable_crc32c(crc, buf, addr) ==
    IF buf = << >> THEN crc ELSE crc32c_sb8_64_bit(crc, buf, to_even_word(addr))

crc32c(crc, buf, addr) ==
    IF Len(buf) < 4 THEN singletable_crc32c(crc, buf)
                    ELSE multitable_crc32c(crc, buf, addr)

\* Where crc32c loads words of four bytes: the first and the end of each.
WordLoads(buf, addr) ==
    LET init == to_even_word(addr)
    IN  IF Len(buf) < 4 THEN {}
        ELSE {<<addr + init + 4 * k, init + 4 * k + 4>> :
                k \in 0 .. 2 * ((Len(buf) - init) \div 8) - 1}

-----------------------------------------------------------------------------
(* The remainder itself, a bit at a time *)

\* Division by the polynomial poly, highest-order term in bit 0; the bits of a
\* byte come lowest first.
Remainder(poly, crc, data) ==
    LET bit(k) == (k - 1) % 8 \in data[(k - 1) \div 8 + 1]
        shifted(c, one) ==
            IF (0 \in c) # one THEN SymDiff(Shr(c, 1), poly) ELSE Shr(c, 1)
        after[k \in 0 .. 8 * Len(data)] ==
            IF k = 0 THEN crc ELSE shifted(after[k - 1], bit(k))
    IN  after[8 * Len(data)]

\* X^32+X^26+X^23+X^22+X^16+X^12+X^11+X^10+X^8+X^7+X^5+X^4+X^2+X^1+X^0.
Crc32Poly ==
    {31 - e : e \in {26, 23, 22, 16, 12, 11, 10, 8, 7, 5, 4, 2, 1, 0}}

\* 0x1EDC6F41, reversed.
Crc32cPoly == {31 - e : e \in Word(<<\h1edc, \h6f41>>)}

\* The crc32 instruction of SSE 4.2 on one operand.
crc32_instr(crc, operand) == Remainder(Crc32cPoly, crc, operand)

\* Word by word, then the remaining bytes one by one.
crc32c_hw(crc, buf) ==
    LET nwords == Len(buf) \div LongSize
        word(c, n) == crc32_instr(c, Group(buf, 0, LongSize, n))
        byte(c, b) == crc32_instr(c, <<b>>)
    IN  FoldLeft(byte, FoldLeft(word, crc, [n \in 1 .. nwords |-> n]),
                 SubSeq(buf, nwords * LongSize + 1, Len(buf)))

-----------------------------------------------------------------------------
(* The programs *)

VARIABLES prog,      \* "test_cpuf", "test_cpuf_i" or "ucrc32hw"
          cpu,       \* what the processor can do
          crc_pc,
          buf,       \* the buffer, its address modulo 8 and the first crc
          hw, sw     \* the results of the two routines

crc_vars == <<prog, cpu, crc_pc, buf, hw, sw>>

NoBuf == [data |-> << >>, addr |-> 0, crc |-> {}]

\* AC and ID: the bits of the flag register that can be toggled.
CrcInit ==
    /\ prog \in {"test_cpuf", "test_cpuf_i", "ucrc32hw"}
    /\ cpu \in [AC : BOOLEAN, ID : BOOLEAN, sse42 : BOOLEAN]
    /\ cpu.ID => cpu.AC
    /\ cpu.sse42 => cpu.ID
    /\ crc_pc = "check"
    /\ buf = NoBuf
    /\ hw = {} /\ sw = {}

can_cpuid == cpu.AC /\ cpu.ID

\* Mutant: an error counts as a yes.
cpu_has_unless_no == IF can_cpuid /\ ~cpu.sse42 THEN 0 ELSE 1

\* The answer for SSE 4.2: an error, 0 or 1.
cpu_has ==
    IF ~cpu.AC THEN -10
    ELSE IF ~can_cpuid THEN -11
    ELSE IF cpu.sse42 THEN 1 ELSE 0

sse42_enabled_cpu == IF can_cpuid /\ cpu.sse42 THEN 1 ELSE 0

\* Whether the program goes on to the hardware routine.
hw_allowed ==
    CASE prog = "test_cpuf" -> cpu_has = 1
      [] prog = "test_cpuf_i" -> sse42_enabled_cpu # 0
      [] prog = "ucrc32hw" -> TRUE

check_cpu ==
    /\ crc_pc = "check"
    /\ crc_pc' = IF hw_allowed THEN "buffer" ELSE "exit"
    /\ UNCHANGED <<prog, cpu, buf, hw, sw>>

\* Buffers that tell affine functions of the data and the crc apart: all
\* zeros, and one bit set in the one or in the other.
Buffers(len) ==
    LET zeros == [i \in 1 .. len |-> {}]
        bit(p) == [zeros EXCEPT ![p[1]] = {p[2]}]
        bits == {bit(p) : p \in (1 .. len) \X (0 .. 7)}
    IN  {<<zeros, {}>>} \cup (bits \X {{}}) \cup ({zeros} \X {{b} : b \in Ones})

\* malloc, which may fail, and the loop that fills the buffer; any address and
\* first crc stand for the other callers of the routines.
make_buffer ==
    /\ crc_pc = "buffer"
    /\ \/ /\ \E len \in CrcLengths : \E b \in Buffers(len), a \in 0 .. 3 :
               buf' = [data |-> b[1], addr |-> a, crc |-> b[2]]
          /\ crc_pc' = "hw"
       \/ crc_pc' = "exit" /\ UNCHANGED buf
    /\ UNCHANGED <<prog, cpu, hw, sw>>

run_hw ==
    /\ crc_pc = "hw"
    /\ IF cpu.sse42
       THEN hw' = crc32c_hw(buf.crc, buf.data) /\ crc_pc' = "sw"
       ELSE crc_pc' = "sigill" /\ UNCHANGED hw
    /\ UNCHANGED <<prog, cpu, buf, sw>>

run_sw ==
    /\ crc_pc = "sw"
    /\ sw' = crc32c(buf.crc, buf.data, buf.addr)
    /\ crc_pc' = "exit"
    /\ UNCHANGED <<prog, cpu, buf, hw>>

CrcNext == check_cpu \/ make_buffer \/ run_hw \/ run_sw

CrcSpec == CrcInit /\ [][CrcNext]_crc_vars

-----------------------------------------------------------------------------
(* Properties *)

\* The tables and the slicing compute the remainder: crc32c, which treats the
\* bytes up to a word boundary, the groups of eight and the rest apart, agrees
\* with crc32c_hw and with the division for every length, address and first
\* crc, and so does crc32 for its own polynomial.
CrcIsRemainder ==
    (crc_pc = "exit" /\ buf # NoBuf) =>
        /\ sw = hw
        /\ sw = Remainder(Crc32cPoly, buf.crc, buf.data)
        /\ crc32(buf.data)
             = SymDiff(Remainder(Crc32Poly, Ones, buf.data), Ones)

\* Every word crc32c loads starts at a multiple of four and ends within the
\* buffer.
LoadsAligned ==
    \A load \in WordLoads(buf.data, buf.addr) :
        load[1] % 4 = 0 /\ load[2] <= Len(buf.data)

\* A program that asks for SSE 4.2 first never executes the instruction on a
\* processor without it, whatever that processor's flags allow.
NoIllegalInstruction == crc_pc = "sigill" => prog = "ucrc32hw"
=============================================================================
