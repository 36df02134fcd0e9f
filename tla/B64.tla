-------------------------------- MODULE B64 --------------------------------
(***************************************************************************)
(* The base64 routines of src/base64/b64.c, under a caller that encodes a  *)
(* string into a buffer of its choice, decodes what it finds there or a    *)
(* text of its own, and uses the allocating variants.                      *)
(*                                                                         *)
(* A C string is the sequence of its bytes, 1 .. 255, without the final 0. *)
(* The caller gives room for at least the final 0, as the callers in the   *)
(* repository do (nenc - 1 is taken of an unsigned size).                  *)
(***************************************************************************)
EXTENDS Integers, Sequences, FiniteSetsExt, SequencesExt

CONSTANTS Plains,      \* strings to encode
          Texts,       \* strings to decode
          Rooms        \* buffer sizes offered for the result

\* Strings of C have no byte 0.
ASSUME B64Assumption ==
    /\ Plains \subseteq Seq(1 .. 255)
    /\ Texts \subseteq Seq(1 .. 255)
    /\ Rooms \subseteq Nat \ {0}

EMSGSIZE == 90
EINVAL == 22

\* Characters.
Pad == 61
Plus == 43
Slash == 47
Upper(i) == 65 + i
Lower(i) == 97 + i
Digit(i) == 48 + i

min_decoded_buflen(el) == (el \div 4 + 1) * 3 + 1
min_encoded_buflen(l) == (l \div 3 + 1) * 4 + 1

-----------------------------------------------------------------------------
(* The tables, filled run by run *)

init_etable ==
    [i \in 0 .. 63 |->
            CASE i \in 0 .. 8   -> Upper(i)
              [] i \in 9 .. 17  -> Upper(9) + (i - 9)
              [] i \in 18 .. 25 -> Upper(18) + (i - 18)
              [] i \in 26 .. 34 -> Lower(i - 26)
              [] i \in 35 .. 43 -> Lower(9) + (i - 35)
              [] i \in 44 .. 51 -> Lower(18) + (i - 44)
              [] i \in 52 .. 61 -> Digit(i - 52)
              [] i = 62 -> Plus
              [] i = 63 -> Slash]

\* 128 marks a character that is refused; the loop that sets it leaves out
\* entry 255, which stays 0.
init_dtable ==
    [c \in 0 .. 255 |->
        CASE c \in Upper(0) .. Upper(8)   -> c - Upper(0)
          [] c \in Upper(9) .. Upper(17)  -> 9 + (c - Upper(9))
          [] c \in Upper(18) .. Upper(25) -> 18 + (c - Upper(18))
          [] c \in Lower(0) .. Lower(8)   -> 26 + (c - Lower(0))
          [] c \in Lower(9) .. Lower(17)  -> 35 + (c - Lower(9))
          [] c \in Lower(18) .. Lower(25) -> 44 + (c - Lower(18))
          [] c \in Digit(0) .. Digit(9)   -> 52 + (c - Digit(0))
          [] c = Plus -> 62
          [] c = Slash -> 63
          [] c \in {Pad, 255} -> 0
          [] OTHER -> 128]

-----------------------------------------------------------------------------
(* The routines *)

\* Mutant: a last group of two bytes gets two pads.
ogroup_overpadded(g) ==
    LET b(i) == IF i <= Len(g) THEN g[i] ELSE 0
        e == init_etable
    IN  << e[b(1) \div 4],
           e[(b(1) % 4) * 16 + b(2) \div 16],
           IF Len(g) < 3 THEN Pad ELSE e[(b(2) % 16) * 4 + b(3) \div 64],
           IF Len(g) < 3 THEN Pad ELSE e[b(3) % 64] >>

\* Four characters for a group of one to three bytes, which is padded.
ogroup(g) ==
    LET b(i) == IF i <= Len(g) THEN g[i] ELSE 0
        e == init_etable
    IN  << e[b(1) \div 4],
           e[(b(1) % 4) * 16 + b(2) \div 16],
           IF Len(g) < 2 THEN Pad ELSE e[(b(2) % 16) * 4 + b(3) \div 64],
           IF Len(g) < 3 THEN Pad ELSE e[b(3) % 64] >>

\* The groups of n bytes of s, the last one possibly shorter.
Groups(s, n) ==
    [k \in 1 .. (Len(s) + n - 1) \div n |->
        SubSeq(s, n * (k - 1) + 1, Min({n * k, Len(s)}))]

\* The string left in a buffer of nenc bytes: what fits before the final 0.
encode(p, nenc) ==
    LET all == FlattenSeq([k \in DOMAIN Groups(p, 3) |-> ogroup(Groups(p, 3)[k])])
    IN  SubSeq(all, 1, Min({Len(all), nenc - 1}))

\* One to three bytes for a group of four characters, by their pads.
igroup(g) ==
    LET b(i) == init_dtable[g[i]]
        o == << ((b(1) * 4) % 256) + b(2) \div 16,
                ((b(2) * 16) % 256) + b(3) \div 4,
                ((b(3) * 64) % 256) + b(4) >>
    IN  SubSeq(o, 1, IF g[3] = Pad THEN 1 ELSE IF g[4] = Pad THEN 2 ELSE 3)

\* Mutant: the length is not tested.
decode_unmeasured(e, ndecoded) ==
    IF \E i \in DOMAIN e : init_dtable[e[i]] >= 128
    THEN [err |-> EINVAL, bytes |-> << >>]
    ELSE [err |-> 0,
          bytes |-> FlattenSeq([k \in 1 .. Len(e) \div 4 |->
                                    igroup(Groups(e, 4)[k])])]

\* The decoded bytes, or why there are none.  The buffer is larger than what
\* the groups of e decode to (DecodesBack), so that the room in it never ends
\* the loops.
decode(e, ndecoded) ==
    IF Len(e) % 4 # 0 \/ ndecoded < min_decoded_buflen(Len(e))
    THEN [err |-> EMSGSIZE, bytes |-> << >>]
    ELSE IF \E i \in DOMAIN e : init_dtable[e[i]] >= 128
    THEN [err |-> EINVAL, bytes |-> << >>]
    ELSE [err |-> 0,
          bytes |-> FlattenSeq([k \in DOMAIN Groups(e, 4) |->
                                    igroup(Groups(e, 4)[k])])]

-----------------------------------------------------------------------------
(* The caller *)

VARIABLES g_ready,
          b64_pc,    \* "idle", "encoded", "given" (a text of the caller),
                     \* "decoded", "new_decoded", "null" (an allocating variant
                     \* returned NULL)
          plain,     \* the string b64_encode was given
          room,      \* the size of its buffer, 0 when a text was given
          text,      \* what it left there, or the text to be decoded
          dlen,      \* the size of the buffer b64_decode was given
          result     \* what b64_decode left

b64_vars == <<g_ready, b64_pc, plain, room, text, dlen, result>>

B64Init ==
    /\ g_ready = FALSE
    /\ b64_pc = "idle"
    /\ plain = << >> /\ room = 0 /\ text = << >> /\ dlen = 0
    /\ result = [err |-> 0, bytes |-> << >>]

b64_init ==
    /\ ~g_ready
    /\ g_ready' = TRUE
    /\ UNCHANGED <<b64_pc, plain, room, text, dlen, result>>

b64_encode(p, nenc) ==
    /\ b64_pc = "idle"
    /\ g_ready' = TRUE
    /\ plain' = p
    /\ room' = nenc
    /\ text' = encode(p, nenc)
    /\ UNCHANGED <<dlen, result>>

\* NULL comes back: of an empty string, or when malloc fails.
no_string ==
    /\ b64_pc = "idle"
    /\ b64_pc' = "null"
    /\ UNCHANGED <<g_ready, plain, room, text, dlen, result>>

new_b64_encoded(p) ==
    \/ /\ p # << >>
       /\ b64_encode(p, min_encoded_buflen(Len(p)))
       /\ b64_pc' = "encoded"
    \/ no_string

\* Calls b64_encode, into a buffer of the size a decoded string would need.
new_b64_decoded(p) ==
    \/ /\ p # << >>
       /\ b64_encode(p, min_decoded_buflen(Len(p)))
       /\ b64_pc' = "new_decoded"
    \/ no_string

\* The caller has a text from elsewhere.
give_text(t) ==
    /\ b64_pc = "idle"
    /\ text' = t
    /\ b64_pc' = "given"
    /\ UNCHANGED <<g_ready, plain, room, dlen, result>>

b64_decode(ndecoded) ==
    /\ b64_pc \in {"encoded", "given"}
    /\ g_ready' = TRUE
    /\ dlen' = ndecoded
    /\ result' = decode(text, ndecoded)
    /\ b64_pc' = "decoded"
    /\ UNCHANGED <<plain, room, text>>

B64Next ==
    \/ b64_init
    \/ \E p \in Plains, n \in Rooms : b64_encode(p, n) /\ b64_pc' = "encoded"
    \/ \E p \in Plains : new_b64_encoded(p)
    \/ \E t \in Texts : new_b64_decoded(t)
    \/ \E t \in Texts : give_text(t)
    \/ \E n \in {min_decoded_buflen(Len(text)) - 1,
                 min_decoded_buflen(Len(text)),
                 (Len(text) \div 3 + 1) * 4 + 1} : b64_decode(n)

B64Spec == B64Init /\ [][B64Next]_b64_vars

-----------------------------------------------------------------------------
(* Properties *)

\* Bit k of p, counted from the highest of the first byte; zeros follow the last.
Bit(p, k) ==
    IF k >= 8 * Len(p) THEN 0 ELSE (p[k \div 8 + 1] \div 2^(7 - (k % 8))) % 2

\* The k-th six bits of p.
Six(p, k) ==
    32 * Bit(p, 6 * k) + 16 * Bit(p, 6 * k + 1) + 8 * Bit(p, 6 * k + 2)
        + 4 * Bit(p, 6 * k + 3) + 2 * Bit(p, 6 * k + 4) + Bit(p, 6 * k + 5)

Char(v) ==
    CASE v < 26 -> Upper(v)
      [] v \in 26 .. 51 -> Lower(v - 26)
      [] v \in 52 .. 61 -> Digit(v - 52)
      [] v = 62 -> Plus
      [] v = 63 -> Slash

\* The encoding of p: six bits of p after the other as one character, until no
\* bit is left, in a multiple of four characters.
Base64(p) ==
    [k \in 1 .. 4 * ((Len(p) + 2) \div 3) |->
        IF 6 * (k - 1) >= 8 * Len(p) THEN Pad ELSE Char(Six(p, k - 1))]

\* b64_encode, called directly or by new_b64_encoded, leaves as much of the
\* encoding as fits, and a final 0.
EncodesBase64 ==
    b64_pc = "encoded" =>
        text = SubSeq(Base64(plain), 1, Min({Len(Base64(plain)), room - 1}))

\* The characters b64_decode takes: those of an encoding, the pad, and byte 255,
\* whose entry the loop at b64.c:69 leaves 0, so that it passes for an 'A'.
Accepted == {Char(v) : v \in 0 .. 63} \cup {Pad, 255}

\* What b64_decode answers.  A text that is not in whole groups, a truncated
\* encoding among them, or a buffer too small for them is refused, then a text
\* with a character it does not take, and nothing else; what it gives fits the
\* buffer with its final 0.  An encoding decodes to the string, or, where it
\* was cut between groups, to the first bytes of it, three to a group.  A text
\* it accepts that has no pad and no byte 255 is the encoding of what it gives.
DecodesBack ==
    b64_pc = "decoded" =>
        /\ result.err =
              IF Len(text) % 4 # 0 \/ dlen < min_decoded_buflen(Len(text))
              THEN EMSGSIZE
              ELSE IF Range(text) \subseteq Accepted THEN 0 ELSE EINVAL
        /\ result.err = 0 => Len(result.bytes) < dlen
        /\ room > 0 =>
            /\ result.err # EINVAL
            /\ result.err = 0 =>
                 result.bytes = SubSeq(plain, 1, Min({3 * (Len(text) \div 4), Len(plain)}))
            /\ (room > Len(Base64(plain)) /\ dlen >= min_decoded_buflen(Len(text))) =>
                 result = [err |-> 0, bytes |-> plain]
        /\ (result.err = 0 /\ Range(text) \cap {Pad, 255} = {}) =>
                Base64(result.bytes) = text

\* new_b64_decoded returns "a new base64-decoded string from the given encoded
\* string" (b64.h:55): given the encoding of q, it returns q.
NewDecodedDecodes ==
    b64_pc = "new_decoded" =>
        \A q \in Plains : plain = Base64(q) => text = q
=============================================================================
