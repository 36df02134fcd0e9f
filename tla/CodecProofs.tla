----------------------------- MODULE CodecProofs -----------------------------
(***************************************************************************)
(* The codecs, for every input: the base64 of base64/b64.c is base64 and   *)
(* decodes back, whatever the strings and the buffers; the crc32 and       *)
(* crc32c routines of crc32.intel compute the remainder of a division of   *)
(* polynomials, load only aligned words within their buffer, and use the   *)
(* processor's instruction only where it has it.                           *)
(***************************************************************************)
EXTENDS B64, Crc32, SequenceTheorems, FiniteSetTheorems, WellFoundedInduction, TLAPS

-----------------------------------------------------------------------------
(* Recursion and sequences *)

(* A set of naturals with 0 and with the successor of each member has all. *)
LEMMA InductiveSet ==
    ASSUME NEW S \in SUBSET Nat, 0 \in S, \A n \in S : n + 1 \in S
    PROVE  S = Nat
<1> SUFFICES ASSUME Nat \ S # {} PROVE FALSE
    OBVIOUS
<1>1. IsWellFoundedOn(OpToRel(<, Nat), Nat)
    BY NatLessThanWellFounded
<1>2. \E m \in Nat \ S : \A y \in Nat \ S : ~ (<<y, m>> \in OpToRel(<, Nat))
    BY <1>1, WFMin, Zenon
<1>3. PICK m \in Nat \ S : \A y \in Nat \ S : ~ (y < m)
    BY <1>2 DEF OpToRel
<1>4. m # 0 /\ m \in Nat
    OBVIOUS
<1>5. m - 1 \in Nat /\ m - 1 < m
    BY <1>4
<1>6. m - 1 \in S
    BY <1>3, <1>5
<1>7. (m - 1) + 1 \in S /\ (m - 1) + 1 = m
    BY <1>4, <1>6
<1> QED  BY <1>7

(* A recursion over 1 .. n whose step is the function G defines a function. *)
LEMMA Recursion ==
    ASSUME NEW T, NEW x \in T, NEW n \in Nat, NEW G \in [1 .. n -> [T -> T]]
    PROVE  \E f \in [0 .. n -> T] :
              f[0] = x /\ \A i \in 1 .. n : f[i] = G[i][f[i - 1]]
<1> DEFINE P(k, f) == /\ f \in [0 .. k -> T] /\ f[0] = x
                      /\ \A i \in 1 .. k : f[i] = G[i][f[i - 1]]
           S == {k \in Nat : k <= n => \E f : P(k, f)}
<1>1. 0 \in S
    <2>1. P(0, [i \in 0 .. 0 |-> x])
        OBVIOUS
    <2> QED  BY <2>1
<1>2. ASSUME NEW k \in S PROVE k + 1 \in S
    <2>1. k \in Nat /\ k + 1 \in Nat
        OBVIOUS
    <2>2. ASSUME k + 1 <= n PROVE \E f : P(k + 1, f)
        <3>1. k <= n
            BY <2>1, <2>2
        <3>2. PICK f : P(k, f)
            BY <3>1
        <3> DEFINE g == [i \in 0 .. k + 1 |-> IF i = k + 1 THEN G[k + 1][f[k]] ELSE f[i]]
        <3>3. f[k] \in T
            BY <2>1, <3>2
        <3>4. G[k + 1][f[k]] \in T
            BY <2>1, <2>2, <3>3
        <3>5. g \in [0 .. k + 1 -> T] /\ g[0] = x
            BY <2>1, <3>2, <3>4
        <3>6. ASSUME NEW i \in 1 .. k + 1 PROVE g[i] = G[i][g[i - 1]]
            <4>1. CASE i = k + 1
                <5>1. g[i] = G[i][f[k]] /\ g[i - 1] = f[k]
                    BY <2>1, <4>1
                <5> QED  BY <5>1
            <4>2. CASE i # k + 1
                <5>1. i \in 1 .. k /\ g[i] = f[i] /\ g[i - 1] = f[i - 1]
                    BY <2>1, <4>2
                <5> QED  BY <3>2, <5>1
            <4> QED  BY <4>1, <4>2
        <3>7. P(k + 1, g)
            BY <3>5, <3>6
        <3> QED  BY <3>7
    <2> QED  BY <2>1, <2>2
<1>3. S \in SUBSET Nat
    OBVIOUS
<1>4. n \in S
    <2> HIDE DEF S
    <2> QED  BY <1>1, <1>2, <1>3, InductiveSet
<1> QED  BY <1>4

IsRecursion(f, n, T, x, G) ==
    /\ f \in [0 .. n -> T] /\ f[0] = x
    /\ \A i \in 1 .. n : f[i] = G[i][f[i - 1]]

(* Recursion, with its solution named. *)
LEMMA Recursive ==
    ASSUME NEW T, NEW x \in T, NEW n \in Nat, NEW G \in [1 .. n -> [T -> T]]
    PROVE  \E f : IsRecursion(f, n, T, x, G)
BY Recursion DEF IsRecursion

(* s is the sequence of the n consecutive pieces of t that end at e[1], ..., e[n]. *)
ArePieces(s, n, e, t) ==
    /\ e \in [0 .. n -> 0 .. Len(t)] /\ e[0] = 0
    /\ s = [i \in 1 .. n |-> s[i]]
    /\ \A i \in 1 .. n : e[i - 1] <= e[i] /\ s[i] = SubSeq(t, e[i - 1] + 1, e[i])

(* Flattening consecutive pieces of t gives t up to the end of the last. *)
LEMMA FlattenPieces ==
    ASSUME NEW C, NEW t \in Seq(C), NEW n \in Nat, NEW e, NEW s, ArePieces(s, n, e, t)
    PROVE  FlattenSeq(s) = SubSeq(t, 1, e[n])
<1> USE DEF ArePieces
<1>0. Len(t) \in Nat
    OBVIOUS
<1>1. \A i \in 1 .. n : s[i] \in Seq(C) 
    <2> TAKE i \in 1 .. n
    <2>1. e[i - 1] \in 0 .. Len(t) /\ e[i] \in 0 .. Len(t)
        OBVIOUS
    <2>2. \A j \in e[i - 1] + 1 .. e[i] : t[j] \in C
        BY <1>0, <2>1, ElementOfSeq
    <2>3. e[i - 1] + 1 \in Int /\ e[i] \in Int
        BY <2>1
    <2>4. SubSeq(t, e[i - 1] + 1, e[i]) \in Seq(C)
        BY <2>2, <2>3, SubSeqProperties
    <2> QED  BY <2>4
<1>2. s \in Seq(Seq(C)) /\ Len(s) = n
    <2>1. s \in [1 .. n -> Seq(C)]
        BY <1>1
    <2>2. s \in Seq(Seq(C))
        BY <2>1, SeqDef
    <2> QED  BY <2>1, <2>2, LenProperties
<1>3. CASE n = 0
    <2>1. s = << >> /\ FlattenSeq(s) = s
        BY <1>2, <1>3 DEF FlattenSeq
    <2>2. SubSeq(t, 1, e[n]) = << >>
        BY <1>3, SubSeqEmpty
    <2> QED  BY <2>1, <2>2
<1>4. CASE n # 0
    <2> DEFINE f == [i \in 1 .. n |-> SubSeq(t, 1, e[i])]
    <2>1. ASSUME NEW i \in 1 .. n
          PROVE  f[i] = IF i = 1 THEN s[i] ELSE f[i - 1] \o s[i]
        <3>1. CASE i = 1
            <4>1. i - 1 = 0
                BY <3>1
            <4>2. s[i] = SubSeq(t, e[i - 1] + 1, e[i])
                OBVIOUS
            <4>3. e[i - 1] + 1 = 1
                BY <4>1
            <4>4. f[i] = SubSeq(t, 1, e[i])
                OBVIOUS
            <4> QED  BY <3>1, <4>2, <4>3, <4>4
        <3>2. CASE i # 1
            <4>1. e[i - 1] \in 0 .. Len(t) /\ e[i] \in e[i - 1] .. Len(t)
                  /\ f[i - 1] = SubSeq(t, 1, e[i - 1])
                BY <1>0, <3>2
            <4>2. 1 \in 1 .. Len(t) + 1 /\ e[i - 1] \in 1 - 1 .. Len(t)
                BY <1>0, <4>1
            <4>3. SubSeq(t, 1, e[i - 1]) \o SubSeq(t, e[i - 1] + 1, e[i]) = SubSeq(t, 1, e[i])
                BY <4>1, <4>2, ConcatAdjacentSubSeq
            <4> QED  BY <3>2, <4>1, <4>3
        <3> QED  BY <3>1, <3>2
    <2>2. f = [i \in 1 .. n |-> IF i = 1 THEN s[i] ELSE f[i - 1] \o s[i]]
        <3>1. f = [i \in 1 .. n |-> f[i]]
            OBVIOUS
        <3> HIDE DEF f
        <3> QED  BY <2>1, <3>1
    <2>3. PICK g : /\ g = [i \in 1 .. n |-> IF i = 1 THEN s[i] ELSE g[i - 1] \o s[i]]
                   /\ FlattenSeq(s) = g[n]
        <3> HIDE DEF f
        <3>1. Len(s) # 0
            BY <1>2, <1>4
        <3>2. \E g : /\ g = [i \in 1 .. Len(s) |-> IF i = 1 THEN s[i] ELSE g[i - 1] \o s[i]]
                     /\ FlattenSeq(s) = g[Len(s)]
            <4>1. f = [i \in 1 .. Len(s) |-> IF i = 1 THEN s[i] ELSE f[i - 1] \o s[i]]
                BY <1>2, <2>2
            <4> QED  BY <3>1, <4>1, Zenon DEF FlattenSeq
        <3> QED  BY <1>2, <3>2
    <2>4. \A i \in 1 .. n : g[i] = IF i = 1 THEN s[i] ELSE g[i - 1] \o s[i]
        BY <2>3
    <2> DEFINE S == {k \in Nat : k + 1 <= n => g[k + 1] = f[k + 1]}
    <2>5. 0 \in S
        <3>1. 1 \in 1 .. n
            BY <1>4
        <3>2. g[1] = f[1]
            <4> HIDE DEF f
            <4> QED  BY <2>1, <2>4, <3>1
        <3> HIDE DEF f
        <3> QED  BY <3>2
    <2>6. ASSUME NEW k \in S PROVE k + 1 \in S
        <3>1. k \in Nat /\ k + 1 \in Nat
            OBVIOUS
        <3>2. ASSUME k + 1 + 1 <= n PROVE g[k + 1 + 1] = f[k + 1 + 1]
            <4>1. g[k + 1] = f[k + 1]
                BY <3>1, <3>2
            <4>2. k + 2 \in 1 .. n /\ k + 2 # 1 /\ (k + 2) - 1 = k + 1 /\ k + 1 + 1 = k + 2
                BY <3>1, <3>2
            <4> HIDE DEF f, S
            <4> QED  BY <2>1, <2>4, <4>1, <4>2
        <3> QED  BY <3>1, <3>2
    <2>7. S = Nat
        <3>1. S \in SUBSET Nat
            OBVIOUS
        <3> HIDE DEF S
        <3> QED  BY <2>5, <2>6, <3>1, InductiveSet
    <2>8. n - 1 \in Nat /\ (n - 1) + 1 = n /\ n \in 1 .. n
        BY <1>4
    <2>9. g[n] = f[n]
        <3>1. n - 1 \in S
            BY <2>7, <2>8
        <3> HIDE DEF f
        <3> QED  BY <2>8, <3>1
    <2> QED  BY <2>3, <2>8, <2>9
<1> QED  BY <1>3, <1>4

(* Flattening n sequences of at most three elements gives at most 3 * n. *)
LEMMA FlattenShort ==
    ASSUME NEW C, NEW n \in Nat, NEW s \in [1 .. n -> Seq(C)],
           \A i \in 1 .. n : Len(s[i]) <= 3
    PROVE  Len(FlattenSeq(s)) \in Nat /\ Len(FlattenSeq(s)) <= 3 * n
<1>1. s \in Seq(Seq(C)) /\ Len(s) = n
    BY SeqDef, LenProperties
<1>2. CASE n = 0
    BY <1>1, <1>2 DEF FlattenSeq
<1>3. CASE n # 0
    <2> DEFINE G == [i \in 1 .. n |-> [x \in Seq(C) |-> x \o s[i]]]
    <2>1. G \in [1 .. n -> [Seq(C) -> Seq(C)]]
        OBVIOUS
    <2>2. << >> \in Seq(C)
        OBVIOUS
    <2>3. \A i \in 1 .. n, x \in Seq(C) : G[i][x] = x \o s[i]
        OBVIOUS
    <2> HIDE DEF G
    <2>4. PICK f \in [0 .. n -> Seq(C)] :
              f[0] = << >> /\ \A i \in 1 .. n : f[i] = G[i][f[i - 1]]
        <3>1. PICK T, e : T = Seq(C) /\ e = << >>
            OBVIOUS
        <3>2. e \in T /\ G \in [1 .. n -> [T -> T]]
            BY <2>1, <2>2, <3>1
        <3>3. PICK f : IsRecursion(f, n, T, e, G)
            BY <3>2, Recursive, Zenon
        <3> QED  BY <3>1, <3>3 DEF IsRecursion
    <2>5. ASSUME NEW i \in 1 .. n PROVE f[i] = f[i - 1] \o s[i]
        <3>1. i - 1 \in 0 .. n
            OBVIOUS
        <3> QED  BY <2>3, <2>4, <3>1
    <2>6. f[1] = s[1]
        <3>1. 1 \in 1 .. n /\ 1 - 1 = 0
            BY <1>3
        <3>2. s[1] \in Seq(C) /\ f[1] = f[0] \o s[1]
            BY <2>5, <3>1
        <3> QED  BY <2>4, <3>2
    <2> DEFINE h == [i \in 1 .. n |-> f[i]]
    <2>7. h = [i \in 1 .. n |-> IF i = 1 THEN s[i] ELSE h[i - 1] \o s[i]]
        <3>1. ASSUME NEW i \in 1 .. n
              PROVE  h[i] = IF i = 1 THEN s[i] ELSE h[i - 1] \o s[i]
            <4>1. CASE i = 1
                BY <2>6, <4>1
            <4>2. CASE i # 1
                <5>1. i - 1 \in 1 .. n
                    BY <4>2
                <5> QED  BY <2>5, <4>2, <5>1
            <4> QED  BY <4>1, <4>2
        <3>2. h = [i \in 1 .. n |-> h[i]]
            OBVIOUS
        <3> HIDE DEF h
        <3> QED  BY <3>1, <3>2
    <2>8. PICK g : /\ g = [i \in 1 .. n |-> IF i = 1 THEN s[i] ELSE g[i - 1] \o s[i]]
                   /\ FlattenSeq(s) = g[n]
        <3> HIDE DEF h
        <3>1. Len(s) # 0
            BY <1>1, <1>3
        <3>2. \E g : /\ g = [i \in 1 .. Len(s) |-> IF i = 1 THEN s[i] ELSE g[i - 1] \o s[i]]
                     /\ FlattenSeq(s) = g[Len(s)]
            <4>1. h = [i \in 1 .. Len(s) |-> IF i = 1 THEN s[i] ELSE h[i - 1] \o s[i]]
                BY <1>1, <2>7
            <4> QED  BY <3>1, <4>1, Zenon DEF FlattenSeq
        <3> QED  BY <1>1, <3>2
    <2>9. \A i \in 1 .. n : g[i] = IF i = 1 THEN s[i] ELSE g[i - 1] \o s[i]
        BY <2>8
    <2> DEFINE S == {k \in Nat : k + 1 <= n =>
                        g[k + 1] \in Seq(C) /\ Len(g[k + 1]) <= 3 * (k + 1)}
    <2>10. 0 \in S
        <3>1. 1 \in 1 .. n /\ 0 + 1 = 1
            BY <1>3
        <3>2. g[1] = s[1] /\ s[1] \in Seq(C) /\ Len(s[1]) <= 3
            BY <2>9, <3>1
        <3> QED  BY <3>1, <3>2
    <2>11. ASSUME NEW k \in S PROVE k + 1 \in S
        <3>1. k \in Nat /\ k + 1 \in Nat
            OBVIOUS
        <3>2. ASSUME k + 1 + 1 <= n
              PROVE  g[k + 1 + 1] \in Seq(C) /\ Len(g[k + 1 + 1]) <= 3 * (k + 1 + 1)
            <4>1. g[k + 1] \in Seq(C) /\ Len(g[k + 1]) <= 3 * (k + 1)
                BY <3>1, <3>2
            <4>2. k + 2 \in 1 .. n /\ k + 2 # 1 /\ (k + 2) - 1 = k + 1 /\ k + 1 + 1 = k + 2
                BY <3>1, <3>2
            <4> HIDE DEF S
            <4>3. g[k + 2] = g[k + 1] \o s[k + 2]
                BY <2>9, <4>2
            <4>4. s[k + 2] \in Seq(C) /\ Len(s[k + 2]) <= 3
                BY <4>2
            <4>5. g[k + 2] \in Seq(C) /\ Len(g[k + 2]) = Len(g[k + 1]) + Len(s[k + 2])
                BY <4>1, <4>3, <4>4, ConcatProperties
            <4>6. Len(g[k + 1]) \in Nat /\ Len(s[k + 2]) \in Nat
                BY <4>1, <4>4
            <4>7. Len(g[k + 2]) <= 3 * (k + 2)
                <5>1. PICK x, y, z : x = Len(g[k + 1]) /\ y = Len(s[k + 2]) /\ z = Len(g[k + 2])
                    OBVIOUS
                <5>2. x \in Nat /\ y \in Nat /\ x <= 3 * (k + 1) /\ y <= 3 /\ z = x + y
                    BY <4>1, <4>4, <4>5, <4>6, <5>1, Zenon
                <5>3. z <= 3 * (k + 2)
                    BY <3>1, <5>2
                <5> QED  BY <5>1, <5>3, Zenon
            <4> QED  BY <4>2, <4>5, <4>7
        <3> QED  BY <3>1, <3>2
    <2>12. S = Nat
        <3>1. S \in SUBSET Nat
            OBVIOUS
        <3> HIDE DEF S
        <3> QED  BY <2>10, <2>11, <3>1, InductiveSet
    <2>13. n - 1 \in Nat /\ (n - 1) + 1 = n
        BY <1>3
    <2>14. n - 1 \in S
        BY <2>12, <2>13
    <2>15. g[n] \in Seq(C) /\ Len(g[n]) <= 3 * n
        BY <2>13, <2>14
    <2> QED  BY <2>8, <2>15
<1> QED  BY <1>2, <1>3

(* A function on 1 .. n is a sequence of length n. *)
LEMMA FunctionIsSeq ==
    ASSUME NEW S, NEW n \in Nat, NEW f \in [1 .. n -> S]
    PROVE  f \in Seq(S) /\ Len(f) = n
<1>1. f \in Seq(S)
    BY SeqDef
<1> QED  BY <1>1, LenProperties


-----------------------------------------------------------------------------
(* Base64: bits, bytes and sextets *)

(* The entries of the table b64_decode looks characters up in. *)
LEMMA TableCases ==
    ASSUME NEW c \in 0 .. 255
    PROVE  /\ c \in 65 .. 90 => init_dtable[c] = c - 65
           /\ c \in 97 .. 122 => init_dtable[c] = c - 71
           /\ c \in 48 .. 57 => init_dtable[c] = c + 4
           /\ c = 43 => init_dtable[c] = 62
           /\ c = 47 => init_dtable[c] = 63
           /\ c \in {61, 255} => init_dtable[c] = 0
           /\ c \notin (65 .. 90) \cup (97 .. 122) \cup (48 .. 57) \cup {43, 47, 61, 255} => init_dtable[c] = 128
<1>1. ASSUME c \in 65 .. 90 PROVE init_dtable[c] = c - 65
    BY <1>1, SMTT(60) DEF init_dtable, Upper, Lower, Digit, Plus, Slash, Pad
<1>2. ASSUME c \in 97 .. 122 PROVE init_dtable[c] = c - 71
    BY <1>2, SMTT(60) DEF init_dtable, Upper, Lower, Digit, Plus, Slash, Pad
<1>3. ASSUME c \in 48 .. 57 PROVE init_dtable[c] = c + 4
    BY <1>3, SMTT(60) DEF init_dtable, Upper, Lower, Digit, Plus, Slash, Pad
<1>4. ASSUME c = 43 PROVE init_dtable[c] = 62
    BY <1>4, SMTT(60) DEF init_dtable, Upper, Lower, Digit, Plus, Slash, Pad
<1>5. ASSUME c = 47 PROVE init_dtable[c] = 63
    BY <1>5, SMTT(60) DEF init_dtable, Upper, Lower, Digit, Plus, Slash, Pad
<1>6. ASSUME c \in {61, 255} PROVE init_dtable[c] = 0
    BY <1>6, SMTT(60) DEF init_dtable, Upper, Lower, Digit, Plus, Slash, Pad
<1>7. ASSUME c \notin (65 .. 90) \cup (97 .. 122) \cup (48 .. 57) \cup {43, 47, 61, 255} PROVE init_dtable[c] = 128
    BY <1>7, SMTT(60) DEF init_dtable, Upper, Lower, Digit, Plus, Slash, Pad
<1> QED  BY <1>1, <1>2, <1>3, <1>4, <1>5, <1>6, <1>7

(* The character of the reference for six bits. *)
LEMMA CharCases ==
    ASSUME NEW v \in 0 .. 63
    PROVE  /\ v \in 0 .. 25 => Char(v) = v + 65
           /\ v \in 26 .. 51 => Char(v) = v + 71
           /\ v \in 52 .. 61 => Char(v) = v - 4
           /\ v = 62 => Char(v) = 43
           /\ v = 63 => Char(v) = 47
BY DEF Char, Upper, Lower, Digit, Plus, Slash

(* The table b64_encode takes characters from. *)
LEMMA LetterCases ==
    ASSUME NEW v \in 0 .. 63
    PROVE  /\ v \in 0 .. 25 => init_etable[v] = v + 65
           /\ v \in 26 .. 51 => init_etable[v] = v + 71
           /\ v \in 52 .. 61 => init_etable[v] = v - 4
           /\ v = 62 => init_etable[v] = 43
           /\ v = 63 => init_etable[v] = 47
<1>1. ASSUME v \in 0 .. 25 PROVE init_etable[v] = v + 65
    BY <1>1, SMTT(60) DEF init_etable, Upper, Lower, Digit, Plus, Slash
<1>2. ASSUME v \in 26 .. 51 PROVE init_etable[v] = v + 71
    BY <1>2, SMTT(60) DEF init_etable, Upper, Lower, Digit, Plus, Slash
<1>3. ASSUME v \in 52 .. 61 PROVE init_etable[v] = v - 4
    BY <1>3, SMTT(60) DEF init_etable, Upper, Lower, Digit, Plus, Slash
<1>4. ASSUME v = 62 PROVE init_etable[v] = 43
    BY <1>4, SMTT(60) DEF init_etable, Upper, Lower, Digit, Plus, Slash
<1>5. ASSUME v = 63 PROVE init_etable[v] = 47
    BY <1>5, SMTT(60) DEF init_etable, Upper, Lower, Digit, Plus, Slash
<1> QED  BY <1>1, <1>2, <1>3, <1>4, <1>5

(* The reference's characters are those of the table, and decode to their place. *)
LEMMA Characters ==
    ASSUME NEW v \in 0 .. 63
    PROVE  /\ Char(v) = init_etable[v] /\ Char(v) \in 1 .. 254
           /\ Char(v) # Pad /\ init_dtable[Char(v)] = v
<1>1. CASE v \in 0 .. 25
    <2>1. Char(v) = v + 65 /\ init_etable[v] = v + 65
        BY <1>1, CharCases, LetterCases
    <2>2. PICK c \in 0 .. 255 : c = v + 65
        BY <1>1
    <2>3. c \in 65 .. 90
        BY <1>1, <2>2
    <2>4. init_dtable[c] = c - 65
        BY <2>3, TableCases
    <2>5. Char(v) = c /\ init_etable[v] = c
        BY <2>1, <2>2
    <2>6. init_dtable[c] = v /\ c \in 1 .. 254 /\ c # Pad
        BY <1>1, <2>2, <2>3, <2>4 DEF Pad
    <2> QED  BY <2>5, <2>6, Zenon
<1>2. CASE v \in 26 .. 51
    <2>1. Char(v) = v + 71 /\ init_etable[v] = v + 71
        BY <1>2, CharCases, LetterCases
    <2>2. PICK c \in 0 .. 255 : c = v + 71
        BY <1>2
    <2>3. c \in 97 .. 122
        BY <1>2, <2>2
    <2>4. init_dtable[c] = c - 71
        BY <2>3, TableCases
    <2>5. Char(v) = c /\ init_etable[v] = c
        BY <2>1, <2>2
    <2>6. init_dtable[c] = v /\ c \in 1 .. 254 /\ c # Pad
        BY <1>2, <2>2, <2>3, <2>4 DEF Pad
    <2> QED  BY <2>5, <2>6, Zenon
<1>3. CASE v \in 52 .. 61
    <2>1. Char(v) = v - 4 /\ init_etable[v] = v - 4
        BY <1>3, CharCases, LetterCases
    <2>2. PICK c \in 0 .. 255 : c = v - 4
        BY <1>3
    <2>3. c \in 48 .. 57
        BY <1>3, <2>2
    <2>4. init_dtable[c] = c + 4
        BY <2>3, TableCases
    <2>5. Char(v) = c /\ init_etable[v] = c
        BY <2>1, <2>2
    <2>6. init_dtable[c] = v /\ c \in 1 .. 254 /\ c # Pad
        BY <1>3, <2>2, <2>3, <2>4 DEF Pad
    <2> QED  BY <2>5, <2>6, Zenon
<1>4. CASE v = 62
    <2>1. Char(v) = 43 /\ init_etable[v] = 43
        BY <1>4, CharCases, LetterCases
    <2>2. PICK c \in 0 .. 255 : c = 43
        BY <1>4
    <2>3. c \in {43}
        BY <1>4, <2>2
    <2>4. init_dtable[c] = 62
        BY <2>3, TableCases
    <2>5. Char(v) = c /\ init_etable[v] = c
        BY <2>1, <2>2
    <2>6. init_dtable[c] = v /\ c \in 1 .. 254 /\ c # Pad
        BY <1>4, <2>2, <2>3, <2>4 DEF Pad
    <2> QED  BY <2>5, <2>6, Zenon
<1>5. CASE v = 63
    <2>1. Char(v) = 47 /\ init_etable[v] = 47
        BY <1>5, CharCases, LetterCases
    <2>2. PICK c \in 0 .. 255 : c = 47
        BY <1>5
    <2>3. c \in {47}
        BY <1>5, <2>2
    <2>4. init_dtable[c] = 63
        BY <2>3, TableCases
    <2>5. Char(v) = c /\ init_etable[v] = c
        BY <2>1, <2>2
    <2>6. init_dtable[c] = v /\ c \in 1 .. 254 /\ c # Pad
        BY <1>5, <2>2, <2>3, <2>4 DEF Pad
    <2> QED  BY <2>5, <2>6, Zenon
<1> QED  BY <1>1, <1>2, <1>3, <1>4, <1>5

(* A character that is not refused decodes to its place, but for two. *)
LEMMA Decoded ==
    ASSUME NEW c \in 1 .. 255, ~ (init_dtable[c] >= 128)
    PROVE  /\ init_dtable[c] \in 0 .. 63
           /\ c \notin {Pad, 255} => Char(init_dtable[c]) = c
<1>1. \/ c \in 65 .. 90 /\ init_dtable[c] = c - 65
      \/ c \in 97 .. 122 /\ init_dtable[c] = c - 71
      \/ c \in 48 .. 57 /\ init_dtable[c] = c + 4
      \/ c = 43 /\ init_dtable[c] = 62
      \/ c = 47 /\ init_dtable[c] = 63
      \/ c \in {61, 255} /\ init_dtable[c] = 0
    BY TableCases
<1> QED  BY <1>1 DEF Char, Upper, Lower, Digit, Plus, Slash, Pad

(* The characters the table does not refuse. *)
LEMMA Taken ==
    ASSUME NEW c \in 1 .. 255
    PROVE  c \in Accepted <=> ~ (init_dtable[c] >= 128)
<1>1. ASSUME ~ (init_dtable[c] >= 128) PROVE c \in Accepted
    <2>1. init_dtable[c] \in 0 .. 63 /\ (c \notin {Pad, 255} => Char(init_dtable[c]) = c)
        BY <1>1, Decoded, Zenon
    <2> QED  BY <2>1, Zenon DEF Accepted
<1>2. ASSUME NEW v \in 0 .. 63, c = Char(v) PROVE ~ (init_dtable[c] >= 128)
    <2>1. init_dtable[c] = v
        BY <1>2, Characters, Zenon
    <2>2. ~ (v >= 128)
        OBVIOUS
    <2> QED  BY <2>1, <2>2, Zenon
<1>3. ASSUME c \in {Pad, 255} PROVE ~ (init_dtable[c] >= 128)
    <2>1. c \in {61, 255}
        BY <1>3 DEF Pad
    <2>2. init_dtable[c] = 0
        BY <2>1, TableCases
    <2> QED  BY <2>2
<1> QED  BY <1>1, <1>2, <1>3, Zenon DEF Accepted

(* Byte i of p, 0 after the end. *)
At(p, i) == IF i <= Len(p) THEN p[i] ELSE 0

(* A byte of the string, or the zero past its end. *)
LEMMA AtIsByte ==
    ASSUME NEW p \in Seq(0 .. 255), NEW i \in Nat \ {0}
    PROVE  At(p, i) \in 0 .. 255
<1>1. Len(p) \in Nat
    OBVIOUS
<1>2. i <= Len(p) => p[i] \in 0 .. 255
    BY <1>1, ElementOfSeq
<1> QED  BY <1>2 DEF At

(* Bit r of byte q + 1, which has the weight w. *)
LEMMA BitOfByte ==
    ASSUME NEW p \in Seq(0 .. 255), NEW q \in Nat, NEW r \in 0 .. 7,
           NEW w \in Nat \ {0}, 2^(7 - r) = w
    PROVE  Bit(p, 8 * q + r) = (At(p, q + 1) \div w) % 2
<1>1. Len(p) \in Nat
    OBVIOUS
<1>2. (8 * q + r) \div 8 = q /\ (8 * q + r) % 8 = r
    OBVIOUS
<1>3. CASE q + 1 <= Len(p)
    <2>1. ~ (8 * q + r >= 8 * Len(p))
        BY <1>1, <1>3
    <2> QED  BY <1>2, <1>3, <2>1 DEF Bit, At
<1>4. CASE ~ (q + 1 <= Len(p))
    <2>1. 8 * q + r >= 8 * Len(p)
        BY <1>1, <1>4
    <2>2. (0 \div w) % 2 = 0
        <3>1. 0 \div w = 0
            OBVIOUS
        <3> QED  BY <3>1
    <2> QED  BY <1>4, <2>1, <2>2 DEF Bit, At
<1> QED  BY <1>3, <1>4

(* The eight bits of a byte, the highest first. *)
LEMMA BitsOfByte ==
    ASSUME NEW p \in Seq(0 .. 255), NEW q \in Nat
    PROVE  /\ Bit(p, 8 * q) = (At(p, q + 1) \div 128) % 2
           /\ Bit(p, 8 * q + 1) = (At(p, q + 1) \div 64) % 2
           /\ Bit(p, 8 * q + 2) = (At(p, q + 1) \div 32) % 2
           /\ Bit(p, 8 * q + 3) = (At(p, q + 1) \div 16) % 2
           /\ Bit(p, 8 * q + 4) = (At(p, q + 1) \div 8) % 2
           /\ Bit(p, 8 * q + 5) = (At(p, q + 1) \div 4) % 2
           /\ Bit(p, 8 * q + 6) = (At(p, q + 1) \div 2) % 2
           /\ Bit(p, 8 * q + 7) = At(p, q + 1) % 2
<1> DEFINE b == At(p, q + 1)
<1>1. b \in 0 .. 255
    <2>1. q + 1 \in Nat \ {0}
        OBVIOUS
    <2> QED  BY <2>1, AtIsByte
<1>2. /\ 2^(7 - 0) = 128 /\ 2^(7 - 1) = 64 /\ 2^(7 - 2) = 32 /\ 2^(7 - 3) = 16
      /\ 2^(7 - 4) = 8 /\ 2^(7 - 5) = 4 /\ 2^(7 - 6) = 2 /\ 2^(7 - 7) = 1
    OBVIOUS
<1> HIDE DEF b
<1>3. b \div 1 = b /\ 8 * q + 0 = 8 * q
    BY <1>1
<1>4. /\ Bit(p, 8 * q + 0) = (b \div 128) % 2
      /\ Bit(p, 8 * q + 1) = (b \div 64) % 2
      /\ Bit(p, 8 * q + 2) = (b \div 32) % 2
      /\ Bit(p, 8 * q + 3) = (b \div 16) % 2
    BY <1>2, BitOfByte DEF b
<1>5. /\ Bit(p, 8 * q + 4) = (b \div 8) % 2
      /\ Bit(p, 8 * q + 5) = (b \div 4) % 2
      /\ Bit(p, 8 * q + 6) = (b \div 2) % 2
      /\ Bit(p, 8 * q + 7) = (b \div 1) % 2
    BY <1>2, BitOfByte DEF b
<1> QED  BY <1>3, <1>4, <1>5 DEF b

(* The weights of the bits of two bytes, six by six. *)
LEMMA FirstSix ==
    ASSUME NEW b \in 0 .. 255
    PROVE  32 * ((b \div 128) % 2) + 16 * ((b \div 64) % 2) + 8 * ((b \div 32) % 2)
             + 4 * ((b \div 16) % 2) + 2 * ((b \div 8) % 2) + ((b \div 4) % 2)
           = b \div 4
OBVIOUS

(* Six bits, the second six of three bytes, *)
LEMMA SecondSix ==
    ASSUME NEW b \in 0 .. 255, NEW c \in 0 .. 255
    PROVE  32 * ((b \div 2) % 2) + 16 * (b % 2) + 8 * ((c \div 128) % 2)
             + 4 * ((c \div 64) % 2) + 2 * ((c \div 32) % 2) + ((c \div 16) % 2)
           = (b % 4) * 16 + c \div 16
OBVIOUS

(* the third *)
LEMMA ThirdSix ==
    ASSUME NEW b \in 0 .. 255, NEW c \in 0 .. 255
    PROVE  32 * ((b \div 8) % 2) + 16 * ((b \div 4) % 2) + 8 * ((b \div 2) % 2)
             + 4 * (b % 2) + 2 * ((c \div 128) % 2) + ((c \div 64) % 2)
           = (b % 16) * 4 + c \div 64
BY SMTT(60)

(* and the fourth. *)
LEMMA FourthSix ==
    ASSUME NEW b \in 0 .. 255
    PROVE  32 * ((b \div 32) % 2) + 16 * ((b \div 16) % 2) + 8 * ((b \div 8) % 2)
             + 4 * ((b \div 4) % 2) + 2 * ((b \div 2) % 2) + (b % 2)
           = b % 64
OBVIOUS

(* The four sextets of the three bytes after 3 * m. *)
LEMMA Sextets ==
    ASSUME NEW p \in Seq(0 .. 255), NEW m \in Nat,
           NEW b1, NEW b2, NEW b3,
           b1 = At(p, 3 * m + 1), b2 = At(p, 3 * m + 2), b3 = At(p, 3 * m + 3)
    PROVE  /\ b1 \in 0 .. 255 /\ b2 \in 0 .. 255 /\ b3 \in 0 .. 255
           /\ Six(p, 4 * m) = b1 \div 4
           /\ Six(p, 4 * m + 1) = (b1 % 4) * 16 + b2 \div 16
           /\ Six(p, 4 * m + 2) = (b2 % 16) * 4 + b3 \div 64
           /\ Six(p, 4 * m + 3) = b3 % 64
<1>1. b1 \in 0 .. 255 /\ b2 \in 0 .. 255 /\ b3 \in 0 .. 255
    <2>1. 3 * m + 1 \in Nat \ {0} /\ 3 * m + 2 \in Nat \ {0} /\ 3 * m + 3 \in Nat \ {0}
        OBVIOUS
    <2> QED  BY <2>1, AtIsByte
<1>2. 3 * m \in Nat /\ 3 * m + 1 \in Nat /\ 3 * m + 2 \in Nat
      /\ 3 * m + 2 = (3 * m + 1) + 1 /\ 3 * m + 3 = (3 * m + 2) + 1
    OBVIOUS
<1>3. /\ Bit(p, 8 * (3 * m)) = (b1 \div 128) % 2
      /\ Bit(p, 8 * (3 * m) + 1) = (b1 \div 64) % 2
      /\ Bit(p, 8 * (3 * m) + 2) = (b1 \div 32) % 2
      /\ Bit(p, 8 * (3 * m) + 3) = (b1 \div 16) % 2
      /\ Bit(p, 8 * (3 * m) + 4) = (b1 \div 8) % 2
      /\ Bit(p, 8 * (3 * m) + 5) = (b1 \div 4) % 2
      /\ Bit(p, 8 * (3 * m) + 6) = (b1 \div 2) % 2
      /\ Bit(p, 8 * (3 * m) + 7) = b1 % 2
    BY <1>2, BitsOfByte
<1>4. /\ Bit(p, 8 * (3 * m + 1)) = (b2 \div 128) % 2
      /\ Bit(p, 8 * (3 * m + 1) + 1) = (b2 \div 64) % 2
      /\ Bit(p, 8 * (3 * m + 1) + 2) = (b2 \div 32) % 2
      /\ Bit(p, 8 * (3 * m + 1) + 3) = (b2 \div 16) % 2
      /\ Bit(p, 8 * (3 * m + 1) + 4) = (b2 \div 8) % 2
      /\ Bit(p, 8 * (3 * m + 1) + 5) = (b2 \div 4) % 2
      /\ Bit(p, 8 * (3 * m + 1) + 6) = (b2 \div 2) % 2
      /\ Bit(p, 8 * (3 * m + 1) + 7) = b2 % 2
    <2> DEFINE q == 3 * m + 1
    <2>1. b2 = At(p, q + 1) /\ q \in Nat
        BY <1>2
    <2> HIDE DEF q
    <2>2. /\ Bit(p, 8 * q) = (b2 \div 128) % 2
          /\ Bit(p, 8 * q + 1) = (b2 \div 64) % 2
          /\ Bit(p, 8 * q + 2) = (b2 \div 32) % 2
          /\ Bit(p, 8 * q + 3) = (b2 \div 16) % 2
          /\ Bit(p, 8 * q + 4) = (b2 \div 8) % 2
          /\ Bit(p, 8 * q + 5) = (b2 \div 4) % 2
          /\ Bit(p, 8 * q + 6) = (b2 \div 2) % 2
          /\ Bit(p, 8 * q + 7) = b2 % 2
        BY <2>1, BitsOfByte
    <2> QED  BY <2>2, Zenon DEF q
<1>5. /\ Bit(p, 8 * (3 * m + 2)) = (b3 \div 128) % 2
      /\ Bit(p, 8 * (3 * m + 2) + 1) = (b3 \div 64) % 2
      /\ Bit(p, 8 * (3 * m + 2) + 2) = (b3 \div 32) % 2
      /\ Bit(p, 8 * (3 * m + 2) + 3) = (b3 \div 16) % 2
      /\ Bit(p, 8 * (3 * m + 2) + 4) = (b3 \div 8) % 2
      /\ Bit(p, 8 * (3 * m + 2) + 5) = (b3 \div 4) % 2
      /\ Bit(p, 8 * (3 * m + 2) + 6) = (b3 \div 2) % 2
      /\ Bit(p, 8 * (3 * m + 2) + 7) = b3 % 2
    <2> DEFINE q == 3 * m + 2
    <2>1. b3 = At(p, q + 1) /\ q \in Nat
        BY <1>2
    <2> HIDE DEF q
    <2>2. /\ Bit(p, 8 * q) = (b3 \div 128) % 2
          /\ Bit(p, 8 * q + 1) = (b3 \div 64) % 2
          /\ Bit(p, 8 * q + 2) = (b3 \div 32) % 2
          /\ Bit(p, 8 * q + 3) = (b3 \div 16) % 2
          /\ Bit(p, 8 * q + 4) = (b3 \div 8) % 2
          /\ Bit(p, 8 * q + 5) = (b3 \div 4) % 2
          /\ Bit(p, 8 * q + 6) = (b3 \div 2) % 2
          /\ Bit(p, 8 * q + 7) = b3 % 2
        BY <2>1, BitsOfByte
    <2> QED  BY <2>2, Zenon DEF q
<1>6. Six(p, 4 * m) = b1 \div 4
    <2>1. /\ 6 * (4 * m) = 8 * (3 * m)
          /\ 6 * (4 * m) + 1 = 8 * (3 * m) + 1 /\ 6 * (4 * m) + 2 = 8 * (3 * m) + 2
          /\ 6 * (4 * m) + 3 = 8 * (3 * m) + 3 /\ 6 * (4 * m) + 4 = 8 * (3 * m) + 4
          /\ 6 * (4 * m) + 5 = 8 * (3 * m) + 5
        OBVIOUS
    <2>2. /\ Bit(p, 6 * (4 * m)) = (b1 \div 128) % 2
          /\ Bit(p, 6 * (4 * m) + 1) = (b1 \div 64) % 2
          /\ Bit(p, 6 * (4 * m) + 2) = (b1 \div 32) % 2
          /\ Bit(p, 6 * (4 * m) + 3) = (b1 \div 16) % 2
          /\ Bit(p, 6 * (4 * m) + 4) = (b1 \div 8) % 2
          /\ Bit(p, 6 * (4 * m) + 5) = (b1 \div 4) % 2
        BY <1>3, <2>1
    <2>3. Six(p, 4 * m) =
            32 * ((b1 \div 128) % 2) + 16 * ((b1 \div 64) % 2) + 8 * ((b1 \div 32) % 2)
              + 4 * ((b1 \div 16) % 2) + 2 * ((b1 \div 8) % 2) + ((b1 \div 4) % 2)
        BY <2>2, Zenon DEF Six
    <2> QED  BY <1>1, <2>3, FirstSix, Zenon
<1>7. Six(p, 4 * m + 1) = (b1 % 4) * 16 + b2 \div 16
    <2>1. /\ 6 * (4 * m + 1) = 8 * (3 * m) + 6 /\ 6 * (4 * m + 1) + 1 = 8 * (3 * m) + 7
          /\ 6 * (4 * m + 1) + 2 = 8 * (3 * m + 1)
          /\ 6 * (4 * m + 1) + 3 = 8 * (3 * m + 1) + 1
          /\ 6 * (4 * m + 1) + 4 = 8 * (3 * m + 1) + 2
          /\ 6 * (4 * m + 1) + 5 = 8 * (3 * m + 1) + 3
        OBVIOUS
    <2>2. /\ Bit(p, 6 * (4 * m + 1)) = (b1 \div 2) % 2
          /\ Bit(p, 6 * (4 * m + 1) + 1) = b1 % 2
          /\ Bit(p, 6 * (4 * m + 1) + 2) = (b2 \div 128) % 2
          /\ Bit(p, 6 * (4 * m + 1) + 3) = (b2 \div 64) % 2
          /\ Bit(p, 6 * (4 * m + 1) + 4) = (b2 \div 32) % 2
          /\ Bit(p, 6 * (4 * m + 1) + 5) = (b2 \div 16) % 2
        BY <1>3, <1>4, <2>1
    <2>3. Six(p, 4 * m + 1) =
            32 * ((b1 \div 2) % 2) + 16 * (b1 % 2) + 8 * ((b2 \div 128) % 2)
              + 4 * ((b2 \div 64) % 2) + 2 * ((b2 \div 32) % 2) + ((b2 \div 16) % 2)
        BY <2>2, Zenon DEF Six
    <2> QED  BY <1>1, <2>3, SecondSix, ZenonT(60)
<1>8. Six(p, 4 * m + 2) = (b2 % 16) * 4 + b3 \div 64
    <2>1. /\ 6 * (4 * m + 2) = 8 * (3 * m + 1) + 4
          /\ 6 * (4 * m + 2) + 1 = 8 * (3 * m + 1) + 5
          /\ 6 * (4 * m + 2) + 2 = 8 * (3 * m + 1) + 6
          /\ 6 * (4 * m + 2) + 3 = 8 * (3 * m + 1) + 7
          /\ 6 * (4 * m + 2) + 4 = 8 * (3 * m + 2)
          /\ 6 * (4 * m + 2) + 5 = 8 * (3 * m + 2) + 1
        OBVIOUS
    <2>2. /\ Bit(p, 6 * (4 * m + 2)) = (b2 \div 8) % 2
          /\ Bit(p, 6 * (4 * m + 2) + 1) = (b2 \div 4) % 2
          /\ Bit(p, 6 * (4 * m + 2) + 2) = (b2 \div 2) % 2
          /\ Bit(p, 6 * (4 * m + 2) + 3) = b2 % 2
          /\ Bit(p, 6 * (4 * m + 2) + 4) = (b3 \div 128) % 2
          /\ Bit(p, 6 * (4 * m + 2) + 5) = (b3 \div 64) % 2
        BY <1>4, <1>5, <2>1
    <2>3. Six(p, 4 * m + 2) =
            32 * ((b2 \div 8) % 2) + 16 * ((b2 \div 4) % 2) + 8 * ((b2 \div 2) % 2)
              + 4 * (b2 % 2) + 2 * ((b3 \div 128) % 2) + ((b3 \div 64) % 2)
        BY <2>2, Zenon DEF Six
    <2> QED  BY <1>1, <2>3, ThirdSix, ZenonT(60)
<1>9. Six(p, 4 * m + 3) = b3 % 64
    <2>1. /\ 6 * (4 * m + 3) = 8 * (3 * m + 2) + 2
          /\ 6 * (4 * m + 3) + 1 = 8 * (3 * m + 2) + 3
          /\ 6 * (4 * m + 3) + 2 = 8 * (3 * m + 2) + 4
          /\ 6 * (4 * m + 3) + 3 = 8 * (3 * m + 2) + 5
          /\ 6 * (4 * m + 3) + 4 = 8 * (3 * m + 2) + 6
          /\ 6 * (4 * m + 3) + 5 = 8 * (3 * m + 2) + 7
        OBVIOUS
    <2>2. /\ Bit(p, 6 * (4 * m + 3)) = (b3 \div 32) % 2
          /\ Bit(p, 6 * (4 * m + 3) + 1) = (b3 \div 16) % 2
          /\ Bit(p, 6 * (4 * m + 3) + 2) = (b3 \div 8) % 2
          /\ Bit(p, 6 * (4 * m + 3) + 3) = (b3 \div 4) % 2
          /\ Bit(p, 6 * (4 * m + 3) + 4) = (b3 \div 2) % 2
          /\ Bit(p, 6 * (4 * m + 3) + 5) = b3 % 2
        BY <1>5, <2>1
    <2>3. Six(p, 4 * m + 3) =
            32 * ((b3 \div 32) % 2) + 16 * ((b3 \div 16) % 2) + 8 * ((b3 \div 8) % 2)
              + 4 * ((b3 \div 4) % 2) + 2 * ((b3 \div 2) % 2) + (b3 % 2)
        BY <2>2, Zenon DEF Six
    <2> QED  BY <1>1, <2>3, FourthSix, Zenon
<1> QED  BY <1>1, <1>6, <1>7, <1>8, <1>9

(* The smaller of two numbers. *)
LEMMA MinOfTwo ==
    ASSUME NEW a \in Int, NEW b \in Int
    PROVE  Min({a, b}) = IF a <= b THEN a ELSE b
BY DEF Min

(* Six bits are a number below 64. *)
LEMMA SixBound ==
    ASSUME NEW b \in 0 .. 255, NEW c \in 0 .. 255
    PROVE  /\ b \div 4 \in 0 .. 63 /\ (b % 4) * 16 + c \div 16 \in 0 .. 63
           /\ (b % 16) * 4 + c \div 64 \in 0 .. 63 /\ b % 64 \in 0 .. 63
OBVIOUS

(* The four characters of the group of p after 3 * m, whose bytes are b, c and  *)
(* d, are the table's for its sextets, and pads.                               *)
HasChars(p, m, b, c, d) ==
    /\ 4 * m + 4 <= 4 * ((Len(p) + 2) \div 3)
    /\ Base64(p)[4 * m + 1] = init_etable[b \div 4]
    /\ Base64(p)[4 * m + 2] = init_etable[(b % 4) * 16 + c \div 16]
    /\ Base64(p)[4 * m + 3] = IF Len(p) <= 3 * m + 1 THEN Pad
                              ELSE init_etable[(c % 16) * 4 + d \div 64]
    /\ Base64(p)[4 * m + 4] = IF Len(p) <= 3 * m + 2 THEN Pad ELSE init_etable[d % 64]

(* The four characters of a group of bytes. *)
LEMMA FourChars ==
    ASSUME NEW p \in Seq(0 .. 255), NEW m \in Nat, 3 * m < Len(p)
    PROVE  HasChars(p, m, At(p, 3 * m + 1), At(p, 3 * m + 2), At(p, 3 * m + 3))
<1>0. PICK b1, b2, b3 :
        b1 = At(p, 3 * m + 1) /\ b2 = At(p, 3 * m + 2) /\ b3 = At(p, 3 * m + 3)
    OBVIOUS
<1>1. Len(p) \in Nat
    OBVIOUS
<1>2. 4 * m + 4 <= 4 * ((Len(p) + 2) \div 3)
    BY <1>1
<1>3. /\ b1 \in 0 .. 255 /\ b2 \in 0 .. 255 /\ b3 \in 0 .. 255
      /\ Six(p, 4 * m) = b1 \div 4
      /\ Six(p, 4 * m + 1) = (b1 % 4) * 16 + b2 \div 16
      /\ Six(p, 4 * m + 2) = (b2 % 16) * 4 + b3 \div 64
      /\ Six(p, 4 * m + 3) = b3 % 64
    BY <1>0, Sextets, SMTT(60)
<1>4. /\ b1 \div 4 \in 0 .. 63 /\ (b1 % 4) * 16 + b2 \div 16 \in 0 .. 63
      /\ (b2 % 16) * 4 + b3 \div 64 \in 0 .. 63 /\ b3 % 64 \in 0 .. 63
    <2>1. b1 \div 4 \in 0 .. 63 /\ (b1 % 4) * 16 + b2 \div 16 \in 0 .. 63
        BY <1>3, SixBound, ZenonT(60)
    <2>2. (b2 % 16) * 4 + b3 \div 64 \in 0 .. 63
        BY <1>3, SixBound, ZenonT(60)
    <2>3. b3 % 64 \in 0 .. 63
        BY <1>3, SixBound, ZenonT(60)
    <2> QED  BY <2>1, <2>2, <2>3
<1>5. /\ Char(Six(p, 4 * m)) = init_etable[b1 \div 4]
      /\ Char(Six(p, 4 * m + 1)) = init_etable[(b1 % 4) * 16 + b2 \div 16]
      /\ Char(Six(p, 4 * m + 2)) = init_etable[(b2 % 16) * 4 + b3 \div 64]
      /\ Char(Six(p, 4 * m + 3)) = init_etable[b3 % 64]
    <2>1. \A v \in 0 .. 63 : Char(v) = init_etable[v]
        BY Characters
    <2>2. Char(Six(p, 4 * m)) = init_etable[b1 \div 4]
        BY <1>3, <1>4, <2>1, Zenon
    <2>3. Char(Six(p, 4 * m + 1)) = init_etable[(b1 % 4) * 16 + b2 \div 16]
        BY <1>3, <1>4, <2>1, ZenonT(60)
    <2>4. Char(Six(p, 4 * m + 2)) = init_etable[(b2 % 16) * 4 + b3 \div 64]
        BY <1>3, <1>4, <2>1, ZenonT(60)
    <2>5. Char(Six(p, 4 * m + 3)) = init_etable[b3 % 64]
        BY <1>3, <1>4, <2>1, ZenonT(60)
    <2> QED  BY <2>2, <2>3, <2>4, <2>5, Zenon
<1>6. \A k \in 1 .. 4 * ((Len(p) + 2) \div 3) :
        Base64(p)[k] = IF 6 * (k - 1) >= 8 * Len(p) THEN Pad ELSE Char(Six(p, k - 1))
    BY DEF Base64
<1> DEFINE K == 4 * ((Len(p) + 2) \div 3)
<1>7. K \in Nat /\ 4 * m + 4 <= K
    BY <1>1, <1>2
<1> HIDE DEF K
<1>8. /\ 4 * m + 1 \in 1 .. K /\ 4 * m + 2 \in 1 .. K /\ 4 * m + 3 \in 1 .. K /\ 4 * m + 4 \in 1 .. K
      /\ (4 * m + 1) - 1 = 4 * m /\ (4 * m + 2) - 1 = 4 * m + 1
      /\ (4 * m + 3) - 1 = 4 * m + 2 /\ (4 * m + 4) - 1 = 4 * m + 3
    BY <1>7
<1>9. /\ ~ (6 * (4 * m) >= 8 * Len(p)) /\ ~ (6 * (4 * m + 1) >= 8 * Len(p))
      /\ 6 * (4 * m + 2) >= 8 * Len(p) <=> Len(p) <= 3 * m + 1
      /\ 6 * (4 * m + 3) >= 8 * Len(p) <=> Len(p) <= 3 * m + 2
    BY <1>1
<1>10. /\ Base64(p)[4 * m + 1] = Char(Six(p, 4 * m))
       /\ Base64(p)[4 * m + 2] = Char(Six(p, 4 * m + 1))
       /\ Base64(p)[4 * m + 3] = IF Len(p) <= 3 * m + 1 THEN Pad ELSE Char(Six(p, 4 * m + 2))
       /\ Base64(p)[4 * m + 4] = IF Len(p) <= 3 * m + 2 THEN Pad ELSE Char(Six(p, 4 * m + 3))
    <2>1. \A k \in 1 .. K :
            Base64(p)[k] = IF 6 * (k - 1) >= 8 * Len(p) THEN Pad ELSE Char(Six(p, k - 1))
        BY <1>6 DEF K
    <2>2. Base64(p)[4 * m + 1] = Char(Six(p, 4 * m))
        BY <1>8, <1>9, <2>1, Zenon
    <2>3. Base64(p)[4 * m + 2] = Char(Six(p, 4 * m + 1))
        BY <1>8, <1>9, <2>1, Zenon
    <2>4. Base64(p)[4 * m + 3] = IF Len(p) <= 3 * m + 1 THEN Pad ELSE Char(Six(p, 4 * m + 2))
        BY <1>8, <1>9, <2>1, Zenon
    <2>5. Base64(p)[4 * m + 4] = IF Len(p) <= 3 * m + 2 THEN Pad ELSE Char(Six(p, 4 * m + 3))
        BY <1>8, <1>9, <2>1, Zenon
    <2> QED  BY <2>2, <2>3, <2>4, <2>5
<1>11. HasChars(p, m, b1, b2, b3)
    BY <1>2, <1>5, <1>10, Zenon DEF HasChars
<1> QED  BY <1>0, <1>11, Zenon

(* A character of the alphabet is no pad and decodes to its six bits. *)
LEMMA TableTyped ==
    ASSUME NEW v \in 0 .. 63
    PROVE  init_etable[v] \in 1 .. 254 /\ init_etable[v] # Pad /\ init_dtable[init_etable[v]] = v
BY Characters, SMTT(60)

(* The n elements of s after the first a. *)
LEMMA Piece ==
    ASSUME NEW S, NEW s \in Seq(S), NEW a \in Nat, NEW n \in Nat, a + n <= Len(s)
    PROVE  /\ SubSeq(s, a + 1, a + n) \in Seq(S)
           /\ Len(SubSeq(s, a + 1, a + n)) = n
           /\ \A i \in 1 .. n : SubSeq(s, a + 1, a + n)[i] = s[a + i]
<1> DEFINE l == a + 1
           h == a + n
<1>1. Len(s) \in Nat /\ l \in Int /\ h \in Int /\ l >= 1 /\ h <= Len(s)
      /\ h - l + 1 = n /\ (l <= h <=> n > 0)
    OBVIOUS
<1>2. \A i \in 1 .. n : l + i - 1 = a + i
    OBVIOUS
<1> HIDE DEF l, h
<1>3. \A i \in l .. h : i \in 1 .. Len(s)
    BY <1>1
<1>4. \A i \in l .. h : s[i] \in S
    BY <1>3, ElementOfSeq
<1>5. /\ SubSeq(s, l, h) \in Seq(S)
      /\ Len(SubSeq(s, l, h)) = IF l <= h THEN h - l + 1 ELSE 0
      /\ \A i \in 1 .. h - l + 1 : SubSeq(s, l, h)[i] = s[l + i - 1]
    BY <1>1, <1>4, SubSeqProperties
<1>6. /\ SubSeq(s, l, h) \in Seq(S) /\ Len(SubSeq(s, l, h)) = n
      /\ \A i \in 1 .. n : SubSeq(s, l, h)[i] = s[a + i]
    BY <1>1, <1>2, <1>5
<1> QED  BY <1>6 DEF l, h

(* The four elements of s after the first a. *)
LEMMA FourAfter ==
    ASSUME NEW S, NEW s \in Seq(S), NEW a \in Nat, a + 4 <= Len(s)
    PROVE  SubSeq(s, a + 1, a + 4) = << s[a + 1], s[a + 2], s[a + 3], s[a + 4] >>
<1>1. PICK n \in Nat : n = 4
    OBVIOUS
<1>2. PICK t : t = SubSeq(s, a + 1, a + n)
    OBVIOUS
<1>3. a + n <= Len(s)
    BY <1>1
<1>4. t \in Seq(S) /\ Len(t) = n /\ \A i \in 1 .. n : t[i] = s[a + i]
    BY <1>2, <1>3, Piece
<1>5. Len(t) = 4 /\ t[1] = s[a + 1] /\ t[2] = s[a + 2] /\ t[3] = s[a + 3] /\ t[4] = s[a + 4]
    BY <1>1, <1>4
<1>6. t = << t[1], t[2], t[3], t[4] >>
    BY <1>4, <1>5
<1> QED  BY <1>1, <1>2, <1>5, <1>6

(* The end of the group of at most w places after q, of l places. *)
LEMMA GroupEnd ==
    ASSUME NEW l \in Nat, NEW q \in Nat, NEW w \in Nat \ {0}, q < l
    PROVE  \E n \in 1 .. w : /\ q + n = Min({q + w, l}) /\ q + n <= l
                             /\ \A i \in 1 .. w : i <= n <=> q + i <= l
<1>1. q + w \in Int /\ l \in Int
    OBVIOUS
<1>2. Min({q + w, l}) = IF q + w <= l THEN q + w ELSE l
    BY <1>1, MinOfTwo
<1>3. CASE q + w <= l
    <2>1. w \in 1 .. w /\ q + w = Min({q + w, l}) /\ \A i \in 1 .. w : i <= w <=> q + i <= l
        BY <1>2, <1>3
    <2> QED  BY <1>3, <2>1
<1>4. CASE ~ (q + w <= l)
    <2>1. l - q \in 1 .. w /\ q + (l - q) = Min({q + w, l}) /\ q + (l - q) <= l
          /\ \A i \in 1 .. w : i <= l - q <=> q + i <= l
        BY <1>2, <1>4
    <2> QED  BY <2>1
<1> QED  BY <1>3, <1>4

(* g is the group of at most w elements of s after the first q. *)
IsGroup(g, s, q, w) ==
    /\ Len(g) \in 1 .. w /\ q + Len(g) = Min({q + w, Len(s)}) /\ q + Len(g) <= Len(s)
    /\ \A i \in 1 .. w : i <= Len(g) <=> q + i <= Len(s)
    /\ \A i \in 1 .. Len(g) : g[i] = s[q + i]

(* Up to w elements after the first q are a group. *)
LEMMA GroupOf ==
    ASSUME NEW S, NEW s \in Seq(S), NEW q \in Nat, NEW w \in Nat \ {0}, q < Len(s)
    PROVE  /\ IsGroup(SubSeq(s, q + 1, Min({q + w, Len(s)})), s, q, w)
           /\ SubSeq(s, q + 1, Min({q + w, Len(s)})) \in Seq(S)
<1>1. Len(s) \in Nat
    OBVIOUS
<1>2. PICK n \in 1 .. w : /\ q + n = Min({q + w, Len(s)}) /\ q + n <= Len(s)
                         /\ \A i \in 1 .. w : i <= n <=> q + i <= Len(s)
    BY <1>1, GroupEnd, Zenon
<1>3. n \in Nat
    OBVIOUS
<1>4. q + n <= Len(s)
    BY <1>2
<1>5. /\ SubSeq(s, q + 1, q + n) \in Seq(S)
      /\ Len(SubSeq(s, q + 1, q + n)) = n
      /\ \A i \in 1 .. n : SubSeq(s, q + 1, q + n)[i] = s[q + i]
    <2>1. SubSeq(s, q + 1, q + n) \in Seq(S)
        BY <1>3, <1>4, Piece
    <2>2. Len(SubSeq(s, q + 1, q + n)) = n
        BY <1>3, <1>4, Piece
    <2>3. \A i \in 1 .. n : SubSeq(s, q + 1, q + n)[i] = s[q + i]
        BY <1>3, <1>4, Piece
    <2> QED  BY <2>1, <2>2, <2>3
<1>6. SubSeq(s, q + 1, Min({q + w, Len(s)})) = SubSeq(s, q + 1, q + n)
    BY <1>2, Zenon
<1>7. IsGroup(SubSeq(s, q + 1, q + n), s, q, w)
    BY <1>2, <1>5, Zenon DEF IsGroup
<1> QED  BY <1>5, <1>6, <1>7, Zenon

(* The characters b64_decode accepts, but the one its table leaves at 0. *)
Letters == {c \in 1 .. 254 : init_dtable[c] \in 0 .. 63}

(* The encoding is a string of four characters for each group. *)
LEMMA EncodingTyped ==
    ASSUME NEW p \in Seq(0 .. 255)
    PROVE  /\ Base64(p) \in Seq(Letters)
           /\ Len(Base64(p)) = 4 * ((Len(p) + 2) \div 3)
<1> DEFINE K == 4 * ((Len(p) + 2) \div 3)
<1>1. Len(p) \in Nat /\ K \in Nat
    OBVIOUS
<1>2. ASSUME NEW k \in 1 .. K PROVE Base64(p)[k] \in Letters
    <2> DEFINE m == (k - 1) \div 4
    <2>1. m \in Nat /\ 3 * m < Len(p)
          /\ (k = 4 * m + 1 \/ k = 4 * m + 2 \/ k = 4 * m + 3 \/ k = 4 * m + 4)
        BY <1>1
    <2> HIDE DEF m, K
    <2>2. PICK b1, b2, b3 : b1 = At(p, 3 * m + 1) /\ b2 = At(p, 3 * m + 2) /\ b3 = At(p, 3 * m + 3)
        OBVIOUS
    <2>3. b1 \in 0 .. 255 /\ b2 \in 0 .. 255 /\ b3 \in 0 .. 255
        <3>1. 3 * m + 1 \in Nat \ {0} /\ 3 * m + 2 \in Nat \ {0} /\ 3 * m + 3 \in Nat \ {0}
            BY <2>1
        <3> QED  BY <2>2, <3>1, AtIsByte
    <2>4. /\ Base64(p)[4 * m + 1] = init_etable[b1 \div 4]
          /\ Base64(p)[4 * m + 2] = init_etable[(b1 % 4) * 16 + b2 \div 16]
          /\ Base64(p)[4 * m + 3] = IF Len(p) <= 3 * m + 1 THEN Pad
                                    ELSE init_etable[(b2 % 16) * 4 + b3 \div 64]
          /\ Base64(p)[4 * m + 4] = IF Len(p) <= 3 * m + 2 THEN Pad
                                    ELSE init_etable[b3 % 64]
        <3>1. HasChars(p, m, b1, b2, b3)
            BY <2>1, <2>2, FourChars
        <3> QED  BY <3>1, Zenon DEF HasChars
    <2>5. b1 \div 4 \in 0 .. 63 /\ (b1 % 4) * 16 + b2 \div 16 \in 0 .. 63
        BY <2>3, SixBound, ZenonT(60)
    <2>6. (b2 % 16) * 4 + b3 \div 64 \in 0 .. 63
        BY <2>3, SixBound, ZenonT(60)
    <2>7. b3 % 64 \in 0 .. 63
        BY <2>3, SixBound, ZenonT(60)
    <2>8. Pad \in Letters /\ \A v \in 0 .. 63 : init_etable[v] \in Letters
        <3>1. init_dtable[Pad] = 0 /\ Pad \in 1 .. 254
            BY DEF init_dtable, Upper, Lower, Digit, Plus, Slash, Pad
        <3>2. ASSUME NEW v \in 0 .. 63 PROVE init_etable[v] \in Letters
            <4>1. init_etable[v] \in 1 .. 254 /\ init_dtable[init_etable[v]] = v
                BY TableTyped
            <4>2. init_dtable[init_etable[v]] \in 0 .. 63
                BY <4>1, ZenonT(60)
            <4> QED  BY <4>1, <4>2, Zenon DEF Letters
        <3>3. Pad \in Letters
            BY <3>1 DEF Letters
        <3> QED  BY <3>2, <3>3
    <2>9. /\ Base64(p)[4 * m + 1] \in Letters /\ Base64(p)[4 * m + 2] \in Letters
          /\ Base64(p)[4 * m + 3] \in Letters /\ Base64(p)[4 * m + 4] \in Letters
        BY <2>4, <2>5, <2>6, <2>7, <2>8, Zenon
    <2> QED  BY <2>1, <2>9, Zenon
<1>3. Base64(p) = [k \in 1 .. K |-> Base64(p)[k]]
    BY DEF Base64
<1>4. Base64(p) \in [1 .. K -> Letters]
    BY <1>2, <1>3
<1>5. Base64(p) \in Seq(Letters) /\ Len(Base64(p)) = K
    <2> HIDE DEF K
    <2> QED  BY <1>1, <1>4, FunctionIsSeq
<1> QED  BY <1>5

(* A group of up to three bytes, and its characters. *)
LEMMA GroupEncoded ==
    ASSUME NEW p \in Seq(0 .. 255), NEW m \in Nat, 3 * m < Len(p)
    PROVE  ogroup(SubSeq(p, 3 * m + 1, Min({3 * m + 3, Len(p)})))
              = SubSeq(Base64(p), 4 * m + 1, 4 * m + 4)
<1> DEFINE q == 3 * m
           g == SubSeq(p, q + 1, Min({q + 3, Len(p)}))
           b(i) == IF i <= Len(g) THEN g[i] ELSE 0
<1>1. q \in Nat /\ Len(p) \in Nat /\ q < Len(p) /\ 3 \in Nat \ {0}
    OBVIOUS
<1> HIDE DEF q
<1>2. IsGroup(g, p, q, 3)
    BY <1>1, GroupOf
<1> HIDE DEF g
<1>9. Len(g) \in 1 .. 3
    BY <1>2 DEF IsGroup
<1>10. \A i \in 1 .. 3 : i <= Len(g) <=> q + i <= Len(p)
    BY <1>2 DEF IsGroup
<1>11. \A i \in 1 .. 3 : i <= Len(g) => g[i] = p[q + i]
    BY <1>2, <1>9 DEF IsGroup
<1>12. \A i \in 1 .. 3 : b(i) = At(p, q + i)
    BY <1>10, <1>11 DEF At
<1>3. (Len(g) < 2 <=> Len(p) <= q + 1) /\ (Len(g) < 3 <=> Len(p) <= q + 2)
    BY <1>1, <1>9, <1>10
<1>4. b(1) = At(p, q + 1) /\ b(2) = At(p, q + 2) /\ b(3) = At(p, q + 3)
    <2> HIDE DEF b
    <2> QED  BY <1>12
<1>5. ogroup(g) = << init_etable[b(1) \div 4], init_etable[(b(1) % 4) * 16 + b(2) \div 16],
                     IF Len(g) < 2 THEN Pad ELSE init_etable[(b(2) % 16) * 4 + b(3) \div 64],
                     IF Len(g) < 3 THEN Pad ELSE init_etable[b(3) % 64] >>
    BY Zenon DEF ogroup
<1> HIDE DEF b
<1> DEFINE B == Base64(p)
<1>6. ogroup(g) = << B[4 * m + 1], B[4 * m + 2], B[4 * m + 3], B[4 * m + 4] >>
    <2>1. /\ B[4 * m + 1] = init_etable[b(1) \div 4]
          /\ B[4 * m + 2] = init_etable[(b(1) % 4) * 16 + b(2) \div 16]
          /\ B[4 * m + 3] = IF Len(p) <= 3 * m + 1 THEN Pad
                            ELSE init_etable[(b(2) % 16) * 4 + b(3) \div 64]
          /\ B[4 * m + 4] = IF Len(p) <= 3 * m + 2 THEN Pad
                            ELSE init_etable[b(3) % 64]
        <3>1. HasChars(p, m, At(p, 3 * m + 1), At(p, 3 * m + 2), At(p, 3 * m + 3))
            BY FourChars
        <3>2. HasChars(p, m, b(1), b(2), b(3))
            BY <1>4, <3>1, Zenon DEF q
        <3> QED  BY <3>2, Zenon DEF HasChars
    <2>2. (Len(g) < 2 <=> Len(p) <= 3 * m + 1) /\ (Len(g) < 3 <=> Len(p) <= 3 * m + 2)
        BY <1>3 DEF q
    <2> HIDE DEF B
    <2> QED  BY <1>5, <2>1, <2>2, Zenon
<1>7. 4 * m + 4 <= Len(B) /\ B \in Seq(Letters)
    <2>1. 4 * m + 4 <= 4 * ((Len(p) + 2) \div 3)
        BY FourChars, Zenon DEF HasChars
    <2> QED  BY <2>1, EncodingTyped
<1> HIDE DEF B
<1>8. SubSeq(B, 4 * m + 1, 4 * m + 4) = << B[4 * m + 1], B[4 * m + 2], B[4 * m + 3], B[4 * m + 4] >>
    <2> DEFINE k == 4 * m
    <2>1. k \in Nat /\ k + 4 <= Len(B)
        BY <1>7
    <2> HIDE DEF k
    <2>2. SubSeq(B, k + 1, k + 4) = << B[k + 1], B[k + 2], B[k + 3], B[k + 4] >>
        BY <1>7, <2>1, FourAfter
    <2> QED  BY <2>2, Zenon DEF k
<1> QED  BY <1>6, <1>8, Zenon DEF B, g, q

(* The groups of s, w elements each. *)
LEMMA GroupsOf ==
    ASSUME NEW S, NEW s \in Seq(S), NEW w \in Nat \ {0}, NEW n \in Nat,
           n = (Len(s) + w - 1) \div w
    PROVE  /\ DOMAIN Groups(s, w) = 1 .. n
           /\ \A k \in 1 .. n :
                Groups(s, w)[k] = SubSeq(s, w * (k - 1) + 1, Min({w * k, Len(s)}))
BY DEF Groups

(* The whole encoding, before what does not fit is cut. *)
LEMMA EncodeAll ==
    ASSUME NEW p \in Seq(0 .. 255)
    PROVE  FlattenSeq([k \in DOMAIN Groups(p, 3) |-> ogroup(Groups(p, 3)[k])]) = Base64(p)
<1> DEFINE n == (Len(p) + 2) \div 3
           B == Base64(p)
           e == [i \in 0 .. n |-> 4 * i]
           s == [k \in DOMAIN Groups(p, 3) |-> ogroup(Groups(p, 3)[k])]
<1>1. Len(p) \in Nat /\ n \in Nat /\ n = (Len(p) + 3 - 1) \div 3 /\ 3 \in Nat \ {0}
    OBVIOUS
<1>2. \A k \in 1 .. n : 3 * (k - 1) < Len(p)
    BY <1>1
<1>3. B \in Seq(Letters) /\ Len(B) = 4 * n
    BY EncodingTyped
<1> HIDE DEF n, B
<1>4. /\ DOMAIN Groups(p, 3) = 1 .. n
      /\ \A k \in 1 .. n :
            Groups(p, 3)[k] = SubSeq(p, 3 * (k - 1) + 1, Min({3 * k, Len(p)}))
    BY <1>1 DEF Groups
<1>5. s = [k \in 1 .. n |-> ogroup(Groups(p, 3)[k])]
    BY <1>4, Zenon
<1>6. ASSUME NEW k \in 1 .. n
      PROVE  ogroup(Groups(p, 3)[k]) = SubSeq(B, 4 * (k - 1) + 1, 4 * k)
    <2> DEFINE m == k - 1
    <2>1. m \in Nat /\ 3 * m < Len(p) /\ 3 * k = 3 * m + 3 /\ 4 * k = 4 * m + 4
        BY <1>1, <1>2
    <2>2. Groups(p, 3)[k] = SubSeq(p, 3 * m + 1, Min({3 * k, Len(p)}))
        BY <1>4
    <2> HIDE DEF m
    <2>3. ogroup(SubSeq(p, 3 * m + 1, Min({3 * m + 3, Len(p)})))
              = SubSeq(B, 4 * m + 1, 4 * m + 4)
        BY <2>1, GroupEncoded DEF B
    <2>4. ogroup(Groups(p, 3)[k]) = SubSeq(B, 4 * m + 1, 4 * k)
        BY <2>1, <2>2, <2>3, Zenon
    <2> QED  BY <2>4 DEF m
<1>7. s = [k \in 1 .. n |-> s[k]]
    BY <1>5
<1>8. \A k \in 1 .. n : s[k] = SubSeq(B, 4 * (k - 1) + 1, 4 * k)
    <2> TAKE k \in 1 .. n
    <2>1. s[k] = ogroup(Groups(p, 3)[k])
        BY <1>5
    <2> HIDE DEF s
    <2> QED  BY <1>6, <2>1, Zenon
<1> HIDE DEF s
<1>9. e \in [0 .. n -> 0 .. Len(B)] /\ e[0] = 0 /\ e[n] = Len(B)
    BY <1>1, <1>3
<1>10. \A k \in 1 .. n : e[k - 1] = 4 * (k - 1) /\ e[k] = 4 * k /\ e[k - 1] <= e[k]
    BY <1>1
<1> HIDE DEF e
<1>11. \A i \in 1 .. n : e[i - 1] <= e[i] /\ s[i] = SubSeq(B, e[i - 1] + 1, e[i])
    <2> TAKE i \in 1 .. n
    <2>1. e[i - 1] = 4 * (i - 1) /\ e[i] = 4 * i /\ e[i - 1] <= e[i]
        BY <1>10
    <2>2. s[i] = SubSeq(B, 4 * (i - 1) + 1, 4 * i)
        BY <1>8
    <2>3. s[i] = SubSeq(B, e[i - 1] + 1, e[i])
        BY <2>1, <2>2, Zenon
    <2> QED  BY <2>1, <2>3
<1>12. FlattenSeq(s) = SubSeq(B, 1, e[n])
    <2>1. ArePieces(s, n, e, B)
        BY <1>7, <1>9, <1>11, Zenon DEF ArePieces
    <2> QED  BY <1>1, <1>3, <2>1, FlattenPieces, Zenon
<1>13. SubSeq(B, 1, Len(B)) = B
    BY <1>3, SubSeqFull
<1> QED  BY <1>9, <1>12, <1>13 DEF s, B

(* b64_encode leaves as much of the encoding as fits before the final 0. *)
LEMMA EncodeIs ==
    ASSUME NEW p \in Seq(0 .. 255), NEW r
    PROVE  encode(p, r) = SubSeq(Base64(p), 1, Min({Len(Base64(p)), r - 1}))
<1> DEFINE a == FlattenSeq([k \in DOMAIN Groups(p, 3) |-> ogroup(Groups(p, 3)[k])])
<1>1. encode(p, r) = SubSeq(a, 1, Min({Len(a), r - 1}))
    BY Zenon DEF encode
<1>2. a = Base64(p)
    BY EncodeAll
<1> HIDE DEF a
<1> QED  BY <1>1, <1>2, Zenon

(* Sequences of the same length with the same elements are the same. *)
LEMMA SameSeq ==
    ASSUME NEW S, NEW T, NEW s \in Seq(S), NEW t \in Seq(T), Len(s) = Len(t),
           \A i \in 1 .. Len(s) : s[i] = t[i]
    PROVE  s = t
<1>1. DOMAIN s = 1 .. Len(s) /\ DOMAIN t = 1 .. Len(t)
    BY LenProperties
<1>2. s = [i \in DOMAIN s |-> s[i]] /\ t = [i \in DOMAIN t |-> t[i]]
    BY LenProperties
<1> QED  BY <1>1, <1>2

(* The first one, two or three of three values. *)
LEMMA FirstOfThree ==
    ASSUME NEW S, NEW t \in Seq(S), NEW a, NEW b, NEW c, Len(t) \in 1 .. 3,
           t[1] = a, Len(t) >= 2 => t[2] = b, Len(t) >= 3 => t[3] = c
    PROVE  SubSeq(<<a, b, c>>, 1, Len(t)) = t
<1>1. PICK o : o = <<a, b, c>>
    OBVIOUS
<1>2. PICK C : C = {a, b, c}
    OBVIOUS
<1>3. o \in Seq(C) /\ Len(o) = 3 /\ o[1] = a /\ o[2] = b /\ o[3] = c
    BY <1>1, <1>2
<1>4. PICK n \in 1 .. 3 : n = Len(t)
    BY Zenon
<1>5. PICK z \in Nat : z = 0
    OBVIOUS
<1>6. z + n <= Len(o) /\ z + 1 = 1 /\ z + n = n /\ \A i \in 1 .. n : z + i = i
    <2>1. n \in Nat /\ n <= 3
        OBVIOUS
    <2> QED  BY <1>3, <1>5, <2>1
<1>7. /\ SubSeq(o, z + 1, z + n) \in Seq(C) /\ Len(SubSeq(o, z + 1, z + n)) = n
      /\ \A i \in 1 .. n : SubSeq(o, z + 1, z + n)[i] = o[z + i]
    <2>1. n \in Nat
        OBVIOUS
    <2>2. o \in Seq(C)
        BY <1>3
    <2>3. z + n <= Len(o)
        BY <1>6
    <2>4. SubSeq(o, z + 1, z + n) \in Seq(C)
        BY <2>1, <2>2, <2>3, Piece, Zenon
    <2>5. Len(SubSeq(o, z + 1, z + n)) = n
        BY <2>1, <2>2, <2>3, Piece, ZenonT(60)
    <2>6. \A i \in 1 .. n : SubSeq(o, z + 1, z + n)[i] = o[z + i]
        BY <2>1, <2>2, <2>3, Piece, Zenon
    <2> QED  BY <2>4, <2>5, <2>6
<1>8. PICK u : u = SubSeq(o, 1, n)
    OBVIOUS
<1>9. u \in Seq(C) /\ Len(u) = n /\ \A i \in 1 .. n : u[i] = o[i]
    BY <1>6, <1>7, <1>8
<1>10. \A i \in 1 .. n : i = 1 \/ (i = 2 /\ n >= 2) \/ (i = 3 /\ n >= 3)
    BY <1>4
<1>11. \A i \in 1 .. n : o[i] = t[i]
    BY <1>3, <1>4, <1>10
<1>12. u = t
    <2>1. Len(u) = Len(t) /\ \A i \in 1 .. Len(u) : u[i] = t[i]
        BY <1>4, <1>9, <1>11
    <2> QED  BY <1>9, <2>1, SameSeq
<1> QED  BY <1>1, <1>4, <1>8, <1>12

(* The bytes b, c and d that the sextets v, w, x and y make. *)
Joins(v, w, x, y, b, c, d) ==
    /\ ((v * 4) % 256) + w \div 16 = b
    /\ ((w * 16) % 256) + x \div 4 = c
    /\ ((x * 64) % 256) + y = d

(* Three bytes are made of their four sextets. *)
LEMMA BytesBack ==
    ASSUME NEW b \in 0 .. 255, NEW c \in 0 .. 255, NEW d \in 0 .. 255
    PROVE  Joins(b \div 4, (b % 4) * 16 + c \div 16, (c % 16) * 4 + d \div 64, d % 64, b, c, d)
<1>1. (((b \div 4) * 4) % 256) + ((b % 4) * 16 + c \div 16) \div 16 = b
    OBVIOUS
<1>2. ((((b % 4) * 16 + c \div 16) * 16) % 256) + ((c % 16) * 4 + d \div 64) \div 4 = c
    OBVIOUS
<1>3. ((((c % 16) * 4 + d \div 64) * 64) % 256) + (d % 64) = d
    OBVIOUS
<1> QED  BY <1>1, <1>2, <1>3, Zenon DEF Joins

(* The sextets v, w, x and y of the bytes b, c and d. *)
Splits(b, c, d, v, w, x, y) ==
    /\ b \in 0 .. 255 /\ c \in 0 .. 255 /\ d \in 0 .. 255
    /\ b \div 4 = v /\ (b % 4) * 16 + c \div 16 = w
    /\ (c % 16) * 4 + d \div 64 = x /\ d % 64 = y

(* Four sextets are those of the bytes they make. *)
LEMMA SextetsBack ==
    ASSUME NEW v \in 0 .. 63, NEW w \in 0 .. 63, NEW x \in 0 .. 63, NEW y \in 0 .. 63,
           NEW b, NEW c, NEW d, Joins(v, w, x, y, b, c, d)
    PROVE  Splits(b, c, d, v, w, x, y)
<1>0. /\ b = ((v * 4) % 256) + w \div 16 /\ c = ((w * 16) % 256) + x \div 4
      /\ d = ((x * 64) % 256) + y
    BY DEF Joins
<1>1. b \in 0 .. 255 /\ c \in 0 .. 255 /\ d \in 0 .. 255
    BY <1>0
<1>2. b \div 4 = v
    BY <1>0
<1>3. (b % 4) * 16 + c \div 16 = w
    BY <1>0
<1>4. (c % 16) * 4 + d \div 64 = x
    BY <1>0
<1>5. d % 64 = y
    BY <1>0
<1> QED  BY <1>1, <1>2, <1>3, <1>4, <1>5, Zenon DEF Splits

(* A group of four characters is decoded to at most three bytes. *)
LEMMA IgroupIs ==
    ASSUME NEW g
    PROVE  igroup(g) =
              SubSeq(<< ((init_dtable[g[1]] * 4) % 256) + init_dtable[g[2]] \div 16,
                        ((init_dtable[g[2]] * 16) % 256) + init_dtable[g[3]] \div 4,
                        ((init_dtable[g[3]] * 64) % 256) + init_dtable[g[4]] >>,
                     1, IF g[3] = Pad THEN 1 ELSE IF g[4] = Pad THEN 2 ELSE 3)
BY Zenon DEF igroup

(* Three cases by two comparisons. *)
LEMMA OneTwoThree ==
    ASSUME NEW n \in 1 .. 3
    PROVE  n = IF n < 2 THEN 1 ELSE IF n < 3 THEN 2 ELSE 3
OBVIOUS

(* Each group of an encoding decodes to the group it was made of. *)
LEMMA GroupDecoded ==
    ASSUME NEW p \in Seq(0 .. 255), NEW m \in Nat, 3 * m < Len(p)
    PROVE  igroup(SubSeq(Base64(p), 4 * m + 1, 4 * m + 4))
              = SubSeq(p, 3 * m + 1, Min({3 * m + 3, Len(p)}))
<1> DEFINE q == 3 * m
           k == 4 * m
           B == Base64(p)
           g == SubSeq(B, k + 1, k + 4)
           h == SubSeq(p, q + 1, Min({q + 3, Len(p)}))
<1>1. q \in Nat /\ k \in Nat /\ Len(p) \in Nat /\ q < Len(p) /\ 3 \in Nat \ {0}
    OBVIOUS
<1>2. PICK b1, b2, b3 : b1 = At(p, q + 1) /\ b2 = At(p, q + 2) /\ b3 = At(p, q + 3)
    OBVIOUS
<1>3. b1 \in 0 .. 255 /\ b2 \in 0 .. 255 /\ b3 \in 0 .. 255
    <2>1. q + 1 \in Nat \ {0} /\ q + 2 \in Nat \ {0} /\ q + 3 \in Nat \ {0}
        BY <1>1
    <2> HIDE DEF q
    <2> QED  BY <1>2, <2>1, AtIsByte
<1>4. /\ k + 4 <= 4 * ((Len(p) + 2) \div 3)
      /\ B[k + 1] = init_etable[b1 \div 4]
      /\ B[k + 2] = init_etable[(b1 % 4) * 16 + b2 \div 16]
      /\ B[k + 3] = IF Len(p) <= q + 1 THEN Pad
                    ELSE init_etable[(b2 % 16) * 4 + b3 \div 64]
      /\ B[k + 4] = IF Len(p) <= q + 2 THEN Pad ELSE init_etable[b3 % 64]
    <2>1. HasChars(p, m, At(p, q + 1), At(p, q + 2), At(p, q + 3))
        BY FourChars
    <2>2. HasChars(p, m, b1, b2, b3)
        BY <1>2, <2>1, Zenon
    <2> QED  BY <2>2, Zenon DEF HasChars
<1>5. B \in Seq(Letters) /\ k + 4 <= Len(B)
    BY <1>4, EncodingTyped
<1> HIDE DEF B, k
<1>6. g = << B[k + 1], B[k + 2], B[k + 3], B[k + 4] >>
    BY <1>1, <1>5, FourAfter
<1> HIDE DEF q
<1>7. IsGroup(h, p, q, 3) /\ h \in Seq(0 .. 255)
    BY <1>1, GroupOf
<1> HIDE DEF g, h
<1>8. g[1] = B[k + 1] /\ g[2] = B[k + 2] /\ g[3] = B[k + 3] /\ g[4] = B[k + 4]
    BY <1>6
<1>9. Len(h) \in 1 .. 3
    BY <1>7 DEF IsGroup
<1>10. \A i \in 1 .. 3 : i <= Len(h) <=> q + i <= Len(p)
    BY <1>7 DEF IsGroup
<1>11. \A i \in 1 .. 3 : i <= Len(h) => h[i] = At(p, q + i)
    BY <1>7, <1>9, <1>10 DEF IsGroup, At
<1>12. (Len(h) < 2 <=> Len(p) <= q + 1) /\ (Len(h) < 3 <=> Len(p) <= q + 2)
    BY <1>1, <1>9, <1>10
<1>13. h[1] = b1 /\ (Len(h) >= 2 => h[2] = b2) /\ (Len(h) >= 3 => h[3] = b3)
    BY <1>2, <1>9, <1>11
<1> DEFINE v1 == b1 \div 4
           v2 == (b1 % 4) * 16 + b2 \div 16
           v3 == (b2 % 16) * 4 + b3 \div 64
           v4 == b3 % 64
<1>14. v1 \in 0 .. 63 /\ v2 \in 0 .. 63 /\ v3 \in 0 .. 63 /\ v4 \in 0 .. 63
    <2>1. v1 \in 0 .. 63 /\ v2 \in 0 .. 63
        BY <1>3, SixBound, ZenonT(60)
    <2>2. v3 \in 0 .. 63
        BY <1>3, SixBound, ZenonT(60)
    <2>3. v4 \in 0 .. 63
        BY <1>3, SixBound, ZenonT(60)
    <2> QED  BY <2>1, <2>2, <2>3
<1>15. Joins(v1, v2, v3, v4, b1, b2, b3)
    BY <1>3, BytesBack, Zenon
<1> HIDE DEF v1, v2, v3, v4
<1>16. /\ g[1] = init_etable[v1] /\ g[2] = init_etable[v2]
       /\ g[3] = IF Len(p) <= q + 1 THEN Pad ELSE init_etable[v3]
       /\ g[4] = IF Len(p) <= q + 2 THEN Pad ELSE init_etable[v4]
    BY <1>4, <1>8, Zenon DEF v1, v2, v3, v4
<1>17. \A v \in 0 .. 63 : init_etable[v] # Pad /\ init_dtable[init_etable[v]] = v
    BY TableTyped
<1>18. Len(h) = IF g[3] = Pad THEN 1 ELSE IF g[4] = Pad THEN 2 ELSE 3
    <2>1. (g[3] = Pad <=> Len(p) <= q + 1) /\ (g[4] = Pad <=> Len(p) <= q + 2)
        BY <1>14, <1>16, <1>17
    <2>2. (Len(h) < 2 <=> g[3] = Pad) /\ (Len(h) < 3 <=> g[4] = Pad)
        BY <1>12, <2>1, Zenon
    <2>3. Len(h) = IF Len(h) < 2 THEN 1 ELSE IF Len(h) < 3 THEN 2 ELSE 3
        BY <1>9, OneTwoThree, Zenon
    <2> QED  BY <2>2, <2>3, Zenon
<1>19. init_dtable[g[1]] = v1 /\ init_dtable[g[2]] = v2
    BY <1>14, <1>16, <1>17, Zenon
<1>20. PICK d3, d4 : d3 = init_dtable[g[3]] /\ d4 = init_dtable[g[4]]
    OBVIOUS
<1>21. (Len(h) >= 2 => d3 = v3) /\ (Len(h) >= 3 => d4 = v4)
    <2>1. Len(h) >= 2 => ~ (Len(p) <= q + 1)
        BY <1>9, <1>12
    <2>2. Len(h) >= 3 => ~ (Len(p) <= q + 2)
        BY <1>9, <1>12
    <2> QED  BY <1>14, <1>16, <1>17, <1>20, <2>1, <2>2, Zenon
<1>26. /\ ((v1 * 4) % 256) + v2 \div 16 = b1 /\ ((v2 * 16) % 256) + v3 \div 4 = b2
       /\ ((v3 * 64) % 256) + v4 = b3
    BY <1>15, Zenon DEF Joins
<1>22. PICK o1, o2, o3 : /\ o1 = ((v1 * 4) % 256) + v2 \div 16
                         /\ o2 = ((v2 * 16) % 256) + d3 \div 4
                         /\ o3 = ((d3 * 64) % 256) + d4
    BY Zenon
<1>23. igroup(g) = SubSeq(<< o1, o2, o3 >>, 1, Len(h))
    <2>1. igroup(g) =
              SubSeq(<< ((init_dtable[g[1]] * 4) % 256) + init_dtable[g[2]] \div 16,
                        ((init_dtable[g[2]] * 16) % 256) + init_dtable[g[3]] \div 4,
                        ((init_dtable[g[3]] * 64) % 256) + init_dtable[g[4]] >>,
                     1, Len(h))
        BY <1>18, IgroupIs, ZenonT(60)
    <2>2. igroup(g) = SubSeq(<< ((v1 * 4) % 256) + v2 \div 16,
                                ((v2 * 16) % 256) + d3 \div 4,
                                ((d3 * 64) % 256) + d4 >>, 1, Len(h))
        BY <1>19, <1>20, <2>1, Zenon
    <2> QED  BY <1>22, <2>2, Zenon
<1>24. h[1] = o1 /\ (Len(h) >= 2 => h[2] = o2) /\ (Len(h) >= 3 => h[3] = o3)
    <2>1. Len(h) >= 3 => Len(h) >= 2
        BY <1>9
    <2>2. h[1] = o1
        BY <1>13, <1>26, <1>22, Zenon
    <2>3. Len(h) >= 2 => h[2] = o2
        BY <1>13, <1>26, <1>21, <1>22, Zenon
    <2>4. Len(h) >= 3 => h[3] = o3
        BY <1>13, <1>26, <1>21, <1>22, <2>1, Zenon
    <2> QED  BY <2>2, <2>3, <2>4
<1>25. SubSeq(<< o1, o2, o3 >>, 1, Len(h)) = h
    BY <1>7, <1>9, <1>24, FirstOfThree
<1> QED  BY <1>23, <1>25, Zenon DEF g, h, q, k, B

(* The first c groups of an encoding decode to the first 3 * c bytes, or all. *)
LEMMA DecodeGroups ==
    ASSUME NEW p \in Seq(0 .. 255), NEW c \in Nat, 4 * c <= Len(Base64(p)),
           NEW t \in Seq(Letters), Len(t) = 4 * c, \A i \in 1 .. 4 * c : t[i] = Base64(p)[i]
    PROVE  FlattenSeq([k \in DOMAIN Groups(t, 4) |-> igroup(Groups(t, 4)[k])])
              = SubSeq(p, 1, Min({3 * c, Len(p)}))
<1> DEFINE B == Base64(p)
           e == [i \in 0 .. c |-> Min({3 * i, Len(p)})]
           s == [k \in DOMAIN Groups(t, 4) |-> igroup(Groups(t, 4)[k])]
<1>1. Len(p) \in Nat /\ c = (Len(t) + 4 - 1) \div 4
    OBVIOUS
<1>2. B \in Seq(Letters) /\ Len(B) = 4 * ((Len(p) + 2) \div 3)
    BY EncodingTyped
<1>3. \A k \in 1 .. c : 3 * (k - 1) < Len(p)
    <2>1. c <= (Len(p) + 2) \div 3
        BY <1>1, <1>2
    <2> QED  BY <1>1, <2>1
<1>4. /\ DOMAIN Groups(t, 4) = 1 .. c
      /\ \A k \in 1 .. c :
            Groups(t, 4)[k] = SubSeq(t, 4 * (k - 1) + 1, Min({4 * k, Len(t)}))
    BY <1>1 DEF Groups
<1>5. s = [k \in 1 .. c |-> igroup(Groups(t, 4)[k])]
    BY <1>4, Zenon
<1> HIDE DEF B
<1>6. ASSUME NEW k \in 1 .. c
      PROVE  igroup(Groups(t, 4)[k]) = SubSeq(p, 3 * (k - 1) + 1, Min({3 * k, Len(p)}))
    <2> DEFINE m == k - 1
    <2>1. /\ m \in Nat /\ 3 * m < Len(p) /\ 3 * k = 3 * m + 3 /\ 4 * k = 4 * m + 4
          /\ 4 * m + 4 <= 4 * c /\ 4 * m \in Nat /\ 4 * k \in Int /\ 4 * k <= Len(t)
        BY <1>1, <1>3
    <2>2. Groups(t, 4)[k] = SubSeq(t, 4 * m + 1, Min({4 * k, Len(t)}))
        BY <1>4
    <2>3. Min({4 * k, Len(t)}) = 4 * k
        <3>1. Len(t) \in Int
            OBVIOUS
        <3>2. Min({4 * k, Len(t)}) = IF 4 * k <= Len(t) THEN 4 * k ELSE Len(t)
            BY <2>1, <3>1, MinOfTwo
        <3> QED  BY <2>1, <3>2
    <2> HIDE DEF m
    <2>4. Groups(t, 4)[k] = SubSeq(t, 4 * m + 1, 4 * m + 4)
        BY <2>1, <2>2, <2>3, Zenon
    <2>5. SubSeq(t, 4 * m + 1, 4 * m + 4) = SubSeq(B, 4 * m + 1, 4 * m + 4)
        <3> DEFINE q == 4 * m
        <3>1. q \in Nat /\ q + 4 <= Len(t) /\ q + 4 <= Len(B)
            BY <2>1 DEF B
        <3>2. /\ t[q + 1] = B[q + 1] /\ t[q + 2] = B[q + 2]
              /\ t[q + 3] = B[q + 3] /\ t[q + 4] = B[q + 4]
            <4>1. /\ q + 1 \in 1 .. 4 * c /\ q + 2 \in 1 .. 4 * c
                  /\ q + 3 \in 1 .. 4 * c /\ q + 4 \in 1 .. 4 * c
                BY <2>1
            <4> HIDE DEF q
            <4> QED  BY <4>1, Zenon DEF B
        <3> HIDE DEF q
        <3>3. SubSeq(t, q + 1, q + 4) = << t[q + 1], t[q + 2], t[q + 3], t[q + 4] >>
            BY <3>1, FourAfter
        <3>4. SubSeq(B, q + 1, q + 4) = << B[q + 1], B[q + 2], B[q + 3], B[q + 4] >>
            BY <1>2, <3>1, FourAfter
        <3>5. SubSeq(t, q + 1, q + 4) = SubSeq(B, q + 1, q + 4)
            BY <3>2, <3>3, <3>4, Zenon
        <3> QED  BY <3>5, Zenon DEF q
    <2>6. igroup(SubSeq(B, 4 * m + 1, 4 * m + 4)) = SubSeq(p, 3 * m + 1, Min({3 * m + 3, Len(p)}))
        BY <2>1, GroupDecoded DEF B
    <2>7. igroup(Groups(t, 4)[k]) = SubSeq(p, 3 * m + 1, Min({3 * k, Len(p)}))
        BY <2>1, <2>4, <2>5, <2>6, Zenon
    <2> QED  BY <2>7, Zenon DEF m
<1>7. s = [k \in 1 .. c |-> s[k]]
    BY <1>5
<1>8. \A k \in 1 .. c : s[k] = SubSeq(p, 3 * (k - 1) + 1, Min({3 * k, Len(p)}))
    <2> TAKE k \in 1 .. c
    <2>1. s[k] = igroup(Groups(t, 4)[k])
        BY <1>5
    <2> HIDE DEF s
    <2> QED  BY <1>6, <2>1, Zenon
<1> HIDE DEF s
<1>9. \A i \in 0 .. c : e[i] = Min({3 * i, Len(p)})
    OBVIOUS
<1>10. \A i \in 0 .. c : Min({3 * i, Len(p)}) = IF 3 * i <= Len(p) THEN 3 * i ELSE Len(p)
    <2> TAKE i \in 0 .. c
    <2>1. 3 * i \in Int /\ Len(p) \in Int
        BY <1>1
    <2> QED  BY <2>1, MinOfTwo
<1>11. e = [i \in 0 .. c |-> e[i]]
    OBVIOUS
<1> HIDE DEF e
<1>12. \A i \in 0 .. c : e[i] = IF 3 * i <= Len(p) THEN 3 * i ELSE Len(p)
    BY <1>9, <1>10, Zenon
<1>13. e \in [0 .. c -> 0 .. Len(p)] /\ e[0] = 0
    <2>1. \A i \in 0 .. c : e[i] \in 0 .. Len(p)
        BY <1>1, <1>12
    <2>2. e \in [0 .. c -> 0 .. Len(p)]
        BY <1>11, <2>1, Zenon
    <2>3. 0 \in 0 .. c /\ 3 * 0 = 0 /\ 0 <= Len(p)
        BY <1>1
    <2>4. e[0] = 0
        BY <1>12, <2>3, Zenon
    <2> QED  BY <2>2, <2>4
<1>14. \A k \in 1 .. c : e[k - 1] = 3 * (k - 1) /\ e[k - 1] <= e[k]
    BY <1>1, <1>3, <1>12
<1>15. \A i \in 1 .. c : e[i - 1] <= e[i] /\ s[i] = SubSeq(p, e[i - 1] + 1, e[i])
    <2> TAKE i \in 1 .. c
    <2>1. e[i - 1] = 3 * (i - 1) /\ e[i - 1] <= e[i]
        BY <1>14
    <2>2. s[i] = SubSeq(p, 3 * (i - 1) + 1, Min({3 * i, Len(p)}))
        BY <1>8
    <2>3. e[i] = Min({3 * i, Len(p)})
        <3>1. i \in 0 .. c
            OBVIOUS
        <3> QED  BY <1>9, <3>1, Zenon
    <2>4. s[i] = SubSeq(p, e[i - 1] + 1, e[i])
        BY <2>1, <2>2, <2>3, Zenon
    <2> QED  BY <2>1, <2>4
<1>16. FlattenSeq(s) = SubSeq(p, 1, e[c])
    <2>1. ArePieces(s, c, e, p)
        BY <1>7, <1>13, <1>15, Zenon DEF ArePieces
    <2> QED  BY <2>1, FlattenPieces, Zenon
<1>17. e[c] = Min({3 * c, Len(p)})
    <2>1. c \in 0 .. c
        OBVIOUS
    <2> QED  BY <1>9, <2>1, Zenon
<1> QED  BY <1>16, <1>17, Zenon DEF s

(* The first n elements of s. *)
LEMMA FirstPiece ==
    ASSUME NEW S, NEW s \in Seq(S), NEW n \in 0 .. Len(s)
    PROVE  /\ SubSeq(s, 1, n) \in Seq(S) /\ Len(SubSeq(s, 1, n)) = n
           /\ \A i \in 1 .. n : SubSeq(s, 1, n)[i] = s[i]
<1>1. n \in Nat /\ 0 \in Nat /\ 0 + n <= Len(s) /\ 0 + 1 = 1 /\ 0 + n = n
    OBVIOUS
<1>2. \A i \in 1 .. n : 0 + i = i
    OBVIOUS
<1>3. PICK z \in Nat : z = 0
    BY <1>1
<1>4. SubSeq(s, z + 1, z + n) \in Seq(S)
    BY <1>1, <1>3, Piece
<1>5. Len(SubSeq(s, z + 1, z + n)) = n
    BY <1>1, <1>3, Piece
<1>6. \A i \in 1 .. n : SubSeq(s, z + 1, z + n)[i] = s[z + i]
    BY <1>1, <1>3, Piece
<1>7. SubSeq(s, z + 1, z + n) = SubSeq(s, 1, n) /\ \A i \in 1 .. n : s[z + i] = s[i]
    BY <1>1, <1>2, <1>3, Zenon
<1> QED  BY <1>4, <1>5, <1>6, <1>7, Zenon

(* What b64_decode refuses and what it makes of the rest. *)
LEMMA DecodeIs ==
    ASSUME NEW t, NEW n
    PROVE  /\ (Len(t) % 4 # 0 \/ n < min_decoded_buflen(Len(t))) =>
                  decode(t, n) = [err |-> EMSGSIZE, bytes |-> << >>]
           /\ ~ (Len(t) % 4 # 0 \/ n < min_decoded_buflen(Len(t))) =>
                /\ (\E i \in DOMAIN t : init_dtable[t[i]] >= 128) =>
                        decode(t, n) = [err |-> EINVAL, bytes |-> << >>]
                /\ ~ (\E i \in DOMAIN t : init_dtable[t[i]] >= 128) =>
                        decode(t, n) =
                            [err |-> 0,
                             bytes |-> FlattenSeq([k \in DOMAIN Groups(t, 4) |->
                                                     igroup(Groups(t, 4)[k])])]
BY Zenon DEF decode

(* t is what a buffer of r bytes holds of the encoding of p. *)
IsCut(t, p, r) == t = SubSeq(Base64(p), 1, Min({Len(Base64(p)), r - 1}))

(* The text b64_encode leaves, for a buffer of r bytes. *)
LEMMA CutEncoding ==
    ASSUME NEW p \in Seq(0 .. 255), NEW r \in Nat \ {0}, NEW t, IsCut(t, p, r)
    PROVE  /\ t \in Seq(Letters) /\ Len(t) \in 0 .. Len(Base64(p))
           /\ \A i \in 1 .. Len(t) : t[i] = Base64(p)[i]
           /\ r > Len(Base64(p)) => Len(t) = Len(Base64(p))
<1> DEFINE B == Base64(p)
<1>1. B \in Seq(Letters)
    BY EncodingTyped
<1> HIDE DEF B
<1>2. Len(B) \in Nat /\ Len(B) \in Int /\ r - 1 \in Int
    BY <1>1
<1>3. PICK n : n = Min({Len(B), r - 1})
    OBVIOUS
<1>4. n = IF Len(B) <= r - 1 THEN Len(B) ELSE r - 1
    BY <1>2, <1>3, MinOfTwo, Zenon
<1>5. n \in 0 .. Len(B) /\ (r > Len(B) => n = Len(B))
    BY <1>2, <1>4
<1>6. t = SubSeq(B, 1, n)
    BY <1>3, Zenon DEF B, IsCut
<1>7. SubSeq(B, 1, n) \in Seq(Letters)
    BY <1>1, <1>5, FirstPiece
<1>8. Len(SubSeq(B, 1, n)) = n
    BY <1>1, <1>5, FirstPiece
<1>9. \A i \in 1 .. n : SubSeq(B, 1, n)[i] = B[i]
    BY <1>1, <1>5, FirstPiece
<1>10. t \in Seq(Letters) /\ Len(t) = n /\ \A i \in 1 .. n : t[i] = B[i]
    BY <1>6, <1>7, <1>8, <1>9, Zenon
<1> QED  BY <1>5, <1>10, Zenon DEF B

(* What b64_decode, with a buffer of n bytes, makes of the text t that         *)
(* b64_encode left of p in a buffer of r bytes.                                *)
RoundTrip(p, r, n, t, d) ==
    /\ d.err # EINVAL
    /\ d.err = 0 => d.bytes = SubSeq(p, 1, Min({3 * (Len(t) \div 4), Len(p)}))
    /\ (r > Len(Base64(p)) /\ n >= min_decoded_buflen(Len(t))) =>
            d = [err |-> 0, bytes |-> p]

(* Six bits are below what the decoder refuses. *)
LEMMA NotRefused ==
    ASSUME NEW v \in 0 .. 63
    PROVE  ~ (v >= 128)
OBVIOUS

(* What decoding makes of an encoding, cut or not. *)
LEMMA DecodeOfEncoding ==
    ASSUME NEW p \in Seq(0 .. 255), NEW r \in Nat \ {0}, NEW n \in Int, NEW t, IsCut(t, p, r)
    PROVE  RoundTrip(p, r, n, t, decode(t, n))
<1> DEFINE B == Base64(p)
           d == decode(t, n)
<1>1. /\ t \in Seq(Letters) /\ Len(t) \in 0 .. Len(B)
      /\ \A i \in 1 .. Len(t) : t[i] = B[i]
      /\ r > Len(B) => Len(t) = Len(B)
    BY CutEncoding, Zenon
<1>2. CASE Len(t) % 4 # 0 \/ n < min_decoded_buflen(Len(t))
    <2>1. d = [err |-> EMSGSIZE, bytes |-> << >>]
        BY <1>2, DecodeIs, Zenon
    <2> HIDE DEF d
    <2>2. d.err = EMSGSIZE /\ EMSGSIZE # 0 /\ EMSGSIZE # EINVAL
        BY <2>1 DEF EMSGSIZE, EINVAL
    <2>4. ~ (r > Len(Base64(p)) /\ n >= min_decoded_buflen(Len(t)))
        <3> SUFFICES ASSUME r > Len(Base64(p)), n >= min_decoded_buflen(Len(t)) PROVE FALSE
            OBVIOUS
        <3>1. Len(t) = 4 * ((Len(p) + 2) \div 3)
            <4>1. Len(t) = Len(Base64(p))
                BY <1>1, Zenon
            <4>2. Len(Base64(p)) = 4 * ((Len(p) + 2) \div 3)
                BY EncodingTyped
            <4> QED  BY <4>1, <4>2, Zenon
        <3>2. Len(p) \in Nat
            OBVIOUS
        <3>3. PICK w \in Nat : w = (Len(p) + 2) \div 3
            BY <3>2
        <3>4. Len(t) = 4 * w
            BY <3>1, <3>3, Zenon
        <3>5. Len(t) % 4 = 0 /\ min_decoded_buflen(Len(t)) \in Int
            BY <3>3, <3>4 DEF min_decoded_buflen
        <3> QED  BY <1>2, <3>5
    <2>3. RoundTrip(p, r, n, t, d)
        BY <2>2, <2>4, Zenon DEF RoundTrip
    <2> QED  BY <2>3 DEF d
<1>3. CASE ~ (Len(t) % 4 # 0 \/ n < min_decoded_buflen(Len(t)))
    <2> DEFINE c == Len(t) \div 4
    <2>1. Len(t) % 4 = 0
        BY <1>3
    <2>2. Len(t) \in Nat /\ Len(p) \in Nat
        BY <1>1
    <2>3. c \in Nat /\ Len(t) = 4 * c
        BY <2>1, <2>2
    <2> HIDE DEF c
    <2>4. ~ \E i \in DOMAIN t : init_dtable[t[i]] >= 128
        <3> SUFFICES ASSUME NEW i \in DOMAIN t PROVE ~ (init_dtable[t[i]] >= 128)
            OBVIOUS
        <3>1. i \in 1 .. Len(t)
            BY <1>1, LenProperties
        <3>2. t[i] \in Letters
            BY <1>1, <3>1, ElementOfSeq
        <3>3. init_dtable[t[i]] \in 0 .. 63
            BY <3>2 DEF Letters
        <3> QED  BY <3>3, NotRefused, Zenon
    <2> DEFINE f == FlattenSeq([k \in DOMAIN Groups(t, 4) |-> igroup(Groups(t, 4)[k])])
    <2>5. d = [err |-> 0, bytes |-> f]
        BY <1>3, <2>4, DecodeIs, Zenon
    <2>6. f = SubSeq(p, 1, Min({3 * c, Len(p)}))
        <3>1. 4 * c <= Len(Base64(p)) /\ \A i \in 1 .. 4 * c : t[i] = Base64(p)[i]
            <4>1. Len(t) <= Len(B) /\ \A i \in 1 .. Len(t) : t[i] = B[i]
                BY <1>1
            <4> HIDE DEF B
            <4> QED  BY <2>3, <4>1, Zenon DEF B
        <3> QED  BY <1>1, <2>3, <3>1, DecodeGroups, Zenon
    <2> HIDE DEF d, f
    <2>7. PICK k : k = Min({3 * c, Len(p)})
        OBVIOUS
    <2>8. k = IF 3 * c <= Len(p) THEN 3 * c ELSE Len(p)
        <3>1. 3 * c \in Int /\ Len(p) \in Int
            BY <2>2, <2>3
        <3> QED  BY <2>7, <3>1, MinOfTwo, Zenon
    <2>9. k \in 0 .. Len(p)
        BY <2>2, <2>3, <2>8
    <2>11. ASSUME r > Len(B) PROVE SubSeq(p, 1, k) = p
        <3>1. Len(B) = 4 * ((Len(p) + 2) \div 3)
            BY EncodingTyped
        <3>2. 4 * c = 4 * ((Len(p) + 2) \div 3)
            BY <1>1, <2>3, <2>11, <3>1, Zenon
        <3>3. 3 * c >= Len(p)
            BY <2>2, <2>3, <3>2
        <3>4. k = Len(p)
            BY <2>2, <2>3, <2>8, <3>3
        <3> QED  BY <3>4, SubSeqFull, Zenon
    <2>12. d.err = 0 /\ d.bytes = f
        BY <2>5
    <2>14. d.err # EINVAL
        BY <2>12 DEF EINVAL
    <2>15. c = Len(t) \div 4
        BY DEF c
    <2>13. RoundTrip(p, r, n, t, d)
        <3>1. d.bytes = SubSeq(p, 1, k)
            BY <2>6, <2>7, <2>12, Zenon
        <3>2. d.bytes = SubSeq(p, 1, Min({3 * (Len(t) \div 4), Len(p)}))
            BY <2>6, <2>12, <2>15, Zenon
        <3>3. r > Len(B) => d = [err |-> 0, bytes |-> p]
            BY <2>5, <2>11, <2>12, <3>1, Zenon
        <3> QED  BY <2>14, <3>2, <3>3, Zenon DEF RoundTrip
    <2> QED  BY <2>13 DEF d
<1> QED  BY <1>2, <1>3

(* The three elements of s after the first a. *)
LEMMA ThreeAfter ==
    ASSUME NEW S, NEW s \in Seq(S), NEW a \in Nat, a + 3 <= Len(s)
    PROVE  SubSeq(s, a + 1, a + 3) = << s[a + 1], s[a + 2], s[a + 3] >>
<1>1. PICK n \in Nat : n = 3
    OBVIOUS
<1>2. PICK t : t = SubSeq(s, a + 1, a + n)
    OBVIOUS
<1>3. a + n <= Len(s)
    BY <1>1
<1>4. t \in Seq(S) /\ Len(t) = n /\ \A i \in 1 .. n : t[i] = s[a + i]
    BY <1>2, <1>3, Piece
<1>5. Len(t) = 3 /\ t[1] = s[a + 1] /\ t[2] = s[a + 2] /\ t[3] = s[a + 3]
    BY <1>1, <1>4
<1>6. t = << t[1], t[2], t[3] >>
    BY <1>4, <1>5
<1> QED  BY <1>1, <1>2, <1>5, <1>6

(* u are the bytes that the c groups of four values V make. *)
Made(u, c, V) ==
    /\ u \in Seq(0 .. 255) /\ Len(u) = 3 * c
    /\ \A m \in 0 .. c - 1 :
          Joins(V[4 * m + 1], V[4 * m + 2], V[4 * m + 3], V[4 * m + 4],
                u[3 * m + 1], u[3 * m + 2], u[3 * m + 3])

(* The bytes of c groups of four sextets each. *)
LEMMA JoinedBytes ==
    ASSUME NEW c \in Nat, NEW V \in [1 .. 4 * c -> 0 .. 63]
    PROVE  \E u : Made(u, c, V)
<1> DEFINE x(m) == ((V[4 * m + 1] * 4) % 256) + V[4 * m + 2] \div 16
           y(m) == ((V[4 * m + 2] * 16) % 256) + V[4 * m + 3] \div 4
           z(m) == ((V[4 * m + 3] * 64) % 256) + V[4 * m + 4]
           g(j) == (j - 1) \div 3
           u == [j \in 1 .. 3 * c |-> IF j = 3 * g(j) + 1 THEN x(g(j))
                                      ELSE IF j = 3 * g(j) + 2 THEN y(g(j)) ELSE z(g(j))]
<1>1. ASSUME NEW m \in 0 .. c - 1
      PROVE  /\ Joins(V[4 * m + 1], V[4 * m + 2], V[4 * m + 3], V[4 * m + 4], x(m), y(m), z(m))
             /\ x(m) \in 0 .. 255 /\ y(m) \in 0 .. 255 /\ z(m) \in 0 .. 255
    <2>1. /\ 4 * m + 1 \in 1 .. 4 * c /\ 4 * m + 2 \in 1 .. 4 * c
          /\ 4 * m + 3 \in 1 .. 4 * c /\ 4 * m + 4 \in 1 .. 4 * c
        OBVIOUS
    <2>2. /\ V[4 * m + 1] \in 0 .. 63 /\ V[4 * m + 2] \in 0 .. 63
          /\ V[4 * m + 3] \in 0 .. 63 /\ V[4 * m + 4] \in 0 .. 63
        BY <2>1, Zenon
    <2>3. Joins(V[4 * m + 1], V[4 * m + 2], V[4 * m + 3], V[4 * m + 4], x(m), y(m), z(m))
        BY Zenon DEF Joins
    <2> HIDE DEF x, y, z
    <2>4. x(m) \in 0 .. 255 /\ y(m) \in 0 .. 255 /\ z(m) \in 0 .. 255
        <3>1. Splits(x(m), y(m), z(m), V[4 * m + 1], V[4 * m + 2], V[4 * m + 3], V[4 * m + 4])
            BY <2>2, <2>3, SextetsBack, Zenon
        <3> QED  BY <3>1, Zenon DEF Splits
    <2> QED  BY <2>3, <2>4
<1> HIDE DEF x, y, z
<1>2. ASSUME NEW j \in 1 .. 3 * c
      PROVE  g(j) \in 0 .. c - 1 /\ u[j] \in {x(g(j)), y(g(j)), z(g(j))}
    <2>1. g(j) \in 0 .. c - 1
        OBVIOUS
    <2> HIDE DEF g
    <2>2. u[j] \in {x(g(j)), y(g(j)), z(g(j))}
        OBVIOUS
    <2> QED  BY <2>1, <2>2
<1>3. ASSUME NEW m \in 0 .. c - 1
      PROVE  u[3 * m + 1] = x(m) /\ u[3 * m + 2] = y(m) /\ u[3 * m + 3] = z(m)
    <2>1. 3 * m + 1 \in 1 .. 3 * c /\ 3 * m + 2 \in 1 .. 3 * c /\ 3 * m + 3 \in 1 .. 3 * c
        OBVIOUS
    <2>2. g(3 * m + 1) = m /\ g(3 * m + 2) = m /\ g(3 * m + 3) = m
        OBVIOUS
    <2>3. 3 * m + 2 # 3 * m + 1 /\ 3 * m + 3 # 3 * m + 1 /\ 3 * m + 3 # 3 * m + 2
        OBVIOUS
    <2> HIDE DEF g
    <2>4. u[3 * m + 1] = x(m)
        BY <2>1, <2>2, <2>3, Zenon
    <2>5. u[3 * m + 2] = y(m)
        BY <2>1, <2>2, <2>3, Zenon
    <2>6. u[3 * m + 3] = z(m)
        BY <2>1, <2>2, <2>3, Zenon
    <2> QED  BY <2>4, <2>5, <2>6
<1>4. u = [j \in 1 .. 3 * c |-> u[j]] /\ 3 * c \in Nat
    OBVIOUS
<1> HIDE DEF u
<1>5. \A j \in 1 .. 3 * c : u[j] \in 0 .. 255
    <2> TAKE j \in 1 .. 3 * c
    <2>1. g(j) \in 0 .. c - 1 /\ u[j] \in {x(g(j)), y(g(j)), z(g(j))}
        BY <1>2
    <2> HIDE DEF g
    <2>2. x(g(j)) \in 0 .. 255 /\ y(g(j)) \in 0 .. 255 /\ z(g(j)) \in 0 .. 255
        BY <1>1, <2>1, Zenon
    <2> DEFINE Y == 0 .. 255
    <2>3. x(g(j)) \in Y /\ y(g(j)) \in Y /\ z(g(j)) \in Y
        BY <2>2
    <2> HIDE DEF Y
    <2>4. u[j] \in Y
        BY <2>1, <2>3, Zenon
    <2> QED  BY <2>4 DEF Y
<1> HIDE DEF g
<1>6. u \in [1 .. 3 * c -> 0 .. 255]
    BY <1>4, <1>5, Zenon
<1>7. u \in Seq(0 .. 255) /\ Len(u) = 3 * c
    <2> DEFINE n == 3 * c
    <2>1. n \in Nat /\ u \in [1 .. n -> 0 .. 255]
        BY <1>4, <1>6
    <2> HIDE DEF n
    <2>2. u \in Seq(0 .. 255) /\ Len(u) = n
        BY <2>1, FunctionIsSeq
    <2> QED  BY <2>2 DEF n
<1>8. \A m \in 0 .. c - 1 :
        Joins(V[4 * m + 1], V[4 * m + 2], V[4 * m + 3], V[4 * m + 4],
              u[3 * m + 1], u[3 * m + 2], u[3 * m + 3])
    BY <1>1, <1>3, Zenon
<1>9. Made(u, c, V)
    BY <1>7, <1>8, Zenon DEF Made
<1> QED  BY <1>9, Zenon

(* The characters of t, c groups of four of them, are letters of the table with *)
(* the values V, and no pads.                                                  *)
Letter(t, c, V) ==
    /\ t \in Seq(1 .. 255) /\ Len(t) = 4 * c
    /\ V \in [1 .. 4 * c -> 0 .. 63]
    /\ \A i \in 1 .. 4 * c : /\ init_dtable[t[i]] = V[i] /\ t[i] # Pad
                             /\ init_etable[V[i]] = t[i]

(* Groups without pads decode to the three bytes their values make. *)
LEMMA LettersDecoded ==
    ASSUME NEW c \in Nat, NEW t, NEW V, NEW u, Letter(t, c, V), Made(u, c, V)
    PROVE  FlattenSeq([k \in DOMAIN Groups(t, 4) |-> igroup(Groups(t, 4)[k])]) = u
<1> DEFINE e == [i \in 0 .. c |-> 3 * i]
           s == [k \in DOMAIN Groups(t, 4) |-> igroup(Groups(t, 4)[k])]
<1>1. /\ t \in Seq(1 .. 255) /\ Len(t) = 4 * c /\ u \in Seq(0 .. 255) /\ Len(u) = 3 * c
      /\ V \in [1 .. 4 * c -> 0 .. 63]
    BY Zenon DEF Letter, Made
<1>2. \A i \in 1 .. 4 * c : init_dtable[t[i]] = V[i] /\ t[i] # Pad
    BY Zenon DEF Letter
<1>3. \A m \in 0 .. c - 1 :
          Joins(V[4 * m + 1], V[4 * m + 2], V[4 * m + 3], V[4 * m + 4],
                u[3 * m + 1], u[3 * m + 2], u[3 * m + 3])
    BY Zenon DEF Made
<1>4. c = (Len(t) + 4 - 1) \div 4
    BY <1>1
<1>5. /\ DOMAIN Groups(t, 4) = 1 .. c
      /\ \A k \in 1 .. c :
            Groups(t, 4)[k] = SubSeq(t, 4 * (k - 1) + 1, Min({4 * k, Len(t)}))
    BY <1>4 DEF Groups
<1>6. s = [k \in 1 .. c |-> igroup(Groups(t, 4)[k])]
    BY <1>5, Zenon
<1>7. ASSUME NEW k \in 1 .. c
      PROVE  igroup(Groups(t, 4)[k]) = SubSeq(u, 3 * (k - 1) + 1, 3 * k)
    <2> DEFINE m == k - 1
               q == 4 * m
               a == 3 * m
               g == SubSeq(t, q + 1, q + 4)
    <2>1. /\ m \in 0 .. c - 1 /\ q \in Nat /\ a \in Nat /\ 3 * k = a + 3 /\ 4 * k = q + 4
          /\ q + 4 <= Len(t) /\ a + 3 <= Len(u) /\ 4 * k \in Int /\ 4 * k <= Len(t)
        BY <1>1
    <2>2. Groups(t, 4)[k] = SubSeq(t, q + 1, Min({4 * k, Len(t)}))
        BY <1>5
    <2>3. Min({4 * k, Len(t)}) = 4 * k
        <3>1. Len(t) \in Int
            BY <1>1
        <3>2. Min({4 * k, Len(t)}) = IF 4 * k <= Len(t) THEN 4 * k ELSE Len(t)
            BY <2>1, <3>1, MinOfTwo
        <3> QED  BY <2>1, <3>2
    <2>4. /\ q + 1 \in 1 .. 4 * c /\ q + 2 \in 1 .. 4 * c
          /\ q + 3 \in 1 .. 4 * c /\ q + 4 \in 1 .. 4 * c
        BY <2>1
    <2>5. Joins(V[q + 1], V[q + 2], V[q + 3], V[q + 4], u[a + 1], u[a + 2], u[a + 3])
        BY <1>3, <2>1, Zenon
    <2> HIDE DEF m, q, a
    <2>6. Groups(t, 4)[k] = g
        BY <2>1, <2>2, <2>3, Zenon
    <2>7. g = << t[q + 1], t[q + 2], t[q + 3], t[q + 4] >>
        BY <1>1, <2>1, FourAfter
    <2> HIDE DEF g
    <2>8. g[1] = t[q + 1] /\ g[2] = t[q + 2] /\ g[3] = t[q + 3] /\ g[4] = t[q + 4]
        BY <2>7
    <2>9. /\ init_dtable[g[1]] = V[q + 1] /\ init_dtable[g[2]] = V[q + 2]
          /\ init_dtable[g[3]] = V[q + 3] /\ init_dtable[g[4]] = V[q + 4]
          /\ g[3] # Pad /\ g[4] # Pad
        BY <1>2, <2>4, <2>8, Zenon
    <2>10. igroup(g) =
              SubSeq(<< ((init_dtable[g[1]] * 4) % 256) + init_dtable[g[2]] \div 16,
                        ((init_dtable[g[2]] * 16) % 256) + init_dtable[g[3]] \div 4,
                        ((init_dtable[g[3]] * 64) % 256) + init_dtable[g[4]] >>, 1, 3)
        BY <2>9, IgroupIs, ZenonT(60)
    <2>11. igroup(g) =
              SubSeq(<< ((V[q + 1] * 4) % 256) + V[q + 2] \div 16,
                        ((V[q + 2] * 16) % 256) + V[q + 3] \div 4,
                        ((V[q + 3] * 64) % 256) + V[q + 4] >>, 1, 3)
        BY <2>9, <2>10, ZenonT(60)
    <2>12. igroup(g) = SubSeq(<< u[a + 1], u[a + 2], u[a + 3] >>, 1, 3)
        BY <2>5, <2>11, Zenon DEF Joins
    <2>13. PICK w : w = << u[a + 1], u[a + 2], u[a + 3] >>
        OBVIOUS
    <2>14. w \in Seq({u[a + 1], u[a + 2], u[a + 3]}) /\ Len(w) = 3
        BY <2>13
    <2>15. SubSeq(w, 1, 3) = w
        BY <2>14, SubSeqFull
    <2>16. SubSeq(u, a + 1, a + 3) = << u[a + 1], u[a + 2], u[a + 3] >>
        BY <1>1, <2>1, ThreeAfter
    <2>17. igroup(Groups(t, 4)[k]) = SubSeq(u, a + 1, 3 * k)
        BY <2>1, <2>6, <2>12, <2>13, <2>15, <2>16, Zenon
    <2> QED  BY <2>17, Zenon DEF a, m
<1>8. s = [k \in 1 .. c |-> s[k]]
    BY <1>6
<1>9. \A k \in 1 .. c : s[k] = SubSeq(u, 3 * (k - 1) + 1, 3 * k)
    <2> TAKE k \in 1 .. c
    <2>1. s[k] = igroup(Groups(t, 4)[k])
        BY <1>6
    <2> HIDE DEF s
    <2> QED  BY <1>7, <2>1, Zenon
<1> HIDE DEF s
<1>10. e \in [0 .. c -> 0 .. Len(u)] /\ e[0] = 0 /\ e[c] = Len(u)
    BY <1>1
<1>11. \A k \in 1 .. c : e[k - 1] = 3 * (k - 1) /\ e[k] = 3 * k /\ e[k - 1] <= e[k]
    OBVIOUS
<1> HIDE DEF e
<1>12. \A i \in 1 .. c : e[i - 1] <= e[i] /\ s[i] = SubSeq(u, e[i - 1] + 1, e[i])
    <2> TAKE i \in 1 .. c
    <2>1. e[i - 1] = 3 * (i - 1) /\ e[i] = 3 * i /\ e[i - 1] <= e[i]
        BY <1>11
    <2>2. s[i] = SubSeq(u, 3 * (i - 1) + 1, 3 * i)
        BY <1>9
    <2>3. s[i] = SubSeq(u, e[i - 1] + 1, e[i])
        BY <2>1, <2>2, Zenon
    <2> QED  BY <2>1, <2>3
<1>13. FlattenSeq(s) = SubSeq(u, 1, e[c])
    <2>1. ArePieces(s, c, e, u)
        BY <1>8, <1>10, <1>12, Zenon DEF ArePieces
    <2> QED  BY <1>1, <2>1, FlattenPieces, Zenon
<1>14. SubSeq(u, 1, Len(u)) = u
    BY <1>1, SubSeqFull
<1> QED  BY <1>10, <1>13, <1>14, Zenon DEF s

(* And these bytes encode to the letters. *)
LEMMA LettersEncoded ==
    ASSUME NEW c \in Nat, NEW t, NEW V, NEW u, Letter(t, c, V), Made(u, c, V)
    PROVE  Base64(u) = t
<1>1. /\ t \in Seq(1 .. 255) /\ Len(t) = 4 * c /\ u \in Seq(0 .. 255) /\ Len(u) = 3 * c
      /\ V \in [1 .. 4 * c -> 0 .. 63]
    BY Zenon DEF Letter, Made
<1>2. \A i \in 1 .. 4 * c : init_etable[V[i]] = t[i]
    BY Zenon DEF Letter
<1>3. \A m \in 0 .. c - 1 :
          Joins(V[4 * m + 1], V[4 * m + 2], V[4 * m + 3], V[4 * m + 4],
                u[3 * m + 1], u[3 * m + 2], u[3 * m + 3])
    BY Zenon DEF Made
<1> DEFINE B == Base64(u)
<1>4. B \in Seq(Letters) /\ Len(B) = 4 * c
    <2>1. B \in Seq(Letters) /\ Len(B) = 4 * ((Len(u) + 2) \div 3)
        BY <1>1, EncodingTyped
    <2>2. 4 * ((Len(u) + 2) \div 3) = 4 * c
        BY <1>1
    <2> QED  BY <2>1, <2>2, Zenon
<1> HIDE DEF B
<1>5. ASSUME NEW k \in 1 .. 4 * c PROVE B[k] = t[k]
    <2> DEFINE m == (k - 1) \div 4
               q == 4 * m
               a == 3 * m
    <2>1. /\ m \in Nat /\ m \in 0 .. c - 1 /\ a \in Nat /\ a < Len(u)
          /\ (k = q + 1 \/ k = q + 2 \/ k = q + 3 \/ k = q + 4)
          /\ a + 1 <= Len(u) /\ a + 2 <= Len(u) /\ a + 3 <= Len(u)
        BY <1>1
    <2> HIDE DEF m
    <2>2. ~ (Len(u) <= a + 1) /\ ~ (Len(u) <= a + 2)
        BY <1>1, <2>1
    <2>3. /\ q + 1 \in 1 .. 4 * c /\ q + 2 \in 1 .. 4 * c
          /\ q + 3 \in 1 .. 4 * c /\ q + 4 \in 1 .. 4 * c
        BY <2>1
    <2>4. /\ V[q + 1] \in 0 .. 63 /\ V[q + 2] \in 0 .. 63
          /\ V[q + 3] \in 0 .. 63 /\ V[q + 4] \in 0 .. 63
        BY <1>1, <2>3, Zenon
    <2>5. Joins(V[q + 1], V[q + 2], V[q + 3], V[q + 4], u[a + 1], u[a + 2], u[a + 3])
        BY <1>3, <2>1, Zenon
    <2>6. Splits(u[a + 1], u[a + 2], u[a + 3], V[q + 1], V[q + 2], V[q + 3], V[q + 4])
        BY <2>4, <2>5, SextetsBack, Zenon
    <2>7. PICK b1, b2, b3 : b1 = At(u, a + 1) /\ b2 = At(u, a + 2) /\ b3 = At(u, a + 3)
        OBVIOUS
    <2>8. b1 = u[a + 1] /\ b2 = u[a + 2] /\ b3 = u[a + 3]
        BY <2>1, <2>7, Zenon DEF At
    <2>9. /\ B[q + 1] = init_etable[b1 \div 4]
          /\ B[q + 2] = init_etable[(b1 % 4) * 16 + b2 \div 16]
          /\ B[q + 3] = IF Len(u) <= a + 1 THEN Pad
                        ELSE init_etable[(b2 % 16) * 4 + b3 \div 64]
          /\ B[q + 4] = IF Len(u) <= a + 2 THEN Pad ELSE init_etable[b3 % 64]
        <3>1. HasChars(u, m, At(u, a + 1), At(u, a + 2), At(u, a + 3))
            BY <1>1, <2>1, FourChars
        <3>2. HasChars(u, m, b1, b2, b3)
            BY <2>7, <3>1, Zenon
        <3> QED  BY <3>2, Zenon DEF HasChars, B
    <2>10. /\ b1 \div 4 = V[q + 1] /\ (b1 % 4) * 16 + b2 \div 16 = V[q + 2]
           /\ (b2 % 16) * 4 + b3 \div 64 = V[q + 3] /\ b3 % 64 = V[q + 4]
        BY <2>6, <2>8, Zenon DEF Splits
    <2> HIDE DEF q, a
    <2>11. /\ B[q + 1] = init_etable[V[q + 1]] /\ B[q + 2] = init_etable[V[q + 2]]
           /\ B[q + 3] = init_etable[V[q + 3]] /\ B[q + 4] = init_etable[V[q + 4]]
        BY <2>2, <2>9, <2>10, Zenon
    <2>12. /\ B[q + 1] = t[q + 1] /\ B[q + 2] = t[q + 2]
           /\ B[q + 3] = t[q + 3] /\ B[q + 4] = t[q + 4]
        BY <1>2, <2>3, <2>11, Zenon
    <2> QED  BY <2>1, <2>12, Zenon
<1>6. Len(B) = Len(t) /\ \A i \in 1 .. Len(B) : B[i] = t[i]
    BY <1>1, <1>4, <1>5, Zenon
<1>7. B = t
    BY <1>1, <1>4, <1>6, SameSeq
<1> QED  BY <1>7 DEF B

(* What b64_decode makes of a text without pads encodes to that text. *)
LEMMA DecodedEncodes ==
    ASSUME NEW t \in Seq(1 .. 255), NEW n, decode(t, n).err = 0,
           \A i \in DOMAIN t : t[i] \notin {Pad, 255}
    PROVE  Base64(decode(t, n).bytes) = t
<1> DEFINE d == decode(t, n)
           f == FlattenSeq([k \in DOMAIN Groups(t, 4) |-> igroup(Groups(t, 4)[k])])
           bad == Len(t) % 4 # 0 \/ n < min_decoded_buflen(Len(t))
           refused == \E i \in DOMAIN t : init_dtable[t[i]] >= 128
<1>0. d.err = 0
    OBVIOUS
<1>1. /\ bad => d = [err |-> EMSGSIZE, bytes |-> << >>]
      /\ (~ bad /\ refused) => d = [err |-> EINVAL, bytes |-> << >>]
      /\ (~ bad /\ ~ refused) => d = [err |-> 0, bytes |-> f]
    <2>1. bad => d = [err |-> EMSGSIZE, bytes |-> << >>]
        BY Zenon DEF decode
    <2>2. (~ bad /\ refused) => d = [err |-> EINVAL, bytes |-> << >>]
        BY Zenon DEF decode
    <2>3. (~ bad /\ ~ refused) => d = [err |-> 0, bytes |-> f]
        BY Zenon DEF decode
    <2> QED  BY <2>1, <2>2, <2>3, Zenon
<1> HIDE DEF d
<1>2. ~ bad /\ ~ refused
    <2> HIDE DEF bad, refused
    <2>1. ~ bad
        <3> SUFFICES ASSUME bad PROVE FALSE
            OBVIOUS
        <3>1. d = [err |-> EMSGSIZE, bytes |-> << >>]
            BY <1>1
        <3>2. d.err = EMSGSIZE
            BY <3>1
        <3> QED  BY <1>0, <3>2 DEF EMSGSIZE
    <2>2. ~ refused
        <3> SUFFICES ASSUME refused PROVE FALSE
            OBVIOUS
        <3>1. d = [err |-> EINVAL, bytes |-> << >>]
            BY <1>1, <2>1
        <3>2. d.err = EINVAL
            BY <3>1
        <3> QED  BY <1>0, <3>2 DEF EINVAL
    <2> QED  BY <2>1, <2>2
<1>3. d.bytes = f
    <2> HIDE DEF f, bad, refused
    <2>1. d = [err |-> 0, bytes |-> f]
        BY <1>1, <1>2
    <2> QED  BY <2>1
<1> DEFINE c == Len(t) \div 4
<1>4. c \in Nat /\ Len(t) = 4 * c
    <2>1. Len(t) % 4 = 0 /\ Len(t) \in Nat
        BY <1>2
    <2> QED  BY <2>1
<1> HIDE DEF c, f
<1>5. ASSUME NEW i \in 1 .. 4 * c
      PROVE  /\ init_dtable[t[i]] \in 0 .. 63 /\ t[i] # Pad
             /\ init_etable[init_dtable[t[i]]] = t[i]
    <2>0. i \in 1 .. Len(t)
        BY <1>4, Zenon
    <2>1. i \in DOMAIN t
        BY <2>0, LenProperties
    <2>2. t[i] \in 1 .. 255
        BY <2>0, ElementOfSeq
    <2>3. t[i] \notin {Pad, 255}
        BY <2>1, Zenon
    <2>4. ~ (init_dtable[t[i]] >= 128)
        BY <1>2, <2>1, Zenon
    <2>5. PICK x \in 1 .. 255 : x = t[i]
        BY <2>2
    <2>6. ~ (init_dtable[x] >= 128) /\ x \notin {Pad, 255}
        BY <2>3, <2>4, <2>5, Zenon
    <2>8. init_dtable[x] \in 0 .. 63 /\ Char(init_dtable[x]) = x
        BY <2>6, Decoded, ZenonT(60)
    <2>9. init_etable[init_dtable[x]] = x
        <3>1. \A v \in 0 .. 63 : Char(v) = init_etable[v]
            BY Characters, ZenonT(60)
        <3> QED  BY <2>8, <3>1, Zenon
    <2> QED  BY <2>5, <2>6, <2>8, <2>9, Zenon
<1> DEFINE V == [i \in 1 .. 4 * c |-> init_dtable[t[i]]]
<1>6. Letter(t, c, V)
    <2>1. \A i \in 1 .. 4 * c : V[i] = init_dtable[t[i]]
        OBVIOUS
    <2>2. V \in [1 .. 4 * c -> 0 .. 63]
        BY <1>5, Zenon
    <2> HIDE DEF V
    <2>3. \A i \in 1 .. 4 * c : /\ init_dtable[t[i]] = V[i] /\ t[i] # Pad
                                /\ init_etable[V[i]] = t[i]
        <3> TAKE i \in 1 .. 4 * c
        <3>1. V[i] = init_dtable[t[i]]
            BY <2>1
        <3>2. t[i] # Pad /\ init_etable[init_dtable[t[i]]] = t[i]
            BY <1>5
        <3> QED  BY <3>1, <3>2, Zenon
    <2> QED  BY <1>4, <2>2, <2>3, Zenon DEF Letter
<1> HIDE DEF V
<1>7. V \in [1 .. 4 * c -> 0 .. 63]
    BY <1>6, Zenon DEF Letter
<1>8. PICK u : Made(u, c, V)
    BY <1>4, <1>7, JoinedBytes
<1>9. f = u
    BY <1>4, <1>6, <1>8, LettersDecoded, ZenonT(60) DEF f
<1>10. Base64(u) = t
    BY <1>4, <1>6, <1>8, LettersEncoded, Zenon
<1> QED  BY <1>3, <1>9, <1>10, ZenonT(60) DEF d

-----------------------------------------------------------------------------
(* Base64: the caller *)

(* The error b64_decode answers with, for a text t and a buffer of n bytes. *)
Verdict(n, t, d) ==
    d.err = IF Len(t) % 4 # 0 \/ n < min_decoded_buflen(Len(t))
            THEN EMSGSIZE
            ELSE IF Range(t) \subseteq Accepted THEN 0 ELSE EINVAL

(* What it gives fits the buffer, with the final 0. *)
FitsIn(n, d) == d.err = 0 => Len(d.bytes) < n

EncodesBack(t, d) ==
    (d.err = 0 /\ Range(t) \cap {Pad, 255} = {}) => Base64(d.bytes) = t

(* What the caller's variables hold: after an encoding the text that fits the  *)
(* buffer, before a decoding of a text of its own a string, after a decoding   *)
(* what the lemmas say of it.                                                  *)
CallOK(at, p, r, n, t, d) ==
    /\ at \in {"idle", "given"} => r = 0
    /\ at = "encoded" => p \in Seq(1 .. 255) /\ r \in Nat \ {0} /\ IsCut(t, p, r)
    /\ at = "given" => t \in Seq(1 .. 255)
    /\ at = "decoded" => /\ Verdict(n, t, d) /\ FitsIn(n, d) /\ EncodesBack(t, d)
                         /\ r > 0 => RoundTrip(p, r, n, t, d)

B64Inv == CallOK(b64_pc, plain, room, dlen, text, result)

(* What b64_decode refuses, by the characters it takes. *)
LEMMA DecodeVerdict ==
    ASSUME NEW t \in Seq(1 .. 255), NEW n
    PROVE  Verdict(n, t, decode(t, n))
<1> DEFINE d == decode(t, n)
           bad == Len(t) % 4 # 0 \/ n < min_decoded_buflen(Len(t))
           refused == \E i \in DOMAIN t : init_dtable[t[i]] >= 128
<1>1. /\ bad => d.err = EMSGSIZE
      /\ (~ bad /\ refused) => d.err = EINVAL
      /\ (~ bad /\ ~ refused) => d.err = 0
    <2>1. ASSUME bad PROVE d.err = EMSGSIZE
        <3>1. d = [err |-> EMSGSIZE, bytes |-> << >>]
            BY <2>1, DecodeIs, Zenon
        <3> HIDE DEF d
        <3> QED  BY <3>1
    <2>2. ASSUME ~ bad, refused PROVE d.err = EINVAL
        <3>1. d = [err |-> EINVAL, bytes |-> << >>]
            BY <2>2, DecodeIs, Zenon
        <3> HIDE DEF d
        <3> QED  BY <3>1
    <2>3. ASSUME ~ bad, ~ refused PROVE d.err = 0
        <3> DEFINE f == FlattenSeq([k \in DOMAIN Groups(t, 4) |-> igroup(Groups(t, 4)[k])])
        <3>1. d = [err |-> 0, bytes |-> f]
            BY <2>3, DecodeIs, Zenon
        <3> HIDE DEF d, f
        <3> QED  BY <3>1
    <2> QED  BY <2>1, <2>2, <2>3, Zenon
<1>2. refused <=> ~ (Range(t) \subseteq Accepted)
    <2>1. ASSUME NEW i \in DOMAIN t
          PROVE  t[i] \in Accepted <=> ~ (init_dtable[t[i]] >= 128)
        <3>1. i \in 1 .. Len(t)
            BY LenProperties
        <3>2. t[i] \in 1 .. 255
            BY <3>1, ElementOfSeq
        <3> QED  BY <3>2, Taken, Zenon
    <2> QED  BY <2>1, ZenonT(60) DEF Range
<1> HIDE DEF d, refused
<1>3. Verdict(n, t, d)
    BY <1>1, <1>2, ZenonT(60) DEF Verdict
<1> QED  BY <1>3 DEF d

(* One group of a text that is not refused gives at most three bytes. *)
LEMMA IgroupShort ==
    ASSUME NEW g, \A i \in 1 .. 4 : init_dtable[g[i]] \in 0 .. 63
    PROVE  igroup(g) \in Seq(Int) /\ Len(igroup(g)) <= 3
<1>1. PICK x, y, z, k :
          /\ x = ((init_dtable[g[1]] * 4) % 256) + init_dtable[g[2]] \div 16
          /\ y = ((init_dtable[g[2]] * 16) % 256) + init_dtable[g[3]] \div 4
          /\ z = ((init_dtable[g[3]] * 64) % 256) + init_dtable[g[4]]
          /\ k = IF g[3] = Pad THEN 1 ELSE IF g[4] = Pad THEN 2 ELSE 3
    OBVIOUS
<1>2. /\ init_dtable[g[1]] \in 0 .. 63 /\ init_dtable[g[2]] \in 0 .. 63
      /\ init_dtable[g[3]] \in 0 .. 63 /\ init_dtable[g[4]] \in 0 .. 63
    OBVIOUS
<1>4. x \in Int /\ y \in Int /\ z \in Int
    <2>1. PICK a, b, c, e : /\ a = init_dtable[g[1]] /\ b = init_dtable[g[2]]
                            /\ c = init_dtable[g[3]] /\ e = init_dtable[g[4]]
        OBVIOUS
    <2>2. a \in 0 .. 63 /\ b \in 0 .. 63 /\ c \in 0 .. 63 /\ e \in 0 .. 63
        BY <1>2, <2>1, Zenon
    <2>3. /\ x = ((a * 4) % 256) + b \div 16 /\ y = ((b * 16) % 256) + c \div 4
          /\ z = ((c * 64) % 256) + e
        BY <1>1, <2>1, Zenon
    <2> QED  BY <2>2, <2>3
<1>6. k \in 1 .. 3
    BY <1>1
<1>7. igroup(g) = SubSeq(<<x, y, z>>, 1, k)
    BY <1>1, IgroupIs
<1>8. <<x, y, z>> \in Seq(Int) /\ Len(<<x, y, z>>) = 3
    BY <1>4
<1>9. PICK s \in Seq(Int) : s = <<x, y, z>> /\ Len(s) = 3
    BY <1>8
<1>10. k \in 0 .. Len(s)
    BY <1>6, <1>9
<1>11. SubSeq(s, 1, k) \in Seq(Int) /\ Len(SubSeq(s, 1, k)) = k
    BY <1>10, FirstPiece
<1>12. igroup(g) \in Seq(Int) /\ Len(igroup(g)) = k
    BY <1>7, <1>9, <1>11, Zenon
<1> QED  BY <1>6, <1>12

(* What b64_decode gives fits the buffer it accepted. *)
LEMMA DecodeFits ==
    ASSUME NEW t \in Seq(1 .. 255), NEW n \in Int
    PROVE  FitsIn(n, decode(t, n))
<1> DEFINE d == decode(t, n)
           bad == Len(t) % 4 # 0 \/ n < min_decoded_buflen(Len(t))
           refused == \E i \in DOMAIN t : init_dtable[t[i]] >= 128
           f == FlattenSeq([k \in DOMAIN Groups(t, 4) |-> igroup(Groups(t, 4)[k])])
<1>1. CASE bad
    <2>1. d = [err |-> EMSGSIZE, bytes |-> << >>]
        BY <1>1, DecodeIs, Zenon
    <2> HIDE DEF d
    <2>2. d.err # 0
        BY <2>1 DEF EMSGSIZE
    <2> QED  BY <2>2 DEF FitsIn, d
<1>2. CASE ~ bad /\ refused
    <2>1. d = [err |-> EINVAL, bytes |-> << >>]
        BY <1>2, DecodeIs, Zenon
    <2> HIDE DEF d
    <2>2. d.err # 0
        BY <2>1 DEF EINVAL
    <2> QED  BY <2>2 DEF FitsIn, d
<1>3. CASE ~ bad /\ ~ refused
    <2>1. d = [err |-> 0, bytes |-> f]
        BY <1>3, DecodeIs, Zenon
    <2> DEFINE c == Len(t) \div 4
    <2>2. c \in Nat /\ Len(t) = 4 * c /\ c = (Len(t) + 4 - 1) \div 4
        <3>1. Len(t) % 4 = 0 /\ Len(t) \in Nat
            BY <1>3
        <3> QED  BY <3>1
    <2>3. n >= 3 * c + 4
        <3>1. ~ (n < min_decoded_buflen(Len(t))) /\ min_decoded_buflen(Len(t)) = 3 * c + 4
            BY <1>3, <2>2 DEF min_decoded_buflen
        <3> HIDE DEF c
        <3> QED  BY <2>2, <3>1
    <2> HIDE DEF c, d
    <2> DEFINE s == [k \in DOMAIN Groups(t, 4) |-> igroup(Groups(t, 4)[k])]
    <2>4. /\ DOMAIN Groups(t, 4) = 1 .. c
          /\ \A k \in 1 .. c :
                Groups(t, 4)[k] = SubSeq(t, 4 * (k - 1) + 1, Min({4 * k, Len(t)}))
        <3>1. Groups(t, 4) = [k \in 1 .. (Len(t) + 4 - 1) \div 4 |->
                                 SubSeq(t, 4 * (k - 1) + 1, Min({4 * k, Len(t)}))]
            BY Zenon DEF Groups
        <3>2. Groups(t, 4) = [k \in 1 .. c |->
                                 SubSeq(t, 4 * (k - 1) + 1, Min({4 * k, Len(t)}))]
            BY <2>2, <3>1, Zenon
        <3> QED  BY <3>2, Zenon
    <2>5. ASSUME NEW k \in 1 .. c
          PROVE  /\ igroup(Groups(t, 4)[k]) \in Seq(Int)
                 /\ Len(igroup(Groups(t, 4)[k])) <= 3
        <3>1. PICK q : q = 4 * (k - 1)
            OBVIOUS
        <3>2. q \in Nat /\ q < Len(t) /\ q + 4 <= Len(t) /\ 4 * k = q + 4
            BY <2>2, <3>1
        <3>3. PICK g : g = SubSeq(t, q + 1, Min({q + 4, Len(t)}))
            OBVIOUS
        <3>4. IsGroup(g, t, q, 4)
            <4>1. 4 \in Nat \ {0}
                OBVIOUS
            <4> QED  BY <3>2, <3>3, <4>1, GroupOf, Zenon
        <3>5. Groups(t, 4)[k] = g
            BY <2>4, <3>1, <3>2, <3>3, Zenon
        <3>6. ASSUME NEW i \in 1 .. 4 PROVE init_dtable[g[i]] \in 0 .. 63
            <4>1. i <= Len(g) <=> q + i <= Len(t)
                BY <3>4 DEF IsGroup
            <4>2. Len(g) \in 1 .. 4
                BY <3>4 DEF IsGroup
            <4>3. i \in 1 .. Len(g) /\ q + i \in 1 .. Len(t)
                BY <3>2, <4>1, <4>2
            <4>4. g[i] = t[q + i]
                BY <3>4, <4>3, Zenon DEF IsGroup
            <4>5. t[q + i] \in 1 .. 255 /\ q + i \in DOMAIN t
                BY <4>3, ElementOfSeq, LenProperties
            <4>6. ~ (init_dtable[t[q + i]] >= 128)
                BY <1>3, <4>5, Zenon
            <4>7. init_dtable[t[q + i]] \in 0 .. 63
                BY <4>5, <4>6, Decoded, ZenonT(60)
            <4> QED  BY <4>4, <4>7, Zenon
        <3>7. igroup(g) \in Seq(Int) /\ Len(igroup(g)) <= 3
            BY <3>6, IgroupShort, Zenon
        <3> QED  BY <3>5, <3>7, Zenon
    <2>6. s \in [1 .. c -> Seq(Int)] /\ \A k \in 1 .. c : Len(s[k]) <= 3
        <3>1. s = [k \in 1 .. c |-> igroup(Groups(t, 4)[k])]
            BY <2>4, Zenon
        <3> HIDE DEF s
        <3> QED  BY <2>5, <3>1, Zenon
    <2> HIDE DEF s
    <2>7. Len(FlattenSeq(s)) \in Nat /\ Len(FlattenSeq(s)) <= 3 * c
        BY <2>2, <2>6, FlattenShort, Zenon
    <2>8. f = FlattenSeq(s)
        BY DEF s
    <2> HIDE DEF f
    <2>9. d.bytes = FlattenSeq(s)
        BY <2>1, <2>8
    <2>10. Len(FlattenSeq(s)) < n
        BY <2>2, <2>3, <2>7
    <2>11. Len(d.bytes) < n
        BY <2>9, <2>10, Zenon
    <2> QED  BY <2>11 DEF FitsIn, d
<1> QED  BY <1>1, <1>2, <1>3

(* A C string is a sequence of bytes. *)
LEMMA StringsAreBytes ==
    ASSUME NEW p \in Seq(1 .. 255)
    PROVE  p \in Seq(0 .. 255)
<1>1. 1 .. 255 \subseteq 0 .. 255
    OBVIOUS
<1> QED  BY <1>1, SeqMonotonic

(* So is a string of characters of an encoding. *)
LEMMA LettersAreBytes ==
    ASSUME NEW t \in Seq(Letters)
    PROVE  t \in Seq(1 .. 255)
<1>1. \A i \in 1 .. Len(t) : t[i] \in 1 .. 255
    <2> TAKE i \in 1 .. Len(t)
    <2>1. t[i] \in Letters
        BY ElementOfSeq
    <2> QED  BY <2>1 DEF Letters
<1>2. Len(t) \in Nat /\ t = [i \in 1 .. Len(t) |-> t[i]]
    <2> HIDE DEF Letters
    <2> QED  BY LenProperties
<1>3. t \in [1 .. Len(t) -> 1 .. 255]
    BY <1>1, <1>2
<1>4. PICK n, f : n = Len(t) /\ f = t
    OBVIOUS
<1>5. n \in Nat /\ f \in [1 .. n -> 1 .. 255]
    BY <1>2, <1>3, <1>4, Zenon
<1>6. f \in Seq(1 .. 255)
    BY <1>5, FunctionIsSeq, Zenon
<1> QED  BY <1>4, <1>6, Zenon

(* A text without pads, character by character. *)
LEMMA NoPads ==
    ASSUME NEW t \in Seq(1 .. 255), Range(t) \cap {Pad, 255} = {}
    PROVE  \A i \in DOMAIN t : t[i] \notin {Pad, 255}
BY ZenonT(60) DEF Range

(* A call of the encoder keeps the invariant. *)
LEMMA EncodeStep ==
    ASSUME NEW p \in Seq(1 .. 255), NEW n \in Nat \ {0}, b64_encode(p, n),
           b64_pc' \in {"encoded", "new_decoded"}
    PROVE  B64Inv'
<1>1. p \in Seq(0 .. 255)
    BY StringsAreBytes
<1>2. encode(p, n) = SubSeq(Base64(p), 1, Min({Len(Base64(p)), n - 1}))
    BY <1>1, EncodeIs
<1>3. IsCut(encode(p, n), p, n)
    BY <1>2, Zenon DEF IsCut
<1>4. plain' = p /\ room' = n /\ text' = encode(p, n)
    BY Zenon DEF b64_encode
<1>5. \A m, d : CallOK("encoded", p, n, m, encode(p, n), d)
    BY <1>3, Zenon DEF CallOK
<1>6. \A m, d : CallOK("new_decoded", p, n, m, encode(p, n), d)
    BY Zenon DEF CallOK
<1>7. CallOK(b64_pc', plain', room', dlen', text', result')
    BY <1>4, <1>5, <1>6, Zenon
<1> QED  BY <1>7, Zenon DEF B64Inv

(* A string that was left by the encoder, or given, is a sequence of bytes. *)
LEMMA TextTyped ==
    ASSUME B64Inv, b64_pc \in {"encoded", "given"}
    PROVE  text \in Seq(1 .. 255)
<1>1. CASE b64_pc = "encoded"
    <2>1. plain \in Seq(1 .. 255) /\ room \in Nat \ {0} /\ IsCut(text, plain, room)
        BY <1>1, Zenon DEF B64Inv, CallOK
    <2>2. plain \in Seq(0 .. 255)
        BY <2>1, StringsAreBytes
    <2>3. text \in Seq(Letters)
        BY <2>1, <2>2, CutEncoding, Zenon
    <2> QED  BY <2>3, LettersAreBytes
<1>2. CASE b64_pc = "given"
    BY <1>2, Zenon DEF B64Inv, CallOK
<1> QED  BY <1>1, <1>2

(* A call of the decoder keeps the invariant. *)
LEMMA DecodeStep ==
    ASSUME B64Inv, NEW n \in Int, b64_decode(n)
    PROVE  B64Inv'
<1>1. /\ b64_pc \in {"encoded", "given"} /\ result' = decode(text, n) /\ dlen' = n
      /\ room' = room /\ b64_pc' = "decoded" /\ plain' = plain /\ text' = text
    BY Zenon DEF b64_decode
<1>2. text \in Seq(1 .. 255)
    BY <1>1, TextTyped
<1>3. Verdict(n, text, decode(text, n)) /\ FitsIn(n, decode(text, n))
    BY <1>2, DecodeVerdict, DecodeFits
<1>4. EncodesBack(text, decode(text, n))
    <2> SUFFICES ASSUME decode(text, n).err = 0, Range(text) \cap {Pad, 255} = {}
                 PROVE  Base64(decode(text, n).bytes) = text
        BY DEF EncodesBack
    <2>1. \A i \in DOMAIN text : text[i] \notin {Pad, 255}
        BY <1>2, NoPads
    <2> QED  BY <1>2, <2>1, DecodedEncodes
<1>5. room > 0 => RoundTrip(plain, room, n, text, decode(text, n))
    <2>1. CASE b64_pc = "encoded"
        <3>1. plain \in Seq(1 .. 255) /\ room \in Nat \ {0} /\ IsCut(text, plain, room)
            BY <2>1, Zenon DEF B64Inv, CallOK
        <3>2. plain \in Seq(0 .. 255)
            BY <3>1, StringsAreBytes
        <3> QED  BY <3>1, <3>2, DecodeOfEncoding
    <2>2. CASE b64_pc = "given"
        <3>1. room = 0
            BY <2>2, Zenon DEF B64Inv, CallOK
        <3> QED  BY <3>1
    <2> QED  BY <1>1, <2>1, <2>2
<1>6. CallOK("decoded", plain, room, n, text, decode(text, n))
    BY <1>3, <1>4, <1>5, Zenon DEF CallOK
<1>7. CallOK(b64_pc', plain', room', dlen', text', result')
    BY <1>1, <1>6, Zenon
<1> QED  BY <1>7, Zenon DEF B64Inv

(* The invariant holds in every state. *)
LEMMA B64InvHolds == B64Spec => []B64Inv
<1>1. B64Init => B64Inv
    BY DEF B64Init, B64Inv, CallOK
<1>2. B64Inv /\ [B64Next]_b64_vars => B64Inv'
    <2> SUFFICES ASSUME B64Inv, [B64Next]_b64_vars PROVE B64Inv'
        OBVIOUS
    <2>0. \A p \in Plains \cup Texts : p \in Seq(1 .. 255) /\ Len(p) \in Nat
        BY B64Assumption
    <2>1. CASE b64_init \/ UNCHANGED b64_vars
        <3>1. /\ b64_pc' = b64_pc /\ plain' = plain /\ room' = room
              /\ dlen' = dlen /\ text' = text /\ result' = result
            BY <2>1 DEF b64_init, b64_vars
        <3>2. CallOK(b64_pc', plain', room', dlen', text', result')
            BY <3>1, Zenon DEF B64Inv
        <3> QED  BY <3>2, Zenon DEF B64Inv
    <2>2. ASSUME NEW p \in Plains, NEW n \in Rooms, b64_encode(p, n), b64_pc' = "encoded"
          PROVE  B64Inv'
        <3>1. p \in Seq(1 .. 255) /\ n \in Nat \ {0}
            BY B64Assumption
        <3> QED  BY <2>2, <3>1, EncodeStep
    <2>n. ASSUME no_string PROVE B64Inv'
        <3>1. b64_pc' = "null"
            BY <2>n DEF no_string
        <3>2. CallOK(b64_pc', plain', room', dlen', text', result')
            BY <3>1 DEF CallOK
        <3> QED  BY <3>2, Zenon DEF B64Inv
    <2>3. ASSUME NEW p \in Plains, new_b64_encoded(p) PROVE B64Inv'
        <3>1. p \in Seq(1 .. 255) /\ Len(p) \in Nat
            BY <2>0
        <3>2. min_encoded_buflen(Len(p)) \in Nat \ {0}
            BY <3>1 DEF min_encoded_buflen
        <3>3. ASSUME b64_encode(p, min_encoded_buflen(Len(p))), b64_pc' = "encoded"
              PROVE  B64Inv'
            BY <3>1, <3>2, <3>3, EncodeStep
        <3> QED  BY <2>3, <2>n, <3>3 DEF new_b64_encoded
    <2>4. ASSUME NEW p \in Texts, new_b64_decoded(p) PROVE B64Inv'
        <3>1. p \in Seq(1 .. 255) /\ Len(p) \in Nat
            BY <2>0
        <3>2. min_decoded_buflen(Len(p)) \in Nat \ {0}
            BY <3>1 DEF min_decoded_buflen
        <3>3. ASSUME b64_encode(p, min_decoded_buflen(Len(p))), b64_pc' = "new_decoded"
              PROVE  B64Inv'
            BY <3>1, <3>2, <3>3, EncodeStep
        <3> QED  BY <2>4, <2>n, <3>3 DEF new_b64_decoded
    <2>5. ASSUME NEW t \in Texts, give_text(t) PROVE B64Inv'
        <3>1. /\ t \in Seq(1 .. 255) /\ text' = t /\ b64_pc' = "given"
              /\ room' = room /\ b64_pc = "idle"
            BY <2>0, <2>5 DEF give_text
        <3>2. room = 0
            BY <3>1, Zenon DEF B64Inv, CallOK
        <3>3. CallOK(b64_pc', plain', room', dlen', text', result')
            BY <3>1, <3>2 DEF CallOK
        <3> QED  BY <3>3, Zenon DEF B64Inv
    <2>6. ASSUME NEW n \in {min_decoded_buflen(Len(text)) - 1,
                            min_decoded_buflen(Len(text)),
                            (Len(text) \div 3 + 1) * 4 + 1}, b64_decode(n)
          PROVE  B64Inv'
        <3>1. text \in Seq(1 .. 255)
            BY <2>6, TextTyped DEF b64_decode
        <3>2. Len(text) \in Nat
            BY <3>1
        <3>3. n \in Int
            BY <3>2 DEF min_decoded_buflen
        <3> QED  BY <2>6, <3>3, DecodeStep
    <2> QED  BY <2>1, <2>2, <2>3, <2>4, <2>5, <2>6, Zenon DEF B64Next
<1> QED  BY <1>1, <1>2, PTL DEF B64Spec

(* Whatever the string and the room for its text, b64_encode leaves the base64
   of the string, as much of it as fits. *)
THEOREM EncodingCorrect == B64Spec => []EncodesBase64
<1>1. B64Inv => EncodesBase64
    BY Zenon DEF B64Inv, CallOK, EncodesBase64, IsCut
<1> QED  BY <1>1, B64InvHolds, PTL

(* b64_decode refuses exactly the texts that are not in whole groups, do not fit
   the buffer or have a character it does not take, and never writes past the
   buffer; it gives back the string that was encoded, or the first bytes of it
   where the encoding was cut between groups; and an accepted text without pads
   and without byte 255 is the encoding of what it gives. *)
THEOREM DecodingCorrect == B64Spec => []DecodesBack
<1>1. B64Inv => DecodesBack
    BY Zenon DEF B64Inv, CallOK, DecodesBack, Verdict, FitsIn, EncodesBack, RoundTrip
<1> QED  BY <1>1, B64InvHolds, PTL

-----------------------------------------------------------------------------
(* Words and the division *)

(* The words of 32 bits. *)
W == SUBSET (0 .. 31)

(* i is in both or in neither of a # b. *)
LEMMA XorMember ==
    ASSUME NEW a, NEW b, NEW i
    PROVE  i \in SymDiff(a, b) <=> (i \in a) # (i \in b)
BY DEF SymDiff

(* The exclusive or of two words is a word. *)
LEMMA XorWord ==
    ASSUME NEW a \in W, NEW b \in W
    PROVE  SymDiff(a, b) \in W
BY DEF SymDiff, W

(* Exclusive or is associative, *)
LEMMA XorAssoc ==
    ASSUME NEW a, NEW b, NEW c
    PROVE  SymDiff(SymDiff(a, b), c) = SymDiff(a, SymDiff(b, c))
BY DEF SymDiff

(* commutative, *)
LEMMA XorComm ==
    ASSUME NEW a, NEW b
    PROVE  SymDiff(a, b) = SymDiff(b, a)
BY DEF SymDiff

(* and has zero as its neutral element; a word is its own inverse. *)
LEMMA XorZero ==
    ASSUME NEW a
    PROVE  SymDiff(a, {}) = a /\ SymDiff({}, a) = a /\ SymDiff(a, a) = {}
BY DEF SymDiff

(* The bits of a word shifted right. *)
LEMMA ShrMember ==
    ASSUME NEW w \in W, NEW n \in Nat, NEW i \in Nat
    PROVE  i \in Shr(w, n) <=> i + n \in w
<1>1. i \in Shr(w, n) <=> \E b \in w : b >= n /\ i = b - n
    BY DEF Shr
<1>2. w \subseteq 0 .. 31
    BY DEF W
<1> QED  BY <1>1, <1>2

(* A word shifted right is a word. *)
LEMMA ShrWord ==
    ASSUME NEW w \in W, NEW n \in Nat
    PROVE  Shr(w, n) \in W
<1>1. ASSUME NEW i \in Shr(w, n) PROVE i \in 0 .. 31
    <2>1. PICK b \in w : b >= n /\ i = b - n
        BY DEF Shr
    <2>2. b \in 0 .. 31
        BY DEF W
    <2> QED  BY <2>1, <2>2
<1> QED  BY <1>1 DEF W

(* Words with the same bits are the same. *)
LEMMA SameWord ==
    ASSUME NEW a \in W, NEW b \in W, \A i \in 0 .. 31 : i \in a <=> i \in b
    PROVE  a = b
BY DEF W

(* One step of the division, of a bit that is 0. *)
Step(p, c) == IF 0 \in c THEN SymDiff(Shr(c, 1), p) ELSE Shr(c, 1)

(* A step makes a word of a word. *)
LEMMA StepWord ==
    ASSUME NEW p \in W, NEW c \in W
    PROVE  Step(p, c) \in W
<1>1. Shr(c, 1) \in W
    BY ShrWord
<1> QED  BY <1>1, XorWord DEF Step

(* Bit i after a step: the one above it, and the polynomial where bit 0 was 1. *)
LEMMA StepMember ==
    ASSUME NEW p \in W, NEW c \in W, NEW i \in 0 .. 31
    PROVE  i \in Step(p, c) <=> ((i + 1 \in c) # (0 \in c /\ i \in p))
<1>1. i \in Shr(c, 1) <=> i + 1 \in c
    BY ShrMember
<1>2. i \in SymDiff(Shr(c, 1), p) <=> (i \in Shr(c, 1)) # (i \in p)
    BY XorMember
<1> QED  BY <1>1, <1>2 DEF Step

(* A step is linear. *)
LEMMA StepLinear ==
    ASSUME NEW p \in W, NEW a \in W, NEW b \in W
    PROVE  Step(p, SymDiff(a, b)) = SymDiff(Step(p, a), Step(p, b))
<1>1. SymDiff(a, b) \in W /\ Step(p, a) \in W /\ Step(p, b) \in W
    BY XorWord, StepWord
<1>2. Step(p, SymDiff(a, b)) \in W /\ SymDiff(Step(p, a), Step(p, b)) \in W
    BY <1>1, XorWord, StepWord
<1>3. ASSUME NEW i \in 0 .. 31
      PROVE  i \in Step(p, SymDiff(a, b)) <=> i \in SymDiff(Step(p, a), Step(p, b))
    <2>1. i \in Step(p, SymDiff(a, b))
            <=> ((i + 1 \in SymDiff(a, b)) # (0 \in SymDiff(a, b) /\ i \in p))
        BY <1>1, StepMember
    <2>2. /\ i + 1 \in SymDiff(a, b) <=> (i + 1 \in a) # (i + 1 \in b)
          /\ 0 \in SymDiff(a, b) <=> (0 \in a) # (0 \in b)
        BY XorMember
    <2>3. /\ i \in Step(p, a) <=> ((i + 1 \in a) # (0 \in a /\ i \in p))
          /\ i \in Step(p, b) <=> ((i + 1 \in b) # (0 \in b /\ i \in p))
        BY StepMember
    <2>4. i \in SymDiff(Step(p, a), Step(p, b)) <=> (i \in Step(p, a)) # (i \in Step(p, b))
        BY XorMember
    <2> QED  BY <2>1, <2>2, <2>3, <2>4
<1> QED  BY <1>2, <1>3, SameWord

(* Steps[k] is k steps of the division by p. *)
IsSteps(p, f) ==
    /\ f \in [0 .. 64 -> [W -> W]]
    /\ f[0] = [c \in W |-> c]
    /\ \A k \in 1 .. 64 : f[k] = [c \in W |-> Step(p, f[k - 1][c])]

Steps(p) == CHOOSE f : IsSteps(p, f)

(* There is such a function. *)
LEMMA StepsDefined ==
    ASSUME NEW p \in W
    PROVE  IsSteps(p, Steps(p))
<1> DEFINE T == [W -> W]
           G == [k \in 1 .. 64 |-> [F \in T |-> [c \in W |-> Step(p, F[c])]]]
           x == [c \in W |-> c]
<1>1. x \in T
    OBVIOUS
<1>2. G \in [1 .. 64 -> [T -> T]]
    BY StepWord
<1>3. PICK n \in Nat : n = 64
    OBVIOUS
<1> HIDE DEF T, G, x
<1>4. \E f \in [0 .. 64 -> T] : f[0] = x /\ \A i \in 1 .. 64 : f[i] = G[i][f[i - 1]]
    <2>1. G \in [1 .. n -> [T -> T]]
        BY <1>2, <1>3
    <2>2. \E f \in [0 .. n -> T] : f[0] = x /\ \A i \in 1 .. n : f[i] = G[i][f[i - 1]]
        BY <1>1, <2>1, Recursion
    <2> QED  BY <1>3, <2>2
<1>4a. PICK f \in [0 .. 64 -> T] : f[0] = x /\ \A i \in 1 .. 64 : f[i] = G[i][f[i - 1]]
    BY <1>4, Zenon
<1>5. ASSUME NEW k \in 1 .. 64 PROVE f[k] = [c \in W |-> Step(p, f[k - 1][c])]
    <2>1. f[k - 1] \in T
        OBVIOUS
    <2>2. f[k] = G[k][f[k - 1]]
        BY <1>4a
    <2>3. G[k][f[k - 1]] = [c \in W |-> Step(p, f[k - 1][c])]
        BY <2>1 DEF G
    <2> QED  BY <2>2, <2>3
<1>6. IsSteps(p, f)
    BY <1>4a, <1>5 DEF IsSteps, T, x
<1> QED  BY <1>6, Zenon DEF Steps

(* What it is: a word after every number of steps, the word itself after none. *)
LEMMA StepsAt ==
    ASSUME NEW p \in W, NEW c \in W
    PROVE  /\ \A k \in 0 .. 64 : Steps(p)[k][c] \in W
           /\ Steps(p)[0][c] = c
           /\ \A k \in 1 .. 64 : Steps(p)[k][c] = Step(p, Steps(p)[k - 1][c])
<1>1. IsSteps(p, Steps(p))
    BY StepsDefined
<1>2. PICK f : f = Steps(p) /\ IsSteps(p, f)
    BY <1>1, Zenon
<1>3. /\ f \in [0 .. 64 -> [W -> W]]
      /\ f[0] = [x \in W |-> x]
      /\ \A k \in 1 .. 64 : f[k] = [x \in W |-> Step(p, f[k - 1][x])]
    BY <1>2, Zenon DEF IsSteps
<1>4. \A k \in 0 .. 64 : f[k][c] \in W
    BY <1>3
<1>5. f[0][c] = c
    BY <1>3
<1>6. ASSUME NEW k \in 1 .. 64 PROVE f[k][c] = Step(p, f[k - 1][c])
    <2>1. f[k] = [x \in W |-> Step(p, f[k - 1][x])]
        BY <1>3, Zenon
    <2> QED  BY <2>1
<1> QED  BY <1>2, <1>4, <1>5, <1>6, Zenon

(* One step more. *)
LEMMA StepsNext ==
    ASSUME NEW p \in W, NEW c \in W, NEW k \in 0 .. 63
    PROVE  Steps(p)[k][c] \in W /\ Steps(p)[k + 1][c] = Step(p, Steps(p)[k][c])
<1>1. k \in 0 .. 64 /\ k + 1 \in 1 .. 64 /\ (k + 1) - 1 = k
    OBVIOUS
<1> HIDE DEF Steps
<1>2. Steps(p)[k + 1][c] = Step(p, Steps(p)[(k + 1) - 1][c])
    BY <1>1, StepsAt, ZenonT(60)
<1> QED  BY <1>1, <1>2, StepsAt

(* A property of 0 that passes from each number to the next up to n holds up to n. *)
LEMMA UpTo ==
    ASSUME NEW n \in Nat, NEW S, 0 \in S, \A k \in 0 .. n - 1 : k \in S => k + 1 \in S
    PROVE  \A k \in 0 .. n : k \in S
<1> DEFINE Q == {k \in Nat : k <= n => k \in S}
<1>1. 0 \in Q
    OBVIOUS
<1>2. \A k \in Q : k + 1 \in Q
    OBVIOUS
<1>3. Q \in SUBSET Nat
    OBVIOUS
<1>4. Q = Nat
    <2> HIDE DEF Q
    <2> QED  BY <1>1, <1>2, <1>3, InductiveSet
<1> QED  BY <1>4

(* Any number of steps is linear. *)
LEMMA StepsLinear ==
    ASSUME NEW p \in W, NEW a \in W, NEW b \in W, NEW k \in 0 .. 64
    PROVE  Steps(p)[k][SymDiff(a, b)] = SymDiff(Steps(p)[k][a], Steps(p)[k][b])
<1> DEFINE f == Steps(p)
           S == {j \in 0 .. 64 : f[j][SymDiff(a, b)] = SymDiff(f[j][a], f[j][b])}
<1>0. SymDiff(a, b) \in W
    BY XorWord
<1>1. 0 \in S
    <2>1. f[0][SymDiff(a, b)] = SymDiff(a, b) /\ f[0][a] = a /\ f[0][b] = b
        BY <1>0, StepsAt
    <2> QED  BY <2>1
<1>2. ASSUME NEW j \in 0 .. 64 - 1, j \in S PROVE j + 1 \in S
    <2>1. j + 1 \in 1 .. 64 /\ (j + 1) - 1 = j /\ j \in 0 .. 64 /\ j + 1 \in 0 .. 64
        OBVIOUS
    <2>2. /\ f[j + 1][SymDiff(a, b)] = Step(p, f[j][SymDiff(a, b)])
          /\ f[j + 1][a] = Step(p, f[j][a])
          /\ f[j + 1][b] = Step(p, f[j][b])
          /\ f[j][a] \in W /\ f[j][b] \in W
        <3>1. j \in 0 .. 63
            OBVIOUS
        <3> QED  BY <1>0, <3>1, StepsNext
    <2>3. f[j][SymDiff(a, b)] = SymDiff(f[j][a], f[j][b])
        BY <1>2
    <2>4. Step(p, SymDiff(f[j][a], f[j][b])) = SymDiff(Step(p, f[j][a]), Step(p, f[j][b]))
        BY <2>2, StepLinear
    <2> QED  BY <2>1, <2>2, <2>3, <2>4
<1>3. k \in S
    <2> HIDE DEF S
    <2>1. 64 \in Nat
        OBVIOUS
    <2> QED  BY <1>1, <1>2, <2>1, UpTo
<1> QED  BY <1>3

(* After i steps from c, k more make i + k. *)
Compose(p, c, i, k) == Steps(p)[i + k][c] = Steps(p)[k][Steps(p)[i][c]]

(* Steps add up. *)
LEMMA StepsAdd ==
    ASSUME NEW p \in W, NEW c \in W, NEW i \in 0 .. 64, NEW k \in 0 .. 64, i + k <= 64
    PROVE  Compose(p, c, i, k)
<1> DEFINE f == Steps(p)
           S == {j \in 0 .. k : f[i + j][c] = f[j][f[i][c]]}
<1>0. f[i][c] \in W
    BY StepsAt
<1>1. 0 \in S
    <2>1. f[0][f[i][c]] = f[i][c]
        BY <1>0, StepsAt
    <2>2. i + 0 = i
        OBVIOUS
    <2> QED  BY <2>1, <2>2
<1>2. ASSUME NEW j \in 0 .. k - 1, j \in S PROVE j + 1 \in S
    <2>1. j + 1 \in 0 .. k /\ j \in 0 .. 63 /\ i + j \in 0 .. 63 /\ i + (j + 1) = (i + j) + 1
        OBVIOUS
    <2>2. f[(i + j) + 1][c] = Step(p, f[i + j][c])
        BY <2>1, StepsNext, Zenon
    <2>3. f[j + 1][f[i][c]] = Step(p, f[j][f[i][c]])
        BY <1>0, <2>1, StepsNext, Zenon
    <2>4. f[i + j][c] = f[j][f[i][c]]
        BY <1>2
    <2> QED  BY <2>1, <2>2, <2>3, <2>4
<1>3. k \in S
    <2> HIDE DEF S
    <2> QED  BY <1>1, <1>2, UpTo
<1> QED  BY <1>3 DEF Compose

-----------------------------------------------------------------------------
(* Division by bits of data *)

(* One step of the division, of the bit one. *)
Shifted(p, c, one) ==
    IF (0 \in c) # one THEN SymDiff(Shr(c, 1), p) ELSE Shr(c, 1)

(* A step with a bit of the data makes a word of a word. *)
LEMMA ShiftedWord ==
    ASSUME NEW p \in W, NEW c \in W, NEW one
    PROVE  Shifted(p, c, one) \in W
<1>1. Shr(c, 1) \in W
    BY ShrWord
<1> QED  BY <1>1, XorWord DEF Shifted

(* Shifts right add up, and shifting by none changes nothing. *)
LEMMA ShrLaws ==
    ASSUME NEW w \in W
    PROVE  /\ Shr(w, 0) = w
           /\ \A j, k \in Nat : Shr(Shr(w, j), k) = Shr(w, j + k)
<1>1. Shr(w, 0) = w
    <2>1. Shr(w, 0) \in W
        BY ShrWord
    <2>2. \A i \in 0 .. 31 : i \in Shr(w, 0) <=> i \in w
        <3> TAKE i \in 0 .. 31
        <3>1. i \in Shr(w, 0) <=> i + 0 \in w
            BY ShrMember
        <3>2. i + 0 = i
            OBVIOUS
        <3> QED  BY <3>1, <3>2, Zenon
    <2> QED  BY <2>1, <2>2, SameWord
<1>2. ASSUME NEW j \in Nat, NEW k \in Nat PROVE Shr(Shr(w, j), k) = Shr(w, j + k)
    <2>0. j + k \in Nat
        OBVIOUS
    <2>1. Shr(w, j) \in W /\ Shr(w, j + k) \in W
        BY <2>0, ShrWord
    <2>2. Shr(Shr(w, j), k) \in W
        BY <2>1, ShrWord
    <2>3. \A i \in 0 .. 31 : i \in Shr(Shr(w, j), k) <=> i \in Shr(w, j + k)
        <3> TAKE i \in 0 .. 31
        <3>1. i \in Nat /\ i + k \in Nat /\ (i + k) + j = i + (j + k)
            OBVIOUS
        <3>2. i \in Shr(Shr(w, j), k) <=> i + k \in Shr(w, j)
            BY <2>1, <3>1, ShrMember
        <3>3. i + k \in Shr(w, j) <=> (i + k) + j \in w
            BY <3>1, ShrMember
        <3>4. i \in Shr(w, j + k) <=> i + (j + k) \in w
            BY <2>0, <3>1, ShrMember
        <3> QED  BY <3>1, <3>2, <3>3, <3>4, Zenon
    <2> QED  BY <2>1, <2>2, <2>3, SameWord
<1> QED  BY <1>1, <1>2

(* To add a bit before a step is to add it in the step. *)
LEMMA OneBit ==
    ASSUME NEW p \in W, NEW c \in W, NEW b \in W
    PROVE  Step(p, SymDiff(c, b)) = SymDiff(Shifted(p, c, 0 \in b), Shr(b, 1))
<1>1. SymDiff(c, b) \in W /\ Shifted(p, c, 0 \in b) \in W /\ Shr(b, 1) \in W
    BY XorWord, ShiftedWord, ShrWord
<1>2. Step(p, SymDiff(c, b)) \in W /\ SymDiff(Shifted(p, c, 0 \in b), Shr(b, 1)) \in W
    BY <1>1, XorWord, StepWord
<1>3. ASSUME NEW i \in 0 .. 31
      PROVE  i \in Step(p, SymDiff(c, b)) <=> i \in SymDiff(Shifted(p, c, 0 \in b), Shr(b, 1))
    <2>1. i \in Step(p, SymDiff(c, b))
            <=> ((i + 1 \in SymDiff(c, b)) # (0 \in SymDiff(c, b) /\ i \in p))
        BY <1>1, StepMember
    <2>2. /\ i + 1 \in SymDiff(c, b) <=> (i + 1 \in c) # (i + 1 \in b)
          /\ 0 \in SymDiff(c, b) <=> (0 \in c) # (0 \in b)
        BY XorMember
    <2>3. i \in Shifted(p, c, 0 \in b)
            <=> ((i + 1 \in c) # (((0 \in c) # (0 \in b)) /\ i \in p))
        <3>1. i \in Shr(c, 1) <=> i + 1 \in c
            BY ShrMember
        <3>2. i \in SymDiff(Shr(c, 1), p) <=> (i \in Shr(c, 1)) # (i \in p)
            BY XorMember
        <3> QED  BY <3>1, <3>2 DEF Shifted
    <2>4. i \in Shr(b, 1) <=> i + 1 \in b
        BY ShrMember
    <2>5. i \in SymDiff(Shifted(p, c, 0 \in b), Shr(b, 1))
            <=> (i \in Shifted(p, c, 0 \in b)) # (i \in Shr(b, 1))
        BY XorMember
    <2> QED  BY <2>1, <2>2, <2>3, <2>4, <2>5
<1> QED  BY <1>2, <1>3, SameWord

(* A byte is a word with nothing above bit 7. *)
LEMMA ByteWord ==
    ASSUME NEW b \in Byte
    PROVE  b \in W /\ Shr(b, 8) = {}
<1>1. b \in W
    BY DEF Byte, W
<1>2. \A i \in b : ~ (i >= 8)
    BY DEF Byte
<1> QED  BY <1>1, <1>2 DEF Shr

(* The eight steps of a byte. *)
LEMMA EightBits ==
    ASSUME NEW p \in W, NEW b \in Byte, NEW a \in [0 .. 8 -> W],
           \A k \in 0 .. 7 : a[k + 1] = Shifted(p, a[k], k \in b)
    PROVE  a[8] = Steps(p)[8][SymDiff(a[0], b)]
<1> DEFINE x == SymDiff(a[0], b)
           S == {k \in 0 .. 8 : Steps(p)[k][x] = SymDiff(a[k], Shr(b, k))}
<1>0. b \in W /\ a[0] \in W /\ x \in W
    BY ByteWord, XorWord
<1>1. 0 \in S
    <2>1. Steps(p)[0][x] = x
        BY <1>0, StepsAt
    <2>2. Shr(b, 0) = b
        BY <1>0, ShrLaws
    <2> QED  BY <2>1, <2>2
<1> HIDE DEF x
<1>2. ASSUME NEW k \in 0 .. 8 - 1, k \in S PROVE k + 1 \in S
    <2>1. k \in 0 .. 7 /\ k \in Nat /\ k \in 0 .. 63 /\ k + 1 \in 0 .. 8 /\ 0 + k = k /\ 1 \in Nat
        OBVIOUS
    <2>2. a[k] \in W /\ Shr(b, k) \in W
        <3>1. k \in 0 .. 8
            OBVIOUS
        <3> QED  BY <1>0, <2>1, <3>1, ShrWord, Zenon
    <2>3. Steps(p)[k + 1][x] = Step(p, Steps(p)[k][x])
        BY <1>0, <2>1, StepsNext, Zenon
    <2>4. Steps(p)[k][x] = SymDiff(a[k], Shr(b, k))
        BY <1>2
    <2>5. Step(p, SymDiff(a[k], Shr(b, k)))
            = SymDiff(Shifted(p, a[k], 0 \in Shr(b, k)), Shr(Shr(b, k), 1))
        BY <2>2, OneBit, Zenon
    <2>6. Shr(Shr(b, k), 1) = Shr(b, k + 1)
        BY <1>0, <2>1, ShrLaws, Zenon
    <2>7. 0 \in Shr(b, k) <=> k \in b
        <3>1. 0 \in Shr(b, k) <=> 0 + k \in b
            BY <1>0, <2>1, ShrMember
        <3> QED  BY <2>1, <3>1
    <2>8. Shifted(p, a[k], 0 \in Shr(b, k)) = a[k + 1]
        BY <2>1, <2>7 DEF Shifted
    <2>9. Steps(p)[k + 1][x] = SymDiff(a[k + 1], Shr(b, k + 1))
        BY <2>3, <2>4, <2>5, <2>6, <2>8, Zenon
    <2> QED  BY <2>1, <2>9
<1>3. 8 \in S
    <2> HIDE DEF S
    <2>1. PICK n \in Nat : n = 8
        OBVIOUS
    <2> QED  BY <1>1, <1>2, <2>1, UpTo
<1>4. Steps(p)[8][x] = SymDiff(a[8], Shr(b, 8))
    BY <1>3
<1>5. SymDiff(a[8], {}) = a[8]
    BY XorZero
<1> QED  BY <1>4, <1>5, ByteWord, Zenon DEF x

-----------------------------------------------------------------------------
(* Bits of the data *)
IsAfter(p, crc, data, after) ==
    /\ after \in [0 .. 8 * Len(data) -> W]
    /\ after[0] = crc
    /\ \A k \in 1 .. 8 * Len(data) :
         after[k] = Shifted(p, after[k - 1], (k - 1) % 8 \in data[(k - 1) \div 8 + 1])

(* The words the division goes through, a bit at a time. *)
LEMMA RemainderBits ==
    ASSUME NEW p \in W, NEW crc \in W, NEW data \in Seq(Byte)
    PROVE  \E after : IsAfter(p, crc, data, after)
                      /\ Remainder(p, crc, data) = after[8 * Len(data)]
<1> DEFINE n == 8 * Len(data)
           one(k) == (k - 1) % 8 \in data[(k - 1) \div 8 + 1]
           G == [k \in 1 .. n |-> [c \in W |-> Shifted(p, c, one(k))]]
           Q(f) == f = [k \in 0 .. n |-> IF k = 0 THEN crc ELSE Shifted(p, f[k - 1], one(k))]
<1>1. n \in Nat
    BY LenProperties
<1> HIDE DEF one, n
<1>2. G \in [1 .. n -> [W -> W]]
    BY ShiftedWord
<1> HIDE DEF G
<1>3. \E f \in [0 .. n -> W] : f[0] = crc /\ \A i \in 1 .. n : f[i] = G[i][f[i - 1]]
    <2>1. \E f : IsRecursion(f, n, W, crc, G)
        BY <1>1, <1>2, Recursive, Zenon
    <2> QED  BY <2>1 DEF IsRecursion
<1>4. PICK f \in [0 .. n -> W] : f[0] = crc /\ \A i \in 1 .. n : f[i] = G[i][f[i - 1]]
    BY <1>3
<1>5. ASSUME NEW i \in 1 .. n PROVE f[i] = Shifted(p, f[i - 1], one(i))
    <2>1. f[i - 1] \in W
        BY <1>1
    <2> QED  BY <1>4, <2>1 DEF G
<1>6. Q(f)
    BY <1>1, <1>4, <1>5
<1> DEFINE g == CHOOSE h : Q(h)
<1>7. Q(g)
    <2> HIDE DEF Q
    <2> QED  BY <1>6, Zenon
<1>8. Remainder(p, crc, data) = g[n]
    BY Zenon DEF Remainder, n, one, Shifted
<1> HIDE DEF g
<1>9. \A k \in 0 .. n : g[k] = f[k]
    <2> DEFINE S == {k \in 0 .. n : g[k] = f[k]}
    <2>1. 0 \in S
        BY <1>1, <1>7, <1>4
    <2>2. ASSUME NEW k \in 0 .. n - 1, k \in S PROVE k + 1 \in S
        <3>1. k + 1 \in 1 .. n /\ (k + 1) - 1 = k /\ k + 1 # 0 /\ k + 1 \in 0 .. n
            BY <1>1
        <3>2. g[k + 1] = Shifted(p, g[k], one(k + 1))
            BY <1>7, <3>1
        <3>3. f[k + 1] = Shifted(p, f[k], one(k + 1))
            BY <1>5, <3>1
        <3> QED  BY <2>2, <3>1, <3>2, <3>3
    <2>3. \A k \in 0 .. n : k \in S
        <3> HIDE DEF S
        <3> QED  BY <1>1, <2>1, <2>2, UpTo
    <2> QED  BY <2>3
<1>10. Remainder(p, crc, data) = f[n]
    BY <1>1, <1>8, <1>9
<1>11. IsAfter(p, crc, data, f)
    BY <1>4, <1>5 DEF IsAfter, n, one
<1> QED  BY <1>10, <1>11 DEF n

-----------------------------------------------------------------------------
(* Division by bytes of data *)

(* f holds the words after each byte of data. *)
Bytewise(p, crc, data, f) ==
    /\ f \in [0 .. Len(data) -> W] /\ f[0] = crc
    /\ \A j \in 1 .. Len(data) : f[j] = Steps(p)[8][SymDiff(f[j - 1], data[j])]

(* There are such words. *)
LEMMA BytewiseExists ==
    ASSUME NEW p \in W, NEW crc \in W, NEW data \in Seq(Byte)
    PROVE  \E f : Bytewise(p, crc, data, f)
<1> DEFINE n == Len(data)
           G == [j \in 1 .. n |-> [c \in W |-> Steps(p)[8][SymDiff(c, data[j])]]]
<1>1. n \in Nat
    BY LenProperties
<1>2. ASSUME NEW j \in 1 .. n, NEW c \in W PROVE Steps(p)[8][SymDiff(c, data[j])] \in W
    <2>1. data[j] \in Byte
        BY ElementOfSeq
    <2>2. data[j] \in W
        BY <2>1, ByteWord
    <2>3. SymDiff(c, data[j]) \in W
        BY <2>2, XorWord
    <2>4. 8 \in 0 .. 64
        OBVIOUS
    <2> QED  BY <2>3, <2>4, StepsAt, Zenon
<1>3. G \in [1 .. n -> [W -> W]]
    BY <1>2
<1> HIDE DEF G, n
<1>4. \E f : IsRecursion(f, n, W, crc, G)
    BY <1>1, <1>3, Recursive, Zenon
<1>5. PICK f : IsRecursion(f, n, W, crc, G)
    BY <1>4
<1>6. f \in [0 .. n -> W] /\ f[0] = crc
    BY <1>5 DEF IsRecursion
<1>7. ASSUME NEW j \in 1 .. n PROVE f[j] = Steps(p)[8][SymDiff(f[j - 1], data[j])]
    <2>1. f[j - 1] \in W
        BY <1>1, <1>6
    <2>2. f[j] = G[j][f[j - 1]]
        BY <1>5 DEF IsRecursion
    <2> QED  BY <2>1, <2>2 DEF G
<1>8. Bytewise(p, crc, data, f)
    BY <1>6, <1>7, Zenon DEF Bytewise, n
<1> QED  BY <1>8, Zenon

(* The bit and the byte of a bit number. *)
LEMMA BitNumber ==
    ASSUME NEW j \in Nat, NEW k \in 0 .. 7
    PROVE  (8 * j + k) % 8 = k /\ (8 * j + k) \div 8 = j
OBVIOUS

(* Eight bits at a time the division goes from byte to byte. *)
LEMMA RemainderBytes ==
    ASSUME NEW p \in W, NEW crc \in W, NEW data \in Seq(Byte), NEW f,
           Bytewise(p, crc, data, f)
    PROVE  Remainder(p, crc, data) = f[Len(data)]
<1> DEFINE n == Len(data)
<1>1. n \in Nat
    BY LenProperties
<1>2. PICK after : IsAfter(p, crc, data, after) /\ Remainder(p, crc, data) = after[8 * Len(data)]
    BY RemainderBits, Zenon
<1>3. after \in [0 .. 8 * n -> W] /\ after[0] = crc
    BY <1>2 DEF IsAfter
<1>4. \A k \in 1 .. 8 * n :
         after[k] = Shifted(p, after[k - 1], (k - 1) % 8 \in data[(k - 1) \div 8 + 1])
    BY <1>2, Zenon DEF IsAfter
<1>5. f \in [0 .. n -> W] /\ f[0] = crc
    BY DEF Bytewise
<1>6. \A j \in 1 .. n : f[j] = Steps(p)[8][SymDiff(f[j - 1], data[j])]
    BY Zenon DEF Bytewise
<1>7. \A j \in 1 .. n : data[j] \in Byte
    BY ElementOfSeq
<1> HIDE DEF n
<1> DEFINE S == {j \in 0 .. n : after[8 * j] = f[j]}
<1>8. 0 \in S
    BY <1>1, <1>3, <1>5
<1>9. ASSUME NEW j \in 0 .. n - 1, j \in S PROVE j + 1 \in S
    <2> DEFINE a == [k \in 0 .. 8 |-> after[8 * j + k]]
               b == data[j + 1]
    <2>1. j \in Nat /\ j + 1 \in 1 .. n /\ j + 1 \in 0 .. n /\ (j + 1) - 1 = j
          /\ 8 * (j + 1) = 8 * j + 8 /\ 8 * j + 8 <= 8 * n
        BY <1>1
    <2>2. b \in Byte
        BY <1>7, <2>1
    <2>3. \A k \in 0 .. 8 : 8 * j + k \in 0 .. 8 * n
        BY <1>1, <2>1
    <2>4. a \in [0 .. 8 -> W]
        BY <1>3, <2>3
    <2>5. ASSUME NEW k \in 0 .. 7 PROVE a[k + 1] = Shifted(p, a[k], k \in b)
        <3> DEFINE m == 8 * j + k
        <3>1. k \in 0 .. 8 /\ k + 1 \in 0 .. 8 /\ m + 1 \in 1 .. 8 * n /\ (m + 1) - 1 = m
              /\ 8 * j + (k + 1) = m + 1
            BY <1>1, <2>1
        <3>2. m % 8 = k /\ m \div 8 = j
            BY <2>1, BitNumber
        <3> HIDE DEF m
        <3>3. after[m + 1] = Shifted(p, after[m], m % 8 \in data[m \div 8 + 1])
            <4>1. after[m + 1] = Shifted(p, after[(m + 1) - 1],
                                         ((m + 1) - 1) % 8 \in data[((m + 1) - 1) \div 8 + 1])
                BY <1>4, <3>1, Zenon
            <4> QED  BY <3>1, <4>1
        <3>4. after[m + 1] = Shifted(p, after[m], k \in b)
            BY <3>2, <3>3
        <3>5. a[k + 1] = after[m + 1] /\ a[k] = after[m]
            BY <3>1 DEF m
        <3> QED  BY <3>4, <3>5, Zenon
    <2>6. a[0] = after[8 * j] /\ a[8] = after[8 * (j + 1)]
        BY <2>1
    <2> HIDE DEF a
    <2>7. a[8] = Steps(p)[8][SymDiff(a[0], b)]
        BY <2>2, <2>4, <2>5, EightBits, Zenon
    <2>8. f[j + 1] = Steps(p)[8][SymDiff(f[j], b)]
        BY <1>6, <2>1
    <2>9. after[8 * (j + 1)] = f[j + 1]
        BY <1>9, <2>6, <2>7, <2>8
    <2> QED  BY <2>1, <2>9
<1>10. n \in S
    <2> HIDE DEF S
    <2>1. \A k \in 0 .. n : k \in S
        BY <1>1, <1>8, <1>9, UpTo
    <2>2. n \in 0 .. n
        BY <1>1
    <2> QED  BY <2>1, <2>2
<1> QED  BY <1>2, <1>10 DEF n

(* The division of a part of data starts and ends where that of data does. *)
LEMMA BytewisePart ==
    ASSUME NEW p, NEW crc, NEW data \in Seq(Byte), NEW f, Bytewise(p, crc, data, f),
           NEW i \in 0 .. Len(data), NEW j \in i .. Len(data)
    PROVE  /\ SubSeq(data, i + 1, j) \in Seq(Byte)
           /\ Len(SubSeq(data, i + 1, j)) = j - i
           /\ Bytewise(p, f[i], SubSeq(data, i + 1, j), [k \in 0 .. j - i |-> f[i + k]])
<1> DEFINE s == SubSeq(data, i + 1, j)
           g == [k \in 0 .. j - i |-> f[i + k]]
<1>0. Len(data) \in Nat
    BY LenProperties
<1>1. \A k \in i + 1 .. j : data[k] \in Byte
    BY <1>0, ElementOfSeq
<1>2. i + 1 \in Int /\ j \in Int /\ i \in Nat /\ j \in Nat
    BY <1>0
<1>3. s \in Seq(Byte) /\ Len(s) = IF i + 1 <= j THEN j - (i + 1) + 1 ELSE 0
    BY <1>1, <1>2, SubSeqProperties
<1>4. \A k \in 1 .. j - (i + 1) + 1 : s[k] = data[i + 1 + k - 1]
    BY <1>1, <1>2, SubSeqProperties
<1>5. Len(s) = j - i
    BY <1>2, <1>3
<1>6. f \in [0 .. Len(data) -> W]
    BY DEF Bytewise
<1>7. \A k \in 1 .. Len(data) : f[k] = Steps(p)[8][SymDiff(f[k - 1], data[k])]
    BY Zenon DEF Bytewise
<1>8. g \in [0 .. j - i -> W] /\ g[0] = f[i]
    <2>1. \A k \in 0 .. j - i : i + k \in 0 .. Len(data)
        BY <1>0
    <2>2. 0 \in 0 .. j - i /\ i + 0 = i
        BY <1>2
    <2> QED  BY <1>6, <2>1, <2>2
<1>9. ASSUME NEW k \in 1 .. j - i PROVE g[k] = Steps(p)[8][SymDiff(g[k - 1], s[k])]
    <2>1. k \in 0 .. j - i /\ k - 1 \in 0 .. j - i /\ i + k \in 1 .. Len(data)
          /\ (i + k) - 1 = i + (k - 1) /\ i + 1 + k - 1 = i + k /\ k \in 1 .. j - (i + 1) + 1
        BY <1>0
    <2>2. g[k] = f[i + k] /\ g[k - 1] = f[(i + k) - 1]
        BY <2>1
    <2>3. s[k] = data[i + k]
        BY <1>4, <2>1
    <2> HIDE DEF s, g
    <2>4. f[i + k] = Steps(p)[8][SymDiff(f[(i + k) - 1], data[i + k])]
        BY <1>7, <2>1, Zenon
    <2> QED  BY <2>2, <2>3, <2>4
<1>10. Bytewise(p, f[i], s, g)
    <2> HIDE DEF s, g
    <2> QED  BY <1>5, <1>8, <1>9 DEF Bytewise
<1> QED  BY <1>3, <1>5, <1>10

(* What the division makes of a part of the data. *)
LEMMA RemainderPart ==
    ASSUME NEW p \in W, NEW crc \in W, NEW data \in Seq(Byte), NEW f, Bytewise(p, crc, data, f),
           NEW i \in 0 .. Len(data), NEW j \in i .. Len(data)
    PROVE  Remainder(p, f[i], SubSeq(data, i + 1, j)) = f[j]
<1> DEFINE s == SubSeq(data, i + 1, j)
           g == [k \in 0 .. j - i |-> f[i + k]]
<1>0. Len(data) \in Nat
    BY LenProperties
<1>1. s \in Seq(Byte) /\ Len(s) = j - i /\ Bytewise(p, f[i], s, g)
    BY BytewisePart
<1>2. f[i] \in W
    BY DEF Bytewise
<1>3. g[j - i] = f[j]
    <2>1. j - i \in 0 .. j - i /\ i + (j - i) = j
        BY <1>0
    <2> QED  BY <2>1
<1> HIDE DEF s, g
<1>4. Remainder(p, f[i], s) = g[Len(s)]
    BY <1>1, <1>2, RemainderBytes, Zenon
<1> QED  BY <1>1, <1>3, <1>4, Zenon DEF s

-----------------------------------------------------------------------------
(* Folds *)

(* A set of numbers up to n that is not empty has its maximum. *)
LEMMA MaxExists ==
    ASSUME NEW n \in Nat, NEW s \in SUBSET (1 .. n), s # {}
    PROVE  Max(s) \in s /\ \A y \in s : Max(s) >= y
<1> DEFINE S == {k \in 0 .. n : \A t \in SUBSET (1 .. k) :
                    t # {} => \E x \in t : \A y \in t : x >= y}
<1>1. 0 \in S
    <2>1. 1 .. 0 = {} /\ 0 \in 0 .. n
        OBVIOUS
    <2>2. \A t \in SUBSET (1 .. 0) : t = {}
        BY <2>1
    <2> QED  BY <2>1, <2>2
<1>2. ASSUME NEW k \in 0 .. n - 1, k \in S PROVE k + 1 \in S
    <2>1. k + 1 \in 0 .. n
        OBVIOUS
    <2>2. ASSUME NEW t \in SUBSET (1 .. k + 1), t # {}
          PROVE  \E x \in t : \A y \in t : x >= y
        <3>1. CASE k + 1 \in t
            BY <3>1
        <3>2. CASE k + 1 \notin t
            <4>1. t \in SUBSET (1 .. k)
                BY <3>2
            <4> QED  BY <1>2, <2>2, <4>1
        <3> QED  BY <3>1, <3>2
    <2> QED  BY <2>1, <2>2
<1>3. n \in S
    <2> HIDE DEF S
    <2>1. \A k \in 0 .. n : k \in S
        BY <1>1, <1>2, UpTo
    <2> QED  BY <2>1
<1>4. \E x \in s : \A y \in s : x >= y
    BY <1>3
<1> QED  BY <1>4, Zenon DEF Max

(* The maximum of the numbers up to j, and the numbers without it. *)
LEMMA MaxOfRange ==
    ASSUME NEW n \in Nat, NEW j \in 1 .. n
    PROVE  Max(1 .. j) = j /\ (1 .. j) \ {j} = 1 .. j - 1 /\ 1 .. j # {}
           /\ 1 .. j \in SUBSET (1 .. n) /\ 1 .. j - 1 \in SUBSET (1 .. n)
<1>0. 1 .. j \in SUBSET (1 .. n) /\ 1 .. j # {} /\ 1 .. j - 1 \in SUBSET (1 .. n)
    OBVIOUS
<1>1. Max(1 .. j) \in 1 .. j /\ \A y \in 1 .. j : Max(1 .. j) >= y
    BY <1>0, MaxExists
<1>2. Max(1 .. j) = j
    <2> DEFINE m == Max(1 .. j)
    <2>1. m \in 1 .. j /\ m >= j
        BY <1>1
    <2> HIDE DEF m
    <2>2. m = j
        BY <2>1
    <2> QED  BY <2>2 DEF m
<1>3. (1 .. j) \ {j} = 1 .. j - 1
    OBVIOUS
<1> QED  BY <1>0, <1>2, <1>3

(* h folds the functions G over the sets of numbers up to n, the largest last. *)
IsFold(h, n, T, x, G) ==
    /\ h \in [SUBSET (1 .. n) -> T] /\ h[{}] = x
    /\ \A s \in SUBSET (1 .. n) : s # {} => h[s] = G[Max(s)][h[s \ {Max(s)}]]

(* There is such a fold. *)
LEMMA FoldExists ==
    ASSUME NEW T, NEW x \in T, NEW n \in Nat, NEW G \in [1 .. n -> [T -> T]]
    PROVE  \E h : IsFold(h, n, T, x, G)
<1> DEFINE D == SUBSET (1 .. n)
           U == [D -> T]
           z == [s \in D |-> x]
           K == [i \in 1 .. n |-> [F \in U |-> [s \in D |-> IF i \in s THEN G[i][F[s]] ELSE F[s]]]]
<1>1. z \in U
    OBVIOUS
<1>2. K \in [1 .. n -> [U -> U]]
    <2>1. ASSUME NEW i \in 1 .. n, NEW F \in U, NEW s \in D
          PROVE  (IF i \in s THEN G[i][F[s]] ELSE F[s]) \in T
        <3>1. F[s] \in T
            OBVIOUS
        <3>2. G[i][F[s]] \in T
            BY <3>1
        <3> QED  BY <3>1, <3>2
    <2>2. ASSUME NEW i \in 1 .. n, NEW F \in U
          PROVE  [s \in D |-> IF i \in s THEN G[i][F[s]] ELSE F[s]] \in U
        BY <2>1
    <2> HIDE DEF U, D
    <2> QED  BY <2>2
<1> HIDE DEF U, z, K, D
<1>3. \E f : IsRecursion(f, n, U, z, K)
    BY <1>1, <1>2, Recursive, Zenon
<1>4. PICK f : IsRecursion(f, n, U, z, K)
    BY <1>3
<1>5. f \in [0 .. n -> U] /\ f[0] = z
    BY <1>4 DEF IsRecursion
<1>6. ASSUME NEW i \in 1 .. n, NEW s \in D
      PROVE  f[i][s] = IF i \in s THEN G[i][f[i - 1][s]] ELSE f[i - 1][s]
    <2>1. f[i - 1] \in U
        BY <1>5
    <2>2. f[i] = K[i][f[i - 1]]
        BY <1>4 DEF IsRecursion
    <2> QED  BY <2>1, <2>2 DEF K
<1> DEFINE cut(s, i) == s \cap (1 .. i)
<1>7. ASSUME NEW s \in D, NEW i \in 0 .. n PROVE cut(s, i) \in D
    BY DEF D
(* the numbers above i do not matter up to i *)
<1>8. \A i \in 0 .. n : \A s \in D : f[i][s] = f[i][cut(s, i)]
    <2> DEFINE S == {i \in 0 .. n : \A s, t \in D : cut(s, i) = cut(t, i) => f[i][s] = f[i][t]}
    <2>1. 0 \in S
        BY <1>5 DEF z
    <2>2. ASSUME NEW i \in 0 .. n - 1, i \in S PROVE i + 1 \in S
        <3>1. i + 1 \in 1 .. n /\ (i + 1) - 1 = i /\ i + 1 \in 0 .. n /\ i \in 0 .. n
            OBVIOUS
        <3>2. ASSUME NEW s \in D, NEW t \in D, cut(s, i + 1) = cut(t, i + 1)
              PROVE  f[i + 1][s] = f[i + 1][t]
            <4>1. (i + 1 \in s <=> i + 1 \in t) /\ cut(s, i) = cut(t, i)
                <5>1. i + 1 \in 1 .. i + 1 /\ 1 .. i = (1 .. i + 1) \cap (1 .. i)
                    OBVIOUS
                <5> QED  BY <3>2, <5>1, Zenon
            <4>2. f[i][s] = f[i][t]
                BY <2>2, <4>1
            <4>3. /\ f[i + 1][s] = IF i + 1 \in s THEN G[i + 1][f[i][s]] ELSE f[i][s]
                  /\ f[i + 1][t] = IF i + 1 \in t THEN G[i + 1][f[i][t]] ELSE f[i][t]
                BY <1>6, <3>1
            <4> QED  BY <4>1, <4>2, <4>3
        <3> QED  BY <3>1, <3>2
    <2>3. \A i \in 0 .. n : i \in S
        <3> HIDE DEF S
        <3> QED  BY <2>1, <2>2, UpTo
    <2> TAKE i \in 0 .. n
    <2> TAKE s \in D
    <2>4. cut(cut(s, i), i) = cut(s, i)
        OBVIOUS
    <2> QED  BY <1>7, <2>3, <2>4
(* without numbers from i on nothing changes from i on *)
<1>9. ASSUME NEW s \in D, NEW i \in 0 .. n, s \subseteq 1 .. i
      PROVE  f[n][s] = f[i][s]
    <2> DEFINE S == {k \in 0 .. n - i : f[i + k][s] = f[i][s]}
    <2>1. 0 \in S
        <3>1. i + 0 = i /\ 0 \in 0 .. n - i
            OBVIOUS
        <3> QED  BY <3>1
    <2>2. ASSUME NEW k \in 0 .. (n - i) - 1, k \in S PROVE k + 1 \in S
        <3>1. i + (k + 1) \in 1 .. n /\ (i + (k + 1)) - 1 = i + k /\ k + 1 \in 0 .. n - i
            OBVIOUS
        <3>2. i + (k + 1) \notin s
            BY <1>9
        <3>3. f[i + (k + 1)][s] = f[i + k][s]
            BY <1>6, <3>1, <3>2
        <3> QED  BY <2>2, <3>1, <3>3
    <2>3. n - i \in Nat
        OBVIOUS
    <2>4. \A k \in 0 .. n - i : k \in S
        <3> HIDE DEF S
        <3> QED  BY <2>1, <2>2, <2>3, UpTo
    <2>5. n - i \in 0 .. n - i /\ i + (n - i) = n
        OBVIOUS
    <2> QED  BY <2>4, <2>5
<1> DEFINE h == f[n]
<1>10. ASSUME NEW s \in D, s # {} PROVE h[s] = G[Max(s)][h[s \ {Max(s)}]]
    <2> DEFINE m == Max(s)
               r == s \ {m}
    <2>1. m \in s /\ \A y \in s : m >= y
        BY <1>10, MaxExists DEF D
    <2>2. m \in 1 .. n /\ s \subseteq 1 .. m /\ r \subseteq 1 .. m - 1 /\ r \in D
          /\ m \in 0 .. n /\ m - 1 \in 0 .. n
        <3>1. s \subseteq 1 .. n
            BY DEF D
        <3> HIDE DEF m
        <3>2. m \in 1 .. n /\ s \subseteq 1 .. m /\ r \subseteq 1 .. m - 1
            BY <2>1, <3>1
        <3> QED  BY <3>1, <3>2 DEF D
    <2> HIDE DEF m
    <2>3. h[s] = f[m][s]
        BY <1>9, <2>2
    <2>4. f[m][s] = G[m][f[m - 1][s]]
        BY <1>6, <2>1, <2>2
    <2>5. cut(s, m - 1) = r
        <3>1. \A y \in s : y \in 1 .. n /\ m >= y
            BY <2>1 DEF D
        <3>2. \A y \in s : y \in 1 .. m - 1 <=> y # m
            BY <2>2, <3>1
        <3> QED  BY <3>2
    <2>6. f[m - 1][s] = f[m - 1][r]
        BY <1>8, <2>2, <2>5, ZenonT(60)
    <2>7. h[r] = f[m - 1][r]
        BY <1>9, <2>2
    <2> QED  BY <2>3, <2>4, <2>6, <2>7 DEF m
<1>11. {} \in D /\ {} \subseteq 1 .. 0 /\ 0 \in 0 .. n /\ n \in 0 .. n
    BY DEF D
<1>12. h[{}] = x
    <2>1. h[{}] = f[0][{}]
        BY <1>9, <1>11
    <2> QED  BY <1>5, <1>11, <2>1 DEF z
<1>13. h \in U
    BY <1>5, <1>11
<1> HIDE DEF h
<1>14. IsFold(h, n, T, x, G)
    BY <1>10, <1>12, <1>13, Zenon DEF IsFold, U, D
<1> QED  BY <1>14

(* Over the first numbers a fold goes through the values f of a recursion. *)
FoldSteps(g, f, n) ==
    /\ g[{}] = f[0]
    /\ \A j \in 1 .. n : g[1 .. j - 1] = f[j - 1] => g[1 .. j] = f[j]

FoldEnds(g, f, n) == g[1 .. n] = f[n]

(* So it ends with the last of them. *)
LEMMA FoldAgrees ==
    ASSUME NEW n \in Nat, NEW g, NEW f, FoldSteps(g, f, n)
    PROVE  FoldEnds(g, f, n)
<1> SUFFICES ASSUME g[{}] = f[0],
                    \A j \in 1 .. n : g[1 .. j - 1] = f[j - 1] => g[1 .. j] = f[j]
             PROVE  g[1 .. n] = f[n]
    BY Zenon DEF FoldSteps, FoldEnds
<1> DEFINE S == {j \in 0 .. n : g[1 .. j] = f[j]}
<1>1. 0 \in S
    <2>1. 1 .. 0 = {} /\ 0 \in 0 .. n
        OBVIOUS
    <2> QED  BY <2>1
<1>2. ASSUME NEW j \in 0 .. n - 1, j \in S PROVE j + 1 \in S
    <2>1. j + 1 \in 1 .. n /\ (j + 1) - 1 = j /\ j + 1 \in 0 .. n
        OBVIOUS
    <2>2. g[1 .. j] = f[j]
        BY <1>2
    <2>3. g[1 .. (j + 1) - 1] = f[(j + 1) - 1] => g[1 .. j + 1] = f[j + 1]
        BY <2>1, Zenon
    <2> QED  BY <2>1, <2>2, <2>3
<1>3. \A j \in 0 .. n : j \in S
    <2> HIDE DEF S
    <2> QED  BY <1>1, <1>2, UpTo
<1> QED  BY <1>3

-----------------------------------------------------------------------------
(* The loops of the routines *)

(* The loops of the routines: a byte at a time through a table, and a group of
   bytes at a time. *)
Updates(table, crc, data) == FoldLeft(LAMBDA c, b : update(table, c, b), crc, data)
Slices(crc, data, skip, s) ==
    FoldLeft(LAMBDA c, n : slice8(c, Group(data, skip, 8, n)), crc, s)
HwWords(crc, data, s) ==
    FoldLeft(LAMBDA c, n : crc32_instr(c, Group(data, 0, LongSize, n)), crc, s)
HwBytes(crc, data) == FoldLeft(LAMBDA c, b : crc32_instr(c, <<b>>), crc, data)

(* The byte loop ends with the last of the words f it goes through. *)
LEMMA UpdatesIs ==
    ASSUME NEW table, NEW data \in Seq(Byte),
           NEW f \in [0 .. Len(data) -> W],
           \A c \in W : \A j \in 1 .. Len(data) : update(table, c, data[j]) \in W,
           \A j \in 1 .. Len(data) : f[j] = update(table, f[j - 1], data[j])
    PROVE  Updates(table, f[0], data) = f[Len(data)]
<1> DEFINE n == Len(data)
           G == [j \in 1 .. n |-> [c \in W |-> update(table, c, data[j])]]
           Q(g) == g = [s \in SUBSET (1 .. n) |->
                          IF s = {} THEN f[0]
                          ELSE update(table, g[s \ {Max(s)}], data[Max(s)])]
           g == CHOOSE h : Q(h)
<1>1. n \in Nat /\ f[0] \in W /\ DOMAIN data = 1 .. n
    BY LenProperties
<1>2. Updates(table, f[0], data) = g[1 .. n]
    BY <1>1, Zenon DEF FoldLeft, MapThenFoldSet, Updates, Slices, HwWords, HwBytes
<1>3. \A j \in 1 .. n : f[j] = update(table, f[j - 1], data[j])
    OBVIOUS
<1>4. G \in [1 .. n -> [W -> W]]
    OBVIOUS
<1>5. ASSUME NEW j \in 1 .. n, NEW c \in W PROVE G[j][c] = update(table, c, data[j])
    OBVIOUS
<1> HIDE DEF G, n
<1>6. \E h : IsFold(h, n, W, f[0], G)
    BY <1>1, <1>4, FoldExists, Zenon
<1>7. PICK h : IsFold(h, n, W, f[0], G)
    BY <1>6
<1>8. Q(h)
    <2>1. h \in [SUBSET (1 .. n) -> W] /\ h[{}] = f[0]
        BY <1>7 DEF IsFold
    <2>2. ASSUME NEW s \in SUBSET (1 .. n), s # {}
          PROVE  h[s] = update(table, h[s \ {Max(s)}], data[Max(s)])
        <3>1. Max(s) \in 1 .. n
            BY <1>1, <2>2, MaxExists
        <3>2. h[s \ {Max(s)}] \in W
            BY <2>1
        <3>3. h[s] = G[Max(s)][h[s \ {Max(s)}]]
            BY <1>7, <2>2 DEF IsFold
        <3> QED  BY <1>5, <3>1, <3>2, <3>3, Zenon
    <2> QED  BY <2>1, <2>2
<1>9. Q(g)
    <2> HIDE DEF Q
    <2> QED  BY <1>8, Zenon
<1> HIDE DEF g
<1>10. g[{}] = f[0]
    BY <1>9
<1>11. ASSUME NEW j \in 1 .. n, g[1 .. j - 1] = f[j - 1] PROVE g[1 .. j] = f[j]
    <2>1. /\ Max(1 .. j) = j /\ (1 .. j) \ {j} = 1 .. j - 1 /\ 1 .. j # {}
          /\ 1 .. j \in SUBSET (1 .. n)
        BY <1>1, MaxOfRange
    <2>2. g[1 .. j] = update(table, g[(1 .. j) \ {Max(1 .. j)}], data[Max(1 .. j)])
        BY <1>9, <2>1, Zenon
    <2> QED  BY <1>3, <1>11, <2>1, <2>2, Zenon
<1>12. g[1 .. n] = f[n]
    <2>1. FoldSteps(g, f, n)
        BY <1>10, <1>11, Zenon DEF FoldSteps
    <2>2. FoldEnds(g, f, n)
        BY <1>1, <2>1, FoldAgrees, Zenon
    <2> QED  BY <2>2, Zenon DEF FoldEnds
<1> QED  BY <1>2, <1>12 DEF n

(* The words f after each of the m groups that t numbers. *)
IsSlices(data, skip, m, t, f) ==
    /\ DOMAIN t = 1 .. m
    /\ f \in [0 .. m -> W]
    /\ \A c \in W : \A j \in 1 .. m : slice8(c, Group(data, skip, 8, t[j])) \in W
    /\ \A j \in 1 .. m : f[j] = slice8(f[j - 1], Group(data, skip, 8, t[j]))

SlicesTo(data, skip, m, t, f) == Slices(f[0], data, skip, t) = f[m]

(* The groups of eight fold into the last of these words. *)
LEMMA SlicesIs ==
    ASSUME NEW data, NEW skip, NEW m \in Nat, NEW t, NEW f, IsSlices(data, skip, m, t, f)
    PROVE  SlicesTo(data, skip, m, t, f)
<1> SUFFICES ASSUME DOMAIN t = 1 .. m,
                    f \in [0 .. m -> W],
                    \A c \in W : \A j \in 1 .. m : slice8(c, Group(data, skip, 8, t[j])) \in W,
                    \A j \in 1 .. m : f[j] = slice8(f[j - 1], Group(data, skip, 8, t[j]))
             PROVE  Slices(f[0], data, skip, t) = f[m]
    BY Zenon DEF IsSlices, SlicesTo
<1> DEFINE n == m
           G == [j \in 1 .. n |-> [c \in W |-> slice8(c, Group(data, skip, 8, t[j]))]]
           Q(g) == g = [s \in SUBSET (1 .. n) |->
                          IF s = {} THEN f[0]
                          ELSE slice8(g[s \ {Max(s)}], Group(data, skip, 8, t[Max(s)]))]
           g == CHOOSE h : Q(h)
<1>1. n \in Nat /\ f[0] \in W /\ DOMAIN t = 1 .. n
    BY LenProperties
<1>2. Slices(f[0], data, skip, t) = g[1 .. n]
    BY <1>1, Zenon DEF FoldLeft, MapThenFoldSet, Updates, Slices, HwWords, HwBytes
<1>3. \A j \in 1 .. n : f[j] = slice8(f[j - 1], Group(data, skip, 8, t[j]))
    OBVIOUS
<1>4. G \in [1 .. n -> [W -> W]]
    OBVIOUS
<1>5. ASSUME NEW j \in 1 .. n, NEW c \in W PROVE G[j][c] = slice8(c, Group(data, skip, 8, t[j]))
    OBVIOUS
<1> HIDE DEF G, n
<1>6. \E h : IsFold(h, n, W, f[0], G)
    BY <1>1, <1>4, FoldExists, Zenon
<1>7. PICK h : IsFold(h, n, W, f[0], G)
    BY <1>6
<1>8. Q(h)
    <2>1. h \in [SUBSET (1 .. n) -> W] /\ h[{}] = f[0]
        BY <1>7 DEF IsFold
    <2>2. ASSUME NEW s \in SUBSET (1 .. n), s # {}
          PROVE  h[s] = slice8(h[s \ {Max(s)}], Group(data, skip, 8, t[Max(s)]))
        <3>1. Max(s) \in 1 .. n
            BY <1>1, <2>2, MaxExists
        <3>2. h[s \ {Max(s)}] \in W
            BY <2>1
        <3>3. h[s] = G[Max(s)][h[s \ {Max(s)}]]
            BY <1>7, <2>2 DEF IsFold
        <3> QED  BY <1>5, <3>1, <3>2, <3>3, Zenon
    <2> QED  BY <2>1, <2>2
<1>9. Q(g)
    <2> HIDE DEF Q
    <2> QED  BY <1>8, Zenon
<1> HIDE DEF g
<1>10. g[{}] = f[0]
    BY <1>9
<1>11. ASSUME NEW j \in 1 .. n, g[1 .. j - 1] = f[j - 1] PROVE g[1 .. j] = f[j]
    <2>1. /\ Max(1 .. j) = j /\ (1 .. j) \ {j} = 1 .. j - 1 /\ 1 .. j # {}
          /\ 1 .. j \in SUBSET (1 .. n)
        BY <1>1, MaxOfRange
    <2>2. g[1 .. j] = slice8(g[(1 .. j) \ {Max(1 .. j)}], Group(data, skip, 8, t[Max(1 .. j)]))
        BY <1>9, <2>1, Zenon
    <2> QED  BY <1>3, <1>11, <2>1, <2>2, Zenon
<1>12. g[1 .. n] = f[n]
    <2>1. FoldSteps(g, f, n)
        BY <1>10, <1>11, Zenon DEF FoldSteps
    <2>2. FoldEnds(g, f, n)
        BY <1>1, <2>1, FoldAgrees, Zenon
    <2> QED  BY <2>2, Zenon DEF FoldEnds
<1> QED  BY <1>2, <1>12 DEF n

(* The word loop of the instruction ends with the last of its words, *)
LEMMA HwWordsIs ==
    ASSUME NEW data, NEW m \in Nat, NEW t, DOMAIN t = 1 .. m,
           NEW f \in [0 .. m -> W],
           \A c \in W : \A j \in 1 .. m : crc32_instr(c, Group(data, 0, LongSize, t[j])) \in W,
           \A j \in 1 .. m : f[j] = crc32_instr(f[j - 1], Group(data, 0, LongSize, t[j]))
    PROVE  HwWords(f[0], data, t) = f[m]
<1> DEFINE n == m
           G == [j \in 1 .. n |-> [c \in W |-> crc32_instr(c, Group(data, 0, LongSize, t[j]))]]
           Q(g) == g = [s \in SUBSET (1 .. n) |->
                          IF s = {} THEN f[0]
                          ELSE crc32_instr(g[s \ {Max(s)}], Group(data, 0, LongSize, t[Max(s)]))]
           g == CHOOSE h : Q(h)
<1>1. n \in Nat /\ f[0] \in W /\ DOMAIN t = 1 .. n
    BY LenProperties
<1>2. HwWords(f[0], data, t) = g[1 .. n]
    BY <1>1, Zenon DEF FoldLeft, MapThenFoldSet, Updates, Slices, HwWords, HwBytes
<1>3. \A j \in 1 .. n : f[j] = crc32_instr(f[j - 1], Group(data, 0, LongSize, t[j]))
    OBVIOUS
<1>4. G \in [1 .. n -> [W -> W]]
    OBVIOUS
<1>5. ASSUME NEW j \in 1 .. n, NEW c \in W PROVE G[j][c] = crc32_instr(c, Group(data, 0, LongSize, t[j]))
    OBVIOUS
<1> HIDE DEF G, n
<1>6. \E h : IsFold(h, n, W, f[0], G)
    BY <1>1, <1>4, FoldExists, Zenon
<1>7. PICK h : IsFold(h, n, W, f[0], G)
    BY <1>6
<1>8. Q(h)
    <2>1. h \in [SUBSET (1 .. n) -> W] /\ h[{}] = f[0]
        BY <1>7 DEF IsFold
    <2>2. ASSUME NEW s \in SUBSET (1 .. n), s # {}
          PROVE  h[s] = crc32_instr(h[s \ {Max(s)}], Group(data, 0, LongSize, t[Max(s)]))
        <3>1. Max(s) \in 1 .. n
            BY <1>1, <2>2, MaxExists
        <3>2. h[s \ {Max(s)}] \in W
            BY <2>1
        <3>3. h[s] = G[Max(s)][h[s \ {Max(s)}]]
            BY <1>7, <2>2 DEF IsFold
        <3> QED  BY <1>5, <3>1, <3>2, <3>3, Zenon
    <2> QED  BY <2>1, <2>2
<1>9. Q(g)
    <2> HIDE DEF Q
    <2> QED  BY <1>8, Zenon
<1> HIDE DEF g
<1>10. g[{}] = f[0]
    BY <1>9
<1>11. ASSUME NEW j \in 1 .. n, g[1 .. j - 1] = f[j - 1] PROVE g[1 .. j] = f[j]
    <2>1. /\ Max(1 .. j) = j /\ (1 .. j) \ {j} = 1 .. j - 1 /\ 1 .. j # {}
          /\ 1 .. j \in SUBSET (1 .. n)
        BY <1>1, MaxOfRange
    <2>2. g[1 .. j] = crc32_instr(g[(1 .. j) \ {Max(1 .. j)}], Group(data, 0, LongSize, t[Max(1 .. j)]))
        BY <1>9, <2>1, Zenon
    <2> QED  BY <1>3, <1>11, <2>1, <2>2, Zenon
<1>12. g[1 .. n] = f[n]
    <2>1. FoldSteps(g, f, n)
        BY <1>10, <1>11, Zenon DEF FoldSteps
    <2>2. FoldEnds(g, f, n)
        BY <1>1, <2>1, FoldAgrees, Zenon
    <2> QED  BY <2>2, Zenon DEF FoldEnds
<1> QED  BY <1>2, <1>12 DEF n

(* its byte loop too, *)
LEMMA HwBytesIs ==
    ASSUME NEW data \in Seq(Byte),
           NEW f \in [0 .. Len(data) -> W],
           \A c \in W : \A j \in 1 .. Len(data) : crc32_instr(c, <<data[j]>>) \in W,
           \A j \in 1 .. Len(data) : f[j] = crc32_instr(f[j - 1], <<data[j]>>)
    PROVE  HwBytes(f[0], data) = f[Len(data)]
<1> DEFINE n == Len(data)
           G == [j \in 1 .. n |-> [c \in W |-> crc32_instr(c, <<data[j]>>)]]
           Q(g) == g = [s \in SUBSET (1 .. n) |->
                          IF s = {} THEN f[0]
                          ELSE crc32_instr(g[s \ {Max(s)}], <<data[Max(s)]>>)]
           g == CHOOSE h : Q(h)
<1>1. n \in Nat /\ f[0] \in W /\ DOMAIN data = 1 .. n
    BY LenProperties
<1>2. HwBytes(f[0], data) = g[1 .. n]
    BY <1>1, Zenon DEF FoldLeft, MapThenFoldSet, Updates, Slices, HwWords, HwBytes
<1>3. \A j \in 1 .. n : f[j] = crc32_instr(f[j - 1], <<data[j]>>)
    OBVIOUS
<1>4. G \in [1 .. n -> [W -> W]]
    OBVIOUS
<1>5. ASSUME NEW j \in 1 .. n, NEW c \in W PROVE G[j][c] = crc32_instr(c, <<data[j]>>)
    OBVIOUS
<1> HIDE DEF G, n
<1>6. \E h : IsFold(h, n, W, f[0], G)
    BY <1>1, <1>4, FoldExists, Zenon
<1>7. PICK h : IsFold(h, n, W, f[0], G)
    BY <1>6
<1>8. Q(h)
    <2>1. h \in [SUBSET (1 .. n) -> W] /\ h[{}] = f[0]
        BY <1>7 DEF IsFold
    <2>2. ASSUME NEW s \in SUBSET (1 .. n), s # {}
          PROVE  h[s] = crc32_instr(h[s \ {Max(s)}], <<data[Max(s)]>>)
        <3>1. Max(s) \in 1 .. n
            BY <1>1, <2>2, MaxExists
        <3>2. h[s \ {Max(s)}] \in W
            BY <2>1
        <3>3. h[s] = G[Max(s)][h[s \ {Max(s)}]]
            BY <1>7, <2>2 DEF IsFold
        <3> QED  BY <1>5, <3>1, <3>2, <3>3, Zenon
    <2> QED  BY <2>1, <2>2
<1>9. Q(g)
    <2> HIDE DEF Q
    <2> QED  BY <1>8, Zenon
<1> HIDE DEF g
<1>10. g[{}] = f[0]
    BY <1>9
<1>11. ASSUME NEW j \in 1 .. n, g[1 .. j - 1] = f[j - 1] PROVE g[1 .. j] = f[j]
    <2>1. /\ Max(1 .. j) = j /\ (1 .. j) \ {j} = 1 .. j - 1 /\ 1 .. j # {}
          /\ 1 .. j \in SUBSET (1 .. n)
        BY <1>1, MaxOfRange
    <2>2. g[1 .. j] = crc32_instr(g[(1 .. j) \ {Max(1 .. j)}], <<data[Max(1 .. j)]>>)
        BY <1>9, <2>1, Zenon
    <2> QED  BY <1>3, <1>11, <2>1, <2>2, Zenon
<1>12. g[1 .. n] = f[n]
    <2>1. FoldSteps(g, f, n)
        BY <1>10, <1>11, Zenon DEF FoldSteps
    <2>2. FoldEnds(g, f, n)
        BY <1>1, <2>1, FoldAgrees, Zenon
    <2> QED  BY <2>2, Zenon DEF FoldEnds
<1> QED  BY <1>2, <1>12 DEF n

(* and the sum of a sequence of terms is the last of its partial sums. *)
LEMMA TermsIs ==
    ASSUME NEW terms, NEW m \in Nat, DOMAIN terms = 1 .. m,
           NEW f \in [0 .. m -> W],
           \A c \in W : \A j \in 1 .. m : SymDiff(c, terms[j]) \in W,
           \A j \in 1 .. m : f[j] = SymDiff(f[j - 1], terms[j])
    PROVE  FoldLeft(SymDiff, f[0], terms) = f[m]
<1> DEFINE n == m
           G == [j \in 1 .. n |-> [c \in W |-> SymDiff(c, terms[j])]]
           Q(g) == g = [s \in SUBSET (1 .. n) |->
                          IF s = {} THEN f[0]
                          ELSE SymDiff(g[s \ {Max(s)}], terms[Max(s)])]
           g == CHOOSE h : Q(h)
<1>1. n \in Nat /\ f[0] \in W /\ DOMAIN terms = 1 .. n
    BY LenProperties
<1>2. FoldLeft(SymDiff, f[0], terms) = g[1 .. n]
    BY <1>1, Zenon DEF FoldLeft, MapThenFoldSet, Updates, Slices, HwWords, HwBytes
<1>3. \A j \in 1 .. n : f[j] = SymDiff(f[j - 1], terms[j])
    OBVIOUS
<1>4. G \in [1 .. n -> [W -> W]]
    OBVIOUS
<1>5. ASSUME NEW j \in 1 .. n, NEW c \in W PROVE G[j][c] = SymDiff(c, terms[j])
    OBVIOUS
<1> HIDE DEF G, n
<1>6. \E h : IsFold(h, n, W, f[0], G)
    BY <1>1, <1>4, FoldExists, Zenon
<1>7. PICK h : IsFold(h, n, W, f[0], G)
    BY <1>6
<1>8. Q(h)
    <2>1. h \in [SUBSET (1 .. n) -> W] /\ h[{}] = f[0]
        BY <1>7 DEF IsFold
    <2>2. ASSUME NEW s \in SUBSET (1 .. n), s # {}
          PROVE  h[s] = SymDiff(h[s \ {Max(s)}], terms[Max(s)])
        <3>1. Max(s) \in 1 .. n
            BY <1>1, <2>2, MaxExists
        <3>2. h[s \ {Max(s)}] \in W
            BY <2>1
        <3>3. h[s] = G[Max(s)][h[s \ {Max(s)}]]
            BY <1>7, <2>2 DEF IsFold
        <3> QED  BY <1>5, <3>1, <3>2, <3>3, Zenon
    <2> QED  BY <2>1, <2>2
<1>9. Q(g)
    <2> HIDE DEF Q
    <2> QED  BY <1>8, Zenon
<1> HIDE DEF g
<1>10. g[{}] = f[0]
    BY <1>9
<1>11. ASSUME NEW j \in 1 .. n, g[1 .. j - 1] = f[j - 1] PROVE g[1 .. j] = f[j]
    <2>1. /\ Max(1 .. j) = j /\ (1 .. j) \ {j} = 1 .. j - 1 /\ 1 .. j # {}
          /\ 1 .. j \in SUBSET (1 .. n)
        BY <1>1, MaxOfRange
    <2>2. g[1 .. j] = SymDiff(g[(1 .. j) \ {Max(1 .. j)}], terms[Max(1 .. j)])
        BY <1>9, <2>1, Zenon
    <2> QED  BY <1>3, <1>11, <2>1, <2>2, Zenon
<1>12. g[1 .. n] = f[n]
    <2>1. FoldSteps(g, f, n)
        BY <1>10, <1>11, Zenon DEF FoldSteps
    <2>2. FoldEnds(g, f, n)
        BY <1>1, <2>1, FoldAgrees, Zenon
    <2> QED  BY <2>2, Zenon DEF FoldEnds
<1> QED  BY <1>2, <1>12 DEF n

-----------------------------------------------------------------------------
(* Linear functions of a word *)

Linear(L) ==
    /\ L \in [W -> W] /\ L[{}] = {}
    /\ \A a, b \in W : L[SymDiff(a, b)] = SymDiff(L[a], L[b])

SplitsAt(L, s, x) == L[s] = SymDiff(L[{x}], L[s \ {x}])

(* Any bit of s first, then the others. *)
LEMMA LinearSplit ==
    ASSUME NEW L, Linear(L), NEW s \in Byte, NEW x \in s
    PROVE  SplitsAt(L, s, x)
<1>1. {x} \in W /\ s \ {x} \in W
    BY DEF Byte, W
<1>2. SymDiff({x}, s \ {x}) = s
    BY DEF SymDiff
<1>3. L[SymDiff({x}, s \ {x})] = SymDiff(L[{x}], L[s \ {x}])
    BY <1>1 DEF Linear
<1> QED  BY <1>2, <1>3 DEF SplitsAt

(* A table with the entries of a linear function at the powers of two is that
   function on bytes. *)
LEMMA TableIs ==
    ASSUME NEW powers, NEW L, Linear(L), \A i \in 0 .. 7 : Word(powers[i + 1]) = L[{i}],
           NEW byte \in Byte
    PROVE  Table(powers)[byte] = L[byte]
<1> DEFINE entry == [i \in 0 .. 7 |-> Word(powers[i + 1])]
           first(s) == CHOOSE x \in s : TRUE
           Q(g) == g = [s \in SUBSET byte |->
                          IF s = {} THEN {} ELSE SymDiff(entry[first(s)], g[s \ {first(s)}])]
           g == CHOOSE h : Q(h)
           T == [b \in Byte |-> FoldFunctionOnSet(SymDiff, {}, entry, b)]
<1>1. Table(powers)[byte] = g[byte]
    <2>1. Table(powers) = T
        BY Zenon DEF Table
    <2>2. T[byte] = FoldFunctionOnSet(SymDiff, {}, entry, byte)
        <3> HIDE DEF entry
        <3> QED  OBVIOUS
    <2>3. FoldFunctionOnSet(SymDiff, {}, entry, byte) = g[byte]
        BY Zenon DEF FoldFunctionOnSet, MapThenFoldSet
    <2> QED  BY <2>1, <2>2, <2>3, Zenon
<1>2. \A i \in 0 .. 7 : entry[i] = L[{i}]
    OBVIOUS
<1> HIDE DEF entry
<1>3. ASSUME NEW s \in SUBSET byte, s # {}
      PROVE  first(s) \in s /\ L[s] = SymDiff(entry[first(s)], L[s \ {first(s)}])
    <2>1. first(s) \in s
        BY <1>3
    <2> HIDE DEF first
    <2>2. s \in Byte
        BY DEF Byte
    <2>3. first(s) \in 0 .. 7
        BY <2>1, <2>2 DEF Byte
    <2>4. L[s] = SymDiff(L[{first(s)}], L[s \ {first(s)}])
        <3>1. SplitsAt(L, s, first(s))
            BY <2>1, <2>2, LinearSplit, Zenon
        <3> QED  BY <3>1, Zenon DEF SplitsAt
    <2> QED  BY <1>2, <2>1, <2>3, <2>4, Zenon
<1> HIDE DEF first
<1>4. L[{}] = {}
    BY DEF Linear
<1> DEFINE h == [s \in SUBSET byte |-> L[s]]
<1>5. Q(h)
    <2>1. ASSUME NEW s \in SUBSET byte
          PROVE  h[s] = IF s = {} THEN {} ELSE SymDiff(entry[first(s)], h[s \ {first(s)}])
        <3>1. s \ {first(s)} \in SUBSET byte
            OBVIOUS
        <3>2. h[s] = L[s] /\ h[s \ {first(s)}] = L[s \ {first(s)}]
            BY <3>1
        <3> HIDE DEF h
        <3> QED  BY <1>3, <1>4, <3>2, Zenon
    <2>2. h = [s \in SUBSET byte |-> h[s]]
        OBVIOUS
    <2> HIDE DEF h
    <2> QED  BY <2>1, <2>2
<1>6. Q(g)
    <2> HIDE DEF Q
    <2> QED  BY <1>5, Zenon
<1> HIDE DEF g, h
<1> DEFINE S == {k \in Nat : \A s \in SUBSET byte : Cardinality(s) = k => g[s] = L[s]}
<1>7. IsFiniteSet(byte) /\ \A s \in SUBSET byte : IsFiniteSet(s)
    <2>1. IsFiniteSet(0 .. 7)
        <3>1. PICK a \in Int, b \in Int : a = 0 /\ b = 7
            OBVIOUS
        <3>2. IsFiniteSet(a .. b)
            BY FS_Interval
        <3> QED  BY <3>1, <3>2
    <2> QED  BY <2>1, FS_Subset DEF Byte
<1>8. 0 \in S
    <2>1. \A s \in SUBSET byte : Cardinality(s) = 0 => s = {}
        BY <1>7, FS_EmptySet
    <2>2. g[{}] = {}
        BY <1>6
    <2> QED  BY <1>4, <2>1, <2>2
<1>9. ASSUME NEW k \in S PROVE k + 1 \in S
    <2>1. k \in Nat
        OBVIOUS
    <2>2. ASSUME NEW s \in SUBSET byte, Cardinality(s) = k + 1 PROVE g[s] = L[s]
        <3>1. s # {}
            <4>1. Cardinality({}) = 0 /\ k + 1 # 0
                BY <2>1, FS_EmptySet
            <4> QED  BY <2>2, <4>1, Zenon
        <3>2. first(s) \in s /\ L[s] = SymDiff(entry[first(s)], L[s \ {first(s)}])
            BY <1>3, <3>1
        <3> DEFINE r == s \ {first(s)}
        <3>3. Cardinality(r) = Cardinality(s) - 1
            BY <1>7, <3>2, FS_RemoveElement
        <3>4. r \in SUBSET byte
            OBVIOUS
        <3>5. Cardinality(r) = k
            BY <2>1, <2>2, <3>3
        <3> HIDE DEF r
        <3>6. g[r] = L[r]
            BY <1>9, <3>4, <3>5
        <3>7. g[s] = SymDiff(entry[first(s)], g[s \ {first(s)}])
            BY <1>6, <3>1
        <3> QED  BY <3>2, <3>6, <3>7, Zenon DEF r
    <2> QED  BY <2>1, <2>2
<1>10. S = Nat
    <2>1. S \in SUBSET Nat
        OBVIOUS
    <2> HIDE DEF S
    <2> QED  BY <1>8, <1>9, <2>1, InductiveSet
<1>11. Cardinality(byte) \in Nat /\ byte \in SUBSET byte
    BY <1>7, FS_CardinalityType
<1>12. g[byte] = L[byte]
    BY <1>10, <1>11
<1> QED  BY <1>1, <1>12, Zenon

(* The steps of the division are such a function. *)
LEMMA StepsAreLinear ==
    ASSUME NEW p \in W, NEW k \in 0 .. 64
    PROVE  Linear(Steps(p)[k])
<1>1. Steps(p)[k] \in [W -> W]
    <2>1. IsSteps(p, Steps(p))
        BY StepsDefined
    <2> QED  BY <2>1 DEF IsSteps
<1>2. ASSUME NEW a \in W, NEW b \in W
      PROVE  Steps(p)[k][SymDiff(a, b)] = SymDiff(Steps(p)[k][a], Steps(p)[k][b])
    BY StepsLinear, ZenonT(60)
<1>3. Steps(p)[k][{}] = {}
    <2>1. {} \in W /\ SymDiff({}, {}) = {}
        BY DEF W, SymDiff
    <2>2. SymDiff(Steps(p)[k][{}], Steps(p)[k][{}]) = {}
        BY XorZero, Zenon
    <2> QED  BY <1>2, <2>1, <2>2, Zenon
<1> QED  BY <1>1, <1>2, <1>3, Zenon DEF Linear

-----------------------------------------------------------------------------
(* Words by their halves *)

(* The weights of the bits of a half word, but the highest. *)
Weights == {1, 2, 4, 8, 16, 32, 64, 128, 256, 512, 1024, 2048, 4096, 8192, 16384}

(* The powers of two that Word divides by. *)
LEMMA PowersOfTwo ==
    ASSUME NEW i \in 0 .. 14
    PROVE  2^i \in Weights /\ 2^(i + 1) = 2 * 2^i
<1>1. CASE i = 0  BY <1>1 DEF Weights
<1>2. CASE i = 1  BY <1>2 DEF Weights
<1>3. CASE i = 2  BY <1>3 DEF Weights
<1>4. CASE i = 3  BY <1>4 DEF Weights
<1>5. CASE i = 4  BY <1>5 DEF Weights
<1>6. CASE i = 5  BY <1>6 DEF Weights
<1>7. CASE i = 6  BY <1>7 DEF Weights
<1>8. CASE i = 7  BY <1>8 DEF Weights
<1>9. CASE i = 8  BY <1>9 DEF Weights
<1>10. CASE i = 9  BY <1>10 DEF Weights
<1>11. CASE i = 10  BY <1>11 DEF Weights
<1>12. CASE i = 11  BY <1>12 DEF Weights
<1>13. CASE i = 12  BY <1>13 DEF Weights
<1>14. CASE i = 13  BY <1>14 DEF Weights
<1>15. CASE i = 14  BY <1>15 DEF Weights
<1> QED
    BY <1>1, <1>2, <1>3, <1>4, <1>5, <1>6, <1>7, <1>8, <1>9, <1>10, <1>11, <1>12, <1>13, <1>14, <1>15

(* The bit of v of the weight w is 1. *)
OneAt(v, w) == (v \div w) % 2 = 1

(* The half z of a word is the half y shifted down, under the bit top, with p
   added where one is 1. *)
HalfStep(one, y, top, p, z) ==
    /\ \A w \in Weights : OneAt(z, w) <=> ~ (OneAt(y, 2 * w) <=> OneAt(one, 1) /\ OneAt(p, w))
    /\ OneAt(z, 32768) <=> ~ (OneAt(top, 1) <=> OneAt(one, 1) /\ OneAt(p, 32768))

(* The word of the halves b is one step after that of a. *)
Follows(p, a, b) ==
    /\ HalfStep(a[2], a[2], a[1], p[2], b[2])
    /\ HalfStep(a[2], a[1], 0, p[1], b[1])

(* Word makes a word. *)
LEMMA WordIsWord ==
    ASSUME NEW a
    PROVE  Word(a) \in W
BY DEF Word, W

(* Its bits, by their weights. *)
LEMMA WordMember ==
    ASSUME NEW a, NEW i \in 0 .. 15
    PROVE  /\ i \in Word(a) <=> OneAt(a[2], 2^i)
           /\ i + 16 \in Word(a) <=> OneAt(a[1], 2^i)
<1>1. i \in 0 .. 31 /\ i + 16 \in 0 .. 31 /\ i < 16 /\ ~ (i + 16 < 16) /\ (i + 16) - 16 = i
    OBVIOUS
<1>2. i \in Word(a) <=> OneAt(a[2], 2^i)
    BY <1>1, Zenon DEF Word, OneAt
<1>3. i + 16 \in Word(a) <=> OneAt(a[1], 2^((i + 16) - 16))
    BY <1>1, Zenon DEF Word, OneAt
<1> QED  BY <1>1, <1>2, <1>3, Zenon

(* Words whose halves have the same bits are the same. *)
LEMMA SameHalves ==
    ASSUME NEW a \in W, NEW b \in W,
           \A i \in 0 .. 15 : (i \in a <=> i \in b) /\ (i + 16 \in a <=> i + 16 \in b)
    PROVE  a = b
<1>1. ASSUME NEW j \in 0 .. 31 PROVE j \in a <=> j \in b
    <2>1. CASE j < 16
        BY <2>1
    <2>2. CASE ~ (j < 16)
        <3>1. j - 16 \in 0 .. 15 /\ (j - 16) + 16 = j
            BY <2>2
        <3>2. (j - 16) + 16 \in a <=> (j - 16) + 16 \in b
            BY <3>1
        <3> QED  BY <3>1, <3>2
    <2> QED  BY <2>1, <2>2
<1> QED  BY <1>1, SameWord

(* Checked on the halves, a step is a step of the word. *)
LEMMA FollowingWord ==
    ASSUME NEW p, NEW a, NEW b, Follows(p, a, b)
    PROVE  Step(Word(p), Word(a)) = Word(b)
<1>1. Word(p) \in W /\ Word(a) \in W /\ Word(b) \in W
    BY WordIsWord
<1>2. Step(Word(p), Word(a)) \in W
    BY <1>1, StepWord
<1> DEFINE x == Step(Word(p), Word(a))
           one == OneAt(a[2], 1)
<1>3. HalfStep(a[2], a[2], a[1], p[2], b[2]) /\ HalfStep(a[2], a[1], 0, p[1], b[1])
    BY Zenon DEF Follows
<1>4. /\ 0 \in Word(a) <=> one
      /\ 16 \in Word(a) <=> OneAt(a[1], 1)
      /\ 32 \notin Word(a)
    <2>1. PICK z \in 0 .. 15 : z = 0
        OBVIOUS
    <2>2. /\ z \in Word(a) <=> OneAt(a[2], 2^z)
          /\ z + 16 \in Word(a) <=> OneAt(a[1], 2^z)
        BY WordMember, Zenon
    <2>3. z + 16 = 16 /\ 2^z = 1
        BY <2>1
    <2>4. 32 \notin Word(a)
        BY <1>1 DEF W
    <2> QED  BY <2>1, <2>2, <2>3, <2>4, Zenon
<1>5. ASSUME NEW i \in 0 .. 31
      PROVE  i \in x <=> ~ ((i + 1 \in Word(a)) <=> one /\ i \in Word(p))
    BY <1>1, <1>4, StepMember
<1> HIDE DEF x
<1>6. ASSUME NEW i \in 0 .. 14
      PROVE  (i \in x <=> i \in Word(b)) /\ (i + 16 \in x <=> i + 16 \in Word(b))
    <2>1. i \in 0 .. 15 /\ i + 1 \in 0 .. 15 /\ i \in 0 .. 31 /\ i + 16 \in 0 .. 31
          /\ (i + 1) + 16 = (i + 16) + 1
        OBVIOUS
    <2>2. PICK w \in Weights : w = 2^i /\ 2^(i + 1) = 2 * w
        BY PowersOfTwo
    <2>3. /\ OneAt(b[2], w) <=> ~ (OneAt(a[2], 2 * w) <=> one /\ OneAt(p[2], w))
          /\ OneAt(b[1], w) <=> ~ (OneAt(a[1], 2 * w) <=> one /\ OneAt(p[1], w))
        BY <1>3 DEF HalfStep
    <2>4. /\ i + 1 \in Word(a) <=> OneAt(a[2], 2^(i + 1))
          /\ (i + 1) + 16 \in Word(a) <=> OneAt(a[1], 2^(i + 1))
        BY <2>1, WordMember, Zenon
    <2>5. /\ i + 1 \in Word(a) <=> OneAt(a[2], 2 * w)
          /\ (i + 16) + 1 \in Word(a) <=> OneAt(a[1], 2 * w)
        BY <2>1, <2>2, <2>4, Zenon
    <2>6. /\ i \in Word(b) <=> OneAt(b[2], w)
          /\ i + 16 \in Word(b) <=> OneAt(b[1], w)
          /\ i \in Word(p) <=> OneAt(p[2], w)
          /\ i + 16 \in Word(p) <=> OneAt(p[1], w)
        BY <2>1, <2>2, WordMember, Zenon
    <2>7. /\ i \in x <=> ~ ((i + 1 \in Word(a)) <=> one /\ i \in Word(p))
          /\ i + 16 \in x <=> ~ (((i + 16) + 1 \in Word(a)) <=> one /\ i + 16 \in Word(p))
        BY <1>5, <2>1
    <2> QED  BY <2>3, <2>5, <2>6, <2>7
<1>7. (15 \in x <=> 15 \in Word(b)) /\ (31 \in x <=> 31 \in Word(b))
    <2>1. PICK i \in 0 .. 15 : i = 15
        OBVIOUS
    <2>2. i + 16 = 31 /\ 2^i = 32768
        BY <2>1
    <2>3. /\ OneAt(b[2], 32768) <=> ~ (OneAt(a[1], 1) <=> one /\ OneAt(p[2], 32768))
          /\ OneAt(b[1], 32768) <=> ~ (OneAt(0, 1) <=> one /\ OneAt(p[1], 32768))
        BY <1>3 DEF HalfStep
    <2>4. /\ i \in Word(b) <=> OneAt(b[2], 2^i)
          /\ i + 16 \in Word(b) <=> OneAt(b[1], 2^i)
          /\ i \in Word(p) <=> OneAt(p[2], 2^i)
          /\ i + 16 \in Word(p) <=> OneAt(p[1], 2^i)
        BY WordMember, Zenon
    <2>5. /\ 15 \in Word(b) <=> OneAt(b[2], 32768)
          /\ 31 \in Word(b) <=> OneAt(b[1], 32768)
          /\ 15 \in Word(p) <=> OneAt(p[2], 32768)
          /\ 31 \in Word(p) <=> OneAt(p[1], 32768)
        BY <2>1, <2>2, <2>4
    <2>6. /\ 15 \in x <=> ~ ((16 \in Word(a)) <=> one /\ 15 \in Word(p))
          /\ 31 \in x <=> ~ ((32 \in Word(a)) <=> one /\ 31 \in Word(p))
        <3>1. 15 \in 0 .. 31 /\ 31 \in 0 .. 31 /\ 15 + 1 = 16 /\ 31 + 1 = 32
            OBVIOUS
        <3> QED  BY <1>5, <3>1
    <2>7. ~ OneAt(0, 1)
        BY DEF OneAt
    <2> QED  BY <1>4, <2>3, <2>5, <2>6, <2>7
<1>8. \A i \in 0 .. 15 : (i \in x <=> i \in Word(b)) /\ (i + 16 \in x <=> i + 16 \in Word(b))
    <2> TAKE i \in 0 .. 15
    <2>1. CASE i = 15
        <3>1. i + 16 = 31
            BY <2>1
        <3> QED  BY <1>7, <2>1, <3>1, Zenon
    <2>2. CASE i # 15
        <3>1. i \in 0 .. 14
            BY <2>2
        <3> QED  BY <1>6, <3>1, Zenon
    <2> QED  BY <2>1, <2>2
<1>9. x \in W
    BY <1>2 DEF x
<1>10. x = Word(b)
    BY <1>1, <1>8, <1>9, SameHalves, Zenon
<1> QED  BY <1>10 DEF x

-----------------------------------------------------------------------------
(* The tables and the polynomials *)

(* The entries of the tables at the powers of two. *)
E32 == <<
    <<\hf26b, \h8303>>, <<\he13b, \h70f7>>, <<\hc79a, \h971f>>,
    <<\h8ad9, \h58cf>>, <<\h105e, \hc76f>>, <<\h20bd, \h8ede>>,
    <<\h417b, \h1dbc>>, <<\h82f6, \h3b78>>>>
E40 == <<
    <<\h13a2, \h9877>>, <<\h2745, \h30ee>>, <<\h4e8a, \h61dc>>,
    <<\h9d14, \hc3b8>>, <<\h3fc5, \hf181>>, <<\h7f8b, \he302>>,
    <<\hff17, \hc604>>, <<\hfbc3, \hfaf9>>>>
E48 == <<
    <<\ha541, \h927e>>, <<\h4f6f, \h520d>>, <<\h9ede, \ha41a>>,
    <<\h3851, \h3ec5>>, <<\h70a2, \h7d8a>>, <<\he144, \hfb14>>,
    <<\hc765, \h80d9>>, <<\h8b27, \h7743>>>>
E56 == <<
    <<\hdd45, \haab8>>, <<\hbf67, \h2381>>, <<\h7b22, \h31f3>>,
    <<\hf644, \h63e6>>, <<\he964, \hb13d>>, <<\hd725, \h148b>>,
    <<\haba6, \h5fe7>>, <<\h52a0, \hc93f>>>>
E64 == <<
    <<\h3811, \h6fac>>, <<\h7022, \hdf58>>, <<\he045, \hbeb0>>,
    <<\hc567, \h0b91>>, <<\h8f22, \h61d3>>, <<\h1ba8, \hb557>>,
    <<\h3751, \h6aae>>, <<\h6ea2, \hd55c>>>>
E72 == <<
    <<\hef30, \h6b19>>, <<\hdb8c, \ha0c3>>, <<\hb2f5, \h3777>>,
    <<\h6006, \h181f>>, <<\hc00c, \h303e>>, <<\h85f4, \h168d>>,
    <<\h0e04, \h5beb>>, <<\h1c08, \hb7d6>>>>
E80 == <<
    <<\h6803, \h2cc8>>, <<\hd006, \h5990>>, <<\ha5e0, \hc5d1>>,
    <<\h4e2d, \hfd53>>, <<\h9c5b, \hfaa6>>, <<\h3d5b, \h83bd>>,
    <<\h7ab7, \h077a>>, <<\hf56e, \h0ef4>>>>
E88 == <<
    <<\h493c, \h7d27>>, <<\h9278, \hfa4e>>, <<\h211d, \h826d>>,
    <<\h423b, \h04da>>, <<\h8476, \h09b4>>, <<\h0d00, \h6599>>,
    <<\h1a00, \hcb32>>, <<\h3401, \h9664>>>>
Ecrc32 == <<
    <<\h7707, \h3096>>, <<\hee0e, \h612c>>, <<\h076d, \hc419>>,
    <<\h0edb, \h8832>>, <<\h1db7, \h1064>>, <<\h3b6e, \h20c8>>,
    <<\h76dc, \h4190>>, <<\hedb8, \h8320>>>>

(* The halves of the polynomial of crc32c, and of the two polynomials in reverse. *)
Half1edc6f41 == <<\h1edc, \h6f41>>
Half82f63b78 == <<\h82f6, \h3b78>>
Halfedb88320 == <<\hedb8, \h8320>>

(* Bit j of either half of c is that of the other half of r in reverse. *)
IsReversed(c, r, j) ==
    /\ OneAt(c[2], 2^j) <=> OneAt(r[1], 2^(15 - j))
    /\ OneAt(c[1], 2^j) <=> OneAt(r[2], 2^(15 - j))

(* 0x82f63b78 is 0x1edc6f41 in reverse. *)
LEMMA Reversed ==
    ASSUME NEW j \in 0 .. 15
    PROVE  IsReversed(Half82f63b78, Half1edc6f41, j)
<1>1. CASE j = 0  BY <1>1 DEF IsReversed, OneAt, Half82f63b78, Half1edc6f41
<1>2. CASE j = 1  BY <1>2 DEF IsReversed, OneAt, Half82f63b78, Half1edc6f41
<1>3. CASE j = 2  BY <1>3 DEF IsReversed, OneAt, Half82f63b78, Half1edc6f41
<1>4. CASE j = 3  BY <1>4 DEF IsReversed, OneAt, Half82f63b78, Half1edc6f41
<1>5. CASE j = 4  BY <1>5 DEF IsReversed, OneAt, Half82f63b78, Half1edc6f41
<1>6. CASE j = 5  BY <1>6 DEF IsReversed, OneAt, Half82f63b78, Half1edc6f41
<1>7. CASE j = 6  BY <1>7 DEF IsReversed, OneAt, Half82f63b78, Half1edc6f41
<1>8. CASE j = 7  BY <1>8 DEF IsReversed, OneAt, Half82f63b78, Half1edc6f41
<1>9. CASE j = 8  BY <1>9 DEF IsReversed, OneAt, Half82f63b78, Half1edc6f41
<1>10. CASE j = 9  BY <1>10 DEF IsReversed, OneAt, Half82f63b78, Half1edc6f41
<1>11. CASE j = 10  BY <1>11 DEF IsReversed, OneAt, Half82f63b78, Half1edc6f41
<1>12. CASE j = 11  BY <1>12 DEF IsReversed, OneAt, Half82f63b78, Half1edc6f41
<1>13. CASE j = 12  BY <1>13 DEF IsReversed, OneAt, Half82f63b78, Half1edc6f41
<1>14. CASE j = 13  BY <1>14 DEF IsReversed, OneAt, Half82f63b78, Half1edc6f41
<1>15. CASE j = 14  BY <1>15 DEF IsReversed, OneAt, Half82f63b78, Half1edc6f41
<1>16. CASE j = 15  BY <1>16 DEF IsReversed, OneAt, Half82f63b78, Half1edc6f41
<1> QED
    BY <1>1, <1>2, <1>3, <1>4, <1>5, <1>6, <1>7, <1>8, <1>9, <1>10, <1>11, <1>12, <1>13, <1>14, <1>15, <1>16

(* Bit j of either half of c is that of the polynomial of crc32. *)
IsTerm(c, j) ==
    /\ OneAt(c[2], 2^j) <=> j \in Crc32Poly
    /\ OneAt(c[1], 2^j) <=> j + 16 \in Crc32Poly

(* 0xedb88320 has the terms of the polynomial of crc32. *)
LEMMA Terms ==
    ASSUME NEW j \in 0 .. 15
    PROVE  IsTerm(Halfedb88320, j)
<1>1. CASE j = 0  BY <1>1 DEF IsTerm, OneAt, Crc32Poly, Halfedb88320
<1>2. CASE j = 1  BY <1>2 DEF IsTerm, OneAt, Crc32Poly, Halfedb88320
<1>3. CASE j = 2  BY <1>3 DEF IsTerm, OneAt, Crc32Poly, Halfedb88320
<1>4. CASE j = 3  BY <1>4 DEF IsTerm, OneAt, Crc32Poly, Halfedb88320
<1>5. CASE j = 4  BY <1>5 DEF IsTerm, OneAt, Crc32Poly, Halfedb88320
<1>6. CASE j = 5  BY <1>6 DEF IsTerm, OneAt, Crc32Poly, Halfedb88320
<1>7. CASE j = 6  BY <1>7 DEF IsTerm, OneAt, Crc32Poly, Halfedb88320
<1>8. CASE j = 7  BY <1>8 DEF IsTerm, OneAt, Crc32Poly, Halfedb88320
<1>9. CASE j = 8  BY <1>9 DEF IsTerm, OneAt, Crc32Poly, Halfedb88320
<1>10. CASE j = 9  BY <1>10 DEF IsTerm, OneAt, Crc32Poly, Halfedb88320
<1>11. CASE j = 10  BY <1>11 DEF IsTerm, OneAt, Crc32Poly, Halfedb88320
<1>12. CASE j = 11  BY <1>12 DEF IsTerm, OneAt, Crc32Poly, Halfedb88320
<1>13. CASE j = 12  BY <1>13 DEF IsTerm, OneAt, Crc32Poly, Halfedb88320
<1>14. CASE j = 13  BY <1>14 DEF IsTerm, OneAt, Crc32Poly, Halfedb88320
<1>15. CASE j = 14  BY <1>15 DEF IsTerm, OneAt, Crc32Poly, Halfedb88320
<1>16. CASE j = 15  BY <1>16 DEF IsTerm, OneAt, Crc32Poly, Halfedb88320
<1> QED
    BY <1>1, <1>2, <1>3, <1>4, <1>5, <1>6, <1>7, <1>8, <1>9, <1>10, <1>11, <1>12, <1>13, <1>14, <1>15, <1>16

(* The last entry of a first table is the polynomial. *)
LEMMA PolyWord ==
    /\ Crc32cPoly = Word(E32[8])
    /\ Crc32Poly = Word(Ecrc32[8])
<1>1. Crc32cPoly \in W
    <2>1. Word(<<\h1edc, \h6f41>>) \subseteq 0 .. 31
        BY DEF Word
    <2> QED  BY <2>1 DEF Crc32cPoly, W
<1>2. Crc32Poly \in W
    BY DEF Crc32Poly, W
<1>3. E32[8] = Half82f63b78 /\ Ecrc32[8] = Halfedb88320
    BY DEF E32, Ecrc32, Half82f63b78, Halfedb88320
<1>4. \A a : Word(a) \in W
    BY WordIsWord
<1>5. Crc32cPoly = Word(Half82f63b78)
    <2> DEFINE c == Half82f63b78
               r == Half1edc6f41
    <2>2. Word(r) \subseteq 0 .. 31
        BY <1>4 DEF W
    <2>3. Crc32cPoly = {31 - e : e \in Word(r)}
        BY DEF Crc32cPoly, Half1edc6f41
    <2> HIDE DEF c, r
    <2>4. ASSUME NEW j \in 0 .. 15
          PROVE  (j \in Crc32cPoly <=> j \in Word(c)) /\ (j + 16 \in Crc32cPoly <=> j + 16 \in Word(c))
        <3>1. 15 - j \in 0 .. 15 /\ (15 - j) + 16 = 31 - j /\ 15 - j = 31 - (j + 16)
            OBVIOUS
        <3>2. j \in Crc32cPoly <=> (15 - j) + 16 \in Word(r)
            BY <2>2, <2>3, <3>1
        <3>3. j + 16 \in Crc32cPoly <=> 15 - j \in Word(r)
            BY <2>2, <2>3, <3>1
        <3>4. /\ (15 - j) + 16 \in Word(r) <=> OneAt(r[1], 2^(15 - j))
              /\ 15 - j \in Word(r) <=> OneAt(r[2], 2^(15 - j))
            BY <3>1, WordMember, Zenon
        <3>5. /\ j \in Word(c) <=> OneAt(c[2], 2^j)
              /\ j + 16 \in Word(c) <=> OneAt(c[1], 2^j)
            BY WordMember, Zenon
        <3>6. /\ OneAt(c[2], 2^j) <=> OneAt(r[1], 2^(15 - j))
              /\ OneAt(c[1], 2^j) <=> OneAt(r[2], 2^(15 - j))
            <4>1. IsReversed(c, r, j)
                BY Reversed, Zenon DEF c, r
            <4> QED  BY <4>1, Zenon DEF IsReversed
        <3> QED  BY <3>2, <3>3, <3>4, <3>5, <3>6, Zenon
    <2>5. Crc32cPoly = Word(c)
        BY <1>1, <1>4, <2>4, SameHalves, Zenon
    <2> QED  BY <2>5 DEF c
<1>6. Crc32Poly = Word(Halfedb88320)
    <2> DEFINE c == Halfedb88320
    <2> HIDE DEF c
    <2>2. ASSUME NEW j \in 0 .. 15
          PROVE  (j \in Crc32Poly <=> j \in Word(c)) /\ (j + 16 \in Crc32Poly <=> j + 16 \in Word(c))
        <3>1. /\ j \in Word(c) <=> OneAt(c[2], 2^j)
              /\ j + 16 \in Word(c) <=> OneAt(c[1], 2^j)
            BY WordMember, Zenon
        <3>2. /\ OneAt(c[2], 2^j) <=> j \in Crc32Poly
              /\ OneAt(c[1], 2^j) <=> j + 16 \in Crc32Poly
            <4>1. IsTerm(c, j)
                BY Terms, Zenon DEF c
            <4> QED  BY <4>1, Zenon DEF IsTerm
        <3> QED  BY <3>1, <3>2, Zenon
    <2>3. Crc32Poly = Word(c)
        BY <1>2, <1>4, <2>2, SameHalves, Zenon
    <2> QED  BY <2>3 DEF c
<1> QED  BY <1>3, <1>5, <1>6

(* Up to its own place a bit is only shifted; then it becomes p. *)
LEMMA OneBitSteps ==
    ASSUME NEW p \in W, NEW i \in 0 .. 7
    PROVE  {i} \in W /\ Steps(p)[i + 1][{i}] = p
<1>0. {i} \in W
    BY DEF W
<1> DEFINE S == {k \in 0 .. i : Steps(p)[k][{i}] = {i - k}}
<1>1. 0 \in S
    <2>1. Steps(p)[0][{i}] = {i}
        BY <1>0, StepsAt
    <2>2. i - 0 = i
        OBVIOUS
    <2> QED  BY <2>1, <2>2
<1>2. ASSUME NEW k \in 0 .. i - 1, k \in S PROVE k + 1 \in S
    <2>1. k \in 0 .. 63 /\ k + 1 \in 0 .. i /\ 0 \notin {i - k}
        OBVIOUS
    <2>2. Steps(p)[k + 1][{i}] = Step(p, Steps(p)[k][{i}])
        BY <1>0, <2>1, StepsNext, Zenon
    <2>3. Step(p, {i - k}) = Shr({i - k}, 1)
        BY <2>1, Zenon DEF Step
    <2>4. Shr({i - k}, 1) = {i - (k + 1)}
        BY DEF Shr
    <2> QED  BY <1>2, <2>1, <2>2, <2>3, <2>4
<1>3. i \in S
    <2> HIDE DEF S
    <2>1. \A k \in 0 .. i : k \in S
        BY <1>1, <1>2, UpTo
    <2> QED  BY <2>1
<1>4. Steps(p)[i][{i}] = {0}
    <2>1. i - i = 0
        OBVIOUS
    <2> QED  BY <1>3, <2>1
<1>5. Step(p, {0}) = p
    <2>1. Shr({0}, 1) = {}
        BY DEF Shr
    <2> QED  BY <2>1, XorZero, Zenon DEF Step
<1>6. Steps(p)[i + 1][{i}] = Step(p, Steps(p)[i][{i}])
    <2>1. i \in 0 .. 63
        OBVIOUS
    <2> QED  BY <1>0, <2>1, StepsNext, Zenon
<1> QED  BY <1>0, <1>4, <1>5, <1>6, Zenon

(* The word of the halves a is k steps after the polynomial. *)
After(q, k, a) == Steps(Word(q))[k][Word(q)] = Word(a)

(* The table e is 8 * t + 8 steps of the division by the word of q. *)
IsTable(q, e, t) ==
    /\ \A i \in 0 .. 7 : Word(e[i + 1]) = Steps(Word(q))[8 * t + 8][{i}]
    /\ After(q, 8 * t + 7, e[1])

AllFollow(q, e) == \A i \in 1 .. 7 : Follows(q, e[i + 1], e[i])

(* The entries of one table, from that at 128, which is p after 8 * t steps. *)
LEMMA TableEntries ==
    ASSUME NEW q, NEW e, NEW t \in 0 .. 7, AllFollow(q, e), After(q, 8 * t, e[8])
    PROVE  IsTable(q, e, t)
<1> DEFINE p == Word(q)
           S == {m \in 0 .. 7 : Steps(p)[8 * t + m][p] = Word(e[8 - m])}
<1>0. p \in W
    BY WordIsWord
<1>1. 0 \in S
    <2>1. 8 * t + 0 = 8 * t /\ 8 - 0 = 8
        OBVIOUS
    <2>2. Steps(p)[8 * t][p] = Word(e[8])
        BY Zenon DEF After
    <2> QED  BY <2>1, <2>2
<1>2. ASSUME NEW m \in 0 .. 7 - 1, m \in S PROVE m + 1 \in S
    <2>1. 8 * t + m \in 0 .. 63 /\ 8 * t + (m + 1) = (8 * t + m) + 1 /\ m + 1 \in 0 .. 7
          /\ 8 - (m + 1) \in 1 .. 7 /\ (8 - (m + 1)) + 1 = 8 - m
        OBVIOUS
    <2>2. Steps(p)[(8 * t + m) + 1][p] = Step(p, Steps(p)[8 * t + m][p])
        <3> HIDE DEF p
        <3> QED  BY <1>0, <2>1, StepsNext, Zenon
    <2>3. Steps(p)[8 * t + m][p] = Word(e[8 - m])
        BY <1>2
    <2>4. Follows(q, e[8 - m], e[8 - (m + 1)])
        <3>1. Follows(q, e[(8 - (m + 1)) + 1], e[8 - (m + 1)])
            BY <2>1, Zenon DEF AllFollow
        <3> QED  BY <2>1, <3>1
    <2>5. Step(p, Word(e[8 - m])) = Word(e[8 - (m + 1)])
        BY <2>4, FollowingWord, Zenon
    <2> HIDE DEF p
    <2> QED  BY <2>1, <2>2, <2>3, <2>5
<1> HIDE DEF p
<1>3. \A m \in 0 .. 7 : Steps(p)[8 * t + m][p] = Word(e[8 - m])
    <2>1. \A m \in 0 .. 7 : m \in S
        <3> HIDE DEF S
        <3>1. PICK n \in Nat : n = 7
            OBVIOUS
        <3> QED  BY <1>1, <1>2, <3>1, UpTo
    <2> QED  BY <2>1
<1>4. ASSUME NEW i \in 0 .. 7 PROVE Word(e[i + 1]) = Steps(p)[8 * t + 8][{i}]
    <2>1. 7 - i \in 0 .. 7 /\ 8 - (7 - i) = i + 1 /\ i + 1 \in 0 .. 64 /\ 8 * t + (7 - i) \in 0 .. 64
          /\ (i + 1) + (8 * t + (7 - i)) = 8 * t + 8 /\ (i + 1) + (8 * t + (7 - i)) <= 64
        OBVIOUS
    <2>2. {i} \in W /\ Steps(p)[i + 1][{i}] = p
        BY <1>0, OneBitSteps, Zenon
    <2>3. Steps(p)[(i + 1) + (8 * t + (7 - i))][{i}] = Steps(p)[8 * t + (7 - i)][Steps(p)[i + 1][{i}]]
        <3>1. PICK j \in 0 .. 64, k \in 0 .. 64 : j = i + 1 /\ k = 8 * t + (7 - i)
            BY <2>1
        <3>2. j + k <= 64
            BY <2>1, <3>1
        <3>3. Steps(p)[j + k][{i}] = Steps(p)[k][Steps(p)[j][{i}]]
            <4>1. Compose(p, {i}, j, k)
                BY <1>0, <2>2, <3>2, StepsAdd, Zenon
            <4> QED  BY <4>1, Zenon DEF Compose
        <3> QED  BY <3>1, <3>3, Zenon
    <2>4. Steps(p)[8 * t + (7 - i)][p] = Word(e[8 - (7 - i)])
        BY <1>3, <2>1, Zenon
    <2> QED  BY <2>1, <2>2, <2>3, <2>4, Zenon
<1>5. Steps(p)[8 * t + 7][p] = Word(e[1])
    <2>1. 7 \in 0 .. 7 /\ 8 - 7 = 1
        OBVIOUS
    <2> QED  BY <1>3, <2>1
<1> QED  BY <1>4, <1>5, Zenon DEF p, IsTable, After

(* The last entry of a table is a step after the first of the one before. *)
LEMMA NextTable ==
    ASSUME NEW q, NEW e, NEW d, NEW t \in 0 .. 6,
           After(q, 8 * t + 7, e[1]), Follows(q, e[1], d[8])
    PROVE  After(q, 8 * (t + 1), d[8])
<1> DEFINE p == Word(q)
<1>1. p \in W
    BY WordIsWord
<1>2. Step(p, Word(e[1])) = Word(d[8])
    BY FollowingWord, Zenon
<1> HIDE DEF p
<1>3. 8 * t + 7 \in 0 .. 63 /\ (8 * t + 7) + 1 = 8 * (t + 1)
    OBVIOUS
<1>4. Steps(p)[(8 * t + 7) + 1][p] = Step(p, Steps(p)[8 * t + 7][p])
    BY <1>1, <1>3, StepsNext, Zenon
<1>5. Steps(p)[8 * t + 7][p] = Word(e[1])
    BY Zenon DEF p, After
<1> QED  BY <1>2, <1>3, <1>4, <1>5, Zenon DEF p, After

-----------------------------------------------------------------------------
(* The tables are steps of the division *)

(* In every table each entry is a step after the one for the next bit. *)
LEMMA EntriesFollow ==
    /\ AllFollow(E32[8], E32)
    /\ AllFollow(E32[8], E40)
    /\ AllFollow(E32[8], E48)
    /\ AllFollow(E32[8], E56)
    /\ AllFollow(E32[8], E64)
    /\ AllFollow(E32[8], E72)
    /\ AllFollow(E32[8], E80)
    /\ AllFollow(E32[8], E88)
    /\ AllFollow(Ecrc32[8], Ecrc32)
<1> USE DEF AllFollow, Follows, HalfStep, OneAt, Weights
<1>1. AllFollow(E32[8], E32)
    BY SMTT(200) DEF E32
<1>2. AllFollow(E32[8], E40)
    BY SMTT(200) DEF E32, E40
<1>3. AllFollow(E32[8], E48)
    BY SMTT(200) DEF E32, E48
<1>4. AllFollow(E32[8], E56)
    BY SMTT(200) DEF E32, E56
<1>5. AllFollow(E32[8], E64)
    BY SMTT(200) DEF E32, E64
<1>6. AllFollow(E32[8], E72)
    BY SMTT(200) DEF E32, E72
<1>7. AllFollow(E32[8], E80)
    BY SMTT(200) DEF E32, E80
<1>8. AllFollow(E32[8], E88)
    BY SMTT(200) DEF E32, E88
<1>9. AllFollow(Ecrc32[8], Ecrc32)
    BY SMTT(200) DEF Ecrc32
<1> HIDE DEF AllFollow
<1> QED  BY <1>1, <1>2, <1>3, <1>4, <1>5, <1>6, <1>7, <1>8, <1>9

(* Each table starts a step after the end of the one before. *)
LEMMA TablesFollow ==
    /\ Follows(E32[8], E32[1], E40[8])
    /\ Follows(E32[8], E40[1], E48[8])
    /\ Follows(E32[8], E48[1], E56[8])
    /\ Follows(E32[8], E56[1], E64[8])
    /\ Follows(E32[8], E64[1], E72[8])
    /\ Follows(E32[8], E72[1], E80[8])
    /\ Follows(E32[8], E80[1], E88[8])
<1> USE DEF Follows, HalfStep, OneAt, Weights
<1>1. Follows(E32[8], E32[1], E40[8])
    BY DEF E32, E40
<1>2. Follows(E32[8], E40[1], E48[8])
    BY DEF E32, E48, E40
<1>3. Follows(E32[8], E48[1], E56[8])
    BY DEF E32, E56, E48
<1>4. Follows(E32[8], E56[1], E64[8])
    BY DEF E32, E64, E56
<1>5. Follows(E32[8], E64[1], E72[8])
    BY DEF E32, E72, E64
<1>6. Follows(E32[8], E72[1], E80[8])
    BY DEF E32, E80, E72
<1>7. Follows(E32[8], E80[1], E88[8])
    BY DEF E32, E88, E80
<1> HIDE DEF Follows
<1> QED  BY <1>1, <1>2, <1>3, <1>4, <1>5, <1>6, <1>7

(* A first table is a byte of the division, *)
LEMMA FirstTable ==
    ASSUME NEW q, NEW e, AllFollow(q, e), q = e[8]
    PROVE  IsTable(q, e, 0)
<1>1. PICK t \in 0 .. 7 : t = 0
    OBVIOUS
<1>2. 8 * t = 0
    BY <1>1
<1>3. Word(q) \in W
    BY WordIsWord
<1>4. Steps(Word(q))[0][Word(q)] = Word(q)
    BY <1>3, StepsAt, Zenon
<1>5. After(q, 8 * t, e[8])
    BY <1>2, <1>4, Zenon DEF After
<1>6. IsTable(q, e, t)
    BY <1>5, TableEntries, Zenon
<1> QED  BY <1>1, <1>6

(* and the one that follows a table a byte more. *)
LEMMA FollowingTable ==
    ASSUME NEW q, NEW e, NEW d, NEW t \in 0 .. 6, IsTable(q, e, t), AllFollow(q, d),
           Follows(q, e[1], d[8])
    PROVE  IsTable(q, d, t + 1)
<1>0. After(q, 8 * t + 7, e[1])
    BY Zenon DEF IsTable
<1>1. After(q, 8 * (t + 1), d[8])
    BY <1>0, NextTable, Zenon
<1>2. t + 1 \in 0 .. 7
    OBVIOUS
<1> QED  BY <1>1, <1>2, TableEntries, Zenon

(* Every table of the source is the number of bytes its place asks for. *)
LEMMA EveryTable ==
    /\ IsTable(E32[8], E32, 0)
    /\ IsTable(E32[8], E40, 1)
    /\ IsTable(E32[8], E48, 2)
    /\ IsTable(E32[8], E56, 3)
    /\ IsTable(E32[8], E64, 4)
    /\ IsTable(E32[8], E72, 5)
    /\ IsTable(E32[8], E80, 6)
    /\ IsTable(E32[8], E88, 7)
    /\ IsTable(Ecrc32[8], Ecrc32, 0)
<1>1. IsTable(E32[8], E32, 0)
    BY EntriesFollow, FirstTable, Zenon
<1>2. IsTable(E32[8], E40, 1)
    <2>1. PICK t \in 0 .. 6 : t = 0
        OBVIOUS
    <2>2. IsTable(E32[8], E40, t + 1)
        BY <1>1, <2>1, EntriesFollow, TablesFollow, FollowingTable, Zenon
    <2> QED  BY <2>1, <2>2
<1>3. IsTable(E32[8], E48, 2)
    <2>1. PICK t \in 0 .. 6 : t = 1
        OBVIOUS
    <2>2. IsTable(E32[8], E48, t + 1)
        BY <1>2, <2>1, EntriesFollow, TablesFollow, FollowingTable, Zenon
    <2> QED  BY <2>1, <2>2
<1>4. IsTable(E32[8], E56, 3)
    <2>1. PICK t \in 0 .. 6 : t = 2
        OBVIOUS
    <2>2. IsTable(E32[8], E56, t + 1)
        BY <1>3, <2>1, EntriesFollow, TablesFollow, FollowingTable, Zenon
    <2> QED  BY <2>1, <2>2
<1>5. IsTable(E32[8], E64, 4)
    <2>1. PICK t \in 0 .. 6 : t = 3
        OBVIOUS
    <2>2. IsTable(E32[8], E64, t + 1)
        BY <1>4, <2>1, EntriesFollow, TablesFollow, FollowingTable, Zenon
    <2> QED  BY <2>1, <2>2
<1>6. IsTable(E32[8], E72, 5)
    <2>1. PICK t \in 0 .. 6 : t = 4
        OBVIOUS
    <2>2. IsTable(E32[8], E72, t + 1)
        BY <1>5, <2>1, EntriesFollow, TablesFollow, FollowingTable, Zenon
    <2> QED  BY <2>1, <2>2
<1>7. IsTable(E32[8], E80, 6)
    <2>1. PICK t \in 0 .. 6 : t = 5
        OBVIOUS
    <2>2. IsTable(E32[8], E80, t + 1)
        BY <1>6, <2>1, EntriesFollow, TablesFollow, FollowingTable, Zenon
    <2> QED  BY <2>1, <2>2
<1>8. IsTable(E32[8], E88, 7)
    <2>1. PICK t \in 0 .. 6 : t = 6
        OBVIOUS
    <2>2. IsTable(E32[8], E88, t + 1)
        BY <1>7, <2>1, EntriesFollow, TablesFollow, FollowingTable, Zenon
    <2> QED  BY <2>1, <2>2
<1>9. IsTable(Ecrc32[8], Ecrc32, 0)
    BY EntriesFollow, FirstTable, Zenon
<1> QED  BY <1>1, <1>2, <1>3, <1>4, <1>5, <1>6, <1>7, <1>8, <1>9

(* A lookup in table is k steps of the division by p. *)
Looks(table, p, k) == \A b \in Byte : table[b] = Steps(p)[k][b]

(* Such a table looks up steps of the division. *)
LEMMA TableLooks ==
    ASSUME NEW q, NEW e, NEW t \in 0 .. 7, IsTable(q, e, t)
    PROVE  Looks(Table(e), Word(q), 8 * t + 8)
<1> DEFINE L == Steps(Word(q))[8 * t + 8]
<1>1. Word(q) \in W /\ 8 * t + 8 \in 0 .. 64
    BY WordIsWord
<1>2. Linear(L)
    BY <1>1, StepsAreLinear, Zenon
<1>3. \A i \in 0 .. 7 : Word(e[i + 1]) = L[{i}]
    BY Zenon DEF IsTable
<1> HIDE DEF L
<1>4. \A b \in Byte : Table(e)[b] = L[b]
    BY <1>2, <1>3, TableIs, Zenon
<1> QED  BY <1>4, Zenon DEF Looks, L

(* Every table of the source. *)
LEMMA TablesRight ==
    /\ Looks(sctp_crc_tableil8_o32, Crc32cPoly, 8)
    /\ Looks(sctp_crc_tableil8_o40, Crc32cPoly, 16)
    /\ Looks(sctp_crc_tableil8_o48, Crc32cPoly, 24)
    /\ Looks(sctp_crc_tableil8_o56, Crc32cPoly, 32)
    /\ Looks(sctp_crc_tableil8_o64, Crc32cPoly, 40)
    /\ Looks(sctp_crc_tableil8_o72, Crc32cPoly, 48)
    /\ Looks(sctp_crc_tableil8_o80, Crc32cPoly, 56)
    /\ Looks(sctp_crc_tableil8_o88, Crc32cPoly, 64)
    /\ Looks(crc32c_table, Crc32cPoly, 8)
    /\ Looks(crc32_table, Crc32Poly, 8)
<1>1. Looks(sctp_crc_tableil8_o32, Crc32cPoly, 8)
    <2>1. PICK t \in 0 .. 7 : t = 0
        OBVIOUS
    <2>2. Looks(Table(E32), Word(E32[8]), 8 * t + 8)
        BY <2>1, EveryTable, TableLooks, Zenon
    <2>3. 8 * t + 8 = 8
        BY <2>1
    <2>4. sctp_crc_tableil8_o32 = Table(E32)
        BY DEF sctp_crc_tableil8_o32, E32
    <2> QED  BY <2>2, <2>3, <2>4, PolyWord, Zenon
<1>2. Looks(sctp_crc_tableil8_o40, Crc32cPoly, 16)
    <2>1. PICK t \in 0 .. 7 : t = 1
        OBVIOUS
    <2>2. Looks(Table(E40), Word(E32[8]), 8 * t + 8)
        BY <2>1, EveryTable, TableLooks, Zenon
    <2>3. 8 * t + 8 = 16
        BY <2>1
    <2>4. sctp_crc_tableil8_o40 = Table(E40)
        BY DEF sctp_crc_tableil8_o40, E40
    <2> QED  BY <2>2, <2>3, <2>4, PolyWord, Zenon
<1>3. Looks(sctp_crc_tableil8_o48, Crc32cPoly, 24)
    <2>1. PICK t \in 0 .. 7 : t = 2
        OBVIOUS
    <2>2. Looks(Table(E48), Word(E32[8]), 8 * t + 8)
        BY <2>1, EveryTable, TableLooks, Zenon
    <2>3. 8 * t + 8 = 24
        BY <2>1
    <2>4. sctp_crc_tableil8_o48 = Table(E48)
        BY DEF sctp_crc_tableil8_o48, E48
    <2> QED  BY <2>2, <2>3, <2>4, PolyWord, Zenon
<1>4. Looks(sctp_crc_tableil8_o56, Crc32cPoly, 32)
    <2>1. PICK t \in 0 .. 7 : t = 3
        OBVIOUS
    <2>2. Looks(Table(E56), Word(E32[8]), 8 * t + 8)
        BY <2>1, EveryTable, TableLooks, Zenon
    <2>3. 8 * t + 8 = 32
        BY <2>1
    <2>4. sctp_crc_tableil8_o56 = Table(E56)
        BY DEF sctp_crc_tableil8_o56, E56
    <2> QED  BY <2>2, <2>3, <2>4, PolyWord, Zenon
<1>5. Looks(sctp_crc_tableil8_o64, Crc32cPoly, 40)
    <2>1. PICK t \in 0 .. 7 : t = 4
        OBVIOUS
    <2>2. Looks(Table(E64), Word(E32[8]), 8 * t + 8)
        BY <2>1, EveryTable, TableLooks, Zenon
    <2>3. 8 * t + 8 = 40
        BY <2>1
    <2>4. sctp_crc_tableil8_o64 = Table(E64)
        BY DEF sctp_crc_tableil8_o64, E64
    <2> QED  BY <2>2, <2>3, <2>4, PolyWord, Zenon
<1>6. Looks(sctp_crc_tableil8_o72, Crc32cPoly, 48)
    <2>1. PICK t \in 0 .. 7 : t = 5
        OBVIOUS
    <2>2. Looks(Table(E72), Word(E32[8]), 8 * t + 8)
        BY <2>1, EveryTable, TableLooks, Zenon
    <2>3. 8 * t + 8 = 48
        BY <2>1
    <2>4. sctp_crc_tableil8_o72 = Table(E72)
        BY DEF sctp_crc_tableil8_o72, E72
    <2> QED  BY <2>2, <2>3, <2>4, PolyWord, Zenon
<1>7. Looks(sctp_crc_tableil8_o80, Crc32cPoly, 56)
    <2>1. PICK t \in 0 .. 7 : t = 6
        OBVIOUS
    <2>2. Looks(Table(E80), Word(E32[8]), 8 * t + 8)
        BY <2>1, EveryTable, TableLooks, Zenon
    <2>3. 8 * t + 8 = 56
        BY <2>1
    <2>4. sctp_crc_tableil8_o80 = Table(E80)
        BY DEF sctp_crc_tableil8_o80, E80
    <2> QED  BY <2>2, <2>3, <2>4, PolyWord, Zenon
<1>8. Looks(sctp_crc_tableil8_o88, Crc32cPoly, 64)
    <2>1. PICK t \in 0 .. 7 : t = 7
        OBVIOUS
    <2>2. Looks(Table(E88), Word(E32[8]), 8 * t + 8)
        BY <2>1, EveryTable, TableLooks, Zenon
    <2>3. 8 * t + 8 = 64
        BY <2>1
    <2>4. sctp_crc_tableil8_o88 = Table(E88)
        BY DEF sctp_crc_tableil8_o88, E88
    <2> QED  BY <2>2, <2>3, <2>4, PolyWord, Zenon
<1>9. Looks(crc32c_table, Crc32cPoly, 8)
    <2>1. crc32c_table = sctp_crc_tableil8_o32
        BY DEF crc32c_table, sctp_crc_tableil8_o32
    <2> QED  BY <1>1, <2>1, Zenon
<1>10. Looks(crc32_table, Crc32Poly, 8)
    <2>1. PICK t \in 0 .. 7 : t = 0
        OBVIOUS
    <2>2. Looks(Table(Ecrc32), Word(Ecrc32[8]), 8 * t + 8)
        BY <2>1, EveryTable, TableLooks, Zenon
    <2>3. 8 * t + 8 = 8
        BY <2>1
    <2>4. crc32_table = Table(Ecrc32)
        BY DEF crc32_table, Ecrc32
    <2> QED  BY <2>2, <2>3, <2>4, PolyWord, Zenon
<1> QED  BY <1>1, <1>2, <1>3, <1>4, <1>5, <1>6, <1>7, <1>8, <1>9, <1>10

-----------------------------------------------------------------------------
(* Bytes of the division *)

(* Steps that only shift. *)
LEMMA HighSteps ==
    ASSUME NEW p \in W, NEW x \in W, NEW n \in 0 .. 64, \A i \in x : i >= n
    PROVE  Steps(p)[n][x] = Shr(x, n)
<1> DEFINE S == {k \in 0 .. n : Steps(p)[k][x] = Shr(x, k)}
<1>1. 0 \in S
    <2>1. Steps(p)[0][x] = x
        BY StepsAt
    <2>2. Shr(x, 0) = x
        BY ShrLaws
    <2> QED  BY <2>1, <2>2
<1>2. ASSUME NEW k \in 0 .. n - 1, k \in S PROVE k + 1 \in S
    <2>1. k \in 0 .. 63 /\ k + 1 \in 0 .. n /\ k \in Nat /\ 1 \in Nat /\ 0 \in Nat /\ 0 + k = k
        OBVIOUS
    <2>2. Steps(p)[k + 1][x] = Step(p, Steps(p)[k][x])
        BY <2>1, StepsNext, Zenon
    <2>3. 0 \notin Shr(x, k)
        <3>1. 0 \in Shr(x, k) <=> 0 + k \in x
            BY <2>1, ShrMember
        <3>2. k \notin x
            OBVIOUS
        <3> QED  BY <2>1, <3>1, <3>2
    <2>4. Step(p, Shr(x, k)) = Shr(Shr(x, k), 1)
        BY <2>3, Zenon DEF Step
    <2>5. Shr(Shr(x, k), 1) = Shr(x, k + 1)
        BY <2>1, ShrLaws, Zenon
    <2>6. Steps(p)[k][x] = Shr(x, k)
        BY <1>2
    <2> QED  BY <2>1, <2>2, <2>4, <2>5, <2>6
<1>3. n \in S
    <2> HIDE DEF S
    <2>1. \A k \in 0 .. n : k \in S
        BY <1>1, <1>2, UpTo
    <2> QED  BY <2>1
<1> QED  BY <1>3

(* A shift is linear. *)
LEMMA ShrLinear ==
    ASSUME NEW a \in W, NEW b \in W, NEW n \in Nat
    PROVE  Shr(SymDiff(a, b), n) = SymDiff(Shr(a, n), Shr(b, n))
<1>1. SymDiff(a, b) \in W /\ Shr(a, n) \in W /\ Shr(b, n) \in W
    BY XorWord, ShrWord
<1>2. Shr(SymDiff(a, b), n) \in W /\ SymDiff(Shr(a, n), Shr(b, n)) \in W
    BY <1>1, XorWord, ShrWord
<1>3. ASSUME NEW i \in 0 .. 31
      PROVE  i \in Shr(SymDiff(a, b), n) <=> i \in SymDiff(Shr(a, n), Shr(b, n))
    <2>1. i \in Shr(SymDiff(a, b), n) <=> i + n \in SymDiff(a, b)
        BY <1>1, ShrMember
    <2>2. i + n \in SymDiff(a, b) <=> (i + n \in a) # (i + n \in b)
        BY XorMember
    <2>3. (i \in Shr(a, n) <=> i + n \in a) /\ (i \in Shr(b, n) <=> i + n \in b)
        <3>1. i \in Nat
            OBVIOUS
        <3>2. i \in Shr(a, n) <=> i + n \in a
            BY <3>1, ShrMember, Zenon
        <3>3. i \in Shr(b, n) <=> i + n \in b
            BY <3>1, ShrMember, Zenon
        <3> QED  BY <3>2, <3>3
    <2>4. i \in SymDiff(Shr(a, n), Shr(b, n)) <=> (i \in Shr(a, n)) # (i \in Shr(b, n))
        BY XorMember
    <2> QED  BY <2>1, <2>2, <2>3, <2>4
<1> QED  BY <1>2, <1>3, SameWord

(* Eight steps take the low byte through the table and shift the others. *)
LEMMA ByteStep ==
    ASSUME NEW p \in W, NEW w \in W
    PROVE  /\ LowByte(w) \in Byte
           /\ Steps(p)[8][w] = SymDiff(Steps(p)[8][LowByte(w)], Shr(w, 8))
<1> DEFINE lo == LowByte(w)
           hi == w \ (0 .. 7)
<1>1. lo \in Byte /\ lo \in W /\ hi \in W /\ SymDiff(lo, hi) = w
    BY DEF LowByte, Byte, W, SymDiff
<1>2. \A i \in hi : i >= 8
    BY DEF W
<1> HIDE DEF lo, hi
<1>3. PICK n \in 0 .. 64 : n = 8
    OBVIOUS
<1>4. n \in Nat
    OBVIOUS
<1>5. Steps(p)[n][SymDiff(lo, hi)] = SymDiff(Steps(p)[n][lo], Steps(p)[n][hi])
    <2>1. Linear(Steps(p)[n])
        BY StepsAreLinear, Zenon
    <2> QED  BY <1>1, <2>1, Zenon DEF Linear
<1>6. Steps(p)[n][hi] = Shr(hi, n)
    BY <1>1, <1>2, <1>3, HighSteps
<1>7. Shr(SymDiff(lo, hi), n) = SymDiff(Shr(lo, n), Shr(hi, n))
    BY <1>1, <1>4, ShrLinear, Zenon
<1>8. Shr(lo, n) = {}
    BY <1>1, <1>3, ByteWord, Zenon
<1>9. Shr(w, n) = Shr(hi, n)
    BY <1>1, <1>7, <1>8, XorZero, Zenon
<1>10. Steps(p)[n][w] = SymDiff(Steps(p)[n][lo], Shr(w, n))
    BY <1>1, <1>5, <1>6, <1>9, Zenon
<1> QED  BY <1>1, <1>3, <1>10, Zenon DEF lo

(* A lookup is the division of a byte. *)
LEMMA UpdateIs ==
    ASSUME NEW table, NEW p \in W, Looks(table, p, 8), NEW c \in W, NEW b \in Byte
    PROVE  update(table, c, b) = Steps(p)[8][SymDiff(c, b)]
<1> DEFINE w == SymDiff(c, b)
<1>1. b \in W /\ Shr(b, 8) = {}
    BY ByteWord
<1>2. w \in W
    BY <1>1, XorWord
<1>3. Shr(w, 8) = Shr(c, 8)
    <2>1. PICK n \in Nat : n = 8
        OBVIOUS
    <2>2. Shr(w, n) = SymDiff(Shr(c, n), Shr(b, n))
        BY <1>1, ShrLinear, Zenon
    <2> QED  BY <1>1, <2>1, <2>2, XorZero, Zenon
<1> HIDE DEF w
<1>4. LowByte(w) \in Byte /\ Steps(p)[8][w] = SymDiff(Steps(p)[8][LowByte(w)], Shr(w, 8))
    BY <1>2, ByteStep, Zenon
<1>5. table[LowByte(w)] = Steps(p)[8][LowByte(w)]
    BY <1>4, Zenon DEF Looks
<1> QED  BY <1>3, <1>4, <1>5, Zenon DEF update, w

(* k bytes of the division. *)
Z(p, k, x) == Steps(p)[8 * k][x]

(* It is a word, *)
LEMMA ZWord ==
    ASSUME NEW p \in W, NEW x \in W, NEW k \in 0 .. 8
    PROVE  Z(p, k, x) \in W
<1>1. 8 * k \in 0 .. 64
    OBVIOUS
<1> QED  BY <1>1, StepsAt, Zenon DEF Z

(* linear in the word it starts from, *)
LEMMA ZLinear ==
    ASSUME NEW p \in W, NEW x \in W, NEW y \in W, NEW k \in 0 .. 8
    PROVE  Z(p, k, SymDiff(x, y)) = SymDiff(Z(p, k, x), Z(p, k, y))
<1>1. PICK m \in 0 .. 64 : m = 8 * k
    OBVIOUS
<1>2. Steps(p)[m][SymDiff(x, y)] = SymDiff(Steps(p)[m][x], Steps(p)[m][y])
    BY StepsLinear, ZenonT(60)
<1> QED  BY <1>1, <1>2, Zenon DEF Z

(* and adds up. *)
LEMMA ZAdd ==
    ASSUME NEW p \in W, NEW x \in W, NEW j \in 0 .. 8, NEW k \in 0 .. 8, j + k <= 8
    PROVE  Z(p, j, Z(p, k, x)) = Z(p, j + k, x)
<1>1. PICK a \in 0 .. 64, b \in 0 .. 64 : a = 8 * k /\ b = 8 * j
    OBVIOUS
<1>2. a + b <= 64 /\ a + b = 8 * (j + k)
    BY <1>1
<1>3. Compose(p, x, a, b)
    BY <1>2, StepsAdd, Zenon
<1>4. Steps(p)[a + b][x] = Steps(p)[b][Steps(p)[a][x]]
    BY <1>3, Zenon DEF Compose
<1> QED  BY <1>1, <1>2, <1>4, Zenon DEF Z

(* One byte: a lookup of the low byte, and the rest shifted down. *)
LEMMA ZByte ==
    ASSUME NEW p \in W, NEW w \in W
    PROVE  Z(p, 1, w) = SymDiff(Z(p, 1, LowByte(w)), Shr(w, 8))
<1>1. 8 * 1 = 8
    OBVIOUS
<1> QED  BY <1>1, ByteStep, Zenon DEF Z

(* A byte put 8 * k bits up comes down again after k bytes. *)
LEMMA ZShl ==
    ASSUME NEW p \in W, NEW b \in Byte, NEW k \in 0 .. 3
    PROVE  Shl(b, 8 * k) \in W /\ Z(p, k, Shl(b, 8 * k)) = b
<1>1. Shl(b, 8 * k) \in W /\ \A i \in Shl(b, 8 * k) : i >= 8 * k
    <2>1. ASSUME NEW i \in Shl(b, 8 * k) PROVE i \in 0 .. 31 /\ i >= 8 * k
        <3>1. PICK j \in b : i = j + 8 * k
            BY DEF Shl
        <3>2. j \in 0 .. 7
            BY DEF Byte
        <3> QED  BY <3>1, <3>2
    <2> QED  BY <2>1 DEF W
<1>2. PICK n \in 0 .. 64 : n = 8 * k
    OBVIOUS
<1>3. Steps(p)[n][Shl(b, 8 * k)] = Shr(Shl(b, 8 * k), n)
    BY <1>1, <1>2, HighSteps
<1>4. Shr(Shl(b, 8 * k), n) = b
    <2>1. \A j \in b : j \in 0 .. 7
        BY DEF Byte
    <2>2. ASSUME NEW x \in Shr(Shl(b, 8 * k), n) PROVE x \in b
        <3>1. PICK d \in Shl(b, 8 * k) : d >= n /\ x = d - n
            BY DEF Shr
        <3>2. PICK j \in b : d = j + 8 * k
            BY DEF Shl
        <3>3. x = j
            BY <1>2, <2>1, <3>1, <3>2
        <3> QED  BY <3>3
    <2>3. ASSUME NEW j \in b PROVE j \in Shr(Shl(b, 8 * k), n)
        <3>1. j + 8 * k \in Shl(b, 8 * k)
            BY DEF Shl
        <3>2. j + 8 * k >= n /\ j = (j + 8 * k) - n
            BY <1>2, <2>1
        <3> QED  BY <3>1, <3>2, Zenon DEF Shr
    <2> QED  BY <2>2, <2>3
<1> QED  BY <1>1, <1>2, <1>3, <1>4, Zenon DEF Z

-----------------------------------------------------------------------------
(* Four bytes at once *)

(* The low byte is looked up, the rest is one byte further. *)
LEMMA ZDown ==
    ASSUME NEW p \in W, NEW v \in W, NEW k \in 0 .. 7
    PROVE  Z(p, k + 1, v) = SymDiff(Z(p, k + 1, LowByte(v)), Z(p, k, Shr(v, 8)))
<1> DEFINE lo == LowByte(v)
           up == Shr(v, 8)
<1>1. lo \in W
    BY ByteStep, ByteWord
<1>2. up \in W
    BY ShrWord
<1>3. PICK u \in 0 .. 8 : u = 1
    OBVIOUS
<1>4. k \in 0 .. 8 /\ k + u <= 8
    BY <1>3
<1> HIDE DEF lo, up
<1>5. Z(p, u, v) = SymDiff(Z(p, u, lo), up)
    BY <1>3, ZByte, Zenon DEF lo, up
<1>6. Z(p, u, lo) \in W
    BY <1>1, ZWord, Zenon
<1>7. Z(p, k, SymDiff(Z(p, u, lo), up)) = SymDiff(Z(p, k, Z(p, u, lo)), Z(p, k, up))
    <2>1. PICK x \in W, y \in W : x = Z(p, u, lo) /\ y = up
        BY <1>2, <1>6
    <2>2. Z(p, k, SymDiff(x, y)) = SymDiff(Z(p, k, x), Z(p, k, y))
        BY <1>4, ZLinear, SMTT(60)
    <2> QED  BY <2>1, <2>2
<1>8. Z(p, k, Z(p, u, lo)) = Z(p, k + u, lo) /\ Z(p, k, Z(p, u, v)) = Z(p, k + u, v)
    <2>1. Z(p, k, Z(p, u, v)) = Z(p, k + u, v)
        BY <1>4, ZAdd, ZenonT(60)
    <2>2. PICK x \in W : x = lo
        BY <1>1
    <2>3. Z(p, k, Z(p, u, x)) = Z(p, k + u, x)
        BY <1>4, ZAdd, ZenonT(60)
    <2> QED  BY <2>1, <2>2, <2>3
<1>9. Z(p, k + u, v) = SymDiff(Z(p, k + u, lo), Z(p, k, up))
    BY <1>5, <1>7, <1>8, Zenon
<1> QED  BY <1>3, <1>9, Zenon DEF lo, up

(* A byte added after k bytes of the division is one added 8 * k bits higher. *)
LEMMA ZUp ==
    ASSUME NEW p \in W, NEW v \in W, NEW b \in Byte, NEW k \in 0 .. 3
    PROVE  /\ Z(p, 1, SymDiff(Z(p, k, v), b)) = Z(p, k + 1, SymDiff(v, Shl(b, 8 * k)))
           /\ SymDiff(v, Shl(b, 8 * k)) \in W
<1> DEFINE s == Shl(b, 8 * k)
<1>1. s \in W /\ Z(p, k, s) = b
    BY ZShl
<1> HIDE DEF s
<1>2. SymDiff(v, s) \in W
    BY <1>1, XorWord
<1>3. PICK u \in 0 .. 8 : u = 1
    OBVIOUS
<1>4. k \in 0 .. 8 /\ u + k <= 8 /\ u + k = k + 1
    BY <1>3
<1>5. Z(p, k, SymDiff(v, s)) = SymDiff(Z(p, k, v), Z(p, k, s))
    BY <1>1, <1>4, ZLinear, ZenonT(60)
<1>6. Z(p, u, Z(p, k, SymDiff(v, s))) = Z(p, u + k, SymDiff(v, s))
    BY <1>2, <1>4, ZAdd, ZenonT(60)
<1> QED  BY <1>1, <1>2, <1>3, <1>4, <1>5, <1>6, Zenon DEF s

(* From zero the division stays at zero. *)
LEMMA ZZero ==
    ASSUME NEW p \in W, NEW k \in 0 .. 8
    PROVE  Z(p, k, {}) = {}
<1>1. 8 * k \in 0 .. 64
    OBVIOUS
<1>2. Linear(Steps(p)[8 * k])
    BY <1>1, StepsAreLinear, Zenon
<1> QED  BY <1>2, Zenon DEF Linear, Z

(* The four lookups of the first word. *)
LEMMA FourDown ==
    ASSUME NEW p \in W, NEW w \in W
    PROVE  Z(p, 8, w) = SymDiff(Z(p, 8, LowByte(w)),
                         SymDiff(Z(p, 7, LowByte(Shr(w, 8))),
                          SymDiff(Z(p, 6, LowByte(Shr(w, 16))), Z(p, 5, LowByte(Shr(w, 24))))))
<1>1. /\ Shr(w, 8) \in W /\ Shr(w, 16) \in W /\ Shr(w, 24) \in W
    BY ShrWord
<1>2. Shr(Shr(w, 8), 8) = Shr(w, 16) /\ Shr(Shr(w, 16), 8) = Shr(w, 24) /\ Shr(Shr(w, 24), 8) = Shr(w, 32)
    <2>1. \A j, k \in Nat : Shr(Shr(w, j), k) = Shr(w, j + k)
        BY ShrLaws
    <2>2. 8 \in Nat /\ 16 \in Nat /\ 24 \in Nat /\ 8 + 8 = 16 /\ 16 + 8 = 24 /\ 24 + 8 = 32
        OBVIOUS
    <2> QED  BY <2>1, <2>2
<1>3. Shr(w, 32) = {}
    <2>1. \A i \in w : ~ (i >= 32)
        BY DEF W
    <2> QED  BY <2>1 DEF Shr
<1>4. \A v \in W : \A k \in 0 .. 7 :
        Z(p, k + 1, v) = SymDiff(Z(p, k + 1, LowByte(v)), Z(p, k, Shr(v, 8)))
    BY ZDown
<1>5. 7 \in 0 .. 7 /\ 6 \in 0 .. 7 /\ 5 \in 0 .. 7 /\ 4 \in 0 .. 7 /\ 4 \in 0 .. 8
      /\ 7 + 1 = 8 /\ 6 + 1 = 7 /\ 5 + 1 = 6 /\ 4 + 1 = 5
    OBVIOUS
<1>6. Z(p, 7 + 1, w) = SymDiff(Z(p, 7 + 1, LowByte(w)), Z(p, 7, Shr(w, 8)))
    BY <1>4, <1>5, Zenon
<1>7. Z(p, 6 + 1, Shr(w, 8)) = SymDiff(Z(p, 6 + 1, LowByte(Shr(w, 8))), Z(p, 6, Shr(Shr(w, 8), 8)))
    BY <1>1, <1>4, <1>5, Zenon
<1>8. Z(p, 5 + 1, Shr(w, 16)) = SymDiff(Z(p, 5 + 1, LowByte(Shr(w, 16))), Z(p, 5, Shr(Shr(w, 16), 8)))
    BY <1>1, <1>4, <1>5, Zenon
<1>9. Z(p, 4 + 1, Shr(w, 24)) = SymDiff(Z(p, 4 + 1, LowByte(Shr(w, 24))), Z(p, 4, Shr(Shr(w, 24), 8)))
    BY <1>1, <1>4, <1>5, Zenon
<1>10. Z(p, 4, {}) = {}
    BY <1>5, ZZero, Zenon
<1>11. Z(p, 5, Shr(w, 24)) = Z(p, 5, LowByte(Shr(w, 24)))
    <2>1. SymDiff(Z(p, 4 + 1, LowByte(Shr(w, 24))), {}) = Z(p, 4 + 1, LowByte(Shr(w, 24)))
        BY XorZero, Zenon
    <2> QED  BY <1>2, <1>3, <1>5, <1>9, <1>10, <2>1
<1>12. Z(p, 6, Shr(w, 16)) = SymDiff(Z(p, 6, LowByte(Shr(w, 16))), Z(p, 5, LowByte(Shr(w, 24))))
    BY <1>2, <1>5, <1>8, <1>11
<1>13. Z(p, 7, Shr(w, 8)) = SymDiff(Z(p, 7, LowByte(Shr(w, 8))), Z(p, 6, Shr(w, 16)))
    BY <1>2, <1>5, <1>7
<1>14. Z(p, 8, w) = SymDiff(Z(p, 8, LowByte(w)), Z(p, 7, Shr(w, 8)))
    BY <1>5, <1>6
<1> QED  BY <1>12, <1>13, <1>14, Zenon

(* Four bytes, each in its place of the word. *)
Load(b) == UNION {Shl(b[i], 8 * (i - 1)) : i \in 1 .. 4}

(* Loading them at once is adding them one by one. *)
LEMMA LoadIs ==
    ASSUME NEW c, NEW b, \A i \in 1 .. 4 : b[i] \in Byte
    PROVE  SymDiff(c, Load(b))
             = SymDiff(SymDiff(SymDiff(SymDiff(c, Shl(b[1], 0)), Shl(b[2], 8)), Shl(b[3], 16)), Shl(b[4], 24))
<1>1. ASSUME NEW i \in 1 .. 4, NEW x \in Shl(b[i], 8 * (i - 1))
      PROVE  x \in 8 * (i - 1) .. 8 * (i - 1) + 7
    <2>1. PICK j \in b[i] : x = j + 8 * (i - 1)
        BY <1>1 DEF Shl
    <2>2. j \in 0 .. 7
        BY DEF Byte
    <2> QED  BY <2>1, <2>2
<1>2. /\ 8 * (1 - 1) = 0 /\ 8 * (2 - 1) = 8 /\ 8 * (3 - 1) = 16 /\ 8 * (4 - 1) = 24
      /\ 1 \in 1 .. 4 /\ 2 \in 1 .. 4 /\ 3 \in 1 .. 4 /\ 4 \in 1 .. 4
      /\ 1 .. 4 = {1, 2, 3, 4}
    OBVIOUS
<1> DEFINE s == Shl(b[1], 0)
           t == Shl(b[2], 8)
           u == Shl(b[3], 16)
           v == Shl(b[4], 24)
<1>3. Load(b) = s \cup t \cup u \cup v
    <2>1. Load(b) = UNION {Shl(b[i], 8 * (i - 1)) : i \in {1, 2, 3, 4}}
        BY <1>2, Zenon DEF Load
    <2>2. {Shl(b[i], 8 * (i - 1)) : i \in {1, 2, 3, 4}} = {s, t, u, v}
        BY <1>2, ZenonT(60)
    <2> HIDE DEF s, t, u, v
    <2>3. UNION {s, t, u, v} = s \cup t \cup u \cup v
        OBVIOUS
    <2> QED  BY <2>1, <2>2, <2>3, Zenon
<1>4. /\ \A x \in s : x \in 0 .. 7
      /\ \A x \in t : x \in 8 .. 15
      /\ \A x \in u : x \in 16 .. 23
      /\ \A x \in v : x \in 24 .. 31
    <2>1. ASSUME NEW x \in s PROVE x \in 0 .. 7
        BY <1>1, <1>2, <2>1
    <2>2. ASSUME NEW x \in t PROVE x \in 8 .. 15
        BY <1>1, <1>2, <2>2
    <2>3. ASSUME NEW x \in u PROVE x \in 16 .. 23
        BY <1>1, <1>2, <2>3
    <2>4. ASSUME NEW x \in v PROVE x \in 24 .. 31
        BY <1>1, <1>2, <2>4
    <2> QED  BY <2>1, <2>2, <2>3, <2>4
<1> HIDE DEF s, t, u, v
<1>5. s \cap t = {} /\ s \cap u = {} /\ s \cap v = {} /\ t \cap u = {} /\ t \cap v = {} /\ u \cap v = {}
    BY <1>4
<1>6. SymDiff(SymDiff(SymDiff(SymDiff(c, s), t), u), v) = SymDiff(c, s \cup t \cup u \cup v)
    BY <1>5 DEF SymDiff
<1> QED  BY <1>3, <1>6, Zenon DEF s, t, u, v

-----------------------------------------------------------------------------
(* Eight bytes *)

(* The exclusive or of eight words, from the left. *)
FoldIs(a, b, c, d, e, f, g, h) ==
    FoldLeft(SymDiff, {}, <<a, b, c, d, e, f, g, h>>)
      = SymDiff(SymDiff(SymDiff(SymDiff(SymDiff(a, SymDiff(b, SymDiff(c, d))), e), f), g), h)

(* Folding eight words is this sum. *)
LEMMA FoldEight ==
    ASSUME NEW a \in W, NEW b \in W, NEW c \in W, NEW d \in W,
           NEW e \in W, NEW f \in W, NEW g \in W, NEW h \in W
    PROVE  FoldIs(a, b, c, d, e, f, g, h)
<1> DEFINE t == <<a, b, c, d, e, f, g, h>>
           G == [j \in 1 .. 8 |-> [x \in W |-> SymDiff(x, t[j])]]
<1>1. /\ t[1] = a /\ t[2] = b /\ t[3] = c /\ t[4] = d
      /\ t[5] = e /\ t[6] = f /\ t[7] = g /\ t[8] = h
    OBVIOUS
<1>2. DOMAIN t = 1 .. 8
    OBVIOUS
<1>3. ASSUME NEW j \in 1 .. 8 PROVE t[j] \in W
    <2> HIDE DEF t
    <2>1. j = 1 \/ j = 2 \/ j = 3 \/ j = 4 \/ j = 5 \/ j = 6 \/ j = 7 \/ j = 8
        OBVIOUS
    <2> QED  BY <1>1, <2>1
<1> HIDE DEF t
<1>4. \A x \in W : \A j \in 1 .. 8 : SymDiff(x, t[j]) \in W
    BY <1>3, XorWord
<1>5. G \in [1 .. 8 -> [W -> W]]
    BY <1>4
<1>6. {} \in W
    BY DEF W
<1>7. PICK m \in Nat : m = 8
    OBVIOUS
<1> HIDE DEF G
<1>8. \E s : IsRecursion(s, m, W, {}, G)
    BY <1>5, <1>6, <1>7, Recursive, Zenon
<1>9. PICK s : IsRecursion(s, m, W, {}, G)
    BY <1>8
<1>10. s \in [0 .. m -> W] /\ s[0] = {}
    BY <1>9 DEF IsRecursion
<1>11. ASSUME NEW j \in 1 .. m PROVE s[j] = SymDiff(s[j - 1], t[j])
    <2>1. s[j - 1] \in W
        BY <1>10
    <2>2. s[j] = G[j][s[j - 1]]
        BY <1>9 DEF IsRecursion
    <2> QED  BY <1>7, <2>1, <2>2 DEF G
<1>12. FoldLeft(SymDiff, s[0], t) = s[m]
    BY <1>2, <1>4, <1>7, <1>10, <1>11, TermsIs
<1>13. /\ s[1] = SymDiff(s[0], t[1]) /\ s[2] = SymDiff(s[1], t[2])
       /\ s[3] = SymDiff(s[2], t[3]) /\ s[4] = SymDiff(s[3], t[4])
       /\ s[5] = SymDiff(s[4], t[5]) /\ s[6] = SymDiff(s[5], t[6])
       /\ s[7] = SymDiff(s[6], t[7]) /\ s[8] = SymDiff(s[7], t[8])
    BY <1>7, <1>11
<1>14. s[1] = a
    BY <1>1, <1>10, <1>13, XorZero
<1>15. s[4] = SymDiff(a, SymDiff(b, SymDiff(c, d)))
    <2>1. s[4] = SymDiff(SymDiff(SymDiff(a, b), c), d)
        BY <1>1, <1>13, <1>14, Zenon
    <2>2. PICK x \in W, y \in W : x = SymDiff(a, b) /\ y = SymDiff(c, d)
        BY XorWord
    <2>3. SymDiff(SymDiff(x, c), d) = SymDiff(x, SymDiff(c, d))
        BY XorAssoc
    <2>4. SymDiff(SymDiff(a, b), y) = SymDiff(a, SymDiff(b, y))
        BY XorAssoc
    <2> QED  BY <2>1, <2>2, <2>3, <2>4
<1>16. s[8] = SymDiff(SymDiff(SymDiff(SymDiff(SymDiff(a, SymDiff(b, SymDiff(c, d))), e), f), g), h)
    BY <1>1, <1>13, <1>15, Zenon
<1>17. FoldLeft(SymDiff, s[0], t) = s[8]
    BY <1>7, <1>12, Zenon
<1> QED  BY <1>10, <1>16, <1>17, Zenon DEF t, FoldIs

(* The polynomials are words. *)
LEMMA PolyInW == Crc32cPoly \in W /\ Crc32Poly \in W
<1>1. Word(E32[8]) \in W /\ Word(Ecrc32[8]) \in W
    BY WordIsWord
<1> QED  BY <1>1, PolyWord, Zenon

(* One more byte of the division, of a word after k bytes and another word. *)
LEMMA ZNext ==
    ASSUME NEW p \in W, NEW x \in W, NEW y \in W, NEW k \in 0 .. 7
    PROVE  Z(p, 1, SymDiff(Z(p, k, x), y)) = SymDiff(Z(p, k + 1, x), Z(p, 1, y))
<1>1. PICK u \in 0 .. 8 : u = 1
    OBVIOUS
<1>2. k \in 0 .. 8 /\ u + k <= 8 /\ u + k = k + 1
    BY <1>1
<1>3. PICK z \in W : z = Z(p, k, x)
    BY <1>2, ZWord
<1>4. Z(p, u, SymDiff(z, y)) = SymDiff(Z(p, u, z), Z(p, u, y))
    BY ZLinear, ZenonT(60)
<1>5. Z(p, u, Z(p, k, x)) = Z(p, u + k, x)
    BY <1>2, ZAdd, SMTT(60)
<1> QED  BY <1>1, <1>2, <1>3, <1>4, <1>5, Zenon

(* The words after each of eight bytes. *)
Eight(p, c, b, g) ==
    /\ \A j \in 1 .. 8 : b[j] \in Byte
    /\ \A j \in 0 .. 8 : g[j] \in W
    /\ g[0] = c
    /\ \A j \in 0 .. 7 : g[j + 1] = Z(p, 1, SymDiff(g[j], b[j + 1]))

FirstBytes(p, c, b, g) ==
    /\ b[1] \in Byte /\ b[2] \in Byte /\ b[3] \in Byte /\ b[4] \in Byte
    /\ g[0] = c /\ c \in W
    /\ g[1] = Z(p, 1, SymDiff(g[0], b[1])) /\ g[2] = Z(p, 1, SymDiff(g[1], b[2]))
    /\ g[3] = Z(p, 1, SymDiff(g[2], b[3])) /\ g[4] = Z(p, 1, SymDiff(g[3], b[4]))

LastBytes(p, b, g) ==
    /\ b[5] \in Byte /\ b[6] \in Byte /\ b[7] \in Byte /\ b[8] \in Byte
    /\ g[5] = Z(p, 1, SymDiff(g[4], b[5])) /\ g[6] = Z(p, 1, SymDiff(g[5], b[6]))
    /\ g[7] = Z(p, 1, SymDiff(g[6], b[7])) /\ g[8] = Z(p, 1, SymDiff(g[7], b[8]))

(* The same, byte by byte. *)
LEMMA EightFacts ==
    ASSUME NEW p, NEW c, NEW b, NEW g, Eight(p, c, b, g)
    PROVE  FirstBytes(p, c, b, g) /\ LastBytes(p, b, g)
<1>1. /\ b[1] \in Byte /\ b[2] \in Byte /\ b[3] \in Byte /\ b[4] \in Byte
      /\ b[5] \in Byte /\ b[6] \in Byte /\ b[7] \in Byte /\ b[8] \in Byte
    BY DEF Eight
<1>2. g[0] = c /\ c \in W
    BY DEF Eight
<1>3. /\ 0 \in 0 .. 7 /\ 1 \in 0 .. 7 /\ 2 \in 0 .. 7 /\ 3 \in 0 .. 7
      /\ 4 \in 0 .. 7 /\ 5 \in 0 .. 7 /\ 6 \in 0 .. 7 /\ 7 \in 0 .. 7
      /\ 0 + 1 = 1 /\ 1 + 1 = 2 /\ 2 + 1 = 3 /\ 3 + 1 = 4
      /\ 4 + 1 = 5 /\ 5 + 1 = 6 /\ 6 + 1 = 7 /\ 7 + 1 = 8
    OBVIOUS
<1>4. \A j \in 0 .. 7 : g[j + 1] = Z(p, 1, SymDiff(g[j], b[j + 1]))
    BY Zenon DEF Eight
<1>5. /\ g[1] = Z(p, 1, SymDiff(g[0], b[1])) /\ g[2] = Z(p, 1, SymDiff(g[1], b[2]))
      /\ g[3] = Z(p, 1, SymDiff(g[2], b[3])) /\ g[4] = Z(p, 1, SymDiff(g[3], b[4]))
    BY <1>3, <1>4
<1>6. /\ g[5] = Z(p, 1, SymDiff(g[4], b[5])) /\ g[6] = Z(p, 1, SymDiff(g[5], b[6]))
      /\ g[7] = Z(p, 1, SymDiff(g[6], b[7])) /\ g[8] = Z(p, 1, SymDiff(g[7], b[8]))
    BY <1>3, <1>4
<1> QED  BY <1>1, <1>2, <1>5, <1>6, Zenon DEF FirstBytes, LastBytes

-----------------------------------------------------------------------------
(* slice8 *)

(* Before any byte the word is itself. *)
LEMMA ZNone ==
    ASSUME NEW p \in W, NEW x \in W
    PROVE  Z(p, 0, x) = x
<1>1. 8 * 0 = 0
    OBVIOUS
<1>2. Steps(p)[0][x] = x
    BY StepsAt
<1> QED  BY <1>1, <1>2 DEF Z

(* The first four of eight bytes come in at once, as a word. *)
LEMMA FirstFour ==
    ASSUME NEW p \in W, NEW c, NEW b, NEW g, Eight(p, c, b, g)
    PROVE  g[4] = Z(p, 4, SymDiff(c, Load(b))) /\ SymDiff(c, Load(b)) \in W
<1> DEFINE v1 == SymDiff(c, Shl(b[1], 0))
           v2 == SymDiff(v1, Shl(b[2], 8))
           v3 == SymDiff(v2, Shl(b[3], 16))
           v4 == SymDiff(v3, Shl(b[4], 24))
<1>1. /\ b[1] \in Byte /\ b[2] \in Byte /\ b[3] \in Byte /\ b[4] \in Byte
      /\ g[0] = c /\ c \in W
      /\ g[1] = Z(p, 1, SymDiff(g[0], b[1])) /\ g[2] = Z(p, 1, SymDiff(g[1], b[2]))
      /\ g[3] = Z(p, 1, SymDiff(g[2], b[3])) /\ g[4] = Z(p, 1, SymDiff(g[3], b[4]))
    <2>1. FirstBytes(p, c, b, g)
        BY EightFacts, Zenon
    <2> QED  BY <2>1, Zenon DEF FirstBytes
<1>2. /\ 8 * 0 = 0 /\ 8 * 1 = 8 /\ 8 * 2 = 16 /\ 8 * 3 = 24
      /\ 0 + 1 = 1 /\ 1 + 1 = 2 /\ 2 + 1 = 3 /\ 3 + 1 = 4
      /\ 0 \in 0 .. 3 /\ 1 \in 0 .. 3 /\ 2 \in 0 .. 3 /\ 3 \in 0 .. 3
    OBVIOUS
<1>3. Z(p, 0, c) = c
    BY <1>1, ZNone
<1>4. \A v \in W : \A a \in Byte : \A k \in 0 .. 3 :
        /\ Z(p, 1, SymDiff(Z(p, k, v), a)) = Z(p, k + 1, SymDiff(v, Shl(a, 8 * k)))
        /\ SymDiff(v, Shl(a, 8 * k)) \in W
    BY ZUp
<1>5. /\ Z(p, 1, SymDiff(Z(p, 0, c), b[1])) = Z(p, 0 + 1, SymDiff(c, Shl(b[1], 8 * 0)))
      /\ SymDiff(c, Shl(b[1], 8 * 0)) \in W
    BY <1>1, <1>2, <1>4, Zenon
<1>6. g[1] = Z(p, 1, v1) /\ v1 \in W
    BY <1>1, <1>2, <1>3, <1>5
<1> HIDE DEF v1
<1>7. /\ Z(p, 1, SymDiff(Z(p, 1, v1), b[2])) = Z(p, 1 + 1, SymDiff(v1, Shl(b[2], 8 * 1)))
      /\ SymDiff(v1, Shl(b[2], 8 * 1)) \in W
    BY <1>1, <1>2, <1>4, <1>6, Zenon
<1>8. g[2] = Z(p, 2, v2) /\ v2 \in W
    BY <1>1, <1>2, <1>6, <1>7
<1> HIDE DEF v2
<1>9. /\ Z(p, 1, SymDiff(Z(p, 2, v2), b[3])) = Z(p, 2 + 1, SymDiff(v2, Shl(b[3], 8 * 2)))
      /\ SymDiff(v2, Shl(b[3], 8 * 2)) \in W
    BY <1>1, <1>2, <1>4, <1>8, Zenon
<1>10. g[3] = Z(p, 3, v3) /\ v3 \in W
    BY <1>1, <1>2, <1>8, <1>9
<1> HIDE DEF v3
<1>11. /\ Z(p, 1, SymDiff(Z(p, 3, v3), b[4])) = Z(p, 3 + 1, SymDiff(v3, Shl(b[4], 8 * 3)))
       /\ SymDiff(v3, Shl(b[4], 8 * 3)) \in W
    BY <1>1, <1>2, <1>4, <1>10, Zenon
<1>12. g[4] = Z(p, 4, v4) /\ v4 \in W
    BY <1>1, <1>2, <1>10, <1>11
<1>13. \A i \in 1 .. 4 : b[i] \in Byte
    BY DEF Eight
<1>14. SymDiff(c, Load(b)) = v4
    BY <1>13, LoadIs, Zenon DEF v1, v2, v3
<1> QED  BY <1>12, <1>14, Zenon

(* The last four are added one by one. *)
LastAdded(p, b, g, w) ==
    g[8] = SymDiff(SymDiff(SymDiff(SymDiff(Z(p, 8, w), Z(p, 4, b[5])), Z(p, 3, b[6])), Z(p, 2, b[7])), Z(p, 1, b[8]))

(* That is what they are. *)
LEMMA LastFour ==
    ASSUME NEW p \in W, NEW c, NEW b, NEW g, Eight(p, c, b, g), NEW w \in W, g[4] = Z(p, 4, w)
    PROVE  LastAdded(p, b, g, w)
<1>1. /\ b[5] \in W /\ b[6] \in W /\ b[7] \in W /\ b[8] \in W
      /\ g[5] = Z(p, 1, SymDiff(g[4], b[5])) /\ g[6] = Z(p, 1, SymDiff(g[5], b[6]))
      /\ g[7] = Z(p, 1, SymDiff(g[6], b[7])) /\ g[8] = Z(p, 1, SymDiff(g[7], b[8]))
    <2>1. /\ b[5] \in Byte /\ b[6] \in Byte /\ b[7] \in Byte /\ b[8] \in Byte
          /\ g[5] = Z(p, 1, SymDiff(g[4], b[5])) /\ g[6] = Z(p, 1, SymDiff(g[5], b[6]))
          /\ g[7] = Z(p, 1, SymDiff(g[6], b[7])) /\ g[8] = Z(p, 1, SymDiff(g[7], b[8]))
        <3>1. LastBytes(p, b, g)
            BY EightFacts, Zenon
        <3> QED  BY <3>1, Zenon DEF LastBytes
    <2> QED  BY <2>1, ByteWord
<1> DEFINE D(x) == Z(p, 1, x)
<1>2. \A x, y \in W : D(SymDiff(x, y)) = SymDiff(D(x), D(y))
    BY ZLinear, SMTT(60)
<1>3. \A x \in W : \A k \in 0 .. 7 : D(Z(p, k, x)) = Z(p, k + 1, x) /\ Z(p, k, x) \in W
    <2> SUFFICES ASSUME NEW x \in W, NEW k \in 0 .. 7
                 PROVE  D(Z(p, k, x)) = Z(p, k + 1, x) /\ Z(p, k, x) \in W
        OBVIOUS
    <2>1. PICK u \in 0 .. 8 : u = 1
        OBVIOUS
    <2>2. k \in 0 .. 8 /\ u + k <= 8 /\ u + k = k + 1
        BY <2>1
    <2>3. Z(p, u, Z(p, k, x)) = Z(p, u + k, x)
        BY <2>2, ZAdd, SMTT(60)
    <2>4. Z(p, k, x) \in W
        BY <2>2, ZWord
    <2> QED  BY <2>1, <2>2, <2>3, <2>4, Zenon
<1>4. \A x \in W : /\ D(x) \in W /\ D(x) = Z(p, 1, x)
                   /\ D(Z(p, 1, x)) = Z(p, 2, x) /\ Z(p, 2, x) \in W
                   /\ D(Z(p, 2, x)) = Z(p, 3, x) /\ Z(p, 3, x) \in W
                   /\ D(Z(p, 3, x)) = Z(p, 4, x) /\ Z(p, 4, x) \in W
                   /\ D(Z(p, 4, x)) = Z(p, 5, x) /\ Z(p, 5, x) \in W
                   /\ D(Z(p, 5, x)) = Z(p, 6, x) /\ Z(p, 6, x) \in W
                   /\ D(Z(p, 6, x)) = Z(p, 7, x) /\ Z(p, 7, x) \in W
                   /\ D(Z(p, 7, x)) = Z(p, 8, x)
    BY <1>3
<1> DEFINE a(k) == Z(p, k, w)
           q(k) == Z(p, k, b[5])
           r(k) == Z(p, k, b[6])
           s(k) == Z(p, k, b[7])
<1>5. /\ D(a(4)) = a(5) /\ D(a(5)) = a(6) /\ D(a(6)) = a(7) /\ D(a(7)) = a(8)
      /\ a(4) \in W /\ a(5) \in W /\ a(6) \in W /\ a(7) \in W
    BY <1>4
<1>6. /\ D(b[5]) = q(1) /\ D(q(1)) = q(2) /\ D(q(2)) = q(3) /\ D(q(3)) = q(4)
      /\ q(1) \in W /\ q(2) \in W /\ q(3) \in W
    BY <1>1, <1>4
<1>7. D(b[6]) = r(1) /\ D(r(1)) = r(2) /\ D(r(2)) = r(3) /\ r(1) \in W /\ r(2) \in W
    BY <1>1, <1>4
<1>8. D(b[7]) = s(1) /\ D(s(1)) = s(2) /\ s(1) \in W
    BY <1>1, <1>4
<1>9. /\ g[5] = D(SymDiff(a(4), b[5])) /\ g[6] = D(SymDiff(g[5], b[6]))
      /\ g[7] = D(SymDiff(g[6], b[7])) /\ g[8] = D(SymDiff(g[7], b[8]))
    BY <1>1, Zenon
<1> HIDE DEF D, a, q, r, s
<1>10. ASSUME NEW x \in W, NEW y \in W
       PROVE  D(SymDiff(x, y)) = SymDiff(D(x), D(y)) /\ SymDiff(x, y) \in W
    BY <1>2, XorWord
<1>11. g[5] = SymDiff(a(5), q(1))
    <2>1. D(SymDiff(a(4), b[5])) = SymDiff(D(a(4)), D(b[5]))
        BY <1>1, <1>5, <1>10, Zenon
    <2> QED  BY <1>5, <1>6, <1>9, <2>1, Zenon
<1>12. g[6] = SymDiff(SymDiff(a(6), q(2)), r(1))
    <2>1. D(SymDiff(a(5), q(1))) = SymDiff(a(6), q(2)) /\ SymDiff(a(5), q(1)) \in W
        BY <1>5, <1>6, <1>10
    <2>2. PICK x \in W : x = SymDiff(a(5), q(1))
        BY <2>1
    <2>3. D(SymDiff(x, b[6])) = SymDiff(D(x), D(b[6]))
        BY <1>1, <1>10, Zenon
    <2> QED  BY <1>7, <1>9, <1>11, <2>1, <2>2, <2>3, Zenon
<1>13. g[7] = SymDiff(SymDiff(SymDiff(a(7), q(3)), r(2)), s(1))
    <2>1. PICK x \in W : x = SymDiff(a(6), q(2)) /\ D(x) = SymDiff(a(7), q(3))
        BY <1>5, <1>6, <1>10
    <2>2. PICK y \in W : y = SymDiff(x, r(1)) /\ D(y) = SymDiff(D(x), r(2))
        BY <1>7, <1>10
    <2>3. D(SymDiff(y, b[7])) = SymDiff(D(y), D(b[7]))
        BY <1>1, <1>10, Zenon
    <2> QED  BY <1>8, <1>9, <1>12, <2>1, <2>2, <2>3, Zenon
<1>14. g[8] = SymDiff(SymDiff(SymDiff(SymDiff(a(8), q(4)), r(3)), s(2)), D(b[8]))
    <2>1. PICK x \in W : x = SymDiff(a(7), q(3)) /\ D(x) = SymDiff(a(8), q(4))
        BY <1>5, <1>6, <1>10
    <2>2. PICK y \in W : y = SymDiff(x, r(2)) /\ D(y) = SymDiff(D(x), r(3))
        BY <1>7, <1>10
    <2>3. PICK z \in W : z = SymDiff(y, s(1)) /\ D(z) = SymDiff(D(y), s(2))
        BY <1>8, <1>10
    <2>4. D(SymDiff(z, b[8])) = SymDiff(D(z), D(b[8]))
        BY <1>1, <1>10, Zenon
    <2> QED  BY <1>9, <1>13, <2>1, <2>2, <2>3, <2>4, Zenon
<1> QED  BY <1>14, Zenon DEF D, a, q, r, s, LastAdded

(* Eight bytes at once are the eight bytes one after the other. *)
LEMMA Slice8Is ==
    ASSUME NEW c, NEW b, NEW g, Eight(Crc32cPoly, c, b, g)
    PROVE  slice8(c, b) = g[8]
<1>1. PICK p \in W : p = Crc32cPoly
    BY PolyInW
<1>2. Eight(p, c, b, g)
    BY <1>1, Zenon
<1>3. PICK w \in W : w = SymDiff(c, Load(b)) /\ g[4] = Z(p, 4, w)
    BY <1>2, FirstFour, Zenon
<1>4. g[8] = SymDiff(SymDiff(SymDiff(SymDiff(Z(p, 8, w), Z(p, 4, b[5])), Z(p, 3, b[6])), Z(p, 2, b[7])), Z(p, 1, b[8]))
    <2>1. LastAdded(p, b, g, w)
        BY <1>2, <1>3, LastFour, Zenon
    <2> QED  BY <2>1, Zenon DEF LastAdded
<1>5. b[5] \in Byte /\ b[6] \in Byte /\ b[7] \in Byte /\ b[8] \in Byte
    <2>1. LastBytes(p, b, g)
        BY <1>2, EightFacts, Zenon
    <2> QED  BY <2>1, Zenon DEF LastBytes
<1>6. /\ LowByte(w) \in Byte /\ LowByte(Shr(w, 8)) \in Byte
      /\ LowByte(Shr(w, 16)) \in Byte /\ LowByte(Shr(w, 24)) \in Byte
    <2>1. Shr(w, 8) \in W /\ Shr(w, 16) \in W /\ Shr(w, 24) \in W
        BY ShrWord
    <2> QED  BY <2>1, ByteStep
<1>7. /\ 8 * 1 = 8 /\ 8 * 2 = 16 /\ 8 * 3 = 24 /\ 8 * 4 = 32
      /\ 8 * 5 = 40 /\ 8 * 6 = 48 /\ 8 * 7 = 56 /\ 8 * 8 = 64
    OBVIOUS
<1>8. ASSUME NEW x \in Byte
      PROVE  /\ sctp_crc_tableil8_o32[x] = Z(p, 1, x) /\ sctp_crc_tableil8_o40[x] = Z(p, 2, x)
             /\ sctp_crc_tableil8_o48[x] = Z(p, 3, x) /\ sctp_crc_tableil8_o56[x] = Z(p, 4, x)
             /\ sctp_crc_tableil8_o64[x] = Z(p, 5, x) /\ sctp_crc_tableil8_o72[x] = Z(p, 6, x)
             /\ sctp_crc_tableil8_o80[x] = Z(p, 7, x) /\ sctp_crc_tableil8_o88[x] = Z(p, 8, x)
    <2>1. /\ sctp_crc_tableil8_o32[x] = Steps(p)[8 * 1][x] /\ sctp_crc_tableil8_o40[x] = Steps(p)[8 * 2][x]
          /\ sctp_crc_tableil8_o48[x] = Steps(p)[8 * 3][x] /\ sctp_crc_tableil8_o56[x] = Steps(p)[8 * 4][x]
        BY <1>1, <1>7, <1>8, TablesRight DEF Looks
    <2>2. /\ sctp_crc_tableil8_o64[x] = Steps(p)[8 * 5][x] /\ sctp_crc_tableil8_o72[x] = Steps(p)[8 * 6][x]
          /\ sctp_crc_tableil8_o80[x] = Steps(p)[8 * 7][x] /\ sctp_crc_tableil8_o88[x] = Steps(p)[8 * 8][x]
        BY <1>1, <1>7, <1>8, TablesRight DEF Looks
    <2> QED  BY <2>1, <2>2, Zenon DEF Z
<1>9. ASSUME NEW x \in Byte, NEW k \in 0 .. 8 PROVE Z(p, k, x) \in W
    BY ByteWord, ZWord
<1> DEFINE T(k, x) == Z(p, k, x)
<1>10. slice8(c, b) = FoldLeft(SymDiff, {}, << T(8, LowByte(w)), T(7, LowByte(Shr(w, 8))),
                         T(6, LowByte(Shr(w, 16))), T(5, LowByte(Shr(w, 24))),
                         T(4, b[5]), T(3, b[6]), T(2, b[7]), T(1, b[8]) >>)
    <2>1. w = SymDiff(c, UNION {Shl(b[i], 8 * (i - 1)) : i \in 1 .. 4})
        BY <1>3, Zenon DEF Load
    <2>2. slice8(c, b) = FoldLeft(SymDiff, {}, << sctp_crc_tableil8_o88[LowByte(w)],
                    sctp_crc_tableil8_o80[LowByte(Shr(w, 8))],
                    sctp_crc_tableil8_o72[LowByte(Shr(w, 16))],
                    sctp_crc_tableil8_o64[LowByte(Shr(w, 24))],
                    sctp_crc_tableil8_o56[b[5]], sctp_crc_tableil8_o48[b[6]],
                    sctp_crc_tableil8_o40[b[7]], sctp_crc_tableil8_o32[b[8]] >>)
        BY <2>1, Zenon DEF slice8
    <2>3. /\ sctp_crc_tableil8_o88[LowByte(w)] = T(8, LowByte(w))
          /\ sctp_crc_tableil8_o80[LowByte(Shr(w, 8))] = T(7, LowByte(Shr(w, 8)))
          /\ sctp_crc_tableil8_o72[LowByte(Shr(w, 16))] = T(6, LowByte(Shr(w, 16)))
          /\ sctp_crc_tableil8_o64[LowByte(Shr(w, 24))] = T(5, LowByte(Shr(w, 24)))
          /\ sctp_crc_tableil8_o56[b[5]] = T(4, b[5]) /\ sctp_crc_tableil8_o48[b[6]] = T(3, b[6])
          /\ sctp_crc_tableil8_o40[b[7]] = T(2, b[7]) /\ sctp_crc_tableil8_o32[b[8]] = T(1, b[8])
        BY <1>5, <1>6, <1>8, Zenon
    <2> HIDE DEF T
    <2> QED  BY <2>2, <2>3, Zenon
<1>11. PICK k1 \in W, k2 \in W, k3 \in W, k4 \in W, k5 \in W, k6 \in W, k7 \in W, k8 \in W :
         /\ k1 = T(1, b[8]) /\ k2 = T(2, b[7]) /\ k3 = T(3, b[6]) /\ k4 = T(4, b[5])
         /\ k5 = T(5, LowByte(Shr(w, 24))) /\ k6 = T(6, LowByte(Shr(w, 16)))
         /\ k7 = T(7, LowByte(Shr(w, 8))) /\ k8 = T(8, LowByte(w))
    <2>1. /\ T(1, b[8]) \in W /\ T(2, b[7]) \in W /\ T(3, b[6]) \in W /\ T(4, b[5]) \in W
          /\ T(5, LowByte(Shr(w, 24))) \in W /\ T(6, LowByte(Shr(w, 16))) \in W
          /\ T(7, LowByte(Shr(w, 8))) \in W /\ T(8, LowByte(w)) \in W
        BY <1>5, <1>6, <1>9
    <2> HIDE DEF T
    <2> QED  BY <2>1, Zenon
<1>12. FoldLeft(SymDiff, {}, <<k8, k7, k6, k5, k4, k3, k2, k1>>)
         = SymDiff(SymDiff(SymDiff(SymDiff(SymDiff(k8, SymDiff(k7, SymDiff(k6, k5))), k4), k3), k2), k1)
    <2>1. FoldIs(k8, k7, k6, k5, k4, k3, k2, k1)
        BY FoldEight, Zenon
    <2> QED  BY <2>1, Zenon DEF FoldIs
<1>13. Z(p, 8, w) = SymDiff(k8, SymDiff(k7, SymDiff(k6, k5)))
    BY <1>11, FourDown, ZenonT(60)
<1>14. g[8] = SymDiff(SymDiff(SymDiff(SymDiff(SymDiff(k8, SymDiff(k7, SymDiff(k6, k5))), k4), k3), k2), k1)
    BY <1>4, <1>11, <1>13, Zenon
<1>15. slice8(c, b) = FoldLeft(SymDiff, {}, <<k8, k7, k6, k5, k4, k3, k2, k1>>)
    <2> HIDE DEF T
    <2> QED  BY <1>10, <1>11, Zenon
<1> QED  BY <1>12, <1>14, <1>15, Zenon

-----------------------------------------------------------------------------
(* The loops compute the division *)

(* What a division leaves is a word. *)
LEMMA RemainderWord ==
    ASSUME NEW p \in W, NEW c \in W, NEW data \in Seq(Byte)
    PROVE  Remainder(p, c, data) \in W
<1>1. PICK f : Bytewise(p, c, data, f)
    BY BytewiseExists, Zenon
<1>2. Remainder(p, c, data) = f[Len(data)]
    BY <1>1, RemainderBytes, Zenon
<1>3. f \in [0 .. Len(data) -> W] /\ Len(data) \in Nat
    BY <1>1, LenProperties DEF Bytewise
<1> QED  BY <1>2, <1>3

(* A byte at a time through the table is the division. *)
LEMMA UpdatesAll ==
    ASSUME NEW table, NEW p \in W, Looks(table, p, 8), NEW c \in W, NEW data \in Seq(Byte),
           NEW f, Bytewise(p, c, data, f)
    PROVE  Updates(table, c, data) = f[Len(data)]
<1>1. /\ Len(data) \in Nat
      /\ \A j \in 1 .. Len(data) : data[j] \in Byte
    BY LenProperties, ElementOfSeq
<1>2. /\ f \in [0 .. Len(data) -> W] /\ f[0] = c
      /\ \A j \in 1 .. Len(data) : f[j] = Steps(p)[8][SymDiff(f[j - 1], data[j])]
    BY Zenon DEF Bytewise
<1>3. ASSUME NEW x \in W, NEW j \in 1 .. Len(data)
      PROVE  update(table, x, data[j]) = Steps(p)[8][SymDiff(x, data[j])]
    <2>1. data[j] \in Byte
        BY <1>1, Zenon
    <2> QED  BY <2>1, UpdateIs, Zenon
<1>4. ASSUME NEW x \in W, NEW j \in 1 .. Len(data)
      PROVE  update(table, x, data[j]) \in W
    <2>1. SymDiff(x, data[j]) \in W
        BY <1>1, ByteWord, XorWord
    <2>2. 8 \in 0 .. 64
        OBVIOUS
    <2>3. Steps(p)[8][SymDiff(x, data[j])] \in W
        BY <2>1, <2>2, StepsAt
    <2> QED  BY <1>3, <2>3, Zenon
<1>5. ASSUME NEW j \in 1 .. Len(data) PROVE f[j] = update(table, f[j - 1], data[j])
    <2>1. j - 1 \in 0 .. Len(data)
        BY <1>1
    <2>2. f[j - 1] \in W
        BY <1>2, <2>1
    <2> QED  BY <1>2, <1>3, <2>2, Zenon
<1>6. Updates(table, f[0], data) = f[Len(data)]
    <2>1. /\ f \in [0 .. Len(data) -> W]
          /\ \A x \in W : \A j \in 1 .. Len(data) : update(table, x, data[j]) \in W
          /\ \A j \in 1 .. Len(data) : f[j] = update(table, f[j - 1], data[j])
        BY <1>2, <1>4, <1>5, Zenon
    <2> QED  BY <2>1, UpdatesIs
<1> QED  BY <1>2, <1>6, Zenon

(* And so it is from any byte of the data to any later one. *)
LEMMA UpdatesPart ==
    ASSUME NEW table, NEW p \in W, Looks(table, p, 8), NEW c \in W, NEW data \in Seq(Byte),
           NEW f, Bytewise(p, c, data, f), NEW i \in 0 .. Len(data), NEW j \in i .. Len(data)
    PROVE  Updates(table, f[i], SubSeq(data, i + 1, j)) = f[j]
<1> DEFINE d == SubSeq(data, i + 1, j)
           g == [k \in 0 .. j - i |-> f[i + k]]
<1>1. Len(data) \in Nat /\ i \in Nat /\ j \in Nat /\ i <= j
    BY LenProperties
<1>2. d \in Seq(Byte) /\ Len(d) = j - i /\ Bytewise(p, f[i], d, g)
    BY BytewisePart
<1>3. f[i] \in W
    BY DEF Bytewise
<1>4. g[j - i] = f[j]
    BY <1>1
<1> HIDE DEF d, g
<1>5. Updates(table, f[i], d) = g[Len(d)]
    BY <1>2, <1>3, UpdatesAll
<1> QED  BY <1>2, <1>4, <1>5, Zenon DEF d

(* Eight bytes of the data are taken by slice8. *)
LEMMA EightBytes ==
    ASSUME NEW c \in W, NEW b \in Seq(Byte), Len(b) = 8, NEW g, Bytewise(Crc32cPoly, c, b, g)
    PROVE  slice8(c, b) = g[8] /\ g[8] \in W
<1>1. PICK p : p = Crc32cPoly
    OBVIOUS
<1>2. Bytewise(p, c, b, g)
    BY <1>1, Zenon
<1>3. \A j \in 1 .. 8 : b[j] \in Byte
    BY ElementOfSeq
<1>4. /\ \A j \in 0 .. 8 : g[j] \in W
      /\ g[0] = c
      /\ \A j \in 1 .. 8 : g[j] = Steps(p)[8][SymDiff(g[j - 1], b[j])]
    BY <1>2 DEF Bytewise
<1>5. ASSUME NEW j \in 0 .. 7 PROVE g[j + 1] = Z(p, 1, SymDiff(g[j], b[j + 1]))
    <2>1. 8 * 1 = 8 /\ j + 1 \in 1 .. 8 /\ (j + 1) - 1 = j
        OBVIOUS
    <2>2. g[j + 1] = Steps(p)[8][SymDiff(g[(j + 1) - 1], b[j + 1])]
        BY <1>4, <2>1, Zenon
    <2> QED  BY <2>1, <2>2 DEF Z
<1>6. Eight(p, c, b, g)
    BY <1>3, <1>4, <1>5, Zenon DEF Eight
<1>7. slice8(c, b) = g[8]
    BY <1>1, <1>6, Slice8Is, Zenon
<1> QED  BY <1>4, <1>7

(* The groups of eight one after the other. *)
LEMMA SlicesPart ==
    ASSUME NEW c \in W, NEW data \in Seq(Byte), NEW f, Bytewise(Crc32cPoly, c, data, f),
           NEW skip \in Nat, NEW m \in Nat, skip + 8 * m <= Len(data)
    PROVE  Slices(f[skip], data, skip, [n \in 1 .. m |-> n]) = f[skip + 8 * m]
<1> DEFINE t == [n \in 1 .. m |-> n]
           h == [k \in 0 .. m |-> f[skip + 8 * k]]
<1>1. PICK p \in W : p = Crc32cPoly
    BY PolyInW
<1>2. Bytewise(p, c, data, f)
    BY <1>1, Zenon
<1>3. Len(data) \in Nat /\ f \in [0 .. Len(data) -> W]
    BY <1>2, LenProperties DEF Bytewise
<1>4. h \in [0 .. m -> W]
    <2>1. \A k \in 0 .. m : f[skip + 8 * k] \in W
        BY <1>3
    <2> QED  BY <2>1
<1>5. ASSUME NEW j \in 1 .. m
      PROVE  /\ Group(data, skip, 8, j) \in Seq(Byte) /\ Len(Group(data, skip, 8, j)) = 8
             /\ f[skip + 8 * j] = slice8(f[skip + 8 * (j - 1)], Group(data, skip, 8, j))
    <2>1. PICK i \in 0 .. Len(data), k \in 0 .. Len(data) : i = skip + 8 * (j - 1) /\ k = skip + 8 * j
        BY <1>3
    <2>2. k - i = 8 /\ i + 8 = k
        BY <1>3, <2>1
    <2>0. k \in i .. Len(data)
        BY <1>3, <2>1
    <2> DEFINE b == SubSeq(data, i + 1, k)
               g == [n \in 0 .. k - i |-> f[i + n]]
    <2>3. b \in Seq(Byte) /\ Len(b) = k - i /\ Bytewise(p, f[i], b, g)
        BY <1>2, <2>0, BytewisePart
    <2>4. g[8] = f[k]
        BY <2>2
    <2>5. f[i] \in W
        BY <1>3
    <2>6. b = Group(data, skip, 8, j)
        BY <2>1, Zenon DEF Group
    <2> HIDE DEF b, g
    <2>7. Len(b) = 8
        BY <2>2, <2>3, Zenon
    <2>8. slice8(f[i], b) = g[8]
        BY <1>1, <2>3, <2>5, <2>7, EightBytes, Zenon
    <2> QED  BY <2>1, <2>3, <2>4, <2>6, <2>7, <2>8, Zenon
<1>6. ASSUME NEW x \in W, NEW j \in 1 .. m
      PROVE  slice8(x, Group(data, skip, 8, t[j])) \in W
    <2>1. PICK b \in Seq(Byte) : b = Group(data, skip, 8, j) /\ Len(b) = 8
        BY <1>5, Zenon
    <2>2. PICK g : Bytewise(p, x, b, g)
        BY BytewiseExists, Zenon
    <2>3. slice8(x, b) \in W
        BY <1>1, <2>1, <2>2, EightBytes, Zenon
    <2>4. t[j] = j
        OBVIOUS
    <2> QED  BY <2>1, <2>3, <2>4, Zenon
<1>7. ASSUME NEW j \in 1 .. m
      PROVE  h[j] = slice8(h[j - 1], Group(data, skip, 8, t[j]))
    <2>1. h[j] = f[skip + 8 * j] /\ h[j - 1] = f[skip + 8 * (j - 1)] /\ t[j] = j
        OBVIOUS
    <2> QED  BY <1>5, <2>1, Zenon
<1>8. DOMAIN t = 1 .. m
    OBVIOUS
<1>9. h[0] = f[skip] /\ h[m] = f[skip + 8 * m]
    OBVIOUS
<1> HIDE DEF t, h
<1>10. Slices(h[0], data, skip, t) = h[m]
    <2>1. /\ \A x \in W : \A j \in 1 .. m : slice8(x, Group(data, skip, 8, t[j])) \in W
          /\ \A j \in 1 .. m : h[j] = slice8(h[j - 1], Group(data, skip, 8, t[j]))
        BY <1>6, <1>7, Zenon
    <2>2. IsSlices(data, skip, m, t, h)
        BY <1>4, <1>8, <2>1, Zenon DEF IsSlices
    <2>3. SlicesTo(data, skip, m, t, h)
        BY <2>2, SlicesIs, Zenon
    <2> QED  BY <2>3, Zenon DEF SlicesTo
<1> QED  BY <1>9, <1>10, Zenon DEF t

(* The instruction a word at a time. *)
LEMMA HwWordsPart ==
    ASSUME NEW c \in W, NEW data \in Seq(Byte), NEW f, Bytewise(Crc32cPoly, c, data, f),
           NEW m \in Nat, LongSize * m <= Len(data)
    PROVE  HwWords(c, data, [n \in 1 .. m |-> n]) = f[LongSize * m]
<1> DEFINE t == [n \in 1 .. m |-> n]
           L == LongSize
           h == [k \in 0 .. m |-> f[L * k]]
<1>1. PICK p \in W : p = Crc32cPoly
    BY PolyInW
<1>2. Bytewise(p, c, data, f)
    BY <1>1, Zenon
<1>3. Len(data) \in Nat /\ f \in [0 .. Len(data) -> W] /\ f[0] = c
    BY <1>2, LenProperties DEF Bytewise
<1>4. L = 4 \/ L = 8
    BY CrcAssumption
<1> HIDE DEF L
<1>5. ASSUME NEW k \in 0 .. m PROVE L * k \in 0 .. Len(data)
    <2>1. L * m <= Len(data)
        BY DEF L
    <2> QED  BY <1>3, <1>4, <2>1
<1>6. h \in [0 .. m -> W]
    <2>1. \A k \in 0 .. m : f[L * k] \in W
        BY <1>3, <1>5
    <2> QED  BY <2>1
<1>7. ASSUME NEW j \in 1 .. m
      PROVE  /\ Group(data, 0, L, j) \in Seq(Byte)
             /\ f[L * j] = crc32_instr(f[L * (j - 1)], Group(data, 0, L, j))
    <2>1. L * (j - 1) \in 0 .. Len(data) /\ L * j \in 0 .. Len(data)
        BY <1>5
    <2>2. L * (j - 1) <= L * j /\ 0 + L * (j - 1) = L * (j - 1) /\ 0 + L * j = L * j
        BY <1>4
    <2>3. PICK i \in 0 .. Len(data), k \in 0 .. Len(data) : i = L * (j - 1) /\ k = L * j
        BY <2>1
    <2>4. k \in i .. Len(data)
        BY <1>3, <2>2, <2>3
    <2>5. SubSeq(data, i + 1, k) = Group(data, 0, L, j)
        BY <2>2, <2>3, Zenon DEF Group
    <2>6. SubSeq(data, i + 1, k) \in Seq(Byte)
        BY <1>2, <2>4, BytewisePart
    <2>7. Remainder(p, f[i], SubSeq(data, i + 1, k)) = f[k]
        BY <1>2, <2>4, RemainderPart
    <2> QED  BY <1>1, <2>3, <2>5, <2>6, <2>7, Zenon DEF crc32_instr
<1>8. ASSUME NEW x \in W, NEW j \in 1 .. m
      PROVE  crc32_instr(x, Group(data, 0, L, t[j])) \in W
    <2>1. t[j] = j
        OBVIOUS
    <2>2. PICK b \in Seq(Byte) : b = Group(data, 0, L, j)
        BY <1>7, Zenon
    <2>3. Remainder(p, x, b) \in W
        BY RemainderWord, Zenon
    <2> QED  BY <1>1, <2>1, <2>2, <2>3, Zenon DEF crc32_instr
<1>9. ASSUME NEW j \in 1 .. m
      PROVE  h[j] = crc32_instr(h[j - 1], Group(data, 0, L, t[j]))
    <2>1. h[j] = f[L * j] /\ h[j - 1] = f[L * (j - 1)] /\ t[j] = j
        OBVIOUS
    <2> QED  BY <1>7, <2>1, Zenon
<1>10. DOMAIN t = 1 .. m
    OBVIOUS
<1>11. h[0] = f[0] /\ h[m] = f[L * m]
    <2>1. L * 0 = 0
        BY <1>4
    <2> QED  BY <2>1
<1> HIDE DEF t, h
<1>12. HwWords(h[0], data, t) = h[m]
    <2>1. /\ \A x \in W : \A j \in 1 .. m : crc32_instr(x, Group(data, 0, LongSize, t[j])) \in W
          /\ \A j \in 1 .. m : h[j] = crc32_instr(h[j - 1], Group(data, 0, LongSize, t[j]))
        BY <1>8, <1>9, Zenon DEF L
    <2> QED  BY <1>6, <1>10, <2>1, HwWordsIs, SMTT(60)
<1> QED  BY <1>3, <1>11, <1>12, Zenon DEF t, L

(* The instruction a byte at a time. *)
LEMMA HwBytesAll ==
    ASSUME NEW c \in W, NEW data \in Seq(Byte), NEW f, Bytewise(Crc32cPoly, c, data, f)
    PROVE  HwBytes(c, data) = f[Len(data)]
<1>1. PICK p \in W : p = Crc32cPoly
    BY PolyInW
<1>2. Bytewise(p, c, data, f)
    BY <1>1, Zenon
<1>3. Len(data) \in Nat /\ f \in [0 .. Len(data) -> W] /\ f[0] = c
    BY <1>2, LenProperties DEF Bytewise
<1>4. ASSUME NEW j \in 1 .. Len(data)
      PROVE  SubSeq(data, (j - 1) + 1, j) = <<data[j]>> /\ <<data[j]>> \in Seq(Byte)
    <2>1. data[j] \in Byte
        BY ElementOfSeq
    <2>2. (j - 1) + 1 = j
        OBVIOUS
    <2>3. SubSeq(data, j, j) = <<data[j]>>
        BY <1>3
    <2> QED  BY <2>1, <2>2, <2>3
<1>5. ASSUME NEW j \in 1 .. Len(data)
      PROVE  f[j] = crc32_instr(f[j - 1], <<data[j]>>)
    <2>1. PICK i \in 0 .. Len(data) : i = j - 1
        BY <1>3
    <2>2. j \in i .. Len(data)
        BY <1>3, <2>1
    <2>3. Remainder(p, f[i], SubSeq(data, i + 1, j)) = f[j]
        BY <1>2, <2>2, RemainderPart
    <2> QED  BY <1>1, <1>4, <2>1, <2>3, Zenon DEF crc32_instr
<1>6. ASSUME NEW x \in W, NEW j \in 1 .. Len(data)
      PROVE  crc32_instr(x, <<data[j]>>) \in W
    <2>1. PICK b \in Seq(Byte) : b = <<data[j]>>
        BY <1>4, Zenon
    <2>2. Remainder(p, x, b) \in W
        BY RemainderWord, Zenon
    <2> QED  BY <1>1, <2>1, <2>2, Zenon DEF crc32_instr
<1>7. HwBytes(f[0], data) = f[Len(data)]
    <2>1. /\ \A x \in W : \A j \in 1 .. Len(data) : crc32_instr(x, <<data[j]>>) \in W
          /\ \A j \in 1 .. Len(data) : f[j] = crc32_instr(f[j - 1], <<data[j]>>)
        BY <1>5, <1>6, Zenon
    <2> QED  BY <1>3, <2>1, HwBytesIs
<1> QED  BY <1>3, <1>7, Zenon

(* And so for the bytes that are left over. *)
LEMMA HwBytesPart ==
    ASSUME NEW c \in W, NEW data \in Seq(Byte), NEW f, Bytewise(Crc32cPoly, c, data, f),
           NEW i \in 0 .. Len(data)
    PROVE  HwBytes(f[i], SubSeq(data, i + 1, Len(data))) = f[Len(data)]
<1> DEFINE j == Len(data)
           d == SubSeq(data, i + 1, j)
           g == [k \in 0 .. j - i |-> f[i + k]]
<1>1. j \in Nat /\ j \in i .. Len(data)
    BY LenProperties
<1>2. d \in Seq(Byte) /\ Len(d) = j - i /\ Bytewise(Crc32cPoly, f[i], d, g)
    BY <1>1, BytewisePart
<1>3. f[i] \in W
    BY DEF Bytewise
<1>4. g[j - i] = f[j]
    BY <1>1
<1> HIDE DEF d, g
<1>5. HwBytes(f[i], d) = g[Len(d)]
    BY <1>2, <1>3, HwBytesAll, Zenon
<1> QED  BY <1>2, <1>4, <1>5, Zenon DEF d

-----------------------------------------------------------------------------
(* The routines compute the remainder *)

(* The byte loop of a table over the whole data is the division. *)
LEMMA UpdatesRemainder ==
    ASSUME NEW table, NEW p \in W, Looks(table, p, 8), NEW c \in W, NEW data \in Seq(Byte)
    PROVE  Updates(table, c, data) = Remainder(p, c, data)
<1>1. PICK f : Bytewise(p, c, data, f)
    BY BytewiseExists, Zenon
<1>2. Updates(table, c, data) = f[Len(data)]
    BY <1>1, UpdatesAll
<1>3. Remainder(p, c, data) = f[Len(data)]
    BY <1>1, RemainderBytes, Zenon
<1> QED  BY <1>2, <1>3, Zenon

(* The routine for short buffers computes the remainder. *)
LEMMA SingletableRemainder ==
    ASSUME NEW c \in W, NEW data \in Seq(Byte)
    PROVE  singletable_crc32c(c, data) = Remainder(Crc32cPoly, c, data)
<1>1. singletable_crc32c(c, data) = Updates(crc32c_table, c, data)
    BY Zenon DEF singletable_crc32c, Updates, FoldLeft, MapThenFoldSet
<1>2. Looks(crc32c_table, Crc32cPoly, 8) /\ Crc32cPoly \in W
    BY TablesRight, PolyInW, Zenon
<1>3. Updates(crc32c_table, c, data) = Remainder(Crc32cPoly, c, data)
    BY <1>2, UpdatesRemainder
<1> QED  BY <1>1, <1>3, Zenon

(* So does crc32, by its own table. *)
LEMMA Crc32Remainder ==
    ASSUME NEW data \in Seq(Byte)
    PROVE  crc32(data) = SymDiff(Remainder(Crc32Poly, Ones, data), Ones)
<1>1. crc32(data) = SymDiff(Updates(crc32_table, Ones, data), Ones)
    BY Zenon DEF crc32, Updates, FoldLeft, MapThenFoldSet
<1>2. Looks(crc32_table, Crc32Poly, 8) /\ Crc32Poly \in W
    BY TablesRight, PolyInW, Zenon
<1>3. Ones \in W
    BY DEF Ones, W
<1>4. Updates(crc32_table, Ones, data) = Remainder(Crc32Poly, Ones, data)
    BY <1>2, <1>3, UpdatesRemainder
<1> QED  BY <1>1, <1>4, Zenon

(* Groups of a given size fit what is left of the data. *)
LEMMA GroupsFit ==
    ASSUME NEW n \in Nat, NEW s \in {4, 8}
    PROVE  n \div s \in Nat /\ s * (n \div s) <= n /\ (n \div s) * s = s * (n \div s)
<1>1. CASE s = 4
    BY <1>1
<1>2. CASE s = 8
    BY <1>2
<1> QED  BY <1>1, <1>2

(* So does slicing by eight, wherever the groups of eight start. *)
LEMMA Sb8Remainder ==
    ASSUME NEW c \in W, NEW data \in Seq(Byte), NEW init \in 0 .. Len(data)
    PROVE  crc32c_sb8_64_bit(c, data, init) = Remainder(Crc32cPoly, c, data)
<1> DEFINE q == (Len(data) - init) \div 8
           t == sctp_crc_tableil8_o32
<1>1. PICK f : Bytewise(Crc32cPoly, c, data, f)
    BY BytewiseExists, PolyInW
<1>2. Len(data) \in Nat /\ Len(data) - init \in Nat /\ init \in Nat
    BY LenProperties
<1>3. q \in Nat /\ 8 * q <= Len(data) - init
    BY <1>2, GroupsFit
<1>4. f[0] = c
    BY <1>1 DEF Bytewise
<1>5. crc32c_sb8_64_bit(c, data, init)
        = Updates(t, Slices(Updates(t, c, SubSeq(data, 1, init)), data, init, [n \in 1 .. q |-> n]),
                  SubSeq(data, init + 8 * q + 1, Len(data)))
    BY Zenon DEF crc32c_sb8_64_bit, Updates, Slices, FoldLeft, MapThenFoldSet
<1> HIDE DEF q, t
<1>6. Looks(t, Crc32cPoly, 8) /\ Crc32cPoly \in W
    BY TablesRight, PolyInW, Zenon DEF t
<1>7. Updates(t, c, SubSeq(data, 1, init)) = f[init]
    <2>1. PICK z \in 0 .. Len(data) : z = 0
        BY <1>2
    <2>2. init \in z .. Len(data) /\ z + 1 = 1
        BY <1>2, <2>1
    <2>3. Updates(t, f[z], SubSeq(data, z + 1, init)) = f[init]
        BY <1>1, <1>6, <2>2, UpdatesPart
    <2> QED  BY <1>4, <2>1, <2>2, <2>3
<1>8. Slices(f[init], data, init, [n \in 1 .. q |-> n]) = f[init + 8 * q]
    <2>1. init + 8 * q <= Len(data)
        BY <1>2, <1>3
    <2> QED  BY <1>1, <1>2, <1>3, <2>1, SlicesPart
<1>9. Updates(t, f[init + 8 * q], SubSeq(data, init + 8 * q + 1, Len(data))) = f[Len(data)]
    <2>1. PICK i \in 0 .. Len(data) : i = init + 8 * q
        BY <1>2, <1>3
    <2>2. PICK j \in i .. Len(data) : j = Len(data)
        BY <1>2
    <2>3. Updates(t, f[i], SubSeq(data, i + 1, j)) = f[j]
        BY <1>1, <1>6, UpdatesPart
    <2> QED  BY <2>1, <2>2, <2>3, Zenon
<1>10. Remainder(Crc32cPoly, c, data) = f[Len(data)]
    BY <1>1, <1>6, RemainderBytes, Zenon
<1> QED  BY <1>5, <1>7, <1>8, <1>9, <1>10, Zenon

(* crc32c, wherever the buffer lies. *)
LEMMA Crc32cRemainder ==
    ASSUME NEW c \in W, NEW data \in Seq(Byte), NEW a \in Nat
    PROVE  crc32c(c, data, a) = Remainder(Crc32cPoly, c, data)
<1>1. Len(data) \in Nat
    BY LenProperties
<1>2. CASE Len(data) < 4
    BY <1>2, SingletableRemainder, Zenon DEF crc32c
<1>3. CASE ~ (Len(data) < 4)
    <2>1. data # << >>
        BY <1>3
    <2>2. to_even_word(a) \in 0 .. Len(data)
        BY <1>1, <1>3 DEF to_even_word
    <2>3. crc32c(c, data, a) = crc32c_sb8_64_bit(c, data, to_even_word(a))
        BY <1>3, <2>1, Zenon DEF crc32c, multitable_crc32c
    <2> QED  BY <2>2, <2>3, Sb8Remainder, Zenon
<1> QED  BY <1>2, <1>3, Zenon

(* So does the hardware routine, for either size of a word. *)
LEMMA HwRemainder ==
    ASSUME NEW c \in W, NEW data \in Seq(Byte)
    PROVE  crc32c_hw(c, data) = Remainder(Crc32cPoly, c, data)
<1> DEFINE q == Len(data) \div LongSize
<1>1. PICK f : Bytewise(Crc32cPoly, c, data, f)
    BY BytewiseExists, PolyInW
<1>2. Len(data) \in Nat /\ LongSize \in {4, 8}
    BY LenProperties, CrcAssumption
<1>3. q \in Nat /\ LongSize * q <= Len(data) /\ q * LongSize = LongSize * q
    BY <1>2, GroupsFit
<1>4. crc32c_hw(c, data)
        = HwBytes(HwWords(c, data, [n \in 1 .. q |-> n]), SubSeq(data, q * LongSize + 1, Len(data)))
    BY Zenon DEF crc32c_hw, HwBytes, HwWords, FoldLeft, MapThenFoldSet
<1> HIDE DEF q
<1>5. HwWords(c, data, [n \in 1 .. q |-> n]) = f[LongSize * q]
    BY <1>1, <1>3, HwWordsPart
<1>6. PICK i \in 0 .. Len(data) : i = q * LongSize
    <2>1. CASE LongSize = 4
        BY <1>2, <1>3, <2>1
    <2>2. CASE LongSize = 8
        BY <1>2, <1>3, <2>2
    <2> QED  BY <1>2, <2>1, <2>2
<1>7. HwBytes(f[i], SubSeq(data, i + 1, Len(data))) = f[Len(data)]
    BY <1>1, HwBytesPart
<1>8. Crc32cPoly \in W
    BY PolyInW, Zenon
<1>9. Remainder(Crc32cPoly, c, data) = f[Len(data)]
    BY <1>1, <1>8, RemainderBytes, Zenon
<1> QED  BY <1>3, <1>4, <1>5, <1>6, <1>7, <1>9, Zenon

-----------------------------------------------------------------------------
(* The programs *)

(* The first word boundary past an address, and every fourth byte from it. *)
LEMMA WordBoundary ==
    ASSUME NEW a \in Nat, NEW k \in Nat
    PROVE  to_even_word(a) \in 1 .. 4 /\ (a + to_even_word(a) + 4 * k) % 4 = 0
BY DEF to_even_word

(* Two words for each group of eight bytes that is left fit the buffer. *)
LEMMA WordsFit ==
    ASSUME NEW n \in Nat, NEW init \in 1 .. 4, n >= 4, NEW k \in 0 .. 2 * ((n - init) \div 8) - 1
    PROVE  init + 4 * k + 4 <= n
<1>1. n - init \in Nat
    OBVIOUS
<1>2. (n - init) \div 8 \in Int /\ 8 * ((n - init) \div 8) <= n - init
    BY <1>1
<1>3. PICK q \in Int : q = (n - init) \div 8 /\ 8 * q <= n - init
    BY <1>2
<1>4. k \in Int /\ k <= 2 * q - 1
    BY <1>3
<1> QED  BY <1>3, <1>4

(* A buffer is a sequence of bytes, wherever it lies, and the first crc a word. *)
BufferOK == buf.data \in Seq(Byte) /\ buf.addr \in Nat /\ buf.crc \in W

(* The buffers tried are sequences of bytes, their first crcs words. *)
LEMMA BuffersAreSequences ==
    ASSUME NEW n \in Nat, NEW b \in Buffers(n)
    PROVE  b[1] \in Seq(Byte) /\ b[2] \in W
<1> DEFINE zeros == [i \in 1 .. n |-> {}]
<1>1. zeros \in [1 .. n -> Byte]
    BY DEF Byte
<1> DEFINE bit(p) == [zeros EXCEPT ![p[1]] = {p[2]}]
           bits == {bit(p) : p \in (1 .. n) \X (0 .. 7)}
<1>2. ASSUME NEW p \in (1 .. n) \X (0 .. 7) PROVE bit(p) \in [1 .. n -> Byte]
    <2>1. {p[2]} \in Byte /\ p[1] \in 1 .. n
        BY DEF Byte
    <2> QED  BY <1>1, <2>1
<1>3. bits \subseteq [1 .. n -> Byte]
    BY <1>2, ZenonT(30)
<1>4. Buffers(n) = {<<zeros, {}>>} \cup (bits \X {{}}) \cup ({zeros} \X {{c} : c \in Ones})
    BY DEF Buffers
<1> HIDE DEF zeros, bits
<1>5. b[1] = zeros \/ b[1] \in bits
    BY <1>4
<1>6. b[1] \in [1 .. n -> Byte]
    BY <1>1, <1>3, <1>5
<1>7. b[2] = {} \/ b[2] \in {{c} : c \in Ones}
    BY <1>4
<1>8. b[2] \in W
    BY <1>7 DEF Ones, W
<1>9. b[1] \in Seq(Byte)
    BY <1>6, FunctionIsSeq
<1> QED  BY <1>8, <1>9

(* There is none at first. *)
LEMMA BufferInit == CrcInit => BufferOK
<1>1. NoBuf.data = << >> /\ NoBuf.addr = 0 /\ NoBuf.crc = {}
    BY DEF NoBuf
<1>2. << >> \in Seq(Byte) /\ 0 \in Nat /\ {} \in W
    BY EmptySeq DEF W
<1>3. CrcInit => buf = NoBuf
    BY Zenon DEF CrcInit
<1> QED  BY <1>1, <1>2, <1>3, Zenon DEF BufferOK

(* Only make_buffer changes the buffer. *)
LEMMA BufferNext == BufferOK /\ [CrcNext]_crc_vars => BufferOK'
<1> SUFFICES ASSUME BufferOK, [CrcNext]_crc_vars PROVE BufferOK'
    OBVIOUS
<1>1. CASE make_buffer
    <2>1. CASE UNCHANGED buf
        BY <2>1 DEF BufferOK
    <2>2. CASE \E n \in CrcLengths : \E b \in Buffers(n), a \in 0 .. 3 :
                   buf' = [data |-> b[1], addr |-> a, crc |-> b[2]]
        <3>0. PICK n \in CrcLengths : \E b \in Buffers(n), a \in 0 .. 3 :
                   buf' = [data |-> b[1], addr |-> a, crc |-> b[2]]
            BY <2>2
        <3>1. PICK b \in Buffers(n), a \in 0 .. 3 : buf' = [data |-> b[1], addr |-> a, crc |-> b[2]]
            BY <3>0, Zenon
        <3>2. n \in Nat
            BY CrcAssumption
        <3>3. b[1] \in Seq(Byte) /\ b[2] \in W
            BY <3>2, BuffersAreSequences
        <3>4. buf'.data = b[1] /\ buf'.addr = a /\ buf'.crc = b[2]
            BY <3>1
        <3> QED  BY <3>3, <3>4 DEF BufferOK
    <2> QED  BY <1>1, <2>1, <2>2 DEF make_buffer
<1>2. CASE UNCHANGED buf
    BY <1>2 DEF BufferOK
<1> QED  BY <1>1, <1>2 DEF CrcNext, check_cpu, run_hw, run_sw, crc_vars

(* Wherever a buffer of whatever length lies, crc32c loads only aligned words
   that lie within it. *)
THEOREM LoadsInBounds == CrcSpec => []LoadsAligned
<1>1. CrcInit => BufferOK
    BY BufferInit
<1>2. BufferOK => LoadsAligned
    <2> SUFFICES ASSUME BufferOK, NEW load \in WordLoads(buf.data, buf.addr)
                 PROVE  load[1] % 4 = 0 /\ load[2] <= Len(buf.data)
        BY DEF LoadsAligned
    <2> DEFINE init == to_even_word(buf.addr)
               n == Len(buf.data)
    <2>1. n \in Nat /\ buf.addr \in Nat
        BY LenProperties DEF BufferOK
    <2>2. n >= 4
        BY <2>1 DEF WordLoads
    <2>3. PICK k \in 0 .. 2 * ((n - init) \div 8) - 1 :
            load = <<buf.addr + init + 4 * k, init + 4 * k + 4>>
        BY <2>1, <2>2 DEF WordLoads
    <2>4. init \in 1 .. 4
        BY <2>1, WordBoundary
    <2>5. k \in Nat
        OBVIOUS
    <2>6. (buf.addr + init + 4 * k) % 4 = 0
        BY <2>1, <2>5, WordBoundary
    <2>7. init + 4 * k + 4 <= n
        BY <2>1, <2>2, <2>4, WordsFit
    <2> QED  BY <2>3, <2>6, <2>7
<1> QED  BY <1>1, <1>2, BufferNext, PTL DEF CrcSpec

(* Past the test a program that makes it runs on a processor with SSE 4.2. *)
CpuOK ==
    /\ crc_pc \in {"buffer", "hw"} /\ prog # "ucrc32hw" => cpu.sse42
    /\ prog \in {"test_cpuf", "test_cpuf_i", "ucrc32hw"}
    /\ NoIllegalInstruction

(* The test comes before the buffer, the buffer before the instruction. *)
LEMMA CpuNext == CpuOK /\ [CrcNext]_crc_vars => CpuOK'
<1> SUFFICES ASSUME CpuOK, [CrcNext]_crc_vars PROVE CpuOK'
    OBVIOUS
<1>1. CASE check_cpu
    <2>1. hw_allowed /\ prog # "ucrc32hw" => cpu.sse42
        <3>1. CASE prog = "test_cpuf"
            <4>1. hw_allowed <=> cpu_has = 1
                BY <3>1 DEF hw_allowed
            <4>2. cpu_has \in {-10, -11, 0} \/ cpu.sse42
                BY Zenon DEF cpu_has
            <4>3. cpu_has = 1 => cpu.sse42
                BY <4>2
            <4> QED  BY <4>1, <4>3
        <3>2. CASE prog = "test_cpuf_i"
            <4>1. hw_allowed <=> sse42_enabled_cpu # 0
                BY <3>2 DEF hw_allowed
            <4>2. sse42_enabled_cpu = 0 \/ cpu.sse42
                BY Zenon DEF sse42_enabled_cpu
            <4> QED  BY <4>1, <4>2
        <3> QED  BY <3>1, <3>2 DEF CpuOK
    <2> QED  BY <1>1, <2>1 DEF check_cpu, CpuOK, NoIllegalInstruction
<1>2. CASE make_buffer
    BY <1>2 DEF make_buffer, CpuOK, NoIllegalInstruction
<1>3. CASE run_hw
    BY <1>3 DEF run_hw, CpuOK, NoIllegalInstruction
<1>4. CASE run_sw
    BY <1>4 DEF run_sw, CpuOK, NoIllegalInstruction
<1>5. CASE UNCHANGED crc_vars
    BY <1>5 DEF crc_vars, CpuOK, NoIllegalInstruction
<1> QED  BY <1>1, <1>2, <1>3, <1>4, <1>5 DEF CrcNext

(* No program that tests the processor first executes an instruction it does
   not have. *)
THEOREM TestedFirst == CrcSpec => []NoIllegalInstruction
<1>1. CrcInit => CpuOK
    BY DEF CrcInit, CpuOK, NoIllegalInstruction
<1>2. CpuOK => NoIllegalInstruction
    BY DEF CpuOK
<1> QED  BY <1>1, <1>2, CpuNext, PTL DEF CrcSpec

(* What the division leaves of the buffer. *)
BufferRemainder == Remainder(Crc32cPoly, buf.crc, buf.data)

(* The results at each place of the program: none before there is a buffer, that
   of the instruction before that of the tables, and both at the end. *)
ResultsOK ==
    /\ BufferOK
    /\ crc_pc \in {"check", "buffer"} => buf = NoBuf
    /\ crc_pc = "sw" => hw = BufferRemainder
    /\ crc_pc = "exit" /\ buf # NoBuf => hw = BufferRemainder /\ sw = BufferRemainder

(* Each step keeps them. *)
LEMMA ResultsNext == ResultsOK /\ [CrcNext]_crc_vars => ResultsOK'
<1> SUFFICES ASSUME ResultsOK, [CrcNext]_crc_vars PROVE ResultsOK'
    OBVIOUS
<1>1. BufferOK /\ BufferOK'
    BY BufferNext DEF ResultsOK
<1>2. ASSUME UNCHANGED buf PROVE BufferRemainder' = BufferRemainder
    BY <1>2, Zenon DEF BufferRemainder
<1>3. CASE check_cpu
    BY <1>1, <1>3 DEF check_cpu, ResultsOK
<1>4. CASE make_buffer
    BY <1>1, <1>4 DEF make_buffer, ResultsOK
<1>5. CASE run_hw
    <2>1. crc32c_hw(buf.crc, buf.data) = BufferRemainder
        BY <1>1, HwRemainder, Zenon DEF BufferOK, BufferRemainder
    <2>2. BufferRemainder' = BufferRemainder /\ crc_pc' \in {"sw", "sigill"}
        BY <1>2, <1>5 DEF run_hw
    <2>3. crc_pc' = "sw" => hw' = BufferRemainder'
        BY <1>5, <2>1, <2>2 DEF run_hw
    <2> QED  BY <1>1, <2>2, <2>3 DEF ResultsOK
<1>6. CASE run_sw
    <2>1. crc32c(buf.crc, buf.data, buf.addr) = BufferRemainder
        BY <1>1, Crc32cRemainder, Zenon DEF BufferOK, BufferRemainder
    <2>2. BufferRemainder' = BufferRemainder /\ crc_pc' = "exit" /\ crc_pc = "sw"
        BY <1>2, <1>6 DEF run_sw
    <2>3. hw' = BufferRemainder' /\ sw' = BufferRemainder'
        BY <1>6, <2>1, <2>2 DEF run_sw, ResultsOK
    <2> QED  BY <1>1, <2>2, <2>3 DEF ResultsOK
<1>7. CASE UNCHANGED crc_vars
    <2>1. /\ UNCHANGED buf /\ UNCHANGED crc_pc /\ UNCHANGED hw /\ UNCHANGED sw
        BY <1>7 DEF crc_vars
    <2>2. BufferRemainder' = BufferRemainder
        BY <1>2, <2>1
    <2> QED  BY <1>1, <2>1, <2>2 DEF ResultsOK
<1> QED  BY <1>3, <1>4, <1>5, <1>6, <1>7 DEF CrcNext

(* Whatever the data, the address and the first crc, and for either size of a
   word, crc32c and crc32c_hw both compute the remainder of the division by the
   Castagnoli polynomial, and crc32 that of the division by its own. *)
THEOREM RoutinesAgree ==
    ASSUME NEW c \in SUBSET (0 .. 31), NEW data \in Seq(Byte), NEW addr \in Nat
    PROVE  /\ crc32c(c, data, addr) = Remainder(Crc32cPoly, c, data)
           /\ crc32c_hw(c, data) = Remainder(Crc32cPoly, c, data)
           /\ crc32(data) = SymDiff(Remainder(Crc32Poly, Ones, data), Ones)
<1>1. c \in W
    BY DEF W
<1>2. crc32c(c, data, addr) = Remainder(Crc32cPoly, c, data)
    BY <1>1, Crc32cRemainder, Zenon
<1>3. crc32c_hw(c, data) = Remainder(Crc32cPoly, c, data)
    BY <1>1, HwRemainder, Zenon
<1>4. crc32(data) = SymDiff(Remainder(Crc32Poly, Ones, data), Ones)
    BY Crc32Remainder, Zenon
<1> QED  BY <1>2, <1>3, <1>4, Zenon

(* So a program that gets to its end with a buffer, of whatever length, has the
   remainder of it from both routines. *)
THEOREM RemainderComputed == CrcSpec => []CrcIsRemainder
<1>1. CrcInit => ResultsOK
    <2>1. CrcInit => crc_pc = "check" /\ buf = NoBuf
        BY Zenon DEF CrcInit
    <2> QED  BY <2>1, BufferInit DEF ResultsOK
<1>2. ResultsOK => CrcIsRemainder
    <2> SUFFICES ASSUME ResultsOK, crc_pc = "exit", buf # NoBuf
                 PROVE  /\ sw = hw
                        /\ sw = Remainder(Crc32cPoly, buf.crc, buf.data)
                        /\ crc32(buf.data) = SymDiff(Remainder(Crc32Poly, Ones, buf.data), Ones)
        BY Zenon DEF CrcIsRemainder
    <2>1. hw = BufferRemainder /\ sw = BufferRemainder /\ BufferOK
        BY Zenon DEF ResultsOK
    <2>2. crc32(buf.data) = SymDiff(Remainder(Crc32Poly, Ones, buf.data), Ones)
        BY <2>1, Crc32Remainder, Zenon DEF BufferOK
    <2> QED  BY <2>1, <2>2, Zenon DEF BufferRemainder
<1> QED  BY <1>1, <1>2, ResultsNext, PTL DEF CrcSpec

=============================================================================
