----------------------------- MODULE MCWriteBuf -----------------------------
(* Command lines for WriteBuf. *)
EXTENDS WriteBuf

Line(o, i_, n_, u, b, k) == [opts |-> o, I |-> i_, N |-> n_, U |-> u, bufsz |-> b, niter |-> k]

(* -S, -D, -F, -Q in every combination, with and without chunks; sizes up to
   and past both limits. *)
InlineLines ==
    {Line(o \cup {"N"}, 0, 2, 0, b, 2) : o \in SUBSET {"S", "D", "F", "Q"}, b \in {2, 4, 5}}
        \cup {Line({"D", "I", "N", "U"}, 2, n_, u, b, 2) :
                  n_ \in 0 .. 2, u \in 1 .. 4, b \in 1 .. 6}

(* The same with -T. *)
ThreadLines ==
    {Line({"T", "N"} \cup o, 0, 2, 0, 2, 2) : o \in {{}, {"D"}, {"D", "S"}, {"D", "F"}}}
        \cup {Line({"T", "D", "U", "I", "N"}, 2, 2, 2, 3, 2)}

TwoWrites == {Line({"T", "D"}, 0, 0, 0, 2, 2)}

AllLines == InlineLines \cup ThreadLines

=============================================================================
