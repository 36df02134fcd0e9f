----------------------------- MODULE MCLibraries -----------------------------
(* The routines that other programs call, each library under its caller:   *)
(* CRC, base64, profiling, the slot list, the descriptor I/O loops and the *)
(* pointer queue.                                                          *)
(* They share nothing; lib tells which of them is in use.                  *)
EXTENDS Crc32, B64, Prfm, XvList, FdIo, PQueue

VARIABLE lib

MCPlains == SeqOf({1, 107, 255}, 4)
MCTexts == SeqOf({42, Slash, Pad, Upper(0), 255}, 4)
            \cup {<<Upper(1), Slash, Upper(0), Pad>> \o t :
                    t \in [1 .. 4 -> {Slash, Pad, Lower(0)}]}

\* With three units to a second: no time, a carry or a borrow, a second and more.
MCElapses == {[ns |-> 0, cpu |-> 0, flt |-> 0], [ns |-> 2, cpu |-> 1, flt |-> 1],
              [ns |-> 4, cpu |-> 2, flt |-> 0]}

\* Pieces that a write can end in, between and across, and empty ones.
MCIovs == {<<0, 0>>, <<2>>, <<1, 3>>, <<0, 2, 2, 3>>, <<1, 1, 2, 3>>}

\* -1, the value calloc leaves, and one more.
MCItems == {-1, 0, 5}

Libs == {"crc", "b64", "prfm", "xvdat", "fdio", "queue"}

\* The libraries that are not in use rest in one of their first states.
Init ==
    /\ lib \in Libs
    /\ CrcInit /\ (lib = "crc" \/ (prog = "ucrc32hw" /\ ~cpu.AC))
    /\ B64Init
    /\ PrfmInit /\ (lib = "prfm" \/ left = 1)
    /\ XvInit /\ (lib = "xvdat" \/ mode = "xvec")
    /\ FdInit /\ (lib = "fdio" \/ (way = "nwritev" /\ errno = "0"))
    /\ QueueInit

Next ==
    /\ UNCHANGED lib
    /\ lib # "crc" => UNCHANGED crc_vars
    /\ lib # "b64" => UNCHANGED b64_vars
    /\ lib # "prfm" => UNCHANGED prfm_vars
    /\ lib # "xvdat" => UNCHANGED xv_vars
    /\ lib # "fdio" => UNCHANGED fd_vars
    /\ lib # "queue" => UNCHANGED queue_vars
    /\ \/ lib = "crc" /\ CrcNext
       \/ lib = "b64" /\ B64Next
       \/ lib = "prfm" /\ PrfmNext
       \/ lib = "xvdat" /\ XvNext
       \/ lib = "fdio" /\ FdNext
       \/ lib = "queue" /\ QueueNext

Spec == Init /\ [][Next]_<<lib, crc_vars, b64_vars, prfm_vars, xv_vars, fd_vars,
                           queue_vars>>
=============================================================================
