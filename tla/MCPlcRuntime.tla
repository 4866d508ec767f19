---------------------------- MODULE MCPlcRuntime ----------------------------
(* Small programs for PlcRuntime: coil 1 is driven and forced, coil 0 is    *)
(* neither.  The second program pushes more than Depth = 1 allows.          *)
EXTENDS PlcRuntime

CONSTANTS w1, w2

I(o, c, a) == [op |-> o, cls |-> c, adr |-> a]

Follow == <<I("LD", "input", 0), I("OUT", "input", 1), I("END", "input", 0)>>
Deep   == <<I("LD", "coil", 1), I("LD_NOT", "input", 0), I("OUT_NOT", "input", 1)>>

MCPrograms == {<<>>, Follow, Deep}
OneWorker  == {w1}
TwoWorkers == {w1, w2}
MCChannels == {1}
MCForced   == {1}
=============================================================================
