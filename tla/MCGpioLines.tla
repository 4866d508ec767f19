---------------------------- MODULE MCGpioLines ----------------------------
(* One channel on two lines of one chip, all settings by default.           *)
EXTENDS GpioLines

CONSTANTS w1, main, h1, h2, chip0, none

MCChips == {chip0}
MCDefaults == [chip |-> chip0, di |-> <<1>>, do |-> <<2>>, scan |-> 10]

Body(scan_, sets_) == [scan |-> scan_, gpio |-> sets_ # <<>>, sets |-> sets_]

\* Exchange the lines of input and output; put the input on the line of the
\* output; put everything right; a period out of range.
MCPosts == {
    Body(100, <<<<"di", 1, 2>>, <<"do", 1, 1>>>>),
    Body(100, <<<<"di", 1, 2>>>>),
    Body(100, <<<<"chip", 1, chip0>>, <<"di", 1, 1>>, <<"do", 1, 2>>>>),
    Body(101, <<>>) }

\* A file written by hand with an empty list and a bad period.
MCOldFiles == {[chip |-> chip0, di |-> BadList, do |-> <<2>>, scan |-> 0]}

MCWorkers  == {w1}
MCPresent  == {chip0}
MCLines    == 1..2
MCExisting == 1..2
MCForced   == {1}
MCHandles  == {h1, h2}
=============================================================================
