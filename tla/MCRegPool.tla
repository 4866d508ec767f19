----------------------------- MODULE MCRegPool ------------------------------
(***************************************************************************)
(* Instances of RegPool for TLC: the SYS range as the HMI fills it (a u32, *)
(* the u16 heartbeat, a block), and the same pool with a second writer.    *)
(***************************************************************************)
EXTENDS RegPool

CONSTANTS hmi, poller, r1, r2

TwoReaders == {r1, r2}
OneReader  == {r1}

MCRegs == 0..4
Temp   == {0, 1}        \* i32 at SYS+0..1
Beat   == {2}           \* u16 heartbeat
Block  == {3, 4}        \* a Modbus block
MCCells == {Temp, Beat, Block}

\* The program as it stands: the HMI process is the one writer.
HmiWrites == [c \in MCCells |-> hmi]
OneWriter == {hmi}

\* The header's design: every range has a writer of its own.
WriterPerRange == [c \in MCCells |-> IF c = Block THEN poller ELSE hmi]
TwoWriters == {hmi, poller}

MCRanges == {Temp \cup Beat, 1..4}
=============================================================================
