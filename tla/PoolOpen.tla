------------------------------ MODULE PoolOpen ------------------------------
(***************************************************************************)
(* How the processes of the device map the shared register pool:           *)
(* mdcu_pool_open, one step per system call or store, with the setter of a *)
(* multi-word value running in a process that has the pool open.           *)
(*                                                                         *)
(* The firmware and the HMI open the pool at boot, each when its init      *)
(* script has started it, and again when it is restarted.  The segment     *)
(* outlives them.                                                          *)
(***************************************************************************)
EXTENDS Naturals, FiniteSets

CONSTANTS
    Procs,      \* processes that link libmdcu-pool
    Setter,     \* the one that writes to it (the HMI)
    MaxWrites,  \* bound: multi-word writes
    MaxKills    \* bound: processes killed and started again

ASSUME OpenAssumption ==
    /\ Setter \in Procs
    /\ MaxWrites \in Nat
    /\ MaxKills \in Nat

VARIABLES
    size,       \* the segment: "absent", "empty" or "full" (sizeof(mdcu_shm_t))
    magic,      \* magic is MDCU_MAGIC
    version,    \* version is MDCU_VERSION
    seq,        \* seq
    data,       \* the value kept in the registers (number of the write, 0: none)
    pc,         \* pc[p]: where p is in mdcu_pool_open, "open" after it
    first,      \* first[p]: its local of that name
    setting,    \* the Setter is between seq_begin_write and seq_end_write
    writes,     \* multi-word writes so far
    kills,      \* processes killed so far
    clash       \* history: an open began while another one was under way

segment == <<size, magic, version, seq, data>>
vars == <<segment, pc, first, setting, writes, kills, clash>>

\* pc values between shm_open and the return of mdcu_pool_open.
Opening == {"stat", "truncate", "map", "check", "zero", "wipe", "magic", "version"}
Initialising == {"zero", "wipe", "magic", "version"}

\* A pool somebody has finished setting up.
Ready == size = "full" /\ magic /\ version

\* After power-on there is no segment; an upgrade of the software leaves one
\* behind that has another version.
Init ==
    /\ \/ size = "absent" /\ magic = FALSE
       \/ size = "full" /\ magic = TRUE
    /\ version = FALSE
    /\ seq = 0
    /\ data = 0
    /\ pc = [p \in Procs |-> "start"]
    /\ first = [p \in Procs |-> FALSE]
    /\ setting = FALSE
    /\ writes = 0
    /\ kills = 0
    /\ clash = FALSE

-----------------------------------------------------------------------------
Goto(p, from, to) ==
    /\ pc[p] = from
    /\ pc' = [pc EXCEPT ![p] = to]

\* shm_open(O_CREAT): an absent segment comes into being with size 0.
ShmOpen(p) ==
    /\ Goto(p, "start", "stat")
    /\ size' = IF size = "absent" THEN "empty" ELSE size
    /\ clash' = (clash \/ \E q \in Procs : pc[q] \in Opening)
    /\ UNCHANGED <<magic, version, seq, data, first, setting, writes, kills>>

\* Mutant of Stat: only the process that created the segment sizes it.
StatCreator(p) ==
    /\ pc[p] = "stat"
    /\ first' = [first EXCEPT ![p] = size # "full" /\ \A q \in Procs \ {p} : ~first[q]]
    /\ pc' = [pc EXCEPT ![p] = IF first'[p] THEN "truncate" ELSE "map"]
    /\ UNCHANGED <<segment, setting, writes, kills, clash>>

\* fstat: too small a segment makes this process the first.
Stat(p) ==
    /\ pc[p] = "stat"
    /\ first' = [first EXCEPT ![p] = size # "full"]
    /\ pc' = [pc EXCEPT ![p] = IF first'[p] THEN "truncate" ELSE "map"]
    /\ UNCHANGED <<segment, setting, writes, kills, clash>>

\* ftruncate to the full size; new bytes are zero, present ones stay.
Truncate(p) ==
    /\ Goto(p, "truncate", "map")
    /\ size' = "full"
    /\ UNCHANGED <<magic, version, seq, data, first, setting, writes, kills, clash>>

\* shm_open, fstat, ftruncate or mmap fails: the call returns -1, the pool
\* stays closed in this process (both callers carry on without it).
Fail(p) ==
    /\ \E from \in {"start", "stat", "truncate", "map"} : Goto(p, from, "failed")
    /\ UNCHANGED <<segment, first, setting, writes, kills, clash>>

Map(p) ==
    /\ Goto(p, "map", "check")
    /\ UNCHANGED <<segment, first, setting, writes, kills, clash>>

\* Mutant of Check: the layout is not looked at, every opener initialises.
CheckNothing(p) ==
    /\ Goto(p, "check", "zero")
    /\ UNCHANGED <<segment, first, setting, writes, kills, clash>>

\* Mutant of Check: a half-initialised segment is taken as it is.
CheckMagicOnly(p) ==
    /\ pc[p] = "check"
    /\ pc' = [pc EXCEPT ![p] = IF first[p] \/ ~magic THEN "zero" ELSE "open"]
    /\ UNCHANGED <<segment, first, setting, writes, kills, clash>>

\* Mutant of Check: a process that is not the first waits for the other one.
CheckWaits(p) ==
    /\ pc[p] = "check"
    /\ pc' = [pc EXCEPT ![p] = IF first[p] THEN "zero" ELSE IF magic /\ version THEN "open" ELSE "map"]
    /\ UNCHANGED <<segment, first, setting, writes, kills, clash>>

\* "First-time init, or re-init if magic mismatches".
Check(p) ==
    /\ pc[p] = "check"
    /\ pc' = [pc EXCEPT ![p] = IF first[p] \/ ~magic \/ ~version THEN "zero" ELSE "open"]
    /\ UNCHANGED <<segment, first, setting, writes, kills, clash>>

\* memset, the header ...
ZeroHeader(p) ==
    /\ Goto(p, "zero", "wipe")
    /\ magic' = FALSE
    /\ version' = FALSE
    /\ seq' = 0
    /\ UNCHANGED <<size, data, first, setting, writes, kills, clash>>

\* ... and the registers.
ZeroRegs(p) ==
    /\ Goto(p, "wipe", "magic")
    /\ data' = 0
    /\ UNCHANGED <<size, magic, version, seq, first, setting, writes, kills, clash>>

SetMagic(p) ==
    /\ Goto(p, "magic", "version")
    /\ magic' = TRUE
    /\ UNCHANGED <<size, version, seq, data, first, setting, writes, kills, clash>>

\* version, n_regs and pool_bytes; mdcu_pool_open returns 0.
SetVersion(p) ==
    /\ Goto(p, "version", "open")
    /\ version' = TRUE
    /\ UNCHANGED <<size, magic, seq, data, first, setting, writes, kills, clash>>

-----------------------------------------------------------------------------
\* A setter in the process that has the pool open: first bump of seq ...
BeginSet ==
    /\ pc[Setter] = "open"
    /\ ~setting
    /\ writes < MaxWrites
    /\ seq' = seq + 1
    /\ setting' = TRUE
    /\ writes' = writes + 1
    /\ UNCHANGED <<size, magic, version, data, pc, first, kills, clash>>

\* ... the stores and the second bump.
EndSet ==
    /\ setting
    /\ data' = writes
    /\ seq' = seq + 1
    /\ setting' = FALSE
    /\ UNCHANGED <<size, magic, version, pc, first, writes, kills, clash>>

\* A process is killed, in mdcu_pool_open or after it but not inside a setter
\* (RegPool has that), and started again by its init script.
Kill(p) ==
    /\ kills < MaxKills
    /\ pc[p] # "start"
    /\ ~(p = Setter /\ setting)
    /\ kills' = kills + 1
    /\ pc' = [pc EXCEPT ![p] = "start"]
    /\ first' = [first EXCEPT ![p] = FALSE]
    /\ UNCHANGED <<segment, setting, writes, clash>>

OpenStep(p) ==
    \/ Stat(p) \/ Truncate(p) \/ Map(p) \/ Check(p)
    \/ ZeroHeader(p) \/ ZeroRegs(p) \/ SetMagic(p) \/ SetVersion(p)

\* Nothing is left to do within the bounds: the processes run on.
Done ==
    /\ \A p \in Procs : pc[p] \in {"open", "failed"}
    /\ ~setting
    /\ UNCHANGED vars

Next ==
    \/ \E p \in Procs : ShmOpen(p) \/ OpenStep(p) \/ Fail(p) \/ Kill(p)
    \/ BeginSet
    \/ EndSet
    \/ Done

Spec == Init /\ [][Next]_vars

\* An open that has begun is carried on.
FairSpec == Spec /\ \A p \in Procs : WF_vars(OpenStep(p))

-----------------------------------------------------------------------------
TypeOK ==
    /\ size \in {"absent", "empty", "full"}
    /\ magic \in BOOLEAN /\ version \in BOOLEAN
    /\ seq \in Nat
    /\ data \in 0..MaxWrites
    /\ pc \in [Procs -> Opening \cup {"start", "open", "failed"}]
    /\ first \in [Procs -> BOOLEAN]
    /\ setting \in BOOLEAN
    /\ setting => pc[Setter] = "open"
    /\ writes \in 0..MaxWrites
    /\ kills \in 0..MaxKills
    /\ clash \in BOOLEAN

\* A process that has mapped the segment can touch all of it: whoever creates
\* it, nobody goes past its end (mmap of a shorter file raises SIGBUS).
MappedIsBacked ==
    \A p \in Procs :
        pc[p] \in {"check", "open"} \cup Initialising => size = "full"

\* When every process has the pool open, the header is the one of this
\* layout, however many of them took themselves for the first and whoever was
\* killed half-way and started again.
AllOpenMeansReady == (\A p \in Procs : pc[p] = "open") => Ready

\* A value whose setter has returned is in the pool until the next one, through
\* restarts of either process and initialisations that were killed half-way: the
\* memset of an open never wipes it, unless two opens have overlapped.
SetValueStays == clash \/ setting \/ data = writes

\* mdcu_pool_open returns in every process that is not killed in it, whatever
\* a process that was killed half-way through its initialisation left behind.
OpensReturn == \A p \in Procs : pc[p] \in Opening ~> pc[p] \in {"open", "failed", "start"}
=============================================================================
