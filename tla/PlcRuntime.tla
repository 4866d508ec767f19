----------------------------- MODULE PlcRuntime -----------------------------
(***************************************************************************)
(* The PLC firmware at work: the scan thread (plc_engine.c, gpio_gpiod.c)  *)
(* executes the ladder program in g_instr while the workers of the REST    *)
(* server start and stop the logic, force coils, and load new programs.    *)
(* register_map.c takes its mutex for every single access; the program     *)
(* memory of ladder_vm.c has no lock at all, so a load and a scan          *)
(* interleave at every access.                                             *)
(*                                                                         *)
(* memcpy fills a slot of g_instr opcode first, operands after it; the     *)
(* scan reads the opcode, then the operands.                               *)
(***************************************************************************)
EXTENDS LadderOps, FiniteSets

CONSTANTS
    Loaders,        \* workers that run ladder_vm_load_blob
    Programs,       \* the programs of well-formed blobs
    MaxInstr,       \* LADDER_MAX_INSTRUCTIONS
    Channels,       \* the coils wired to digital outputs (0..3)
    Forced          \* the coils operators write

ASSUME RuntimeAssumption ==
    /\ MaxInstr \in Nat \ {0}
    /\ \A p \in Programs : p \in Seq(Instrs) /\ Len(p) <= MaxInstr
    /\ Channels \subseteq Coils
    /\ Forced \subseteq Coils

Slots == 1..MaxInstr

\* g_instr with program p in it, the rest cleared.
Memory(p) == [s \in Slots |-> IF s \in DOMAIN p THEN p[s] ELSE ZeroInstr]

VARIABLES
    instr,      \* g_instr
    count,      \* g_instr_count
    loaded,     \* g_loaded
    coils,      \* register map: coils
    inputs,     \* register map: discrete_inputs
    dout,       \* the terminals: what was last written to the output lines
    running,    \* g_logic_run
    spc,        \* where the scan thread is
    i,          \* execute_scan: the slot it is at
    op,         \* execute_scan: the opcode it has read
    stack,      \* execute_scan: the stack
    left,       \* apply_outputs: the channels not written yet
    lpc,        \* lpc[w]: where worker w is in ladder_vm_load_blob
    blob,       \* blob[w]: the program it is loading
    at,         \* at[w]: the slot its memcpy is at
    clash       \* history: loads overlapped, and none has emptied the memory alone since

program == <<instr, count, loaded>>
engine == <<running, spc, i, op, stack, left>>
loader == <<lpc, blob, at, clash>>
vars == <<program, coils, inputs, dout, engine, loader>>

\* main loads the persisted program before it starts the threads; if there is
\* a valid one, the logic runs.
Init ==
    /\ \/ instr = Memory(<<>>) /\ count = 0 /\ loaded = FALSE
       \/ \E p \in Programs : instr = Memory(p) /\ count = Len(p) /\ loaded = TRUE
    /\ running = loaded
    /\ coils = [c \in Coils |-> FALSE]
    /\ inputs = [n \in Inputs |-> FALSE]
    /\ dout = [c \in Channels |-> FALSE]
    /\ spc = "sample" /\ i = 1 /\ op = "NOP" /\ stack = <<>> /\ left = {}
    /\ lpc = [w \in Loaders |-> "idle"]
    /\ blob = [w \in Loaders |-> <<>>]
    /\ at = [w \in Loaders |-> 1]
    /\ clash = FALSE

-----------------------------------------------------------------------------
(* The scan thread.                                                         *)

\* gpio_gpiod_sample_inputs: the levels of the input lines.  Only this thread
\* writes or evaluates the inputs, so the channels are sampled in one step.
Sample ==
    /\ spc = "sample"
    /\ inputs' \in [Inputs -> BOOLEAN]
    /\ spc' = "decide"
    /\ UNCHANGED <<program, coils, dout, running, i, op, stack, left, loader>>

\* Mutant of Decide: the outputs are written only after a scan.
DecideRunningOnly ==
    /\ spc = "decide"
    /\ spc' = IF running /\ loaded THEN "enter" ELSE "sample"
    /\ UNCHANGED <<program, coils, inputs, dout, running, i, op, stack, left, loader>>

\* Logic running and a program loaded?
Decide ==
    /\ spc = "decide"
    /\ IF running /\ loaded
         THEN spc' = "enter" /\ left' = left
         ELSE spc' = "apply" /\ left' = Channels
    /\ UNCHANGED <<program, coils, inputs, dout, running, i, op, stack, loader>>

\* execute_scan looks at the program again before it starts.
Enter ==
    /\ spc = "enter"
    /\ IF loaded /\ count # 0
         THEN spc' = "test" /\ left' = left
         ELSE spc' = "apply" /\ left' = Channels
    /\ i' = 1
    /\ stack' = <<>>
    /\ UNCHANGED <<program, coils, inputs, dout, running, op, loader>>

\* The loop test reads g_instr_count every time.
Test ==
    /\ spc = "test"
    /\ IF i <= count
         THEN spc' = "fetch" /\ left' = left
         ELSE spc' = "apply" /\ left' = Channels
    /\ UNCHANGED <<program, coils, inputs, dout, running, i, op, stack, loader>>

\* The opcode.
Fetch ==
    /\ spc = "fetch"
    /\ op' = instr[i].op
    /\ spc' = "operate"
    /\ UNCHANGED <<program, coils, inputs, dout, running, i, stack, left, loader>>

\* Mutant of Operate: END starts the program over instead of leaving the loop.
OperateOver ==
    /\ spc = "operate"
    /\ LET arg == instr[i]
       IN /\ stack' = StackAfter(op, ReadBool(arg.cls, arg.adr, coils, inputs), stack)
          /\ coils' = CoilsAfter(op, arg.adr, stack, coils)
    /\ i' = IF op = "END" THEN 1 ELSE i + 1
    /\ spc' = "test"
    /\ UNCHANGED <<program, inputs, dout, running, op, left, loader>>

\* The operands, and what the instruction does.
Operate ==
    /\ spc = "operate"
    /\ LET arg == instr[i]
       IN /\ stack' = StackAfter(op, ReadBool(arg.cls, arg.adr, coils, inputs), stack)
          /\ coils' = CoilsAfter(op, arg.adr, stack, coils)
    /\ IF op = "END"
         THEN i' = i /\ spc' = "apply" /\ left' = Channels
         ELSE i' = i + 1 /\ spc' = "test" /\ left' = left
    /\ UNCHANGED <<program, inputs, dout, running, op, loader>>

\* gpio_gpiod_apply_outputs: one channel.
Apply(c) ==
    /\ spc = "apply"
    /\ c \in left
    /\ dout' = [dout EXCEPT ![c] = coils[c]]
    /\ left' = left \ {c}
    /\ UNCHANGED <<program, coils, inputs, running, spc, i, op, stack, loader>>

\* The cycle is over; the thread sleeps until the next one.
Sleep ==
    /\ spc = "apply"
    /\ left = {}
    /\ spc' = "sample"
    /\ UNCHANGED <<program, coils, inputs, dout, running, i, op, stack, left, loader>>

ScanStep ==
    \/ Sample \/ Decide \/ Enter \/ Test \/ Fetch \/ Operate
    \/ \E c \in Channels : Apply(c)
    \/ Sleep

-----------------------------------------------------------------------------
(* The REST workers.                                                        *)

\* POST /api/program/start and the end of a successful apply; .../stop.
Start == running' = TRUE  /\ UNCHANGED <<program, coils, inputs, dout, spc, i, op, stack, left, loader>>
Stop  == running' = FALSE /\ UNCHANGED <<program, coils, inputs, dout, spc, i, op, stack, left, loader>>

\* POST /api/io/do: an operator forces a coil.
ForceCoil(c, v) ==
    /\ coils' = SetCoil(coils, c, v)
    /\ UNCHANGED <<program, inputs, dout, engine, loader>>

LoadGoto(w, from, to) ==
    /\ lpc[w] = from
    /\ lpc' = [lpc EXCEPT ![w] = to]

\* The other workers inside ladder_vm_load_blob.
Others(w) == {v \in Loaders \ {w} : lpc[v] # "idle"}

BeginLoad(w) ==
    /\ LoadGoto(w, "idle", "unload")
    /\ clash' = (clash \/ Others(w) # {})
    /\ UNCHANGED <<program, coils, inputs, dout, engine, blob, at>>

\* ladder_vm_clear_program comes first: g_loaded, g_instr_count, g_instr.
Unload(w) ==
    /\ LoadGoto(w, "unload", "uncount")
    /\ loaded' = FALSE
    /\ clash' = (Others(w) # {})
    /\ UNCHANGED <<instr, count, coils, inputs, dout, engine, blob, at>>

Uncount(w) ==
    /\ LoadGoto(w, "uncount", "wipe")
    /\ count' = 0
    /\ UNCHANGED <<instr, loaded, coils, inputs, dout, engine, blob, at, clash>>

\* (memset, slot by slot)
Wipe(w) ==
    /\ LoadGoto(w, "wipe", IF at[w] < MaxInstr THEN "wipe" ELSE "validate")
    /\ instr' = [instr EXCEPT ![at[w]] = ZeroInstr]
    /\ at' = [at EXCEPT ![w] = IF @ < MaxInstr THEN @ + 1 ELSE 1]
    /\ UNCHANGED <<count, loaded, coils, inputs, dout, engine, blob, clash>>

\* Length, magic, CRC and count are checked: -1, with the old program gone ...
Reject(w) ==
    /\ LoadGoto(w, "validate", "idle")
    /\ UNCHANGED <<program, coils, inputs, dout, engine, blob, at, clash>>

\* ... or the payload, program p, is copied,
Accept(w, p) ==
    /\ LoadGoto(w, "validate", IF p = <<>> THEN "count" ELSE "opcode")
    /\ blob' = [blob EXCEPT ![w] = p]
    /\ at' = [at EXCEPT ![w] = 1]
    /\ UNCHANGED <<program, coils, inputs, dout, engine, clash>>

CopyOpcode(w) ==
    /\ LoadGoto(w, "opcode", "operands")
    /\ instr' = [instr EXCEPT ![at[w]].op = blob[w][at[w]].op]
    /\ UNCHANGED <<count, loaded, coils, inputs, dout, engine, blob, at, clash>>

\* Mutant of CopyOperands: one slot fewer than the blob has.
CopyOperandsShort(w) ==
    /\ LoadGoto(w, "operands", IF at[w] + 1 < Len(blob[w]) THEN "opcode" ELSE "count")
    /\ instr' = [instr EXCEPT ![at[w]].cls = blob[w][at[w]].cls,
                              ![at[w]].adr = blob[w][at[w]].adr]
    /\ at' = [at EXCEPT ![w] = @ + 1]
    /\ UNCHANGED <<count, loaded, coils, inputs, dout, engine, blob, clash>>

CopyOperands(w) ==
    /\ LoadGoto(w, "operands", IF at[w] < Len(blob[w]) THEN "opcode" ELSE "count")
    /\ instr' = [instr EXCEPT ![at[w]].cls = blob[w][at[w]].cls,
                              ![at[w]].adr = blob[w][at[w]].adr]
    /\ at' = [at EXCEPT ![w] = @ + 1]
    /\ UNCHANGED <<count, loaded, coils, inputs, dout, engine, blob, clash>>

\* the count is set,
SetCount(w) ==
    /\ LoadGoto(w, "count", "load")
    /\ count' = Len(blob[w])
    /\ UNCHANGED <<instr, loaded, coils, inputs, dout, engine, blob, at, clash>>

\* and the program is loaded; load_blob returns 0.
SetLoaded(w) ==
    /\ LoadGoto(w, "load", "idle")
    /\ loaded' = TRUE
    /\ blob' = [blob EXCEPT ![w] = <<>>]
    /\ at' = [at EXCEPT ![w] = 1]
    /\ UNCHANGED <<instr, count, coils, inputs, dout, engine, clash>>

LoadStep(w) ==
    \/ Unload(w) \/ Uncount(w) \/ Wipe(w) \/ Reject(w) \/ (\E p \in Programs : Accept(w, p))
    \/ CopyOpcode(w) \/ CopyOperands(w) \/ SetCount(w) \/ SetLoaded(w)

Next ==
    \/ ScanStep
    \/ Start \/ Stop
    \/ \E c \in Forced, v \in BOOLEAN : ForceCoil(c, v)
    \/ \E w \in Loaders :
         \/ BeginLoad(w)
         \/ LoadStep(w)

Spec == Init /\ [][Next]_vars

\* The scan thread is always runnable, and a handler that was entered returns.
FairSpec == Spec /\ WF_vars(ScanStep) /\ \A w \in Loaders : WF_vars(LoadStep(w))

-----------------------------------------------------------------------------
TypeOK ==
    /\ instr \in [Slots -> Instrs]
    /\ count \in 0..MaxInstr
    /\ loaded \in BOOLEAN
    /\ coils \in [Coils -> BOOLEAN]
    /\ inputs \in [Inputs -> BOOLEAN]
    /\ dout \in [Channels -> BOOLEAN]
    /\ running \in BOOLEAN
    /\ spc \in {"sample", "decide", "enter", "test", "fetch", "operate", "apply"}
    /\ i \in 1..(MaxInstr + 1)
    /\ op \in Ops
    /\ stack \in Seq(BOOLEAN)
    /\ left \subseteq Channels
    /\ lpc \in [Loaders -> {"idle", "unload", "uncount", "wipe", "validate",
                            "opcode", "operands", "count", "load"}]
    /\ blob \in [Loaders -> {<<>>} \cup Programs]
    /\ at \in [Loaders -> 1..(MaxInstr + 1)]
    /\ clash \in BOOLEAN
    /\ \A w \in Loaders :
         /\ lpc[w] \in {"idle", "unload", "uncount", "validate"} => at[w] = 1
         /\ lpc[w] = "wipe" => at[w] \in Slots
         /\ lpc[w] \in {"opcode", "operands"} => at[w] \in 1..Len(blob[w])
         /\ lpc[w] \in {"opcode", "operands", "count", "load"} => blob[w] \in Programs

\* Whatever is loaded while a scan is under way, the scan stays inside its
\* stack and inside g_instr: it never reads a slot past the array, and sp
\* never leaves -1..DEPTH-1.
VmInBounds ==
    /\ Len(stack) <= Depth
    /\ spc \in {"fetch", "operate"} => i \in Slots

\* g_instr holds program p.
Holds(p) == count = Len(p) /\ \A k \in DOMAIN p : instr[k] = p[k]

\* g_loaded means that g_instr holds one whole program ("True if a valid
\* program is loaded", ladder_vm.h).  Nothing keeps two workers out of
\* ladder_vm_load_blob, and what they leave may be a mixture; but the next load
\* that empties the memory alone and is not joined by another leaves a whole
\* program, whatever the mixture was.
LoadedIsWhole == loaded /\ ~clash => \E p \in Programs : Holds(p)

\* What makes it so: a load without a clash is the only one; from Unload to
\* SetLoaded nothing is loaded, and the slots before the one being copied are
\* those of the blob.
LoadingWell(w) ==
    /\ lpc[w] \notin {"idle", "unload"} => ~loaded
    /\ lpc[w] \in {"opcode", "operands"} =>
         \A k \in 1..(at[w] - 1) : instr[k] = blob[w][k]
    /\ lpc[w] = "operands" => instr[at[w]].op = blob[w][at[w]].op
    /\ lpc[w] \in {"count", "load"} =>
         \A k \in DOMAIN blob[w] : instr[k] = blob[w][k]
    /\ lpc[w] = "load" => count = Len(blob[w])

LoadInv ==
    ~clash => \A w \in Loaders : (lpc[w] # "idle" => Others(w) = {}) /\ LoadingWell(w)

\* The coils programs drive.
Driven == UNION {{p[k].adr : k \in {j \in DOMAIN p : p[j].op \in {"OUT", "OUT_NOT", "SET", "RST"}}}
                    : p \in Programs}

\* A coil that no program drives and no operator forces is never written
\* ("Execute one full scan of the loaded program", ladder_vm.h).
OthersKeep == \A c \in Coils \ (Driven \cup Forced) : ~coils[c]

\* What an operator or a program puts into a coil reaches its terminal, with
\* the logic running or stopped, unless the coil changes again.
CoilsReachTerminals ==
    \A c \in Channels : \A v \in BOOLEAN : coils[c] = v ~> dout[c] = v \/ coils[c] # v

\* A scan always comes to its end, also under a program that is exchanged
\* while it runs.
ScanEnds == spc = "test" ~> spc = "apply"
=============================================================================
