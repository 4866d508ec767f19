------------------------- MODULE PlcRuntime_proofs --------------------------
(***************************************************************************)
(* For every program, number of coils, inputs and workers: the ladder VM   *)
(* stays within its stack and its program memory although the program is   *)
(* exchanged under it; and whatever mixture overlapping loads have left,   *)
(* a load that no other overlaps leaves one whole program.                 *)
(***************************************************************************)
EXTENDS PlcRuntime, TLAPS

\* A stack the VM can have.
Stacks == {s \in Seq(BOOLEAN) : Len(s) <= Depth}

-----------------------------------------------------------------------------
(* The stack.                                                               *)

\* push and pop keep the stack within its depth.
LEMMA PushKeeps == \A s \in Stacks, v \in BOOLEAN : Push(s, v) \in Stacks
BY LadderAssumption DEF Stacks, Push

LEMMA DropKeeps == \A s \in Stacks : Drop(s) \in Stacks
BY LadderAssumption DEF Stacks, Drop

LEMMA TopIsBool == \A s \in Stacks : Top(s) \in BOOLEAN
BY DEF Stacks, Top

LEMMA ReadIsBool ==
    ASSUME NEW cs \in [Coils -> BOOLEAN], NEW ins \in [Inputs -> BOOLEAN], NEW c, NEW a
    PROVE  ReadBool(c, a, cs, ins) \in BOOLEAN
BY DEF ReadBool

LEMMA SetCoilKeeps ==
    \A cs \in [Coils -> BOOLEAN], v \in BOOLEAN : \A a : SetCoil(cs, a, v) \in [Coils -> BOOLEAN]
BY DEF SetCoil

LEMMA BoolOps ==
    \A p, q \in BOOLEAN : (~p) \in BOOLEAN /\ (p /\ q) \in BOOLEAN /\ (p \/ q) \in BOOLEAN
OBVIOUS

\* No instruction leaves the stack or makes a coil anything but a boolean.
LEMMA StackAfterKeeps ==
    ASSUME NEW o, NEW v \in BOOLEAN, NEW s \in Stacks
    PROVE  StackAfter(o, v, s) \in Stacks
<1>1. Drop(s) \in Stacks /\ Drop(Drop(s)) \in Stacks
    BY DropKeeps
<1>2. Top(s) \in BOOLEAN /\ Top(Drop(s)) \in BOOLEAN
    BY <1>1, TopIsBool
<1> DEFINE a == Top(s)
           b == Top(Drop(s))
<1>3. /\ v \in BOOLEAN /\ (~v) \in BOOLEAN /\ (b /\ a) \in BOOLEAN /\ (a /\ ~v) \in BOOLEAN
      /\ (b \/ a) \in BOOLEAN /\ (a \/ ~v) \in BOOLEAN
    BY <1>2, BoolOps
<1>4. /\ Push(s, v) \in Stacks /\ Push(s, ~v) \in Stacks
      /\ Push(Drop(Drop(s)), b /\ a) \in Stacks /\ Push(Drop(s), a /\ ~v) \in Stacks
      /\ Push(Drop(Drop(s)), b \/ a) \in Stacks /\ Push(Drop(s), a \/ ~v) \in Stacks
    BY <1>1, <1>3, PushKeeps
<1> QED
    BY <1>1, <1>4 DEF StackAfter

LEMMA CoilsAfterKeeps ==
    ASSUME NEW o, NEW a, NEW s \in Stacks, NEW cs \in [Coils -> BOOLEAN]
    PROVE  CoilsAfter(o, a, s, cs) \in [Coils -> BOOLEAN]
<1>1. Top(s) \in BOOLEAN /\ (~Top(s)) \in BOOLEAN /\ TRUE \in BOOLEAN /\ FALSE \in BOOLEAN
    BY TopIsBool, BoolOps
<1>2. \A v \in BOOLEAN : SetCoil(cs, a, v) \in [Coils -> BOOLEAN]
    BY SetCoilKeeps
<1>3. /\ SetCoil(cs, a, Top(s)) \in [Coils -> BOOLEAN]
      /\ SetCoil(cs, a, ~Top(s)) \in [Coils -> BOOLEAN]
      /\ SetCoil(cs, a, TRUE) \in [Coils -> BOOLEAN]
      /\ SetCoil(cs, a, FALSE) \in [Coils -> BOOLEAN]
    BY <1>1, <1>2
<1> QED
    BY <1>3 DEF CoilsAfter

-----------------------------------------------------------------------------
(* Types and bounds.                                                        *)

Bounded == TypeOK /\ VmInBounds

LEMMA ProgramsAreSeqs ==
    \A p \in Programs : /\ p \in Seq(Instrs) /\ Len(p) \in 0..MaxInstr
                        /\ \A k \in 1..Len(p) : p[k] \in Instrs /\ k \in Slots
BY RuntimeAssumption DEF Slots

\* A cleared slot is an instruction, and a program fits into the memory.
LEMMA ZeroIsInstr == ZeroInstr \in Instrs
BY DEF Instrs, ZeroInstr, Ops, Classes

LEMMA MemoryIsTyped ==
    /\ Memory(<<>>) \in [Slots -> Instrs]
    /\ \A p \in Programs : Memory(p) \in [Slots -> Instrs]
BY ZeroIsInstr, ProgramsAreSeqs DEF Memory

LEMMA InitBounded == Init => Bounded
<1> SUFFICES ASSUME Init PROVE Bounded
    OBVIOUS
<1>1. MaxInstr \in Nat \ {0} /\ Depth \in Nat /\ <<>> \in Seq(BOOLEAN) /\ Len(<<>>) = 0
    BY RuntimeAssumption, LadderAssumption
<1>2. /\ instr \in [Slots -> Instrs] /\ coils \in [Coils -> BOOLEAN]
      /\ inputs \in [Inputs -> BOOLEAN] /\ dout \in [Channels -> BOOLEAN]
    BY MemoryIsTyped DEF Init
<1>3. /\ lpc \in [Loaders -> {"idle"}] /\ blob \in [Loaders -> {<<>>}]
      /\ at \in [Loaders -> {1}] /\ \A w \in Loaders : lpc[w] = "idle"
    BY DEF Init
<1>4. /\ lpc \in [Loaders -> {"idle", "unload", "uncount", "wipe", "validate",
                              "opcode", "operands", "count", "load"}]
      /\ blob \in [Loaders -> {<<>>} \cup Programs]
      /\ at \in [Loaders -> 1..(MaxInstr + 1)]
    BY <1>1, <1>3
<1>5. count \in 0..MaxInstr /\ loaded \in BOOLEAN /\ running \in BOOLEAN
    <2>1. count \in 0..MaxInstr
        BY <1>1, ProgramsAreSeqs DEF Init
    <2>2. loaded = TRUE \/ loaded = FALSE
        BY ZenonT(20) DEF Init
    <2>3. running = loaded
        BY DEF Init
    <2> QED
        BY ONLY <2>1, <2>2, <2>3
<1>6. /\ i \in 1..(MaxInstr + 1) /\ op \in Ops
      /\ stack \in Seq(BOOLEAN) /\ Len(stack) <= Depth
    BY <1>1 DEF Init, Ops
<1> QED
    BY <1>1, <1>2, <1>3, <1>4, <1>5, <1>6 DEF Init, Bounded, TypeOK, VmInBounds

LEMMA OperateBounded == Bounded /\ Operate => Bounded'
<1> SUFFICES ASSUME Bounded, Operate PROVE Bounded'
    OBVIOUS
<1> DEFINE arg == instr[i]
           v == ReadBool(arg.cls, arg.adr, coils, inputs)
<1>1. stack \in Stacks /\ coils \in [Coils -> BOOLEAN] /\ inputs \in [Inputs -> BOOLEAN]
    BY DEF Bounded, TypeOK, VmInBounds, Stacks
<1>2. v \in BOOLEAN
    BY <1>1, ReadIsBool
<1>3. stack' = StackAfter(op, v, stack) /\ coils' = CoilsAfter(op, arg.adr, stack, coils)
    BY DEF Operate
<1> HIDE DEF v, arg
<1>4. stack' \in Stacks
    BY <1>1, <1>2, <1>3, StackAfterKeeps
<1>5. coils' \in [Coils -> BOOLEAN]
    BY <1>1, <1>3, CoilsAfterKeeps
<1>6. i \in Slots /\ i' \in 1..(MaxInstr + 1) /\ spc' \in {"apply", "test"} /\ left' \subseteq Channels
    BY RuntimeAssumption DEF Operate, Bounded, TypeOK, VmInBounds, Slots
<1> QED
    BY <1>4, <1>5, <1>6 DEF Operate, Bounded, TypeOK, VmInBounds, Stacks, program, loader

LEMMA ScanStepBounded == Bounded /\ ScanStep => Bounded'
<1> SUFFICES ASSUME Bounded, ScanStep PROVE Bounded'
    OBVIOUS
<1> USE DEF Bounded, TypeOK, VmInBounds, program, loader
<1>1. CASE Sample
    BY <1>1 DEF Sample
<1>2. CASE Decide
    BY <1>2 DEF Decide
<1>3. CASE Enter
    <2>1. stack' = <<>> /\ i' = 1 /\ 1 \in 1..(MaxInstr + 1) /\ Len(stack') <= Depth
        BY <1>3, RuntimeAssumption, LadderAssumption DEF Enter
    <2> QED
        BY <1>3, <2>1 DEF Enter
<1>4. CASE Test
    <2>1. i <= count => i \in Slots
        BY RuntimeAssumption DEF Slots
    <2> QED
        BY <1>4, <2>1 DEF Test
<1>5. CASE Fetch
    <2>1. instr[i].op \in Ops
        BY <1>5 DEF Fetch, Instrs
    <2> QED
        BY <1>5, <2>1 DEF Fetch
<1>6. CASE Operate
    BY <1>6, OperateBounded
<1>7. ASSUME NEW c \in Channels, Apply(c) PROVE Bounded'
    BY <1>7, RuntimeAssumption DEF Apply
<1>8. CASE Sleep
    BY <1>8 DEF Sleep
<1> QED
    BY <1>1, <1>2, <1>3, <1>4, <1>5, <1>6, <1>7, <1>8 DEF ScanStep

LEMMA LoaderStepBounded ==
    ASSUME Bounded, NEW w \in Loaders, BeginLoad(w) \/ LoadStep(w)
    PROVE  Bounded'
<1> USE DEF Bounded, TypeOK, VmInBounds, program, engine, LoadGoto
<1>1. CASE BeginLoad(w)
    BY <1>1 DEF BeginLoad
<1>2. CASE Unload(w)
    BY <1>2 DEF Unload
<1>3. CASE Uncount(w)
    <2>1. 1 \in Slots /\ 0 \in 0..MaxInstr
        BY RuntimeAssumption DEF Slots
    <2> QED
        BY <1>3, <2>1 DEF Uncount
<1>4. CASE Wipe(w)
    <2>1. at[w] \in Slots /\ instr' \in [Slots -> Instrs]
        BY <1>4, ZeroIsInstr DEF Wipe
    <2>2. /\ at'[w] \in Slots /\ at'[w] \in 1..(MaxInstr + 1)
          /\ lpc'[w] = "wipe" \/ (lpc'[w] = "validate" /\ at'[w] = 1)
        BY <1>4, <2>1, RuntimeAssumption DEF Wipe, Slots
    <2> QED
        BY <1>4, <2>1, <2>2 DEF Wipe
<1>5. CASE Reject(w)
    BY <1>5 DEF Reject
<1>6. ASSUME NEW p \in Programs, Accept(w, p) PROVE Bounded'
    <2>1. p \in Seq(Instrs) /\ 1 \in 1..(MaxInstr + 1) /\ (p # <<>> => 1 \in 1..Len(p))
        BY RuntimeAssumption, ProgramsAreSeqs
    <2> QED
        BY <1>6, <2>1 DEF Accept
<1>7. CASE CopyOpcode(w)
    <2>1. at[w] \in Slots /\ blob[w][at[w]] \in Instrs
        BY <1>7, ProgramsAreSeqs DEF CopyOpcode
    <2>2. instr' \in [Slots -> Instrs]
        BY <1>7, <2>1 DEF CopyOpcode, Instrs
    <2> QED
        BY <1>7, <2>2 DEF CopyOpcode
<1>8. CASE CopyOperands(w)
    <2>1. at[w] \in Slots /\ blob[w][at[w]] \in Instrs /\ at[w] \in 1..Len(blob[w])
        BY <1>8, ProgramsAreSeqs DEF CopyOperands
    <2>2. instr' \in [Slots -> Instrs]
        BY <1>8, <2>1 DEF CopyOperands, Instrs
    <2>3. at'[w] = at[w] + 1 /\ at'[w] \in 1..(MaxInstr + 1)
        BY <1>8, <2>1, RuntimeAssumption DEF CopyOperands, Slots
    <2>4. lpc'[w] = "opcode" => at'[w] \in 1..Len(blob'[w])
        BY <1>8, <2>1, <2>3, ProgramsAreSeqs DEF CopyOperands
    <2> QED
        BY <1>8, <2>2, <2>3, <2>4 DEF CopyOperands
<1>9. CASE SetCount(w)
    BY <1>9, ProgramsAreSeqs DEF SetCount
<1>10. CASE SetLoaded(w)
    BY <1>10, RuntimeAssumption DEF SetLoaded
<1> QED
    BY <1>1, <1>2, <1>3, <1>4, <1>5, <1>6, <1>7, <1>8, <1>9, <1>10 DEF LoadStep

LEMMA NextBounded == Bounded /\ [Next]_vars => Bounded'
<1> SUFFICES ASSUME Bounded, [Next]_vars PROVE Bounded'
    OBVIOUS
<1>1. CASE Start \/ Stop
    BY <1>1 DEF Start, Stop, Bounded, TypeOK, VmInBounds, program, loader
<1>2. ASSUME NEW c \in Forced, NEW v \in BOOLEAN, ForceCoil(c, v) PROVE Bounded'
    <2>1. coils' \in [Coils -> BOOLEAN]
        BY <1>2, SetCoilKeeps DEF ForceCoil, Bounded, TypeOK
    <2> QED
        BY <1>2, <2>1 DEF ForceCoil, Bounded, TypeOK, VmInBounds, program, engine, loader
<1>3. CASE UNCHANGED vars
    BY <1>3 DEF vars, Bounded, TypeOK, VmInBounds, program, engine, loader
<1> QED
    BY <1>1, <1>2, <1>3, ScanStepBounded, LoaderStepBounded DEF Next

THEOREM Types == Spec => []TypeOK
<1>1. Bounded => TypeOK
    BY DEF Bounded
<1> QED
    BY <1>1, InitBounded, NextBounded, PTL DEF Spec

\* However many workers exchange the program during a scan, the VM stays
\* inside its stack and inside g_instr.
THEOREM ScanStaysInBounds == Spec => []VmInBounds
<1>1. Bounded => VmInBounds
    BY DEF Bounded
<1> QED
    BY <1>1, InitBounded, NextBounded, PTL DEF Spec

-----------------------------------------------------------------------------
(* The loaded program.                                                      *)

Loading == Bounded /\ LoadInv /\ LoadedIsWhole

LEMMA InitLoading == Init => LoadInv /\ LoadedIsWhole
<1> SUFFICES ASSUME Init PROVE LoadInv /\ LoadedIsWhole
    OBVIOUS
<1>1. LoadInv
    BY DEF Init, LoadInv, LoadingWell
<1>2. ASSUME NEW p \in Programs, instr = Memory(p), count = Len(p) PROVE Holds(p)
    BY <1>2, ProgramsAreSeqs DEF Holds, Memory
<1> QED
    BY <1>1, <1>2 DEF Init, LoadedIsWhole

\* Steps that leave the program memory and the loaders alone.
LEMMA OtherStepsKeepProgram ==
    ASSUME LoadInv, LoadedIsWhole, UNCHANGED <<program, loader>>
    PROVE  LoadInv' /\ LoadedIsWhole'
BY DEF LoadInv, LoadingWell, Others, LoadedIsWhole, Holds, program, loader

\* It is enough to look at the one worker that loads.
LEMMA OneLoads ==
    ASSUME NEW w \in Loaders, \A v \in Loaders \ {w} : lpc'[v] = "idle", LoadingWell(w)'
    PROVE  LoadInv'
<1>1. ASSUME NEW v \in Loaders
      PROVE  (lpc'[v] # "idle" => Others(v)' = {}) /\ LoadingWell(v)'
    <2>1. CASE v = w
        BY <2>1 DEF Others
    <2>2. CASE v # w
        BY <2>2 DEF LoadingWell
    <2> QED
        BY <2>1, <2>2
<1> QED
    BY <1>1 DEF LoadInv

LEMMA LoaderStepKeeps ==
    ASSUME Loading, NEW w \in Loaders, BeginLoad(w) \/ LoadStep(w)
    PROVE  LoadInv' /\ LoadedIsWhole'
<1> SUFFICES ASSUME ~clash' PROVE LoadInv' /\ LoadedIsWhole'
    BY DEF LoadInv, LoadedIsWhole
<1> USE DEF Loading, Bounded, TypeOK, LoadGoto
<1>0. \A v \in Loaders \ {w} : lpc[v] = "idle" /\ lpc'[v] = "idle"
    <2>1. \A v \in Loaders \ {w} : lpc'[v] = lpc[v]
        BY DEF BeginLoad, LoadStep, Unload, Uncount, Wipe, Reject, Accept, CopyOpcode, CopyOperands,
               SetCount, SetLoaded
    <2>2. Others(w) = {}
        BY DEF BeginLoad, LoadStep, Unload, Uncount, Wipe, Reject, Accept, CopyOpcode, CopyOperands,
               SetCount, SetLoaded, LoadInv
    <2> QED
        BY <2>1, <2>2 DEF Others
<1>00. ~clash => LoadingWell(w)
    BY DEF LoadInv
<1> SUFFICES LoadingWell(w)' /\ LoadedIsWhole'
    BY <1>0, OneLoads
<1>1. CASE BeginLoad(w)
    BY <1>1 DEF BeginLoad, LoadingWell, LoadedIsWhole, Holds, program
<1>2. CASE Unload(w)
    BY <1>2 DEF Unload, LoadingWell, LoadedIsWhole
<1>3. CASE Uncount(w)
    BY <1>00, <1>3 DEF Uncount, LoadingWell, LoadedIsWhole
<1>4. CASE Wipe(w)
    BY <1>00, <1>4 DEF Wipe, LoadingWell, LoadedIsWhole
<1>5. CASE Reject(w)
    BY <1>00, <1>5 DEF Reject, LoadingWell, LoadedIsWhole, program
<1>6. ASSUME NEW p \in Programs, Accept(w, p) PROVE LoadingWell(w)' /\ LoadedIsWhole'
    <2>1. (p = <<>> => \A k \in DOMAIN p : FALSE) /\ \A k \in 1..(1 - 1) : FALSE
        OBVIOUS
    <2>2. blob'[w] = p /\ at'[w] = 1 /\ ~loaded'
        BY <1>00, <1>6 DEF Accept, LoadingWell, program
    <2>3. lpc'[w] = (IF p = <<>> THEN "count" ELSE "opcode")
        BY <1>6 DEF Accept
    <2> QED
        BY ONLY <2>1, <2>2, <2>3, SMT DEF LoadingWell, LoadedIsWhole
<1>7. CASE CopyOpcode(w)
    <2>1. /\ at[w] \in Slots /\ blob[w] \in Programs /\ at[w] \in 1..Len(blob[w])
          /\ \A k \in 1..(at[w] - 1) : instr[k] = blob[w][k] /\ k \in Slots
          /\ ~loaded
        <3>1. /\ lpc[w] = "opcode" /\ ~loaded /\ blob[w] \in Programs /\ at[w] \in 1..Len(blob[w])
              /\ \A k \in 1..(at[w] - 1) : instr[k] = blob[w][k]
            BY <1>00, <1>7 DEF CopyOpcode, LoadingWell
        <3>2. Len(blob[w]) \in 0..MaxInstr
            BY <3>1, ProgramsAreSeqs
        <3> QED
            BY ONLY <3>1, <3>2, RuntimeAssumption DEF Slots
    <2>2. instr'[at[w]].op = blob[w][at[w]].op
        BY <1>7, <2>1 DEF CopyOpcode, Instrs
    <2>3. \A k \in 1..(at[w] - 1) : instr'[k] = blob[w][k]
        BY <1>7, <2>1 DEF CopyOpcode
    <2>4. blob' = blob /\ at' = at /\ ~loaded' /\ lpc'[w] = "operands"
        BY <1>7, <2>1 DEF CopyOpcode
    <2> QED
        BY ONLY <2>2, <2>3, <2>4, SMT DEF LoadingWell, LoadedIsWhole
<1>8. CASE CopyOperands(w)
    <2> DEFINE n == at[w]
    <2>1. /\ n \in Slots /\ blob[w] \in Programs /\ n \in 1..Len(blob[w])
          /\ \A k \in 1..(n - 1) : instr[k] = blob[w][k] /\ k \in Slots
          /\ instr[n].op = blob[w][n].op
          /\ ~loaded
        <3>1. /\ lpc[w] = "operands" /\ ~loaded /\ blob[w] \in Programs /\ n \in 1..Len(blob[w])
              /\ \A k \in 1..(n - 1) : instr[k] = blob[w][k]
              /\ instr[n].op = blob[w][n].op
            BY <1>00, <1>8 DEF CopyOperands, LoadingWell
        <3>2. Len(blob[w]) \in 0..MaxInstr
            BY <3>1, ProgramsAreSeqs
        <3> QED
            BY ONLY <3>1, <3>2, RuntimeAssumption DEF Slots
    <2>2. blob[w][n] \in Instrs /\ instr[n] \in Instrs
        BY <2>1, ProgramsAreSeqs
    <2>3. instr'[n] = blob[w][n] /\ \A k \in Slots \ {n} : instr'[k] = instr[k]
        <3>1. instr' = [instr EXCEPT ![n].cls = blob[w][n].cls, ![n].adr = blob[w][n].adr]
            BY <1>8 DEF CopyOperands
        <3>2. DOMAIN instr = Slots
            OBVIOUS
        <3>3. instr'[n].op = instr[n].op /\ instr'[n].cls = blob[w][n].cls /\ instr'[n].adr = blob[w][n].adr
            BY ONLY <2>1, <2>2, <3>1, <3>2 DEF Instrs
        <3>4. instr'[n] \in Instrs
            BY ONLY <2>1, <2>2, <3>1, <3>2 DEF Instrs
        <3>5. \A k \in Slots \ {n} : instr'[k] = instr[k]
            BY ONLY <2>1, <3>1, <3>2
        <3> QED
            BY ONLY <2>1, <2>2, <3>3, <3>4, <3>5 DEF Instrs
    <2>4. \A k \in 1..n : instr'[k] = blob[w][k]
        BY ONLY <2>1, <2>3 DEF Slots
    <2>5. blob' = blob /\ at'[w] = n + 1 /\ ~loaded'
        BY <1>8, <2>1 DEF CopyOperands
    <2>6. lpc'[w] = (IF n < Len(blob[w]) THEN "opcode" ELSE "count")
        BY <1>8 DEF CopyOperands
    <2>7. ~(n < Len(blob[w])) => DOMAIN blob[w] = 1..n
        BY <2>1, ProgramsAreSeqs
    <2>8. (n + 1) - 1 = n
        BY <2>1 DEF Slots
    <2> HIDE DEF n
    <2> QED
        BY <2>4, <2>5, <2>6, <2>7, <2>8 DEF LoadingWell, LoadedIsWhole
<1>9. CASE SetCount(w)
    BY <1>00, <1>9 DEF SetCount, LoadingWell, LoadedIsWhole
<1>10. CASE SetLoaded(w)
    <2>1. Holds(blob[w]) /\ blob[w] \in Programs
        BY <1>00, <1>10 DEF SetLoaded, LoadingWell, Holds
    <2>2. instr' = instr /\ count' = count /\ lpc'[w] = "idle"
        BY <1>10 DEF SetLoaded
    <2>3. \E p \in Programs : count' = Len(p) /\ \A k \in DOMAIN p : instr'[k] = p[k]
        BY <2>1, <2>2 DEF Holds
    <2> QED
        BY <2>2, <2>3 DEF LoadingWell, LoadedIsWhole, Holds
<1> QED
    BY <1>1, <1>2, <1>3, <1>4, <1>5, <1>6, <1>7, <1>8, <1>9, <1>10 DEF LoadStep

LEMMA NextLoading == Loading /\ [Next]_vars => Loading'
<1> SUFFICES ASSUME Loading, [Next]_vars PROVE LoadInv' /\ LoadedIsWhole'
    BY NextBounded DEF Loading
<1>1. CASE ScanStep \/ Start \/ Stop \/ \E c \in Forced, v \in BOOLEAN : ForceCoil(c, v)
    <2>1. UNCHANGED <<program, loader>>
        BY <1>1 DEF ScanStep, Sample, Decide, Enter, Test, Fetch, Operate, Apply, Sleep, Start, Stop, ForceCoil
    <2> QED
        BY <2>1, OtherStepsKeepProgram DEF Loading
<1>2. CASE UNCHANGED vars
    BY <1>2, OtherStepsKeepProgram DEF Loading, vars
<1> QED
    BY <1>1, <1>2, LoaderStepKeeps DEF Next

\* However many workers load at once and whatever mixture they leave under
\* g_loaded: once a load empties the memory alone, and as long as no second
\* one begins before it is over, what the VM calls loaded is one whole program.
THEOREM LoadedProgramIsWhole == Spec => []LoadedIsWhole
<1>1. Init => Loading
    BY InitBounded, InitLoading DEF Loading
<1>2. Loading /\ [Next]_vars => Loading'
    BY NextLoading
<1>3. Loading => LoadedIsWhole
    BY DEF Loading
<1> QED
    BY <1>1, <1>2, <1>3, PTL DEF Spec
=============================================================================
