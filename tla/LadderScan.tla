----------------------------- MODULE LadderScan -----------------------------
(***************************************************************************)
(* One undisturbed call of ladder_vm_execute_scan, instruction by          *)
(* instruction, from any state of the registers: does the stack machine    *)
(* compute what the ladder diagram means?                                  *)
(*                                                                         *)
(* A rung is what a ladder editor draws: parallel branches of contacts in  *)
(* series, closed into one coil.  Its meaning is read off the drawing; its *)
(* program is the instruction sequence opcodes.h provides for it.          *)
(***************************************************************************)
EXTENDS LadderOps, SequencesExt

CONSTANTS
    Diagrams    \* the ladder diagrams to run: sequences of rungs

VARIABLES
    diagram,    \* the diagram
    code,       \* g_instr: its program, as loaded
    inputs,     \* discrete inputs, sampled before the scan
    before,     \* the coils when the scan began
    coils,      \* the coils now
    stack,      \* the local stack of execute_scan
    i           \* the loop counter; 0 once the scan has returned

scanVars == <<diagram, code, inputs, before, coils, stack, i>>

-----------------------------------------------------------------------------
(* Diagrams.                                                                *)

\* A contact, normally closed if neg; contacts in series; branches in
\* parallel, closed into one coil.
Contacts == [neg : BOOLEAN, cls : Classes, adr : Nat]
Branches == Seq(Contacts) \ {<<>>}
Rungs == [branches : Seq(Branches), out : {"OUT", "OUT_NOT", "SET", "RST"}, adr : Nat]

\* Three values suffice for every rung (LADDER_STACK_DEPTH is 128).
ASSUME DiagramAssumption ==
    /\ Diagrams \subseteq Seq(Rungs)
    /\ Depth >= 3

Closed(contact, co, in) ==
    ReadBool(contact.cls, contact.adr, co, in) # contact.neg

\* Power reaches the coil when all the contacts of a branch are closed.
Power(rung, co, in) ==
    \E b \in Range(rung.branches) : \A k \in Range(b) : Closed(k, co, in)

\* A rung drives its coil; a diagram is its rungs from top to bottom.
RungMeans(co, in, rung) ==
    LET p == Power(rung, co, in)
    IN CASE rung.out = "OUT" -> SetCoil(co, rung.adr, p)
         [] rung.out = "OUT_NOT" -> SetCoil(co, rung.adr, ~p)
         [] rung.out = "SET" /\ p -> SetCoil(co, rung.adr, TRUE)
         [] rung.out = "RST" /\ p -> SetCoil(co, rung.adr, FALSE)
         [] OTHER -> co

Meaning(rungs, co, in) ==
    LET after[n \in 0..Len(rungs)] ==
            IF n = 0 THEN co ELSE RungMeans(after[n - 1], in, rungs[n])
    IN after[Len(rungs)]

-----------------------------------------------------------------------------
(* Their programs.                                                          *)

Instr(op, k) == [op |-> op, cls |-> k.cls, adr |-> k.adr]

\* The first contact of a branch is loaded, the others are anded to it.
ContactCode(k, first) ==
    IF first THEN <<Instr(IF k.neg THEN "LD_NOT" ELSE "LD", k)>>
    ELSE IF k.neg THEN <<Instr("AND_NOT", k)>>
    ELSE <<Instr("LD", k), Instr("AND", k)>>

BranchCode(b) == FlattenSeq([n \in DOMAIN b |-> ContactCode(b[n], n = 1)])

\* The other branches are ored to the first; a lone negated contact has an
\* instruction of its own.
ParallelCode(b, first) ==
    IF first THEN BranchCode(b)
    ELSE IF Len(b) = 1 /\ b[1].neg THEN <<Instr("OR_NOT", b[1])>>
    ELSE Append(BranchCode(b), Instr("OR", b[1]))

RungCode(rung) ==
    Append(FlattenSeq([n \in DOMAIN rung.branches |-> ParallelCode(rung.branches[n], n = 1)]),
           [op |-> rung.out, cls |-> "input", adr |-> rung.adr])

Program(rungs) ==
    Append(FlattenSeq([n \in DOMAIN rungs |-> RungCode(rungs[n])]),
           [ZeroInstr EXCEPT !.op = "END"])

-----------------------------------------------------------------------------
ScanInit ==
    /\ diagram \in Diagrams
    /\ code = Program(diagram)
    /\ inputs \in [Inputs -> BOOLEAN]
    /\ before \in [Coils -> BOOLEAN]
    /\ coils = before
    /\ stack = <<>>
    /\ i = 1

Current == code[i]

\* One turn of the loop of execute_scan; END and the end of the program leave
\* it.
Execute ==
    /\ i > 0
    /\ LET ins == Current
           v == ReadBool(ins.cls, ins.adr, coils, inputs)
       IN /\ stack' = StackAfter(ins.op, v, stack)
          /\ coils' = CoilsAfter(ins.op, ins.adr, stack, coils)
          /\ i' = IF ins.op = "END" \/ i = Len(code) THEN 0 ELSE i + 1
    /\ UNCHANGED <<diagram, code, inputs, before>>

\* The scan has returned.
Returned == i = 0 /\ UNCHANGED scanVars

ScanNext == Execute \/ Returned

ScanSpec == ScanInit /\ [][ScanNext]_scanVars

-----------------------------------------------------------------------------
\* When the scan returns, the coils are what the diagram makes of the inputs
\* and of the coils it began with.
ScanMeansDiagram == i = 0 => coils = Meaning(diagram, before, inputs)

\* A scan leaves nothing on its stack: every rung pops what it pushed.
ScanIsBalanced == i = 0 => stack = <<>>
=============================================================================
