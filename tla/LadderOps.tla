----------------------------- MODULE LadderOps ------------------------------
(***************************************************************************)
(* The instructions of the ladder VM (ladder_vm.c): the bounded boolean    *)
(* stack, the register accessors they go through, and what one instruction *)
(* does to the stack and the coils.                                        *)
(*                                                                         *)
(* An instruction is a record: op, cls (operand 1, the memory class) and   *)
(* adr (operand 2, the register).  ZeroInstr is a cleared slot of g_instr. *)
(***************************************************************************)
EXTENDS Naturals, Sequences

CONSTANTS
    NCoils,     \* REG_COIL_COUNT
    NInputs,    \* REG_DISCRETE_INPUT_COUNT
    Depth       \* LADDER_STACK_DEPTH

ASSUME LadderAssumption ==
    /\ NCoils \in Nat
    /\ NInputs \in Nat
    /\ Depth \in Nat \ {0}

Coils  == 0..(NCoils - 1)
Inputs == 0..(NInputs - 1)

Ops == {"NOP", "LD", "LD_NOT", "AND", "AND_NOT", "OR", "OR_NOT",
        "OUT", "OUT_NOT", "SET", "RST", "END"}

\* Operand 1: any value but MEM_DISCRETE_INPUT (0) reads a coil.
Classes == {"input", "coil"}

\* What memset leaves in a slot: opcode 0 does nothing, class 0 is
\* MEM_DISCRETE_INPUT, register 0.
ZeroInstr == [op |-> "NOP", cls |-> "input", adr |-> 0]

Instrs == [op : Ops, cls : Classes, adr : Nat]

-----------------------------------------------------------------------------
\* Mutant of Push: no check of the depth.
PushUnbounded(stack, v) == Append(stack, v)

\* push: one value more, unless the stack is full; then it is dropped.
Push(stack, v) == IF Len(stack) >= Depth THEN stack ELSE Append(stack, v)

\* pop: the top value, FALSE when the stack is empty.
Top(stack) == stack # <<>> /\ stack[Len(stack)]

\* Mutant of Drop: pop peeks, the value stays.
DropNothing(stack) == stack

Drop(stack) == IF stack = <<>> THEN stack ELSE SubSeq(stack, 1, Len(stack) - 1)

\* reg_get_discrete_input and reg_get_coil: FALSE out of range.
ReadBool(cls, adr, coils, inputs) ==
    IF cls = "input" THEN adr \in Inputs /\ inputs[adr]
                     ELSE adr \in Coils /\ coils[adr]

\* reg_set_coil: ignored out of range.
SetCoil(coils, adr, v) == [c \in Coils |-> IF c = adr THEN v ELSE coils[c]]

-----------------------------------------------------------------------------
\* Mutant of StackAfter: AND_NOT takes its second value from the stack too.
StackAfterPoppingNot(op, v, stack) ==
    LET a == Top(stack)
        b == Top(Drop(stack))
    IN CASE op = "LD"      -> Push(stack, v)
         [] op = "LD_NOT"  -> Push(stack, ~v)
         [] op = "AND"     -> Push(Drop(Drop(stack)), b /\ a)
         [] op = "AND_NOT" -> Push(Drop(Drop(stack)), b /\ ~a)
         [] op = "OR"      -> Push(Drop(Drop(stack)), b \/ a)
         [] op = "OR_NOT"  -> Push(Drop(stack), a \/ ~v)
         [] op \in {"OUT", "OUT_NOT", "SET", "RST"} -> Drop(stack)
         [] OTHER -> stack

\* The stack after one instruction whose operand reads v.  AND and OR combine
\* the two topmost values; AND_NOT and OR_NOT combine the topmost value with
\* the negated operand.
StackAfter(op, v, stack) ==
    LET a == Top(stack)
        b == Top(Drop(stack))
    IN CASE op = "LD"      -> Push(stack, v)
         [] op = "LD_NOT"  -> Push(stack, ~v)
         [] op = "AND"     -> Push(Drop(Drop(stack)), b /\ a)
         [] op = "AND_NOT" -> Push(Drop(stack), a /\ ~v)
         [] op = "OR"      -> Push(Drop(Drop(stack)), b \/ a)
         [] op = "OR_NOT"  -> Push(Drop(stack), a \/ ~v)
         [] op \in {"OUT", "OUT_NOT", "SET", "RST"} -> Drop(stack)
         [] OTHER -> stack

\* The coils after one instruction: OUT and OUT_NOT store, SET and RST latch.
CoilsAfter(op, adr, stack, coils) ==
    LET v == Top(stack)
    IN CASE op = "OUT"      -> SetCoil(coils, adr, v)
         [] op = "OUT_NOT"  -> SetCoil(coils, adr, ~v)
         [] op = "SET" /\ v -> SetCoil(coils, adr, TRUE)
         [] op = "RST" /\ v -> SetCoil(coils, adr, FALSE)
         [] OTHER -> coils
=============================================================================
