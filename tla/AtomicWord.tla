----------------------------- MODULE AtomicWord -----------------------------
(***************************************************************************)
(* What the single-word accessors of the register pool promise: bits,      *)
(* bytes and words of a register are read and replaced in one step, and    *)
(* whatever shares the register with them stays.  SubWord implements it.   *)
(***************************************************************************)
EXTENDS Integers

CONSTANTS
    PoolRegs,   \* MDCU_POOL_REGS
    Half,       \* bits in a byte (8)
    Procs,      \* threads of the processes that map the pool
    Requests,   \* the calls they make
    Idle        \* no call

Bits  == 0..2 * Half - 1
Words == [Bits -> {0, 1}]
Zero  == [b \in Bits |-> 0]

VARIABLES
    mem,        \* the registers
    asked,      \* asked[p]: the call p is in, or Idle
    out         \* out[p]: what its last call returned

vars == <<mem, asked, out>>

\* The bits a call is about: a single one, a byte, the word.
Field(q) == {b \in Bits : \/ q.kind = "bit" /\ b = q.sub
                          \/ q.kind = "u8" /\ b \div Half = q.sub
                          \/ q.kind = "u16"}

\* The register exists, and so do the bit or the byte in it.
Allowed(q) ==
    /\ q.reg < PoolRegs
    /\ q.kind = "bit" => q.sub < 2 * Half
    /\ q.kind = "u8" => q.sub < 2

\* The word w with the field of q replaced.
With(q, w) == [b \in Bits |-> IF b \in Field(q) THEN q.word[b] ELSE w[b]]

\* The field of q in w.
Part(q, w) == [b \in Bits |-> IF b \in Field(q) THEN w[b] ELSE 0]

Init ==
    /\ mem \in [0..PoolRegs - 1 -> Words]
    /\ asked = [p \in Procs |-> Idle]
    /\ out = [p \in Procs |-> <<"none", Zero>>]

Call(p, q) ==
    /\ asked[p] = Idle
    /\ asked' = [asked EXCEPT ![p] = q]
    /\ UNCHANGED <<mem, out>>

\* The call of p returns, with the value v if it is a get.
Returns(p, result, v) ==
    /\ asked' = [asked EXCEPT ![p] = Idle]
    /\ out' = [out EXCEPT ![p] = <<result, v>>]

Refuse(p) ==
    /\ asked[p] # Idle /\ ~Allowed(asked[p])
    /\ Returns(p, "error", Zero)
    /\ UNCHANGED mem

Get(p) ==
    /\ asked[p] # Idle /\ Allowed(asked[p]) /\ asked[p].op = "get"
    /\ Returns(p, "value", Part(asked[p], mem[asked[p].reg]))
    /\ UNCHANGED mem

Set(p) ==
    /\ asked[p] # Idle /\ Allowed(asked[p]) /\ asked[p].op = "set"
    /\ mem' = [mem EXCEPT ![asked[p].reg] = With(asked[p], @)]
    /\ Returns(p, "done", Zero)

Next == \E p \in Procs :
    (\E q \in Requests : Call(p, q)) \/ Refuse(p) \/ Get(p) \/ Set(p)

Spec == Init /\ [][Next]_vars
=============================================================================
