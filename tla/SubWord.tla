------------------------------ MODULE SubWord -------------------------------
(***************************************************************************)
(* The accessors of libmdcu-pool that read or replace a bit, a byte or a   *)
(* whole register (mdcu_pool.c), one step per atomic access.  None of them *)
(* takes the sequence lock: a bit is set with one fetch-and-or, a byte by  *)
(* a compare-and-swap loop, a word with one store, all on the same words.  *)
(***************************************************************************)
EXTENDS Integers

CONSTANTS
    PoolRegs, Half, Procs, Requests, Idle,
    MaxCalls    \* bound: calls made

VARIABLES mem, asked, out,
    pc,         \* pc[p]: "in" a call, or at the "cas" of the loop of set_u8
    old,        \* old[p]: what the loop takes the register to hold
    calls       \* calls made so far

A == INSTANCE AtomicWord

ASSUME WordAssumption ==
    /\ PoolRegs \in Nat /\ Half \in Nat \ {0}
    /\ MaxCalls \in Nat
    /\ Idle \notin Requests
    /\ Requests \subseteq [op: {"get", "set"}, kind: {"bit", "u8", "u16"},
                           reg: Nat, sub: Nat, word: A!Words]

wordVars == <<mem, asked, out, pc, old, calls>>

WordInit ==
    /\ A!Init
    /\ pc = [p \in Procs |-> "in"]
    /\ old = [p \in Procs |-> A!Zero]
    /\ calls = 0

\* A thread calls an accessor.
Call(p, q) ==
    /\ calls < MaxCalls
    /\ calls' = calls + 1
    /\ A!Call(p, q)
    /\ UNCHANGED <<pc, old>>

\* Mutant of Refuse: the number of the bit or the byte is not looked at.
RefuseRegisterOnly(p) ==
    /\ asked[p] # Idle /\ asked[p].reg >= PoolRegs
    /\ A!Returns(p, "error", A!Zero)
    /\ UNCHANGED <<mem, pc, old, calls>>

\* BOUNDS_R, BOUNDS_RW and the range of the bit or the half.
Refuse(p) ==
    /\ A!Refuse(p)
    /\ UNCHANGED <<pc, old, calls>>

\* A call that passed the checks, at its first access to the register.
At(p, op, kinds) ==
    /\ asked[p] # Idle /\ A!Allowed(asked[p]) /\ pc[p] = "in"
    /\ asked[p].op = op /\ asked[p].kind \in kinds

\* The register the call of p is about.
Reg(p) == asked[p].reg

\* mdcu_get_bit, mdcu_get_u8, mdcu_get_u16: one load.
Load(p) ==
    /\ At(p, "get", {"bit", "u8", "u16"})
    /\ A!Returns(p, "value", A!Part(asked[p], mem[Reg(p)]))
    /\ UNCHANGED <<mem, pc, old, calls>>

\* mdcu_set_bit: one __atomic_or_fetch or __atomic_and_fetch.
SetBit(p) ==
    /\ At(p, "set", {"bit"})
    /\ mem' = [mem EXCEPT ![Reg(p)][asked[p].sub] = asked[p].word[asked[p].sub]]
    /\ A!Returns(p, "done", A!Zero)
    /\ UNCHANGED <<pc, old, calls>>

\* mdcu_set_u16: one store.
SetU16(p) ==
    /\ At(p, "set", {"u16"})
    /\ mem' = [mem EXCEPT ![Reg(p)] = asked[p].word]
    /\ A!Returns(p, "done", A!Zero)
    /\ UNCHANGED <<pc, old, calls>>

\* mdcu_set_u8: the load before the loop.
LoadOld(p) ==
    /\ At(p, "set", {"u8"})
    /\ old' = [old EXCEPT ![p] = mem[Reg(p)]]
    /\ pc' = [pc EXCEPT ![p] = "cas"]
    /\ UNCHANGED <<mem, asked, out, calls>>

\* Mutant of Swap: a plain store in place of the compare-and-swap.
SwapUnchecked(p) ==
    /\ pc[p] = "cas"
    /\ mem' = [mem EXCEPT ![Reg(p)] = A!With(asked[p], old[p])]
    /\ A!Returns(p, "done", A!Zero)
    /\ pc' = [pc EXCEPT ![p] = "in"]
    /\ UNCHANGED <<old, calls>>

\* mdcu_set_u8: the register still holds old, the exchange takes place.
Swap(p) ==
    /\ pc[p] = "cas" /\ mem[Reg(p)] = old[p]
    /\ mem' = [mem EXCEPT ![Reg(p)] = A!With(asked[p], old[p])]
    /\ A!Returns(p, "done", A!Zero)
    /\ pc' = [pc EXCEPT ![p] = "in"]
    /\ UNCHANGED <<old, calls>>

\* Mutant of Miss: the loop goes on with the value it began with.
MissStale(p) ==
    /\ pc[p] = "cas"
    /\ UNCHANGED wordVars

\* mdcu_set_u8: the exchange fails, because the register has changed or, the
\* exchange being a weak one, for no reason; old is loaded again.
Miss(p) ==
    /\ pc[p] = "cas"
    /\ old' = [old EXCEPT ![p] = mem[Reg(p)]]
    /\ UNCHANGED <<mem, asked, out, pc, calls>>

Step(p) == Refuse(p) \/ Load(p) \/ SetBit(p) \/ SetU16(p) \/ LoadOld(p)

WordNext == \E p \in Procs :
    (\E q \in Requests : Call(p, q)) \/ Step(p) \/ Swap(p) \/ Miss(p)

WordSpec == WordInit /\ [][WordNext]_wordVars

\* Threads in a call run; an exchange that could succeed is not refused for ever.
WordFairSpec ==
    /\ WordSpec
    /\ \A p \in Procs : WF_wordVars(Step(p)) /\ WF_wordVars(Swap(p)) /\ WF_wordVars(Miss(p))

-----------------------------------------------------------------------------
\* The types of the variables; the loop is entered for bytes that exist only.
WordTypeOK ==
    /\ mem \in [0..PoolRegs - 1 -> A!Words]
    /\ asked \in [Procs -> Requests \cup {Idle}]
    /\ pc \in [Procs -> {"in", "cas"}]
    /\ old \in [Procs -> A!Words]
    /\ calls \in Nat
    /\ DOMAIN out = Procs
    /\ \A p \in Procs : pc[p] = "cas" =>
          asked[p] # Idle /\ A!Allowed(asked[p]) /\ asked[p].op = "set" /\ asked[p].kind = "u8"

\* Mixed setters of bits, bytes and words on one register lose nothing of each
\* other: every accessor takes effect at one instant between call and return.
ImplementsAtomicWord == A!Spec

\* An accessor that was called returns, the loop of mdcu_set_u8 included.
AccessorsReturn == \A p \in Procs : asked[p] # Idle ~> asked[p] = Idle
=============================================================================
