------------------------------ MODULE RegPool -------------------------------
(***************************************************************************)
(* The shared register pool of libmdcu-pool (mdcu_pool.c): single-word     *)
(* registers that are loaded and stored atomically, and multi-word values  *)
(* and blocks under one global sequence lock.  Every atomic access of the  *)
(* C code is a step of its own, so the processes that map the pool         *)
(* interleave as they do on the device.                                    *)
(*                                                                         *)
(* Data abstraction: a register holds the number of the write that stored  *)
(* it, not its payload.  All words of one multi-word write carry the same  *)
(* number, so a torn value shows as two numbers in one cell.               *)
(*                                                                         *)
(* The loads and stores inside a critical section are __ATOMIC_RELAXED:    *)
(* they may take place in any order, and the model takes any order.        *)
(***************************************************************************)
EXTENDS Naturals, FiniteSets

CONSTANTS
    Writers,    \* processes that call the setters
    Readers,    \* threads that call the getters (the REST workers)
    Regs,       \* the registers in use
    Cells,      \* the values kept in the pool: sets of registers
    Owner,      \* Owner[c]: the writer configured for the range of c
    Ranges,     \* the register ranges readers ask for
    MaxWrites,  \* bound: writes to one cell
    MaxCrashes  \* bound: times a writer is killed

\* u32/u64/blocks fill several registers, u16 values one.
Blocks == {c \in Cells : Cardinality(c) > 1}
Words  == Cells \ Blocks
BlockRegs == UNION Blocks

ASSUME CellsAssumption ==
    /\ Cells \subseteq SUBSET Regs
    /\ \A c, d \in Cells : c # d => c \cap d = {}
    /\ Owner \in [Cells -> Writers]
    /\ Ranges \subseteq SUBSET Regs
    /\ MaxWrites \in Nat
    /\ MaxCrashes \in Nat

VARIABLES
    seq,        \* mdcu_shm_t.seq
    regs,       \* mdcu_shm_t.regs
    wpc,        \* wpc[w]: "idle", or "store" between the two bumps of seq
    wcell,      \* wcell[w]: the cell w is writing
    wleft,      \* wleft[w]: its registers not stored yet
    writes,     \* writes[c]: how many writes to c have begun (the data)
    rpc,        \* rpc[r]: "idle", "begin" (spinning on odd seq), "load"
    rrange,     \* rrange[r]: the range asked for
    rseq,       \* rseq[r]: the value of seq the read began with
    rbuf,       \* rbuf[r]: the words loaded so far, by register
    rout,       \* rout[r]: what the last read of r returned
    crashes,    \* how often a writer was killed
    image       \* history: the registers as of the last completed write

poolVars   == <<seq, regs>>
writerVars == <<wpc, wcell, wleft, writes, crashes, image>>
readerVars == <<rpc, rrange, rseq, rbuf, rout>>
vars == <<poolVars, writerVars, readerVars>>

Nothing == [x \in {} |-> 0]

Init ==
    /\ seq = 0
    /\ regs = [x \in Regs |-> 0]
    /\ wpc = [w \in Writers |-> "idle"]
    /\ wcell = [w \in Writers |-> {}]
    /\ wleft = [w \in Writers |-> {}]
    /\ writes = [c \in Cells |-> 0]
    /\ rpc = [r \in Readers |-> "idle"]
    /\ rrange = [r \in Readers |-> {}]
    /\ rseq = [r \in Readers |-> 0]
    /\ rbuf = [r \in Readers |-> Nothing]
    /\ rout = [r \in Readers |-> Nothing]
    /\ crashes = 0
    /\ image = [x \in Regs |-> 0]

-----------------------------------------------------------------------------
(* Writers: set_u32, set_u64, write_block and set_u16.                      *)

\* Mutant of BeginWrite: the setter forgets the first bump.
BeginWriteUnlocked(w, c) ==
    /\ wpc[w] = "idle"
    /\ Owner[c] = w
    /\ writes[c] < MaxWrites
    /\ wpc' = [wpc EXCEPT ![w] = "store"]
    /\ wcell' = [wcell EXCEPT ![w] = c]
    /\ wleft' = [wleft EXCEPT ![w] = c]
    /\ writes' = [writes EXCEPT ![c] = @ + 1]
    /\ UNCHANGED <<poolVars, crashes, image, readerVars>>

\* seq_begin_write: the first bump of seq.
BeginWrite(w, c) ==
    /\ wpc[w] = "idle"
    /\ Owner[c] = w
    /\ writes[c] < MaxWrites
    /\ seq' = seq + 1
    /\ wpc' = [wpc EXCEPT ![w] = "store"]
    /\ wcell' = [wcell EXCEPT ![w] = c]
    /\ wleft' = [wleft EXCEPT ![w] = c]
    /\ writes' = [writes EXCEPT ![c] = @ + 1]
    /\ UNCHANGED <<regs, crashes, image, readerVars>>

\* One relaxed store of a word of the value.
StoreWord(w, x) ==
    /\ wpc[w] = "store"
    /\ x \in wleft[w]
    /\ regs' = [regs EXCEPT ![x] = writes[wcell[w]]]
    /\ wleft' = [wleft EXCEPT ![w] = @ \ {x}]
    /\ UNCHANGED <<seq, wpc, wcell, writes, crashes, image, readerVars>>

\* Mutant of EndWrite: a return path without the second bump.
EndWriteUnbalanced(w) ==
    /\ wpc[w] = "store"
    /\ wleft[w] = {}
    /\ wpc' = [wpc EXCEPT ![w] = "idle"]
    /\ wcell' = [wcell EXCEPT ![w] = {}]
    /\ image' = [x \in Regs |-> IF x \in wcell[w] THEN writes[wcell[w]] ELSE image[x]]
    /\ UNCHANGED <<poolVars, wleft, writes, crashes, readerVars>>

\* seq_end_write: the second bump of seq; the setter returns.
EndWrite(w) ==
    /\ wpc[w] = "store"
    /\ wleft[w] = {}
    /\ seq' = seq + 1
    /\ wpc' = [wpc EXCEPT ![w] = "idle"]
    /\ image' = [x \in Regs |-> IF x \in wcell[w] THEN writes[wcell[w]] ELSE image[x]]
    /\ wcell' = [wcell EXCEPT ![w] = {}]
    /\ UNCHANGED <<regs, wleft, writes, crashes, readerVars>>

\* mdcu_set_u16: one atomic store, no sequence lock.
SetWord(w, c) ==
    /\ wpc[w] = "idle"
    /\ Owner[c] = w
    /\ writes[c] < MaxWrites
    /\ writes' = [writes EXCEPT ![c] = @ + 1]
    /\ regs'  = [x \in Regs |-> IF x \in c THEN writes'[c] ELSE regs[x]]
    /\ image' = [x \in Regs |-> IF x \in c THEN writes'[c] ELSE image[x]]
    /\ UNCHANGED <<seq, wpc, wcell, wleft, crashes, readerVars>>

\* The writer is killed between the two bumps and started again.  Its
\* mdcu_pool_open finds a valid header and leaves seq as the dead process
\* left it.
Crash(w) ==
    /\ crashes < MaxCrashes
    /\ wpc[w] = "store"
    /\ crashes' = crashes + 1
    /\ wpc' = [wpc EXCEPT ![w] = "idle"]
    /\ wcell' = [wcell EXCEPT ![w] = {}]
    /\ wleft' = [wleft EXCEPT ![w] = {}]
    /\ UNCHANGED <<poolVars, writes, image, readerVars>>

-----------------------------------------------------------------------------
(* Readers: get_u32, get_u64 and read_block.                                *)

CallRead(r, range) ==
    /\ rpc[r] = "idle"
    /\ rpc' = [rpc EXCEPT ![r] = "begin"]
    /\ rrange' = [rrange EXCEPT ![r] = range]
    /\ UNCHANGED <<poolVars, writerVars, rseq, rbuf, rout>>

\* seq_begin_read: a load that finds seq odd is followed by another one ...
Spin(r) ==
    /\ rpc[r] = "begin"
    /\ seq % 2 = 1
    /\ UNCHANGED vars

\* Mutant of BeginRead: the read does not wait for an even seq.
BeginReadAnyParity(r) ==
    /\ rpc[r] = "begin"
    /\ rpc' = [rpc EXCEPT ![r] = "load"]
    /\ rseq' = [rseq EXCEPT ![r] = seq]
    /\ rbuf' = [rbuf EXCEPT ![r] = Nothing]
    /\ UNCHANGED <<poolVars, writerVars, rrange, rout>>

\* ... and the load that finds it even ends the spin.
BeginRead(r) ==
    /\ rpc[r] = "begin"
    /\ seq % 2 = 0
    /\ rpc' = [rpc EXCEPT ![r] = "load"]
    /\ rseq' = [rseq EXCEPT ![r] = seq]
    /\ rbuf' = [rbuf EXCEPT ![r] = Nothing]
    /\ UNCHANGED <<poolVars, writerVars, rrange, rout>>

\* One relaxed load of a word of the range.
LoadWord(r, x) ==
    /\ rpc[r] = "load"
    /\ x \in rrange[r] \ DOMAIN rbuf[r]
    /\ rbuf' = [rbuf EXCEPT ![r] =
                  [y \in DOMAIN rbuf[r] \cup {x} |-> IF y = x THEN regs[x] ELSE rbuf[r][y]]]
    /\ UNCHANGED <<poolVars, writerVars, rpc, rrange, rseq, rout>>

\* seq_retry: seq has changed since the read began, start over ...
Retry(r) ==
    /\ rpc[r] = "load"
    /\ DOMAIN rbuf[r] = rrange[r]
    /\ seq # rseq[r]
    /\ rpc' = [rpc EXCEPT ![r] = "begin"]
    /\ UNCHANGED <<poolVars, writerVars, rrange, rseq, rbuf, rout>>

\* Mutant of Return: the words are returned without seq_retry.
ReturnUnchecked(r) ==
    /\ rpc[r] = "load"
    /\ DOMAIN rbuf[r] = rrange[r]
    /\ rpc' = [rpc EXCEPT ![r] = "idle"]
    /\ rout' = [rout EXCEPT ![r] = rbuf[r]]
    /\ rbuf' = [rbuf EXCEPT ![r] = Nothing]
    /\ rrange' = [rrange EXCEPT ![r] = {}]
    /\ rseq' = [rseq EXCEPT ![r] = 0]
    /\ UNCHANGED <<poolVars, writerVars>>

\* ... or it has not, and the words are returned.
Return(r) ==
    /\ rpc[r] = "load"
    /\ DOMAIN rbuf[r] = rrange[r]
    /\ seq = rseq[r]
    /\ rpc' = [rpc EXCEPT ![r] = "idle"]
    /\ rout' = [rout EXCEPT ![r] = rbuf[r]]
    /\ rbuf' = [rbuf EXCEPT ![r] = Nothing]
    /\ rrange' = [rrange EXCEPT ![r] = {}]
    /\ rseq' = [rseq EXCEPT ![r] = 0]
    /\ UNCHANGED <<poolVars, writerVars>>

-----------------------------------------------------------------------------
WriterStep(w) ==
    \/ \E x \in Regs : StoreWord(w, x)
    \/ EndWrite(w)

ReaderStep(r) ==
    \/ Spin(r)
    \/ BeginRead(r)
    \/ \E x \in Regs : LoadWord(r, x)
    \/ Retry(r)
    \/ Return(r)

Next ==
    \/ \E w \in Writers :
         \/ \E c \in Blocks : BeginWrite(w, c)
         \/ \E c \in Words : SetWord(w, c)
         \/ Crash(w)
         \/ WriterStep(w)
    \/ \E r \in Readers :
         \/ \E range \in Ranges : CallRead(r, range)
         \/ ReaderStep(r)

Spec == Init /\ [][Next]_vars

\* A call that has begun is carried on by the scheduler; nobody has to start
\* one.  That writes are finitely many (MaxWrites) stands for the pauses
\* between the one-second ticks of the HMI.
Fairness ==
    /\ \A w \in Writers : WF_vars(WriterStep(w))
    /\ \A r \in Readers : WF_vars(ReaderStep(r))

FairSpec == Spec /\ Fairness

-----------------------------------------------------------------------------
\* f is the content of some of the registers.
IsPartialImage(f) == DOMAIN f \subseteq Regs /\ f \in [DOMAIN f -> Nat]

TypeOK ==
    /\ seq \in Nat
    /\ regs \in [Regs -> Nat]
    /\ wpc \in [Writers -> {"idle", "store"}]
    /\ wcell \in [Writers -> SUBSET Regs]
    /\ wleft \in [Writers -> SUBSET Regs]
    /\ \A w \in Writers : wpc[w] = "store" =>
         wcell[w] \in Blocks /\ Owner[wcell[w]] = w /\ wleft[w] \subseteq wcell[w]
    /\ writes \in [Cells -> 0..MaxWrites]
    /\ rpc \in [Readers -> {"idle", "begin", "load"}]
    /\ rrange \in [Readers -> SUBSET Regs]
    /\ \A r \in Readers : rpc[r] # "idle" => rrange[r] \in Ranges
    /\ rseq \in [Readers -> Nat]
    /\ DOMAIN rbuf = Readers
    /\ DOMAIN rout = Readers
    /\ \A r \in Readers : IsPartialImage(rbuf[r]) /\ IsPartialImage(rout[r])
    /\ \A r \in Readers : rpc[r] = "load" => DOMAIN rbuf[r] \subseteq rrange[r]
    /\ crashes \in 0..MaxCrashes
    /\ image \in [Regs -> Nat]

\* A read never returns a torn value: all the words it holds of one
\* multi-word value come from the same write ("protected by a single global
\* seqlock", mdcu_pool.h).
UntornReads ==
    \A r \in Readers : \A c \in Blocks :
        \A x, y \in c \cap DOMAIN rout[r] : rout[r][x] = rout[r][y]

\* Once the words are loaded and seq still has the value the read began
\* with, the buffer is the committed image of the multi-word values: the
\* load of seq in seq_retry is the point where the read takes effect.
AcceptedIsCommitted ==
    \A r \in Readers :
        /\ rpc[r] = "load"
        /\ rseq[r] = seq
        => \A x \in DOMAIN rbuf[r] \cap BlockRegs : rbuf[r][x] = image[x]

\* What makes the accepted buffer a committed image when there is one writer
\* and no crash: seq is odd exactly while a write is in progress; outside the
\* cell being written the registers are the image; the words already stored
\* carry the new write; no read began with an odd or a future seq.
SeqlockInv ==
    /\ seq % 2 = 0 <=> \A w \in Writers : wpc[w] = "idle"
    /\ \A w \in Writers : wpc[w] = "idle" => wcell[w] = {}
    /\ \A x \in BlockRegs : (\A w \in Writers : x \notin wcell[w]) => regs[x] = image[x]
    /\ \A w \in Writers : \A x \in wcell[w] \ wleft[w] : regs[x] = writes[wcell[w]]
    /\ \A c \in Blocks : \A x, y \in c : image[x] = image[y]
    /\ \A r \in Readers : rpc[r] = "load" => rseq[r] <= seq /\ rseq[r] % 2 = 0
    /\ AcceptedIsCommitted

\* A read can be accepted only while the writes begun and not finished,
\* those a killed writer left behind included, are even in number: never
\* during a write before the first crash, and after one crash only during a
\* write.
AcceptWindow ==
    \A r \in Readers :
        /\ rpc[r] = "load"
        /\ rseq[r] = seq
        => (Cardinality({w \in Writers : wpc[w] = "store"}) + crashes) % 2 = 0

\* A read that was called returns.
ReadsReturn == \A r \in Readers : rpc[r] # "idle" ~> rpc[r] = "idle"

-----------------------------------------------------------------------------
\* The multi-word values, seen through the refinement mapping: the image is
\* the one of the last completed write, a result is what Return handed out.
Atomic == INSTANCE AtomicPool WITH
    Regs  <- BlockRegs,
    Cells <- Blocks,
    Values <- 0..MaxWrites,
    image <- [x \in BlockRegs |-> image[x]],
    out   <- [r \in Readers |-> [x \in DOMAIN rout[r] \cap BlockRegs |-> rout[r][x]]]

\* The seqlock implements a pool whose reads and writes are atomic.
ImplementsAtomicPool == Atomic!Spec
=============================================================================
