------------------------ MODULE ModbusMaster_proofs -------------------------
(***************************************************************************)
(* Proofs about ModbusMaster, for any sizes, any settings and any number   *)
(* of outages and restarts: the types, the one libmodbus context, and      *)
(* where the mirrored words come from.                                     *)
(***************************************************************************)
EXTENDS ModbusMaster, TLAPS

LEMMA InitTypes == Init => TypeOK
<1> SUFFICES ASSUME Init PROVE TypeOK
    OBVIOUS
<1>1. Flags
    BY Zenon DEF Init, Flags
<1>2. pool \in [0..PoolRegs - 1 -> Nat \cup {Nil}]
    BY DEF Init
<1>3. beat \in 0..Beats - 1 /\ seen \in 0..Beats - 1
    BY SizesAssumption DEF Init
<1>4. pc \in Places /\ tab \in Tabs /\ led \in {"off", "green", "red"}
    BY DEF Init, Places, Tabs
<1>5. contexts \in Int /\ outages \in Nat /\ restarts \in Nat
    BY DEF Init
<1>6. cfg \in Configs /\ loaded \subseteq Configs
    BY SizesAssumption DEF Init
<1> QED
    BY <1>1, <1>2, <1>3, <1>4, <1>5, <1>6 DEF TypeOK, Values

\* Only polls that fit are mirrored, at or above the base.
LEMMA TargetAddresses ==
    ASSUME NEW c \in Configs, NEW r \in Target(c)
    PROVE  /\ r \in Int /\ r - Base \in Nat
           /\ r - Base \in c.start .. c.start + Count(c) - 1
           /\ Base + c.start + Count(c) <= PoolRegs
<1>1. c.start \in Nat /\ c.n \in Nat /\ Base \in Nat /\ PoolRegs \in Nat /\ MaxRegs \in Nat
    BY SizesAssumption DEF Settings
<1>2. Count(c) \in Nat
    BY <1>1 DEF Count
<1> QED
    BY <1>1, <1>2 DEF Target

\* What is asked for, as addresses that fit in the pool if the block does.
LEMMA AskedIsCounted ==
    ASSUME NEW c \in Configs
    PROVE  /\ Asked(c) = c.start .. c.start + Count(c) - 1
           /\ Base + c.start + Count(c) <= PoolRegs => \A a \in Asked(c) : Base + a < PoolRegs
<1>1. c.start \in Nat /\ c.n \in Nat /\ Base \in Nat /\ PoolRegs \in Nat /\ MaxRegs \in Nat
    BY SizesAssumption DEF Settings
<1> QED
    BY <1>1 DEF Count, Asked

LEMMA StepFlags == TypeOK /\ [Next]_vars => Flags'
<1> SUFFICES ASSUME Flags, [Next]_vars PROVE Flags'
    BY DEF TypeOK
<1> USE DEF Flags, link_, panel, heart, env, Free, Show
<1>1. CASE Start \/ NewTcp \/ SetSlave \/ OpenLink
    BY <1>1, Zenon DEF Start, Load, NewTcp, SetSlave, OpenLink
<1>2. CASE ReadFails \/ Read
    BY <1>2, Zenon DEF ReadFails, Read
<1>3. CASE Overview \/ SetBeat \/ Protocols \/ OtherTab \/ Second
    BY <1>3, Zenon DEF Overview, SetBeat, Protocols, OtherTab, Second
<1>4. ASSUME NEW t \in Tabs, SwitchTab(t) PROVE Flags'
    BY <1>4, Zenon DEF SwitchTab
<1>5. CASE SlaveDown \/ SlaveUp \/ Restart
    BY <1>5, Zenon DEF SlaveDown, SlaveUp, Restart
<1>6. CASE UNCHANGED vars
    BY <1>6, Zenon DEF vars
<1> QED
    BY <1>1, <1>2, <1>3, <1>4, <1>5, <1>6 DEF Next

LEMMA StepValues == TypeOK /\ [Next]_vars => Values'
<1> SUFFICES ASSUME Values, [Next]_vars PROVE Values'
    BY DEF TypeOK
<1> USE DEF Values, Places, Tabs, link_, panel, heart, env, Free, Show
<1>1. CASE Start
    BY <1>1, SizesAssumption DEF Start, Load
<1>2. CASE NewTcp
    BY <1>2 DEF NewTcp
<1>3. CASE SetSlave \/ OpenLink \/ ReadFails
    BY <1>3 DEF SetSlave, OpenLink, ReadFails
<1>4. CASE Read
    <2>1. \A r \in Target(cfg) : r - Base \in Nat
        BY TargetAddresses
    <2>2. pool' \in [0..PoolRegs - 1 -> Nat \cup {Nil}]
        BY <1>4, <2>1 DEF Read
    <2> QED
        BY <1>4, <2>2 DEF Read
<1>5. CASE Overview \/ SetBeat
    <2>1. beat' \in 0..Beats - 1 /\ seen' \in 0..Beats - 1
        BY <1>5, SizesAssumption DEF Overview, SetBeat
    <2> QED
        BY <1>5, <2>1 DEF Overview, SetBeat
<1>6. CASE Protocols \/ OtherTab \/ Second
    BY <1>6 DEF Protocols, OtherTab, Second
<1>7. ASSUME NEW t \in Tabs, SwitchTab(t) PROVE Values'
    BY <1>7 DEF SwitchTab
<1>8. CASE SlaveDown \/ SlaveUp
    BY <1>8, SizesAssumption DEF SlaveDown, SlaveUp
<1>9. CASE Restart
    BY <1>9, SizesAssumption DEF Restart
<1>10. CASE UNCHANGED vars
    BY <1>10 DEF vars
<1> QED
    BY <1>1, <1>2, <1>3, <1>4, <1>5, <1>6, <1>7, <1>8, <1>9, <1>10 DEF Next

LEMMA StepTypes == TypeOK /\ [Next]_vars => TypeOK'
BY StepFlags, StepValues DEF TypeOK

\* The variables keep their types; with it the heartbeat stays within 16 bits.
THEOREM TypeCorrect == Spec => []TypeOK
BY InitTypes, StepTypes, PTL DEF Spec

-----------------------------------------------------------------------------
(* The one context.                                                         *)

LEMMA StepLink == TypeOK /\ LinkInv /\ [Next]_vars => LinkInv'
<1> SUFFICES ASSUME TypeOK, LinkInv, [Next]_vars PROVE LinkInv'
    OBVIOUS
<1> USE DEF LinkInv, link_, panel, heart, env, Free, Show
<1>1. CASE Start \/ NewTcp
    BY <1>1 DEF Start, Load, NewTcp
<1>2. CASE SetSlave
    <2>1. contexts = 1 /\ connected' = connected /\ ~connected /\ ctx /\ ~link
        BY <1>2, Zenon DEF SetSlave
    <2>2. CASE cfg.target = "badslave"
        <3>1. ctx' = FALSE /\ contexts' = contexts - 1 /\ link' = FALSE /\ pc' = "events"
            BY <1>2, <2>2, Zenon DEF SetSlave
        <3>2. contexts' = 0
            BY <2>1, <3>1
        <3> QED
            BY <2>1, <3>1, <3>2
    <2>3. CASE cfg.target # "badslave"
        <3>1. ctx' = ctx /\ contexts' = contexts /\ link' = link /\ pc' = "open"
            BY <1>2, <2>3, Zenon DEF SetSlave
        <3> QED
            BY <2>1, <3>1, Zenon
    <2> QED
        BY <2>2, <2>3
<1>3. CASE OpenLink
    <2>1. contexts = 1 /\ ctx
        BY <1>3, Zenon DEF OpenLink
    <2>2. CASE slave
        <3>1. pc' = "read" /\ connected' = TRUE /\ link' = TRUE /\ ctx' = ctx /\ contexts' = contexts
            BY <1>3, <2>2, Zenon DEF OpenLink
        <3> QED
            BY <2>1, <3>1
    <2>3. CASE ~slave
        <3>1. pc' = "events" /\ connected' = FALSE /\ ctx' = FALSE /\ link' = FALSE
              /\ contexts' = contexts - 1
            BY <1>3, <2>3, Zenon DEF OpenLink
        <3> QED
            BY <2>1, <3>1
    <2> QED
        BY <2>2, <2>3
<1>4. CASE ReadFails \/ Read
    BY <1>4 DEF ReadFails, Read
<1>5. CASE Overview \/ SetBeat \/ OtherTab \/ Second
    BY <1>5 DEF Overview, SetBeat, OtherTab, Second
<1>6. CASE Protocols
    BY <1>6 DEF Protocols
<1>7. ASSUME NEW t \in Tabs, SwitchTab(t) PROVE LinkInv'
    BY <1>7 DEF SwitchTab
<1>8. CASE SlaveDown
    BY <1>8, Zenon DEF SlaveDown
<1>9. CASE SlaveUp
    BY <1>9, Zenon DEF SlaveUp
<1>10. CASE Restart
    <2>1. connected' = FALSE /\ ctx' = FALSE /\ contexts' = 0 /\ link' = FALSE /\ pc' = "start"
        BY <1>10, Zenon DEF Restart
    <2> QED
        BY <2>1
<1>11. CASE UNCHANGED vars
    BY <1>11, Zenon DEF vars
<1> QED
    BY <1>1, <1>2, <1>3, <1>4, <1>5, <1>6, <1>7, <1>8, <1>9, <1>10, <1>11 DEF Next

\* mb_connect and mb_disconnect never leak a libmodbus context nor lose the one that
\* is open, whatever fails in whatever order.
THEOREM OneContext == Spec => []LinkInv
<1>1. Init => LinkInv
    BY DEF Init, LinkInv
<1> QED
    BY <1>1, InitTypes, StepTypes, StepLink, PTL DEF Spec

-----------------------------------------------------------------------------
(* The mirror.                                                              *)

\* MirrorPlaced is inductive once it is known that a thread on its way to a poll
\* works on settings that were loaded and are enabled.
Polling ==
    /\ pc # "start" => cfg \in loaded
    /\ pc \in {"connect", "slave", "open", "read"} => cfg.enabled
    /\ connected => cfg.enabled

MirrorInv == LinkInv /\ Polling /\ MirrorPlaced

LEMMA StepPolling == TypeOK /\ LinkInv /\ Polling /\ [Next]_vars => Polling'
<1> SUFFICES ASSUME TypeOK, LinkInv, Polling, [Next]_vars PROVE Polling'
    OBVIOUS
<1> USE DEF TypeOK, Values, LinkInv, Polling, Places, link_, panel, heart, env, Free, Show
<1>1. CASE Start
    BY <1>1 DEF Start, Load
<1>2. CASE NewTcp \/ SetSlave \/ OpenLink
    BY <1>2 DEF NewTcp, SetSlave, OpenLink
<1>3. CASE ReadFails \/ Read \/ Protocols
    BY <1>3 DEF ReadFails, Read, Protocols
<1>4. CASE Overview \/ SetBeat \/ OtherTab \/ Second \/ \E t \in Tabs : SwitchTab(t)
    BY <1>4 DEF Overview, SetBeat, OtherTab, Second, SwitchTab
<1>5. CASE SlaveDown \/ SlaveUp \/ Restart
    BY <1>5 DEF SlaveDown, SlaveUp, Restart
<1>6. CASE UNCHANGED vars
    BY <1>6 DEF vars
<1> QED
    BY <1>1, <1>2, <1>3, <1>4, <1>5, <1>6 DEF Next

LEMMA StepMirror == TypeOK /\ Polling /\ MirrorPlaced /\ [Next]_vars => MirrorPlaced'
<1> SUFFICES ASSUME TypeOK, Polling, MirrorPlaced, [Next]_vars PROVE MirrorPlaced'
    OBVIOUS
<1>1. CASE Read
    <2> SUFFICES ASSUME NEW r \in 0..PoolRegs - 1, pool'[r] # Nil
                 PROVE  /\ pool'[r] = r - Base
                        /\ \E c \in loaded :
                              /\ c.enabled /\ r - Base \in Asked(c)
                              /\ \A a \in Asked(c) : Base + a < PoolRegs
                        /\ (\A c \in loaded : c.enabled => Asked(c) \subseteq 0..SlotRegs - 1)
                              => r < Base + SlotRegs
        BY <1>1 DEF MirrorPlaced, Read
    <2>1. CASE open /\ r \in Target(cfg)
        <3>1. pool'[r] = r - Base
            BY <1>1, <2>1 DEF Read, TypeOK, Values
        <3>2. cfg \in loaded /\ cfg.enabled /\ cfg \in Configs
            BY <1>1 DEF Read, Polling, TypeOK, Values
        <3>3. r - Base \in Asked(cfg) /\ \A a \in Asked(cfg) : Base + a < PoolRegs
            BY <2>1, <3>2, TargetAddresses, AskedIsCounted
        <3>4. Asked(cfg) \subseteq 0..SlotRegs - 1 => r < Base + SlotRegs
            BY <3>3, SizesAssumption
        <3> QED
            BY <3>1, <3>2, <3>3, <3>4
    <2>2. CASE ~(open /\ r \in Target(cfg))
        <3>1. pool'[r] = pool[r]
            BY <1>1, <2>2 DEF Read, TypeOK, Values
        <3> QED
            BY <3>1 DEF MirrorPlaced
    <2> QED
        BY <2>1, <2>2
<1>2. CASE Start
    BY <1>2 DEF Start, Load, MirrorPlaced
<1>3. CASE ~Read /\ ~Start
    <2>1. pool' = pool /\ loaded' = loaded
        BY <1>3 DEF Next, NewTcp, SetSlave, OpenLink, ReadFails, Overview, SetBeat, Protocols, OtherTab,
                    Second, SwitchTab, SlaveDown, SlaveUp, Restart, vars
    <2> QED
        BY <2>1 DEF MirrorPlaced
<1> QED
    BY <1>1, <1>2, <1>3

\* Whatever the settings file says and however often it changes, a mirrored word lies at
\* the address it has at the slave, counted from the base of the slot, was asked for by an
\* enabled master, and lies past the slot only if loaded settings reach past it.
THEOREM MirrorIsPlaced == Spec => []MirrorPlaced
<1>1. Init => LinkInv /\ Polling /\ MirrorPlaced
    BY DEF Init, LinkInv, Polling, MirrorPlaced
<1>2. TypeOK /\ MirrorInv /\ [Next]_vars => MirrorInv'
    BY StepLink, StepPolling, StepMirror DEF MirrorInv
<1> QED
    BY <1>1, <1>2, InitTypes, StepTypes, PTL DEF Spec, MirrorInv
=============================================================================
