---------------------------- MODULE ModbusMaster ----------------------------
(***************************************************************************)
(* The HMI process as the master of a Modbus TCP slave: main, menu_create  *)
(* and menu_loop (main.c, menu.c) with the calls of modbus.c, one step per *)
(* call into libmodbus.  One thread does all of it: it waits for events,   *)
(* and once a second it refreshes the tab on display, which polls the      *)
(* slave (Modbus tab) or counts the heartbeat (Overview tab).              *)
(*                                                                         *)
(* Data abstraction: a register of the pool holds the address, at the      *)
(* slave, of the word that was mirrored into it, or Nil, which also stands *)
(* for the values of the system that overview_update stores; RegPool has   *)
(* the stores themselves.                                                  *)
(***************************************************************************)
EXTENDS Integers

CONSTANTS
    Base,        \* MB_POOL_BASE
    SlotRegs,    \* the 1000 words of the slot of this instance
    PoolRegs,    \* MDCU_POOL_REGS
    MaxRegs,     \* MODBUS_MAX_REGISTERS
    SlaveRegs,   \* holding registers of the slave
    Configs,     \* the settings a start may find (Default: no file)
    Default,     \* the initialiser of modbus_cfg
    Beats,       \* the heartbeat counts modulo Beats (2^16)
    MaxOutages,  \* bound: times the slave goes down
    MaxRestarts  \* bound: restarts of the HMI

Settings == [enabled: BOOLEAN, target: {"good", "noip", "badslave"}, start: Nat, n: Nat]

ASSUME SizesAssumption ==
    /\ Base \in Nat /\ SlotRegs \in Nat /\ PoolRegs \in Nat /\ MaxRegs \in Nat /\ SlaveRegs \in Nat
    /\ MaxOutages \in Nat /\ MaxRestarts \in Nat
    /\ Beats \in Nat \ {0}
    /\ Default \in Configs /\ Configs \subseteq Settings

Nil == -1
Tabs == {"overview", "protocols", "settings"}
Places == {"start", "connect", "slave", "open", "read", "events", "beat"}

VARIABLES
    pc,         \* the call the HMI thread is about to make
    tab,        \* mmInst.current_mmId
    due,        \* a second has passed since modbus_last_poll_time
    cfg,        \* modbus_cfg as loaded
    connected,  \* modbus_cfg.connected
    ctx,        \* modbus_ctx # NULL
    contexts,   \* libmodbus contexts allocated and not freed
    open,       \* the pool is mapped
    led,        \* the LED of the REGISTERS tile
    pool,       \* the registers of the pool
    beat, seen, \* the heartbeat register; what overview_update has read of it
    slave,      \* the slave answers
    link,       \* the TCP connection behind modbus_ctx works
    outages, restarts,
    loaded      \* history: the settings loaded so far

link_ == <<connected, ctx, contexts, link>>
panel == <<tab, due, led>>
heart == <<beat, seen>>
env   == <<slave, outages, restarts>>
vars  == <<pc, panel, cfg, link_, open, pool, heart, env, loaded>>

Init ==
    /\ pc = "start" /\ tab = "overview" /\ due = FALSE /\ led = "off"
    /\ cfg = Default /\ connected = FALSE /\ ctx = FALSE /\ contexts = 0 /\ link = FALSE
    /\ open \in BOOLEAN
    /\ pool = [r \in 0..PoolRegs - 1 |-> Nil]
    /\ beat = 0 /\ seen = 0
    /\ slave \in BOOLEAN /\ outages = 0 /\ restarts = 0
    /\ loaded = {}

-----------------------------------------------------------------------------
(* Connecting and polling, as menu_create and protocols_update do it.       *)

\* mb_load_config: the lines of the file, and the defaults for lines it lacks.
Load(c) == cfg' = c /\ loaded' = loaded \cup {c}

\* menu_create: mb_init loads the settings; an enabled master connects at once.
Start ==
    /\ pc = "start"
    /\ \E c \in Configs :
          /\ Load(c)
          /\ pc' = IF c.enabled THEN "connect" ELSE "events"
    /\ UNCHANGED <<panel, link_, open, pool, heart, env>>

\* mb_connect: lmb_new_tcp, which refuses an empty address.
NewTcp ==
    /\ pc = "connect"
    /\ IF cfg.target = "noip"
       THEN pc' = "events" /\ UNCHANGED <<ctx, contexts>>
       ELSE pc' = "slave" /\ ctx' = TRUE /\ contexts' = contexts + 1
    /\ UNCHANGED <<panel, cfg, connected, link, open, pool, heart, env, loaded>>

\* lmb_free, and modbus_ctx = NULL.
Free == ctx' = FALSE /\ contexts' = contexts - 1 /\ link' = FALSE

\* Mutant of SetSlave: the early return forgets lmb_free.
SetSlaveLeaks ==
    /\ pc = "slave"
    /\ IF cfg.target = "badslave"
       THEN pc' = "events" /\ ctx' = FALSE /\ UNCHANGED <<contexts, link>>
       ELSE pc' = "open" /\ UNCHANGED <<ctx, contexts, link>>
    /\ UNCHANGED <<panel, cfg, connected, open, pool, heart, env, loaded>>

\* mb_connect: lmb_set_slave, which refuses an identifier out of range.
SetSlave ==
    /\ pc = "slave"
    /\ IF cfg.target = "badslave"
       THEN pc' = "events" /\ Free
       ELSE pc' = "open" /\ UNCHANGED <<ctx, contexts, link>>
    /\ UNCHANGED <<panel, cfg, connected, open, pool, heart, env, loaded>>

\* mb_connect: lmb_connect.  Both callers go on to read if it succeeds.
OpenLink ==
    /\ pc = "open"
    /\ IF slave
       THEN pc' = "read" /\ connected' = TRUE /\ link' = TRUE /\ UNCHANGED <<ctx, contexts>>
       ELSE pc' = "events" /\ connected' = FALSE /\ Free
    /\ UNCHANGED <<panel, cfg, open, pool, heart, env, loaded>>

\* Mutant of Count: the request is not clamped.
CountUnclamped(c) == c.n

\* mb_read_registers: how many registers are asked for.
Count(c) == IF c.n > MaxRegs THEN MaxRegs ELSE c.n

\* The slave answers a request for registers it has; it refuses an empty one.
Readable(c) == Count(c) > 0 /\ c.start + Count(c) <= SlaveRegs

\* The registers the words of a poll are mirrored into; BOUNDS_RW refuses a block
\* that does not fit.
Target(c) == IF Base + c.start + Count(c) > PoolRegs THEN {}
             ELSE Base + c.start .. Base + c.start + Count(c) - 1

\* protocols_update shows the result; the self-test of menu_create (Overview tab) does not.
Show(colour) == led' = IF tab = "protocols" THEN colour ELSE led

\* Mutant of ReadFails: the connection is not dropped.
ReadFailsKeeping ==
    /\ pc = "read" /\ ~(link /\ Readable(cfg))
    /\ Show("red") /\ pc' = "events"
    /\ UNCHANGED <<tab, due, cfg, link_, open, pool, heart, env, loaded>>

\* mb_read_registers fails: the connection is dropped (mb_disconnect).
ReadFails ==
    /\ pc = "read" /\ ~(link /\ Readable(cfg))
    /\ connected' = FALSE /\ Free
    /\ Show("red") /\ pc' = "events"
    /\ UNCHANGED <<tab, due, cfg, open, pool, heart, env, loaded>>

\* mb_read_registers succeeds and mirrors the words into the pool.
Read ==
    /\ pc = "read" /\ link /\ Readable(cfg)
    /\ pool' = [r \in DOMAIN pool |->
                   IF open /\ r \in Target(cfg) THEN r - Base ELSE pool[r]]
    /\ Show("green") /\ pc' = "events"
    /\ UNCHANGED <<tab, due, cfg, link_, open, heart, env, loaded>>

-----------------------------------------------------------------------------
(* menu_loop.                                                               *)

\* A second has passed and the Overview tab is on display: overview_update reads the
\* heartbeat ...
Overview ==
    /\ pc = "events" /\ due /\ tab = "overview"
    /\ due' = FALSE
    /\ IF open THEN pc' = "beat" /\ seen' = beat ELSE UNCHANGED <<pc, seen>>
    /\ UNCHANGED <<tab, led, cfg, link_, open, pool, beat, env, loaded>>

\* Mutant of SetBeat: the heartbeat stops at its largest value.
SetBeatSaturates ==
    /\ pc = "beat" /\ pc' = "events"
    /\ beat' = IF seen < Beats - 1 THEN seen + 1 ELSE seen
    /\ UNCHANGED <<panel, cfg, link_, open, pool, seen, env, loaded>>

\* ... and stores the next number, modulo 2^16.
SetBeat ==
    /\ pc = "beat" /\ pc' = "events"
    /\ beat' = (seen + 1) % Beats
    /\ UNCHANGED <<panel, cfg, link_, open, pool, seen, env, loaded>>

\* A second has passed and the Modbus tab is on display: protocols_update reads
\* over the connection it has, or makes one first.
Protocols ==
    /\ pc = "events" /\ due /\ tab = "protocols"
    /\ due' = FALSE
    /\ pc' = IF ~cfg.enabled THEN "events" ELSE IF connected /\ ctx THEN "read" ELSE "connect"
    /\ UNCHANGED <<tab, led, cfg, link_, open, pool, heart, env, loaded>>

\* Any other tab has nothing to refresh.
OtherTab ==
    /\ pc = "events" /\ due /\ tab \notin {"overview", "protocols"}
    /\ due' = FALSE
    /\ UNCHANGED <<pc, tab, led, cfg, link_, open, pool, heart, env, loaded>>

\* tabview_event_cb, called from lv_timer_handler.
SwitchTab(t) ==
    /\ pc = "events" /\ t # tab
    /\ tab' = t
    /\ UNCHANGED <<pc, due, led, cfg, link_, open, pool, heart, env, loaded>>

\* time() has moved on by a second, at whatever place the thread is.
Second ==
    /\ ~due /\ due' = TRUE
    /\ UNCHANGED <<pc, tab, led, cfg, link_, open, pool, heart, env, loaded>>

-----------------------------------------------------------------------------
(* Around the process.                                                      *)

\* The slave stops or comes back; its connections do not survive.
SlaveDown ==
    /\ slave /\ outages < MaxOutages
    /\ slave' = FALSE /\ link' = FALSE /\ outages' = outages + 1
    /\ UNCHANGED <<pc, panel, cfg, connected, ctx, contexts, open, pool, heart, restarts, loaded>>

SlaveUp ==
    /\ ~slave /\ slave' = TRUE
    /\ UNCHANGED <<pc, panel, cfg, link_, open, pool, heart, outages, restarts, loaded>>

\* The init script restarts the HMI; the pool is what stays.  main goes on
\* without the pool if it cannot be mapped.
Restart ==
    /\ pc # "start" /\ restarts < MaxRestarts
    /\ restarts' = restarts + 1
    /\ pc' = "start" /\ tab' = "overview" /\ due' = FALSE /\ led' = "off"
    /\ cfg' = Default /\ connected' = FALSE /\ ctx' = FALSE /\ contexts' = 0 /\ link' = FALSE
    /\ open' \in BOOLEAN
    /\ UNCHANGED <<pool, heart, slave, outages, loaded>>

Thread ==
    \/ Start \/ NewTcp \/ SetSlave \/ OpenLink \/ ReadFails \/ Read
    \/ Overview \/ SetBeat \/ Protocols \/ OtherTab

Next ==
    \/ Start \/ NewTcp \/ SetSlave \/ OpenLink \/ ReadFails \/ Read
    \/ Overview \/ SetBeat \/ Protocols \/ OtherTab \/ Second
    \/ \E t \in Tabs : SwitchTab(t)
    \/ SlaveDown \/ SlaveUp \/ Restart

\* The thread runs and time passes; nobody has to touch the panel, and the slave
\* need not come back.
Fairness == WF_vars(Thread) /\ WF_vars(Second)

Spec == Init /\ [][Next]_vars /\ Fairness

-----------------------------------------------------------------------------
(* Properties.                                                              *)

Flags ==
    /\ due \in BOOLEAN /\ connected \in BOOLEAN /\ ctx \in BOOLEAN
    /\ open \in BOOLEAN /\ slave \in BOOLEAN /\ link \in BOOLEAN

Values ==
    /\ pc \in Places /\ tab \in Tabs /\ led \in {"off", "green", "red"}
    /\ cfg \in Configs /\ loaded \subseteq Configs
    /\ contexts \in Int /\ outages \in Nat /\ restarts \in Nat
    /\ pool \in [0..PoolRegs - 1 -> Nat \cup {Nil}]
    /\ beat \in 0..Beats - 1 /\ seen \in 0..Beats - 1

\* The types of the variables.
TypeOK == Flags /\ Values

\* However often connecting and polling fail, and wherever they fail, at most one
\* libmodbus context exists, modbus_ctx refers to it, a live connection is one
\* modbus_ctx knows of, and outside mb_connect "connected" says whether it exists.
LinkInv ==
    /\ ctx => contexts = 1
    /\ ~ctx => contexts = 0
    /\ link => connected
    /\ ctx <=> connected \/ pc \in {"slave", "open"}
    /\ pc \in {"slave", "open", "connect", "start"} => ~connected
    /\ pc = "read" => connected

\* The addresses at the slave that a poll with settings c asks for: never more than the
\* caller's array of MODBUS_MAX_REGISTERS words has room for.
Asked(c) == c.start .. c.start + (IF c.n > MaxRegs THEN MaxRegs ELSE c.n) - 1

\* A word lies in the slot as far from its base as its address at the slave is from 0
\* (not, as modbus.c:22 and 134 have it, from start_address), and is one that an enabled
\* master, with settings loaded at some time, asked for with all of its block in the pool.
\* Nothing but settings that reach past the end of the slot brings a word past it.
MirrorPlaced ==
    \A r \in 0..PoolRegs - 1 : pool[r] # Nil =>
        /\ pool[r] = r - Base
        /\ \E c \in loaded :
              /\ c.enabled /\ r - Base \in Asked(c)
              /\ \A a \in Asked(c) : Base + a < PoolRegs
        /\ (\A c \in loaded : c.enabled => Asked(c) \subseteq 0..SlotRegs - 1)
              => r < Base + SlotRegs

\* If the slave is back for good, the master enabled and the Modbus tab left on
\* display, then from some time on every poll succeeds (protocols_update connects
\* again after any failure).
SlavePolled ==
    <>[](slave /\ tab = "protocols" /\ cfg.enabled /\ cfg.target = "good" /\ Readable(cfg))
        => <>[](led = "green")

\* While the Overview tab stays on display the heartbeat never stands still, over
\* the wrap of its register as well (overview_update).
HeartbeatGoesOn ==
    \A b \in 0..Beats - 1 :
        <>[](tab = "overview" /\ open) => []<>(beat # b)
=============================================================================
