------------------------------ MODULE GpioLines ------------------------------
(***************************************************************************)
(* Settings and GPIO lines of the firmware: POST /api/config (rest_api.c), *)
(* which changes the one DeviceConfig, gives the lines back and requests   *)
(* them anew (gpio_gpiod.c) and saves the settings (device_config.c), next *)
(* to the scan thread that reads and writes the lines.  None of the        *)
(* variables they share has a lock.                                        *)
(*                                                                         *)
(* A pointer to a line is <<g, l>>: line l of the chip as it was opened    *)
(* under handle g.  Closing the chip frees the lines of the handle; what   *)
(* libgpiod (1.x, external) does with a pointer:                           *)
(*   Null                         the process dies (SIGSEGV)               *)
(*   to a freed line              undefined: it dies, or gets an error     *)
(*   to a line not requested      error                                    *)
(*   to a requested line          the operation                            *)
(***************************************************************************)
EXTENDS DeviceConfig

CONSTANTS
    Workers,    \* REST workers in POST /api/config
    Main,       \* the main thread, which initialises at start
    Posts,      \* the bodies of requests
    OldFiles,   \* settings files found at the first start
    Present,    \* the GPIO chips of the board
    Existing,   \* the lines they have
    Forced,     \* the coils that change
    Handles     \* bound: names for the handles of opened chips

\* A setting of a "gpio" object: a field, an index and a value; a body: a
\* period or Nil, whether there is a "gpio" object, and its settings.
Setting == ({"chip"} \X {1} \X Chips) \cup ({"di", "do"} \X Channels \X Lines)

Bodies == [scan : {Nil} \cup Int, gpio : BOOLEAN, sets : Seq(Setting)]

ASSUME GpioAssumption ==
    /\ Main \notin Workers
    /\ Present \subseteq Chips
    /\ Existing \subseteq Lines
    /\ Forced \subseteq Channels
    /\ Nil \notin Handles
    /\ Posts \subseteq {b \in Bodies : b.sets # <<>> => b.gpio}
    /\ \A f \in OldFiles : Loaded(f) \in Configs

Callers == Workers \cup {Main}

\* The lines of a channel, in the order in which they are requested:
\* di_lines[0], do_lines[0], di_lines[1], ...
Slots == 1..(2 * N)
InSlot(c)  == 2 * c - 1
OutSlot(c) == 2 * c
IsOutput(s) == s % 2 = 0

\* Mutant of Wired: the two lists are mixed up.
WiredCrossed(s, c) == IF IsOutput(s) THEN c.di[s \div 2] ELSE c.do[(s + 1) \div 2]

\* The line of slot s under the configuration c.
Wired(s, c) == IF IsOutput(s) THEN c.do[s \div 2] ELSE c.di[(s + 1) \div 2]

Null == <<>>
Pointers == Handles \X Existing

VARIABLES
    up,         \* the firmware is running
    file,       \* /etc/plc/config.json
    cfg,        \* g_cfg
    period,     \* g_scan_ms
    chip,       \* the chip: a handle, or Nil
    line,       \* di_lines and do_lines
    gpioOk,     \* gpio_ok
    open,       \* libgpiod: the handles of opened chips
    requested,  \* libgpiod: the lines requested
    pc,         \* pc[w]: where caller w is
    body,       \* body[w]: its request, the settings not stored yet
    slot,       \* slot[w]: the line it is at
    then,       \* then[w]: what follows release_lines
    got,        \* got[w]: the line it has just requested
    text,       \* text[w]: the file it is writing
    spc,        \* where the scan thread is
    ch,         \* the channel it is at
    ptr,        \* the pointer it has read
    val,        \* the coil it has read
    coils,      \* register map: coils
    term,       \* the level of the output lines
    lost        \* history: a save failed and the file is not the settings

settings == <<file, cfg, period, lost>>
driver == <<chip, line, gpioOk, open, requested>>
caller == <<pc, body, slot, then, got, text>>
scan == <<spc, ch, ptr, val>>
process == <<coils, term>>
vars == <<up, settings, driver, caller, scan, process>>

NoBody == [scan |-> Nil, gpio |-> FALSE, sets |-> <<>>]

\* The memory of a process that has just been started.
Fresh ==
    /\ period' = Loaded(file).scan
    /\ cfg' = Loaded(file)
    /\ pc' = [w \in Callers |-> IF w = Main THEN "release" ELSE "idle"]
    /\ body' = [w \in Callers |-> NoBody]
    /\ slot' = [w \in Callers |-> 1]
    /\ then' = [w \in Callers |-> "open"]
    /\ coils' = [c \in Channels |-> FALSE]

Init ==
    /\ up = TRUE
    /\ file \in OldFiles
    /\ cfg = Loaded(file) /\ period = Loaded(file).scan
    /\ chip = Nil /\ line = [s \in Slots |-> Null] /\ gpioOk = FALSE
    /\ open = {} /\ requested = {}
    /\ pc = [w \in Callers |-> IF w = Main THEN "release" ELSE "idle"]
    /\ body = [w \in Callers |-> NoBody]
    /\ slot = [w \in Callers |-> 1]
    /\ then = [w \in Callers |-> "open"]
    /\ got = [w \in Callers |-> Null]
    /\ text = [w \in Callers |-> NoFile]
    /\ spc = "sample" /\ ch = 1 /\ ptr = Null /\ val = FALSE
    /\ coils = [c \in Channels |-> FALSE]
    /\ term = [l \in Existing |-> FALSE]
    /\ lost = FALSE

\* The process ends, by a fault or a kill: its memory and its lines are gone.
Die ==
    /\ up' = FALSE
    /\ chip' = Nil /\ line' = [s \in Slots |-> Null] /\ gpioOk' = FALSE
    /\ open' = {} /\ requested' = {}
    /\ Fresh
    /\ got' = [w \in Callers |-> Null]
    /\ text' = [w \in Callers |-> NoFile]
    /\ spc' = "sample" /\ ch' = 1 /\ ptr' = Null /\ val' = FALSE
    /\ lost' = FALSE
    /\ UNCHANGED <<file, term>>

Kill == up /\ Die

\* systemd or the init script starts it again.
Restart ==
    /\ ~up
    /\ up' = TRUE
    /\ UNCHANGED <<settings, driver, caller, scan, process>>

-----------------------------------------------------------------------------
(* gpio_gpiod.c as it is called by main and by the handler.                 *)

At(w, from) ==
    /\ up
    /\ pc[w] = from

Goto(w, to) == pc' = [pc EXCEPT ![w] = to]

\* What follows gpio_gpiod_init.
AfterInit(w) == IF w = Main THEN "idle" ELSE "save"

EndRelease(w) ==
    /\ Goto(w, IF then[w] = "fail" THEN AfterInit(w) ELSE "down")
    /\ then' = [then EXCEPT ![w] = IF @ = "fail" THEN "open" ELSE @]

Freed(p) == p # Null /\ Head(p) \notin open

\* release_lines: one line is given back ...
Release(w) ==
    /\ At(w, "release")
    /\ IF line[slot[w]] = Null
         THEN /\ slot' = [slot EXCEPT ![w] = IF @ = 2 * N THEN 1 ELSE @ + 1]
              /\ Goto(w, IF slot[w] = 2 * N THEN "close" ELSE "release")
              /\ UNCHANGED requested
         ELSE /\ requested' = requested \ {line[slot[w]]}
              /\ Goto(w, "clear")
              /\ UNCHANGED slot
    /\ UNCHANGED <<up, settings, chip, line, gpioOk, open, body, then, got, text, scan, process>>

\* ... and forgotten;
Clear(w) ==
    /\ At(w, "clear")
    /\ line' = [line EXCEPT ![slot[w]] = Null]
    /\ slot' = [slot EXCEPT ![w] = IF @ = 2 * N THEN 1 ELSE @ + 1]
    /\ Goto(w, IF slot[w] = 2 * N THEN "close" ELSE "release")
    /\ UNCHANGED <<up, settings, chip, gpioOk, open, requested, body, then, got, text, scan, process>>

\* then the chip is closed, with all its lines,
Close(w) ==
    /\ At(w, "close")
    /\ IF chip = Nil
         THEN EndRelease(w) /\ UNCHANGED <<open, requested>>
         ELSE /\ open' = open \ {chip}
              /\ requested' = {p \in requested : p[1] # chip}
              /\ Goto(w, "unchip") /\ UNCHANGED then
    /\ UNCHANGED <<up, settings, chip, line, gpioOk, body, slot, got, text, scan, process>>

\* and forgotten.
Unchip(w) ==
    /\ At(w, "unchip")
    /\ chip' = Nil
    /\ EndRelease(w)
    /\ UNCHANGED <<up, settings, line, gpioOk, open, requested, body, slot, got, text, scan, process>>

\* Mutant of Down: gpio_ok is left set.
DownStillOk(w) ==
    /\ At(w, "down")
    /\ then' = [then EXCEPT ![w] = "open"]
    /\ Goto(w, IF then[w] = "again" THEN "release" ELSE "open")
    /\ UNCHANGED <<up, settings, driver, body, slot, got, text, scan, process>>

\* gpio_gpiod_shutdown ends; the handler calls it, and gpio_gpiod_init again.
Down(w) ==
    /\ At(w, "down")
    /\ gpioOk' = FALSE
    /\ then' = [then EXCEPT ![w] = "open"]
    /\ Goto(w, IF then[w] = "again" THEN "release" ELSE "open")
    /\ UNCHANGED <<up, settings, chip, line, open, requested, body, slot, got, text, scan, process>>

\* A handle that no pointer refers to.
Referred == {line[s] : s \in Slots} \cup {got[w] : w \in Callers} \cup {ptr}
Unused == Handles \ (open \cup {Head(p) : p \in Referred \ {Null}})

\* gpio_gpiod_init opens the chip, or ends here.
OpenChip(w) ==
    /\ At(w, "open")
    /\ \/ /\ cfg.chip \in Present
          /\ Unused # {}
          /\ chip' = (CHOOSE h \in Unused : TRUE)
          /\ open' = open \cup {chip'}
          /\ Goto(w, "request")
       \/ /\ chip' = Nil
          /\ UNCHANGED open
          /\ Goto(w, AfterInit(w))
    /\ UNCHANGED <<up, settings, line, gpioOk, requested, body, slot, then, got, text, scan, process>>

Free(l) == l \in Existing /\ \A p \in requested : p[2] # l

\* A line is requested; an output goes low.
Request(w) ==
    /\ At(w, "request")
    /\ chip # Nil
    /\ LET l == Wired(slot[w], cfg)
       IN  /\ Free(l)
           /\ requested' = requested \cup {<<chip, l>>}
           /\ got' = [got EXCEPT ![w] = <<chip, l>>]
           /\ term' = IF IsOutput(slot[w]) THEN [term EXCEPT ![l] = FALSE] ELSE term
    /\ Goto(w, "keep")
    /\ UNCHANGED <<up, settings, chip, line, gpioOk, open, body, slot, then, text, scan, coils>>

\* Mutant of RequestFails: init returns without release_lines.
RequestFailsHolding(w) ==
    /\ At(w, "request")
    /\ chip # Nil
    /\ slot' = [slot EXCEPT ![w] = 1]
    /\ Goto(w, AfterInit(w))
    /\ UNCHANGED <<up, settings, driver, body, then, got, text, scan, process>>

\* There is no such line, or it is in use, here or by another program: what
\* was requested is given back.
RequestFails(w) ==
    /\ At(w, "request")
    /\ chip # Nil
    /\ slot' = [slot EXCEPT ![w] = 1]
    /\ then' = [then EXCEPT ![w] = "fail"]
    /\ Goto(w, "release")
    /\ UNCHANGED <<up, settings, driver, body, got, text, scan, process>>

\* The pointer is kept, and the next line requested.
Keep(w) ==
    /\ At(w, "keep")
    /\ line' = [line EXCEPT ![slot[w]] = got[w]]
    /\ got' = [got EXCEPT ![w] = Null]
    /\ slot' = [slot EXCEPT ![w] = IF @ = 2 * N THEN 1 ELSE @ + 1]
    /\ Goto(w, IF slot[w] = 2 * N THEN "ok" ELSE "request")
    /\ UNCHANGED <<up, settings, chip, gpioOk, open, requested, body, then, text, scan, process>>

SetOk(w) ==
    /\ At(w, "ok")
    /\ gpioOk' = TRUE
    /\ Goto(w, AfterInit(w))
    /\ UNCHANGED <<up, settings, chip, line, open, requested, body, slot, then, got, text, scan, process>>

-----------------------------------------------------------------------------
(* handle_config_post.                                                      *)

\* The server is started when main has initialised.
BeginPost(w, b) ==
    /\ At(w, "idle")
    /\ pc[Main] = "idle"
    /\ body' = [body EXCEPT ![w] = b]
    /\ Goto(w, IF b.scan \in ScanPeriods THEN "scan" ELSE "set")
    /\ UNCHANGED <<up, settings, driver, slot, then, got, text, scan, process>>

SetScan(w) ==
    /\ At(w, "scan")
    /\ cfg' = [cfg EXCEPT !.scan = body[w].scan]
    /\ Goto(w, "period")
    /\ UNCHANGED <<up, file, period, lost, driver, body, slot, then, got, text, scan, process>>

SetPeriod(w) ==
    /\ At(w, "period")
    /\ period' = body[w].scan
    /\ Goto(w, "set")
    /\ UNCHANGED <<up, file, cfg, lost, driver, body, slot, then, got, text, scan, process>>

Stored(set, c) ==
    CASE set[1] = "chip" -> [c EXCEPT !.chip = set[3]]
      [] set[1] = "di"   -> [c EXCEPT !.di = [@ EXCEPT ![set[2]] = set[3]]]
      [] set[1] = "do"   -> [c EXCEPT !.do = [@ EXCEPT ![set[2]] = set[3]]]

\* The settings of the "gpio" object are stored one by one,
Set(w) ==
    /\ At(w, "set")
    /\ body[w].sets # <<>>
    /\ cfg' = Stored(Head(body[w].sets), cfg)
    /\ body' = [body EXCEPT ![w].sets = Tail(@)]
    /\ UNCHANGED <<up, file, period, lost, driver, pc, slot, then, got, text, scan, process>>

\* the lines are given back and requested anew,
EndSet(w) ==
    /\ At(w, "set")
    /\ body[w].sets = <<>>
    /\ Goto(w, IF body[w].gpio THEN "release" ELSE "save")
    /\ then' = [then EXCEPT ![w] = IF body[w].gpio THEN "again" ELSE @]
    /\ slot' = [slot EXCEPT ![w] = 1]
    /\ UNCHANGED <<up, settings, driver, body, got, text, scan, process>>

\* and the settings are saved: put into text,
Save(w) ==
    /\ At(w, "save")
    /\ text' = [text EXCEPT ![w] = Saved(cfg)]
    /\ Goto(w, "truncate")
    /\ UNCHANGED <<up, settings, driver, body, slot, then, got, scan, process>>

\* the file opened, which empties it,
Truncate(w) ==
    /\ At(w, "truncate")
    /\ file' = NoFile
    /\ Goto(w, "write")
    /\ UNCHANGED <<up, cfg, period, lost, driver, body, slot, then, got, text, scan, process>>

\* and written.  204 is the answer
Write(w) ==
    /\ At(w, "write")
    /\ file' = text[w]
    /\ lost' = FALSE
    /\ text' = [text EXCEPT ![w] = NoFile]
    /\ body' = [body EXCEPT ![w] = NoBody]
    /\ Goto(w, "idle")
    /\ UNCHANGED <<up, cfg, period, driver, slot, then, got, scan, process>>

\* also if the file cannot be opened or written.
SaveFails(w) ==
    /\ At(w, "truncate") \/ At(w, "write")
    /\ lost' = TRUE
    /\ text' = [text EXCEPT ![w] = NoFile]
    /\ body' = [body EXCEPT ![w] = NoBody]
    /\ Goto(w, "idle")
    /\ UNCHANGED <<up, file, cfg, period, driver, slot, then, got, scan, process>>

CallStep(w) ==
    \/ Release(w) \/ Clear(w) \/ Close(w) \/ Unchip(w) \/ Down(w) \/ OpenChip(w)
    \/ Request(w) \/ RequestFails(w) \/ Keep(w) \/ SetOk(w)
    \/ SetScan(w) \/ SetPeriod(w) \/ Set(w) \/ EndSet(w)
    \/ Save(w) \/ Truncate(w) \/ Write(w) \/ SaveFails(w)

-----------------------------------------------------------------------------
(* The scan thread; main starts it when it has initialised.                 *)

ScanAt(from) ==
    /\ up
    /\ pc[Main] = "idle"
    /\ spc = from

\* gpio_ok is tested before the inputs and before the outputs, once each.
\* What the ladder program does in between is ForceCoil.
Test ==
    /\ ScanAt("sample") \/ ScanAt("apply")
    /\ spc' = IF spc = "sample"
                THEN IF gpioOk THEN "input" ELSE "apply"
                ELSE IF gpioOk THEN "output" ELSE "sample"
    /\ UNCHANGED <<up, settings, driver, caller, ch, ptr, val, process>>

ReadInput ==
    /\ ScanAt("input")
    /\ ptr' = line[InSlot(ch)]
    /\ spc' = "get"
    /\ UNCHANGED <<up, settings, driver, caller, ch, val, process>>

\* The level goes to the register map (PlcRuntime has it), an error as low.
Get ==
    /\ ScanAt("get")
    /\ ptr # Null
    /\ ch' = IF ch = N THEN 1 ELSE ch + 1
    /\ spc' = IF ch = N THEN "apply" ELSE "input"
    /\ ptr' = Null
    /\ UNCHANGED <<up, settings, driver, caller, val, process>>

ReadOutput ==
    /\ ScanAt("output")
    /\ val' = coils[ch]
    /\ ptr' = line[OutSlot(ch)]
    /\ spc' = "put"
    /\ UNCHANGED <<up, settings, driver, caller, ch, process>>

\* The result is ignored.
Put ==
    /\ ScanAt("put")
    /\ ptr # Null
    /\ term' = IF ptr \in requested THEN [term EXCEPT ![ptr[2]] = val] ELSE term
    /\ ch' = IF ch = N THEN 1 ELSE ch + 1
    /\ spc' = IF ch = N THEN "sample" ELSE "output"
    /\ ptr' = Null /\ val' = FALSE
    /\ UNCHANGED <<up, settings, driver, caller, coils>>

ScanStep == Test \/ ReadInput \/ Get \/ ReadOutput \/ Put

\* Somebody is about to use a pointer that is NULL or freed: the scan thread,
\* or a worker whose chip another one has closed.
Dangling ==
    \/ spc \in {"get", "put"} /\ (ptr = Null \/ Freed(ptr))
    \/ \E w \in Callers :
         \/ pc[w] = "release" /\ Freed(line[slot[w]])
         \/ pc[w] = "close" /\ chip # Nil /\ chip \notin open
         \/ pc[w] = "request" /\ chip \notin open

Fault == up /\ Dangling /\ Die

\* The ladder program or an operator writes a coil.
ForceCoil(c, v) ==
    /\ up
    /\ coils' = [coils EXCEPT ![c] = v]
    /\ UNCHANGED <<up, settings, driver, caller, scan, term>>

Next ==
    \/ \E w \in Callers : CallStep(w)
    \/ \E w \in Workers, b \in Posts : BeginPost(w, b)
    \/ ScanStep
    \/ Fault
    \/ \E c \in Forced, v \in BOOLEAN : ForceCoil(c, v)
    \/ Kill
    \/ Restart

Spec == Init /\ [][Next]_vars

\* Main, a handler that was entered and the scan thread are carried on, and
\* the use of a NULL pointer is not put off for ever.
FairSpec ==
    /\ Spec
    /\ \A w \in Callers : WF_vars(CallStep(w))
    /\ WF_vars(ScanStep)
    /\ WF_vars(Fault)

-----------------------------------------------------------------------------
Places == {"idle", "scan", "period", "set", "release", "clear", "close", "unchip", "down",
           "open", "request", "keep", "ok", "save", "truncate", "write"}

TypeOK ==
    /\ up \in BOOLEAN
    /\ Loaded(file) \in Configs
    /\ cfg \in Configs
    /\ period \in ScanPeriods
    /\ lost \in BOOLEAN
    /\ chip \in Handles \cup {Nil}
    /\ line \in [Slots -> Pointers \cup {Null}]
    /\ gpioOk \in BOOLEAN
    /\ open \subseteq Handles
    /\ requested \subseteq Pointers
    /\ pc \in [Callers -> Places]
    /\ body \in [Callers -> Bodies]
    /\ \A w \in Callers : pc[w] \in {"scan", "period"} => body[w].scan \in ScanPeriods
    /\ text \in [Callers -> Configs \cup {NoFile}]
    /\ slot \in [Callers -> Slots]
    /\ then \in [Callers -> {"again", "open", "fail"}]
    /\ got \in [Callers -> Pointers \cup {Null}]
    /\ spc \in {"sample", "input", "get", "apply", "output", "put"}
    /\ ch \in Channels
    /\ ptr \in Pointers \cup {Null}
    /\ val \in BOOLEAN
    /\ coils \in [Channels -> BOOLEAN]
    /\ term \in [Existing -> BOOLEAN]

\* No request is being served.
AtRest == up /\ \A w \in Callers : pc[w] = "idle"

HoldsAll ==
    /\ gpioOk
    /\ open = {chip}
    /\ line = [s \in Slots |-> <<chip, Wired(s, cfg)>>]
    /\ requested = {line[s] : s \in Slots}

HoldsNothing ==
    /\ ~gpioOk
    /\ chip = Nil /\ open = {}
    /\ line = [s \in Slots |-> Null]
    /\ requested = {}

\* Between requests either all lines of the current settings are held, or none
\* is and the chip is closed, whatever failed on the way.
AllOrNothing == AtRest => HoldsAll \/ HoldsNothing

\* The settings in force are the ones the next start will load, unless the
\* last save failed; and the engine runs at their period.
SavedIsRunning ==
    AtRest => period = cfg.scan /\ (~lost => Loaded(file) = cfg)

-----------------------------------------------------------------------------
(* Why both hold while one worker at a time serves POST /api/config.        *)

\* One caller at a time is in the driver or the settings.
OneCaller == \A v, w \in Callers : pc[v] # "idle" /\ pc[w] # "idle" => v = w

Releasing == {"release", "clear", "close", "unchip"}

\* What is requested is what the pointers say, but for the line in hand.
PointersTell(w) ==
    /\ \A s \in Slots : line[s] # Null => line[s] = <<chip, line[s][2]>>
    /\ \A s, t \in Slots : line[s] # Null /\ line[s] = line[t] => s = t
    /\ \A p \in Pointers :
         p \in requested <=>
           \/ pc[w] = "keep" /\ p = got[w]
           \/ \E s \in Slots : line[s] = p /\ ~(pc[w] = "clear" /\ s = slot[w])
    /\ open = IF chip = Nil \/ pc[w] = "unchip" THEN {} ELSE {chip}

\* How far caller w is.
Progress(w) ==
    /\ pc[w] \in {"release", "clear"} => \A s \in 1..(slot[w] - 1) : line[s] = Null
    /\ pc[w] = "clear" => line[slot[w]] # Null
    /\ pc[w] \in {"close", "unchip", "down", "open"} =>
         slot[w] = 1 /\ \A s \in Slots : line[s] = Null
    /\ pc[w] = "unchip" => chip # Nil
    /\ pc[w] \in {"down", "open"} => chip = Nil
    /\ pc[w] \in Releasing /\ then[w] # "again" => ~gpioOk
    /\ pc[w] \in {"open", "request", "keep", "ok"} => ~gpioOk
    /\ pc[w] \in {"request", "keep"} =>
         /\ chip # Nil
         /\ \A s \in 1..(slot[w] - 1) : line[s] = <<chip, Wired(s, cfg)>>
         /\ \A s \in slot[w]..(2 * N) : line[s] = Null
    /\ pc[w] = "keep" => got[w] = <<chip, Wired(slot[w], cfg)>> /\ \A s \in Slots : line[s] # got[w]
    /\ pc[w] = "ok" => chip # Nil /\ line = [s \in Slots |-> <<chip, Wired(s, cfg)>>]
    /\ pc[w] \in {"scan", "period", "set"} /\ ~body[w].gpio => body[w].sets = <<>>
    /\ \/ pc[w] \in Releasing \cup {"down", "open", "request", "keep", "ok"}
       \/ pc[w] = "set" /\ body[w].gpio
       \/ HoldsAll
       \/ HoldsNothing

\* Where its settings are.
Settled(w) ==
    /\ pc[w] \in {"scan", "period", "set", "save", "truncate", "write"} => w # Main
    /\ IF pc[w] = "period" THEN cfg.scan = body[w].scan ELSE period = cfg.scan
    /\ pc[w] \in {"truncate", "write"} => Loaded(text[w]) = cfg
    /\ (pc[w] = "idle" /\ ~lost) \/ (pc[w] # "idle" /\ w = Main) => Loaded(file) = cfg

Alone(w) == \A v \in Callers : v # w => pc[v] = "idle"

\* While one worker serves at a time, nobody works beside it, and the pointers,
\* the lines requested and the settings are as far as it is; AllOrNothing and
\* SavedIsRunning are what that is at the end.
ServingInv ==
    /\ OneCaller
    /\ \A w \in Callers : Alone(w) => PointersTell(w) /\ Progress(w) /\ Settled(w)

\* Once the lines are requested again, after whatever disturbance, the coils
\* reach the terminals, unless the lines are given back once more.
OutputsRecover ==
    \A c \in Channels, v \in BOOLEAN :
        gpioOk /\ coils[c] = v ~> ~gpioOk \/ coils[c] # v \/ term[cfg.do[c]] = v
=============================================================================
