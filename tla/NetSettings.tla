---------------------------- MODULE NetSettings -----------------------------
(***************************************************************************)
(* The settings the HMI keeps outside the pool (menu.c): the network       *)
(* dialog, network.conf and the script mdcu-net-apply that every save      *)
(* starts in the background and the init script runs at boot; and the      *)
(* theme, whose change rebuilds the screen under the dialog.               *)
(*                                                                         *)
(* The callbacks of LVGL run one at a time in the HMI thread; the scripts  *)
(* run beside it, and beside each other.  The HMI may be killed and power  *)
(* may fail between any two calls on a file.  A pointer to an object of a  *)
(* dialog is the number of that dialog, 0 is NULL.                         *)
(***************************************************************************)
EXTENDS Integers

CONSTANTS
    Ifaces,     \* names of network interfaces
    Present,    \* the interfaces that exist
    Nets,       \* addresses that a static configuration may have
    NoNet,      \* no complete address
    Part,       \* a file cut short or mixed from two writers, and what comes of it
    Down,       \* an interface that is down
    Default,    \* netcfg_defaults and the defaults of the script: what an empty file says
    Choices,    \* what users enter
    MaxActs, MaxSaves,  \* bounds: of toggles, dialogs and saves together; of saves;
    MaxFaults           \* of kills, power losses and calls that fail

Configs == [mode: {"dhcp", "static"}, iface: Ifaces, net: Nets \cup {NoNet}]

\* The dialog reads the address only in static mode, and takes what is there.
ASSUME ConfigsAssumption ==
    /\ NoNet \notin Nets /\ Part \notin Configs /\ Down \notin Configs /\ Part # Down
    /\ Present \subseteq Ifaces
    /\ Choices \subseteq {c \in Configs : c.mode = "dhcp" => c.net = NoNet}
    /\ Default \in Choices /\ Default.mode = "dhcp"
    /\ {MaxActs, MaxSaves, MaxFaults} \subseteq Nat

Jobs == 0..MaxSaves  \* the scripts: 0 is the one at boot, i that of save i
Steps == {"off", "source", "copy", "copying", "mixing", "resolv", "ifdown", "ifup"}

VARIABLES
    pc,         \* where the HMI is: "off", "events", or inside a callback
    modal, keyboard, status,    \* netcfg_modal, netcfg_keyboard, netcfg_status_lbl
    windows, boards,            \* the dialogs and keyboards that exist
    dialogs,                    \* dialogs opened so far
    dark, themeFile,            \* theme_dark; THEME_FILE, "empty" if it is empty or missing
    built, rebuilds, toggles,   \* the theme on the screen; pending ui_rebuild calls
    form, tmp, conf,            \* the configuration being saved; network.conf.tmp and .conf
    saves,                      \* saves that started a script
    job, got,                   \* job[i]: next step of script i; got[i]: what it sourced
    ifaces, net,                \* the interface file; net[i]: what interface i runs
    asked,      \* history: what users have saved
    past,       \* what network.conf has been since power-on: nothing is synced to the disk
    lost,       \* history: a write of network.conf was cut short
    themeLost,  \* history: the last write of the theme was "refused" or "cut"
    stale,      \* history: network.conf has not been written out to ifaces, undisturbed
    faults

dialog == <<modal, keyboard, status, windows, boards, dialogs>>
look   == <<dark, themeFile, built, rebuilds, toggles, themeLost>>
saved  == <<form, tmp, conf, asked, past, lost>>
script == <<job, got, ifaces, net, stale>>
vars   == <<pc, dialog, look, saved, saves, script, faults>>

\* A fault: bounded, counted.
Fault == faults < MaxFaults /\ faults' = faults + 1

Boot == [i \in Jobs |-> IF i = 0 THEN "source" ELSE "off"]

\* Power-on, with any network.conf a user saved; the init script runs before the HMI.
Init ==
    /\ pc = "off"
    /\ modal = 0 /\ keyboard = 0 /\ status = 0 /\ windows = {} /\ boards = {} /\ dialogs = 0
    /\ dark = TRUE /\ themeFile = "empty" /\ built = TRUE /\ rebuilds = 0 /\ toggles = 0
    /\ form = Default /\ tmp = Default /\ saves = 0
    /\ conf \in Choices /\ asked = {conf} /\ past = {conf}
    /\ job = Boot /\ got = [i \in Jobs |-> Default]
    /\ ifaces = Part /\ net = [i \in Ifaces |-> Down]
    /\ lost = FALSE /\ themeLost = "no" /\ stale = TRUE /\ faults = 0

-----------------------------------------------------------------------------
(* The theme.                                                               *)

\* theme_load: anything but "light" is dark.
Dark(file) == file # "light"

\* What theme_save writes for theme d.
Name(d) == IF d THEN "dark" ELSE "light"

\* theme_apply: theme_dark and, with it, the palette.
ThemeApply(d) == dark' = d

\* ui_build: everything on the screen is made from the palette of theme d.
UiBuild(d) == built' = d

\* menu_create after a start of the HMI (S91, after the network script of S05).
StartHmi ==
    /\ pc = "off" /\ job[0] = "off"
    /\ pc' = "events"
    /\ ThemeApply(Dark(themeFile)) /\ UiBuild(Dark(themeFile)) /\ themeLost' = "no"
    /\ UNCHANGED <<dialog, themeFile, rebuilds, toggles, saved, saves, script, faults>>

\* Mutant of Toggle: the file is opened without emptying it, and written over.
ToggleOver ==
    /\ pc = "events" /\ toggles + dialogs + saves < MaxActs
    /\ toggles' = toggles + 1
    /\ ThemeApply(~dark) /\ themeLost' = "no" /\ pc' = "theme"
    /\ UNCHANGED <<dialog, themeFile, built, rebuilds, saved, saves, script, faults>>

\* theme_toggle_event_cb: theme_apply, and theme_save opens the file, which empties it.
Toggle ==
    /\ pc = "events" /\ toggles + dialogs + saves < MaxActs
    /\ toggles' = toggles + 1
    /\ ThemeApply(~dark) /\ themeFile' = "empty" /\ themeLost' = "no" /\ pc' = "theme"
    /\ UNCHANGED <<dialog, built, rebuilds, saved, saves, script, faults>>

\* The same, when theme_save cannot open the file and returns.
ToggleRefused ==
    /\ pc = "events" /\ toggles + dialogs + saves < MaxActs
    /\ toggles' = toggles + 1
    /\ ThemeApply(~dark) /\ themeLost' = "refused" /\ rebuilds' = rebuilds + 1
    /\ Fault
    /\ UNCHANGED <<pc, dialog, themeFile, built, saved, saves, script>>

\* theme_save writes the name, or nothing that says "light", and does not look which;
\* lv_async_call puts the rebuild off until the event is over.
SaveTheme ==
    /\ pc = "theme"
    /\ \/ themeFile' = Name(dark) /\ UNCHANGED <<themeLost, faults>>
       \/ Fault /\ themeFile' = themeFile /\ themeLost' = "cut"
    /\ rebuilds' = rebuilds + 1 /\ pc' = "events"
    /\ UNCHANGED <<dialog, dark, built, toggles, saved, saves, script>>

\* Mutant of Forget: netcfg_modal keeps its value.
ForgetKeyboardOnly ==
    /\ pc = "events" /\ rebuilds > 0
    /\ rebuilds' = rebuilds - 1
    /\ keyboard' = 0 /\ status' = 0 /\ pc' = "clean"
    /\ UNCHANGED <<modal, windows, boards, dialogs, dark, themeFile, built, toggles, themeLost,
                   saved, saves, script, faults>>

\* ui_rebuild forgets the pointers into the screen ...
Forget ==
    /\ pc = "events" /\ rebuilds > 0
    /\ rebuilds' = rebuilds - 1
    /\ modal' = 0 /\ keyboard' = 0 /\ status' = 0 /\ pc' = "clean"
    /\ UNCHANGED <<windows, boards, dialogs, dark, themeFile, built, toggles, themeLost,
                   saved, saves, script, faults>>

\* ... deletes everything on it and builds it anew.
Rebuild ==
    /\ pc = "clean"
    /\ windows' = {} /\ boards' = {} /\ UiBuild(dark) /\ pc' = "events"
    /\ UNCHANGED <<modal, keyboard, status, dialogs, dark, themeFile, rebuilds, toggles, themeLost,
                   saved, saves, script, faults>>

-----------------------------------------------------------------------------
(* The dialog.                                                              *)

\* netcfg_tile_event_cb: at most one dialog.
Open ==
    /\ pc = "events" /\ modal = 0 /\ toggles + dialogs + saves < MaxActs
    /\ dialogs' = dialogs + 1
    /\ modal' = dialogs' /\ keyboard' = dialogs' /\ status' = dialogs'
    /\ windows' = windows \cup {dialogs'} /\ boards' = boards \cup {dialogs'}
    /\ UNCHANGED <<pc, look, saved, saves, script, faults>>

\* Save & Apply is pressed in a dialog: the fields are read.
PressSave(c) ==
    /\ pc = "events" /\ windows # {} /\ saves < MaxSaves /\ toggles + dialogs + saves < MaxActs
    /\ form' = c /\ asked' = asked \cup {c} /\ pc' = "save"
    /\ UNCHANGED <<dialog, look, tmp, conf, past, lost, saves, script, faults>>

\* Mutant of OpenTmp: no temporary file, network.conf itself is emptied.
OpenConf ==
    /\ pc = "save" /\ pc' = "write"
    /\ tmp' = Default /\ conf' = Default /\ past' = past \cup {Default}
    /\ UNCHANGED <<dialog, look, form, asked, lost, saves, script, faults>>

\* netcfg_save opens network.conf.tmp, which empties it ...
OpenTmp ==
    /\ pc = "save" /\ pc' = "write"
    /\ tmp' = Default
    /\ UNCHANGED <<dialog, look, form, conf, asked, past, lost, saves, script, faults>>

\* What a short write of c leaves, as the readers understand it.
Cuts(c) == {Default, [Default EXCEPT !.mode = c.mode], [c EXCEPT !.net = NoNet]}

\* ... writes it, without a look at the results of fprintf, fflush and fclose ...
WriteTmp ==
    /\ pc = "write" /\ pc' = "rename"
    /\ \/ tmp' = form /\ UNCHANGED <<lost, faults>>
       \/ Fault /\ tmp' \in Cuts(form) \ {form} /\ lost' = TRUE
    /\ UNCHANGED <<dialog, look, form, conf, asked, past, saves, script>>

\* ... and renames it.
Rename ==
    /\ pc = "rename" /\ pc' = "spawn"
    /\ conf' = tmp /\ past' = past \cup {tmp} /\ stale' = TRUE
    /\ form' = Default
    /\ UNCHANGED <<dialog, look, tmp, asked, lost, saves, job, got, ifaces, net, faults>>

\* It cannot open or cannot rename (and unlinks the file): the label says so and the
\* dialog stays.
SaveFails ==
    /\ pc \in {"save", "rename"} /\ pc' = "events"
    /\ form' = Default /\ Fault
    /\ UNCHANGED <<dialog, look, tmp, conf, asked, past, lost, saves, script>>

\* system("/usr/bin/mdcu-net-apply &") ...
Spawn ==
    /\ pc = "spawn" /\ pc' = "close"
    /\ saves' = saves + 1
    /\ job' = [job EXCEPT ![saves'] = "source"]
    /\ UNCHANGED <<dialog, look, saved, got, ifaces, net, stale, faults>>

\* ... whose result is ignored: there may be no process for the script.
SpawnFails ==
    /\ pc = "spawn" /\ pc' = "close" /\ Fault
    /\ UNCHANGED <<dialog, look, saved, saves, script>>

\* The end of netcfg_save_event_cb, and all of netcfg_close_event_cb: the keyboard goes,
\* the dialog goes, the pointers are NULL.
Close ==
    /\ pc = "close" \/ (pc = "events" /\ windows # {})
    /\ boards' = boards \ {keyboard} /\ keyboard' = 0
    /\ windows' = windows \ {modal} /\ modal' = 0
    /\ status' = (IF modal # 0 THEN 0 ELSE status)
    /\ pc' = "events"
    /\ UNCHANGED <<dialogs, look, saved, saves, script, faults>>

-----------------------------------------------------------------------------
(* mdcu-net-apply, step by step, in process i.                              *)

HmiKeeps == UNCHANGED <<pc, dialog, look, saved, saves, faults>>

To(i, from, to) == job[i] \in from /\ job' = [job EXCEPT ![i] = to]

Running == {i \in Jobs : job[i] # "off"}
Copying == {i \in Jobs : job[i] \in {"copying", "mixing"}}

\* . "$CONF"
Source(i) ==
    /\ To(i, {"source"}, "copy")
    /\ got' = [got EXCEPT ![i] = conf]
    /\ HmiKeeps /\ UNCHANGED <<ifaces, net, stale>>

\* mv "$TMP" "$INTERFACES": mktemp is in /tmp, another file system, so mv copies.  Copies
\* under way at a time mix.
Copy(i) ==
    /\ job[i] = "copy"
    /\ job' = [k \in Jobs |-> IF k \in Copying \cup {i}
                              THEN IF Copying = {} THEN "copying" ELSE "mixing"
                              ELSE job[k]]
    /\ ifaces' = Part
    /\ stale' = (Copying # {} \/ got[i] # conf)
    /\ HmiKeeps /\ UNCHANGED <<got, net>>

\* The copy is complete; of a mixture nothing is known.
Copied(i) ==
    /\ To(i, {"copying", "mixing"}, IF got[i].mode = "static" THEN "resolv" ELSE "ifdown")
    /\ ifaces' = got[i] \/ (job[i] = "mixing" /\ ifaces' \in {ifaces, Part})
    /\ HmiKeeps /\ UNCHANGED <<got, net, stale>>

\* mv "$TMP" "$RESOLV", for static configurations; DHCP clients write that file as well.
Resolv(i) ==
    /\ To(i, {"resolv"}, "ifdown")
    /\ HmiKeeps /\ UNCHANGED <<got, ifaces, net, stale>>

\* Mutant of IfDown: the interface is not taken down first.
IfDownSkipped(i) ==
    /\ To(i, {"ifdown"}, "ifup")
    /\ HmiKeeps /\ UNCHANGED <<got, ifaces, net, stale>>

Names(x) == ifaces # Part /\ ifaces.iface = x

\* ifdown "$iface" || true: ifdown may refuse what the file does not name.
IfDown(i) ==
    LET x == got[i].iface IN
    /\ To(i, {"ifdown"}, "ifup")
    /\ \/ net' = [net EXCEPT ![x] = Down]
       \/ ~Names(x) /\ net' = net
    /\ HmiKeeps /\ UNCHANGED <<got, ifaces, stale>>

\* What comes of c: nothing without the interface, or without the address it needs.
Runs(c) == IF c.iface \in Present /\ (c.mode = "static" => c.net # NoNet) THEN c ELSE Down

\* What ifup x may bring: an interface that is up stays as it is.
Upped(x) ==
    IF net[x] # Down THEN {net[x]}
    ELSE IF ifaces = Part /\ x \in Present THEN {Down, Part}
    ELSE {IF Names(x) THEN Runs(ifaces) ELSE Down}

\* Mutant of IfUp: ifup is repeated until the interface is up.
IfUpRetries(i) ==
    /\ \E up \in Upped(got[i].iface) :
        /\ net' = [net EXCEPT ![got[i].iface] = up]
        /\ To(i, {"ifup"}, IF up = Down THEN "ifup" ELSE "off")
    /\ got' = [got EXCEPT ![i] = IF job'[i] = "off" THEN Default ELSE got[i]]
    /\ HmiKeeps /\ UNCHANGED <<ifaces, stale>>

\* ifup "$iface"
IfUp(i) ==
    /\ To(i, {"ifup"}, "off")
    /\ \E up \in Upped(got[i].iface) : net' = [net EXCEPT ![got[i].iface] = up]
    /\ got' = [got EXCEPT ![i] = Default]
    /\ HmiKeeps /\ UNCHANGED <<ifaces, stale>>

\* set -e: a failure to read, to make a temporary file, to write or to move it ends the
\* script, with the interface file cut or whole.
GiveUp(i) ==
    /\ To(i, {"source", "copy", "copying", "mixing", "resolv"}, "off")
    /\ ifaces' = ifaces \/ (job[i] = "mixing" /\ ifaces' = Part)
    /\ stale' = (stale \/ job[i] \notin {"source", "copy"})
    /\ got' = [got EXCEPT ![i] = Default]
    /\ Fault /\ UNCHANGED <<pc, dialog, look, saved, saves, net>>

Apply(i) == Source(i) \/ Copy(i) \/ Copied(i) \/ Resolv(i) \/ IfDown(i) \/ IfUp(i)

-----------------------------------------------------------------------------
(* Faults.                                                                  *)

\* The HMI is gone, with everything on its screen; the scripts and the files are not.
HmiGone ==
    /\ Fault /\ pc' = "off" /\ rebuilds' = 0 /\ form' = Default
    /\ modal' = 0 /\ keyboard' = 0 /\ status' = 0 /\ windows' = {} /\ boards' = {}
    /\ UNCHANGED <<dialogs, dark, built, toggles, tmp, asked, lost, saves>>

\* The HMI is killed, or restarted by its init script.
Kill ==
    /\ pc # "off"
    /\ HmiGone
    /\ themeLost' = (IF pc = "theme" THEN "cut" ELSE themeLost)
    /\ UNCHANGED <<themeFile, conf, past, script>>

\* Power is lost and comes back: /tmp is empty, the interfaces are down, what was renamed
\* or copied may not have reached the disk, and the init script starts.
Outage ==
    /\ HmiGone
    /\ themeFile' = "empty" /\ themeLost' = "cut"
    /\ conf' \in past /\ past' = {conf'}
    /\ ifaces' \in {ifaces, Part} /\ net' = [i \in Ifaces |-> Down] /\ stale' = TRUE
    /\ job' = Boot /\ got' = [i \in Jobs |-> Default]

Hmi ==
    \/ StartHmi \/ SaveTheme \/ Forget \/ Rebuild
    \/ OpenTmp \/ WriteTmp \/ Rename \/ SaveFails \/ Spawn \/ SpawnFails \/ (pc = "close" /\ Close)

Next ==
    \/ StartHmi \/ Toggle \/ ToggleRefused \/ SaveTheme \/ Forget \/ Rebuild
    \/ Open \/ (\E c \in Choices : PressSave(c))
    \/ OpenTmp \/ WriteTmp \/ Rename \/ SaveFails \/ Spawn \/ SpawnFails \/ Close
    \/ \E i \in Jobs : Apply(i) \/ GiveUp(i)
    \/ Kill \/ Outage

\* The callbacks and the scripts run to their ends; users do as they please.
Spec == Init /\ [][Next]_vars /\ WF_vars(Hmi) /\ \A i \in Jobs : WF_vars(Apply(i))

-----------------------------------------------------------------------------
(* Properties.                                                              *)

\* The types of the variables.
TypeOK ==
    /\ pc \in {"off", "events", "theme", "clean", "save", "write", "rename", "spawn", "close"}
    /\ {modal, keyboard, status} \subseteq 0..dialogs
    /\ windows \subseteq 1..dialogs /\ boards \subseteq 1..dialogs /\ dialogs \in Nat
    /\ {dark, built, lost, stale} \subseteq BOOLEAN
    /\ themeFile \in {"empty", "dark", "light"} /\ themeLost \in {"no", "refused", "cut"}
    /\ {rebuilds, toggles, saves, faults} \subseteq Nat
    /\ form \in Choices /\ {tmp, conf} \cup past \subseteq Configs /\ asked \subseteq Choices
    /\ job \in [Jobs -> Steps] /\ got \in [Jobs -> Configs]
    /\ ifaces \in Configs \cup {Part} /\ net \in [Ifaces -> Configs \cup {Down, Part}]

\* However dialogs and rebuilds of the screen interleave, the callbacks find no pointer
\* to a deleted object, and between callbacks netcfg_modal is set exactly while the one
\* dialog exists, so that it can be closed and, once closed, opened again.
PointersTell ==
    /\ modal # 0 => modal \in windows
    /\ keyboard # 0 => keyboard \in boards
    /\ status # 0 => status \in windows
    /\ pc # "clean" => /\ windows = {modal} \ {0}
                       /\ boards = {keyboard} \ {0}

\* What a start of the HMI at this instant would bring, a kill between the calls of
\* theme_save included: never light when dark is in force, unless the file could not be
\* opened; and the theme in force, once it has been written and until /tmp is emptied.
\* With no rebuild to come the screen has that theme as well.
LookKept ==
    /\ themeLost # "refused" => (dark => Dark(themeFile))
    /\ themeLost = "no" /\ pc # "theme" => Dark(themeFile) = dark
    /\ pc = "events" /\ rebuilds = 0 => built = dark

\* network.conf is a configuration some user asked for, whole, at every instant a script
\* may read it, and is so again after a power loss, whichever of the renames reached the
\* disk; unless a short write, which netcfg_save does not notice, was renamed.
ConfWhole == ~lost => conf \in past /\ past \subseteq asked

Settled == ifaces = conf /\ net[conf.iface] = Runs(conf)

\* Scripts restart interfaces under each other, give up half-way and come late, and the
\* dialog saves while they run: when the last has ended, and network.conf was copied to
\* the interface file undisturbed, that file and the interface agree with network.conf.
SettledIsSaved == Running = {} /\ ~stale => Settled

\* What is saved for good and copied undisturbed is applied at last, also if the interface
\* does not come up.
SavedIsApplied == <>[]~stale => <>[](Running = {} /\ Settled)
=============================================================================
