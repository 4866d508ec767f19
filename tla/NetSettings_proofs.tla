------------------------- MODULE NetSettings_proofs --------------------------
(***************************************************************************)
(* Proofs about NetSettings, for any interfaces and configurations and any *)
(* number of dialogs, toggles, saves and faults.                           *)
(***************************************************************************)
EXTENDS NetSettings, TLAPS

-----------------------------------------------------------------------------
(* Types: of the dialogs and counters, of the flags, of the files.          *)

Screen ==
    /\ pc \in {"off", "events", "theme", "clean", "save", "write", "rename", "spawn", "close"}
    /\ modal \in 0..dialogs /\ keyboard \in 0..dialogs /\ status \in 0..dialogs
    /\ windows \subseteq 1..dialogs /\ boards \subseteq 1..dialogs /\ dialogs \in Nat
    /\ themeFile \in {"empty", "dark", "light"} /\ themeLost \in {"no", "refused", "cut"}
    /\ rebuilds \in Nat /\ toggles \in Nat /\ saves \in Nat /\ faults \in Nat

Flags == dark \in BOOLEAN /\ built \in BOOLEAN /\ lost \in BOOLEAN /\ stale \in BOOLEAN

Saved ==
    /\ form \in Choices /\ tmp \in Configs /\ conf \in Configs
    /\ past \subseteq Configs /\ asked \subseteq Choices

Files ==
    /\ job \in [Jobs -> Steps] /\ got \in [Jobs -> Configs]
    /\ ifaces \in Configs \cup {Part}
    /\ net \in [Ifaces -> Configs \cup {Down, Part}]

Types == Screen /\ Flags /\ Saved /\ Files

LEMMA TypeParts == TypeOK <=> Types
<1>1. {tmp, conf} \cup past \subseteq Configs <=> tmp \in Configs /\ conf \in Configs /\ past \subseteq Configs
    OBVIOUS
<1> QED
    BY <1>1, Zenon DEF TypeOK, Types, Screen, Flags, Saved, Files

\* The steps of the HMI, and what they leave alone.
HmiSteps ==
    \/ StartHmi \/ Toggle \/ ToggleRefused \/ SaveTheme \/ Forget \/ Rebuild
    \/ Open \/ (\E c \in Choices : PressSave(c))
    \/ OpenTmp \/ WriteTmp \/ Rename \/ SaveFails \/ SpawnFails \/ Close \/ Kill

Unsaving ==
    \/ StartHmi \/ Toggle \/ ToggleRefused \/ SaveTheme \/ Forget \/ Rebuild
    \/ Open \/ Spawn \/ SpawnFails \/ Close

LEMMA NextParts ==
    Next => HmiSteps \/ Spawn \/ (\E i \in Jobs : Apply(i) \/ GiveUp(i)) \/ Outage
BY Zenon DEF Next, HmiSteps

LEMMA HmiKeepsScripts == HmiSteps => UNCHANGED <<job, got, ifaces, net>> /\ (Rename \/ stale' = stale)
BY Zenon DEF HmiSteps, StartHmi, Toggle, ToggleRefused, SaveTheme, Forget, Rebuild, Open, PressSave,
    OpenTmp, WriteTmp, Rename, SaveFails, SpawnFails, Close, Kill, script

LEMMA UnsavingKeeps == Unsaving => UNCHANGED saved
BY Zenon DEF Unsaving, StartHmi, Toggle, ToggleRefused, SaveTheme, Forget, Rebuild, Open, Spawn,
    SpawnFails, Close

LEMMA ScriptKeeps ==
    ASSUME NEW i \in Jobs, Apply(i) \/ GiveUp(i)
    PROVE  UNCHANGED <<pc, dialog, look, saved, saves>>
BY Zenon DEF Apply, Source, Copy, Copied, Resolv, IfDown, IfUp, GiveUp, HmiKeeps

LEMMA ChoicesAreConfigs == Choices \subseteq Configs /\ Default \in Choices /\ Default \in Configs
BY ConfigsAssumption

LEMMA ConfigParts ==
    ASSUME NEW c \in Configs
    PROVE  /\ c.mode \in {"dhcp", "static"} /\ c.iface \in Ifaces /\ c.net \in Nets \cup {NoNet}
           /\ c # Part /\ c # Down
BY ConfigsAssumption DEF Configs

LEMMA InitTypes == Init => Types
<1> SUFFICES ASSUME Init PROVE Types
    OBVIOUS
<1>1. Screen
    <2>1. /\ pc = "off" /\ modal = 0 /\ keyboard = 0 /\ status = 0 /\ windows = {} /\ boards = {}
          /\ dialogs = 0 /\ themeFile = "empty" /\ themeLost = "no"
          /\ rebuilds = 0 /\ toggles = 0 /\ saves = 0 /\ faults = 0
        BY Zenon DEF Init
    <2> QED
        BY <2>1 DEF Screen
<1>2. Flags
    BY Zenon DEF Init, Flags
<1>3. Saved
    <2>1. form = Default /\ tmp = Default /\ conf \in Choices /\ past = {conf} /\ asked = {conf}
        BY Zenon DEF Init
    <2> QED
        BY <2>1, ChoicesAreConfigs DEF Saved
<1>4. Files
    <2>1. /\ ifaces = Part /\ job = Boot
          /\ got = [i \in Jobs |-> Default] /\ net = [i \in Ifaces |-> Down]
        BY Zenon DEF Init
    <2> QED
        BY <2>1, ChoicesAreConfigs DEF Files, Steps, Boot
<1> QED
    BY <1>1, <1>2, <1>3, <1>4 DEF Types

LEMMA ScreenStays == Screen /\ [Next]_vars => Screen'
<1> SUFFICES ASSUME Screen, [Next]_vars PROVE Screen'
    OBVIOUS
<1> USE DEF Screen, Fault
<1>1. CASE StartHmi
    BY <1>1 DEF StartHmi, dialog
<1>2. CASE Toggle
    BY <1>2 DEF Toggle, dialog
<1>3. CASE ToggleRefused
    BY <1>3 DEF ToggleRefused, dialog
<1>4. CASE SaveTheme
    BY <1>4 DEF SaveTheme, Name, dialog
<1>5. CASE Forget
    BY <1>5 DEF Forget
<1>6. CASE Rebuild
    BY <1>6 DEF Rebuild
<1>7. CASE Open
    BY <1>7 DEF Open, look
<1>8. ASSUME NEW c \in Choices, PressSave(c) PROVE Screen'
    BY <1>8 DEF PressSave, dialog, look
<1>9. CASE OpenTmp \/ WriteTmp \/ Rename \/ SaveFails \/ Spawn \/ SpawnFails
    <2>1. UNCHANGED <<dialog, look>>
        BY <1>9, Zenon DEF OpenTmp, WriteTmp, Rename, SaveFails, Spawn, SpawnFails
    <2>2. pc' \in {"write", "rename", "spawn", "events", "close"} /\ saves' \in Nat /\ faults' \in Nat
        BY <1>9 DEF OpenTmp, WriteTmp, Rename, SaveFails, Spawn, SpawnFails
    <2> QED
        BY <2>1, <2>2 DEF dialog, look
<1>10. CASE Close
    BY <1>10 DEF Close, look
<1>11. CASE Kill
    BY <1>11 DEF Kill, HmiGone
<1>12. CASE Outage
    BY <1>12 DEF Outage, HmiGone
<1>13. ASSUME NEW i \in Jobs, Apply(i) \/ GiveUp(i) PROVE Screen'
    <2>1. faults' = faults \/ faults' = faults + 1
        BY <1>13, Zenon DEF Apply, Source, Copy, Copied, Resolv, IfDown, IfUp, GiveUp, HmiKeeps, Fault
    <2>2. faults' \in Nat
        BY <2>1
    <2> QED
        BY <1>13, <2>2, ScriptKeeps DEF dialog, look
<1>14. CASE UNCHANGED vars
    BY <1>14 DEF vars, dialog, look
<1> QED
    BY <1>1, <1>2, <1>3, <1>4, <1>5, <1>6, <1>7, <1>8, <1>9, <1>10, <1>11, <1>12, <1>13, <1>14,
       NextParts DEF HmiSteps

LEMMA FlagsStay == Flags /\ [Next]_vars => Flags'
<1> SUFFICES ASSUME Flags, [Next]_vars PROVE Flags'
    OBVIOUS
<1>1. /\ Dark(themeFile) \in BOOLEAN /\ (~dark) \in BOOLEAN
      /\ \A i : (Copying # {} \/ got[i] # conf) \in BOOLEAN
      /\ \A i : (stale \/ job[i] \notin {"source", "copy"}) \in BOOLEAN
    BY Zenon DEF Dark, Flags
<1>2. CASE HmiSteps
    BY <1>1, <1>2, Zenon DEF HmiSteps, StartHmi, Toggle, ToggleRefused, SaveTheme, Forget, Rebuild, Open,
        PressSave, OpenTmp, WriteTmp, Rename, SaveFails, SpawnFails, Close, Kill, HmiGone, ThemeApply,
        UiBuild, look, saved, script, Flags
<1>3. CASE Spawn
    BY <1>3, Zenon DEF Spawn, look, saved, Flags
<1>4. CASE Outage
    BY <1>4, Zenon DEF Outage, HmiGone, Flags
<1>5. ASSUME NEW i \in Jobs, Apply(i) \/ GiveUp(i) PROVE Flags'
    <2>1. UNCHANGED <<dark, built, lost>>
        BY <1>5, ScriptKeeps, Zenon DEF look, saved
    <2>2. \/ stale' = stale \/ stale' = (Copying # {} \/ got[i] # conf)
          \/ stale' = (stale \/ job[i] \notin {"source", "copy"})
        BY <1>5, Zenon DEF Apply, Source, Copy, Copied, Resolv, IfDown, IfUp, GiveUp
    <2> QED
        BY <1>1, <2>1, <2>2, Zenon DEF Flags
<1>6. CASE UNCHANGED vars
    BY <1>6, Zenon DEF vars, look, saved, script, Flags
<1> QED
    BY <1>2, <1>3, <1>4, <1>5, <1>6, NextParts

\* What a short write leaves is read as a configuration.
LEMMA CutsAreConfigs ==
    ASSUME NEW c \in Configs
    PROVE  Cuts(c) \subseteq Configs
BY ChoicesAreConfigs DEF Cuts, Configs

LEMMA SavedStays == Saved /\ [Next]_vars => Saved'
<1> SUFFICES ASSUME Saved, [Next]_vars PROVE Saved'
    OBVIOUS
<1> USE DEF Saved
<1>1. CASE Unsaving
    BY <1>1, UnsavingKeeps DEF saved
<1>2. ASSUME NEW c \in Choices, PressSave(c) PROVE Saved'
    BY <1>2 DEF PressSave
<1>3. CASE OpenTmp
    BY <1>3, ChoicesAreConfigs DEF OpenTmp
<1>4. CASE WriteTmp
    <2>1. /\ tmp' \in {form} \cup Cuts(form)
          /\ UNCHANGED <<form, conf, asked, past>>
        BY <1>4 DEF WriteTmp
    <2>2. form \in Configs /\ Cuts(form) \subseteq Configs
        BY CutsAreConfigs, ChoicesAreConfigs
    <2> QED
        BY <2>1, <2>2
<1>5. CASE Rename
    BY <1>5, ChoicesAreConfigs DEF Rename
<1>6. CASE SaveFails
    BY <1>6, ChoicesAreConfigs DEF SaveFails
<1>7. CASE Kill
    BY <1>7, ChoicesAreConfigs DEF Kill, HmiGone
<1>8. CASE Outage
    BY <1>8, ChoicesAreConfigs DEF Outage, HmiGone
<1>9. ASSUME NEW i \in Jobs, Apply(i) \/ GiveUp(i) PROVE Saved'
    BY <1>9, ScriptKeeps DEF saved
<1>10. CASE UNCHANGED vars
    BY <1>10 DEF vars, saved
<1> QED
    BY <1>1, <1>2, <1>3, <1>4, <1>5, <1>6, <1>7, <1>8, <1>9, <1>10, NextParts DEF HmiSteps, Unsaving

LEMMA FilesStay == Files /\ Saved /\ [Next]_vars => Files'
<1> SUFFICES ASSUME Files, Saved, [Next]_vars PROVE Files'
    OBVIOUS
<1>1. CASE HmiSteps
    BY <1>1, HmiKeepsScripts DEF Files
<1>2. CASE Spawn
    <2>1. job' = [job EXCEPT ![saves'] = "source"] /\ UNCHANGED <<got, ifaces, net>>
        BY <1>2, Zenon DEF Spawn
    <2> QED
        BY <2>1 DEF Files, Steps
<1>3. CASE Outage
    <2>1. /\ job' = Boot /\ got' = [i \in Jobs |-> Default]
          /\ ifaces' \in {ifaces, Part} /\ net' = [i \in Ifaces |-> Down]
        BY <1>3, Zenon DEF Outage
    <2> QED
        BY <2>1, ChoicesAreConfigs DEF Files, Steps, Boot
<1>4. ASSUME NEW i \in Jobs, Apply(i) \/ GiveUp(i) PROVE Files'
    <2>1. got[i] \in Configs /\ got[i].iface \in Ifaces
        BY ConfigParts DEF Files
    <2>2. Upped(got[i].iface) \subseteq Configs \cup {Down, Part}
        BY <2>1 DEF Upped, Runs, Names, Files
    <2>3. CASE Source(i)
        BY <2>3 DEF Source, To, Files, Saved, Steps
    <2>4. CASE Copy(i)
        BY <2>4 DEF Copy, Files, Steps
    <2>5. CASE Copied(i)
        BY <2>1, <2>5 DEF Copied, To, Files, Steps
    <2>6. CASE Resolv(i)
        BY <2>6 DEF Resolv, To, Files, Steps
    <2>7. CASE IfDown(i)
        BY <2>1, <2>7 DEF IfDown, To, Files, Steps
    <2>8. CASE IfUp(i)
        BY <2>1, <2>2, <2>8, ChoicesAreConfigs DEF IfUp, To, Files, Steps
    <2>9. CASE GiveUp(i)
        BY <2>9, ChoicesAreConfigs DEF GiveUp, To, Files, Steps
    <2> QED
        BY <1>4, <2>3, <2>4, <2>5, <2>6, <2>7, <2>8, <2>9 DEF Apply
<1>5. CASE UNCHANGED vars
    BY <1>5 DEF vars, script, Files
<1> QED
    BY <1>1, <1>2, <1>3, <1>4, <1>5, NextParts

LEMMA TypesStay == Types /\ [Next]_vars => Types'
BY ScreenStays, FlagsStay, SavedStays, FilesStay DEF Types

\* The variables keep their types: a file that was cut short is still read as a
\* configuration, and the pointers refer to dialogs that were opened.
THEOREM TypeCorrect == Spec => []TypeOK
BY InitTypes, TypesStay, TypeParts, PTL DEF Spec

-----------------------------------------------------------------------------
(* The pointers into the screen.                                            *)

Pointers ==
    /\ PointersTell
    /\ pc = "clean" => modal = 0 /\ keyboard = 0 /\ status = 0
    /\ keyboard \in {0, modal}

LEMMA PointersStay == Screen /\ Pointers /\ [Next]_vars => Pointers'
<1> SUFFICES ASSUME Screen, Pointers, [Next]_vars PROVE Pointers'
    OBVIOUS
<1> USE DEF Screen, Pointers, PointersTell
<1>1. ASSUME UNCHANGED dialog, pc' # "clean", pc # "clean" PROVE Pointers'
    BY <1>1 DEF dialog
<1>2. CASE \/ StartHmi \/ Toggle \/ ToggleRefused \/ SaveTheme \/ (\E c \in Choices : PressSave(c))
           \/ OpenTmp \/ WriteTmp \/ Rename \/ SaveFails \/ Spawn \/ SpawnFails
    <2>1. UNCHANGED dialog
        BY <1>2, Zenon DEF StartHmi, Toggle, ToggleRefused, SaveTheme, PressSave, OpenTmp, WriteTmp, Rename,
            SaveFails, Spawn, SpawnFails
    <2>2. pc' # "clean" /\ pc # "clean"
        BY <1>2 DEF StartHmi, Toggle, ToggleRefused, SaveTheme, PressSave, OpenTmp, WriteTmp, Rename,
            SaveFails, Spawn, SpawnFails
    <2> QED
        BY <1>1, <2>1, <2>2
<1>3. CASE Forget
    BY <1>3 DEF Forget
<1>4. CASE Rebuild
    BY <1>4 DEF Rebuild
<1>5. CASE Open
    BY <1>5 DEF Open
<1>6. CASE Close
    BY <1>6 DEF Close
<1>7. CASE Kill \/ Outage
    <2>1. modal' = 0 /\ keyboard' = 0 /\ status' = 0 /\ windows' = {} /\ boards' = {}
        BY <1>7, Zenon DEF Kill, Outage, HmiGone
    <2> QED
        BY <2>1
<1>8. ASSUME NEW i \in Jobs, Apply(i) \/ GiveUp(i) PROVE Pointers'
    BY <1>8, ScriptKeeps DEF dialog
<1>9. CASE UNCHANGED vars
    BY <1>9 DEF vars, dialog
<1> QED
    BY <1>2, <1>3, <1>4, <1>5, <1>6, <1>7, <1>8, <1>9, NextParts DEF HmiSteps

\* No callback of LVGL finds a pointer to a deleted object, and netcfg_modal tells whether
\* a dialog exists, however dialogs and rebuilds of the screen interleave.
THEOREM PointersAreRight == Spec => []PointersTell
<1>1. Init => Pointers
    <2> SUFFICES ASSUME Init PROVE Pointers
        OBVIOUS
    <2>1. pc = "off" /\ modal = 0 /\ keyboard = 0 /\ status = 0 /\ windows = {} /\ boards = {}
        BY Zenon DEF Init
    <2> QED
        BY <2>1 DEF Pointers, PointersTell
<1>2. Types => Screen
    BY DEF Types
<1>3. Types /\ Pointers /\ [Next]_vars => (Types /\ Pointers)'
    BY <1>2, TypesStay, PointersStay
<1>4. Pointers => PointersTell
    BY DEF Pointers
<1> QED
    BY <1>1, <1>3, <1>4, InitTypes, PTL DEF Spec

-----------------------------------------------------------------------------
(* The theme.                                                               *)

\* While theme_save is at work its file is empty.
Look ==
    /\ LookKept
    /\ pc = "theme" => themeFile = "empty" /\ themeLost = "no"
    /\ pc \notin {"off", "theme", "clean"} /\ rebuilds = 0 => built = dark

LEMMA LookStays == Screen /\ Flags /\ Look /\ [Next]_vars => Look'
<1> SUFFICES ASSUME Screen, Flags, Look, [Next]_vars PROVE Look'
    OBVIOUS
<1> USE DEF Look, LookKept
<1>1. CASE StartHmi
    <2>1. /\ dark' = Dark(themeFile) /\ built' = Dark(themeFile) /\ themeFile' = themeFile
          /\ pc' = "events"
        BY <1>1, Zenon DEF StartHmi, ThemeApply, UiBuild
    <2> QED
        BY <2>1 DEF Dark
<1>2. CASE Toggle
    <2>1. pc' = "theme" /\ themeFile' = "empty" /\ themeLost' = "no"
        BY <1>2 DEF Toggle
    <2> QED
        BY <2>1 DEF Dark
<1>3. CASE ToggleRefused
    <2>1. themeLost' = "refused" /\ rebuilds' = rebuilds + 1 /\ pc' = "events"
        BY <1>3 DEF ToggleRefused
    <2>2. rebuilds' # 0
        BY <2>1 DEF Screen
    <2> QED
        BY <2>1, <2>2
<1>4. CASE SaveTheme
    <2>1. /\ \/ themeFile' = Name(dark) /\ themeLost' = "no"
             \/ themeFile' = "empty" /\ themeLost' = "cut"
          /\ dark' = dark /\ rebuilds' = rebuilds + 1 /\ pc' = "events"
        BY <1>4 DEF SaveTheme
    <2>2. Dark(Name(dark)) = dark /\ Dark("empty") = TRUE
        BY DEF Dark, Name, Flags
    <2>3. rebuilds' # 0
        BY <2>1 DEF Screen
    <2>4. CASE themeFile' = Name(dark) /\ themeLost' = "no"
        BY <2>1, <2>2, <2>3, <2>4
    <2>5. CASE themeFile' = "empty" /\ themeLost' = "cut"
        BY <2>1, <2>2, <2>3, <2>5
    <2> QED
        BY <2>1, <2>4, <2>5
<1>5. CASE Forget
    BY <1>5 DEF Forget, Dark
<1>6. CASE Rebuild
    BY <1>6 DEF Rebuild, UiBuild, Dark
<1>7. CASE Kill
    <2>1. /\ pc' = "off" /\ UNCHANGED <<dark, themeFile>>
          /\ themeLost' = (IF pc = "theme" THEN "cut" ELSE themeLost)
        BY <1>7 DEF Kill, HmiGone
    <2> QED
        BY <2>1 DEF Dark
<1>8. CASE Outage
    <2>1. pc' = "off" /\ themeFile' = "empty" /\ themeLost' = "cut"
        BY <1>8 DEF Outage, HmiGone
    <2> QED
        BY <2>1 DEF Dark
<1>9. CASE \/ Open \/ (\E c \in Choices : PressSave(c)) \/ OpenTmp \/ WriteTmp \/ Rename \/ SaveFails
           \/ Spawn \/ SpawnFails \/ Close
    <2>1. pc \notin {"off", "theme", "clean"} /\ pc' # "theme"
        BY <1>9 DEF Open, PressSave, OpenTmp, WriteTmp, Rename, SaveFails, Spawn, SpawnFails, Close
    <2>2. UNCHANGED look
        BY <1>9, Zenon DEF Open, PressSave, OpenTmp, WriteTmp, Rename, SaveFails, Spawn, SpawnFails, Close
    <2> QED
        BY <2>1, <2>2 DEF look, Dark
<1>10. ASSUME NEW i \in Jobs, Apply(i) \/ GiveUp(i) PROVE Look'
    BY <1>10, ScriptKeeps DEF look, Dark
<1>11. CASE UNCHANGED vars
    BY <1>11 DEF vars, look, Dark
<1> QED
    BY <1>1, <1>2, <1>3, <1>4, <1>5, <1>6, <1>7, <1>8, <1>9, <1>10, <1>11, NextParts DEF HmiSteps

\* A restart of the HMI, after a kill between any two calls or a power loss, brings the
\* theme that was in force, or dark instead of a light one whose file was cut or emptied;
\* it brings light instead of dark only when the file could not be opened.
THEOREM ThemeIsKept == Spec => []LookKept
<1>1. Init => Look
    <2> SUFFICES ASSUME Init PROVE Look
        OBVIOUS
    <2>1. pc = "off" /\ dark = TRUE /\ themeFile = "empty"
        BY Zenon DEF Init
    <2> QED
        BY <2>1 DEF Look, LookKept, Dark
<1>2. Types => Screen /\ Flags
    BY DEF Types
<1>3. Types /\ Look /\ [Next]_vars => (Types /\ Look)'
    BY <1>2, TypesStay, LookStays
<1>4. Look => LookKept
    BY DEF Look
<1> QED
    BY <1>1, <1>3, <1>4, InitTypes, PTL DEF Spec

-----------------------------------------------------------------------------
(* network.conf.                                                            *)

\* What is renamed is what was asked for, once it has been written.
Whole ==
    /\ pc \in {"save", "write", "rename"} => form \in asked
    /\ ~lost => /\ pc = "rename" => tmp = form
                /\ conf \in past /\ past \subseteq asked

LEMMA WholeStays == Whole /\ [Next]_vars => Whole'
<1> SUFFICES ASSUME Whole, [Next]_vars PROVE Whole'
    OBVIOUS
<1> USE DEF Whole
<1>1. CASE Unsaving
    <2>1. UNCHANGED <<form, tmp, conf, asked, past, lost>>
        BY <1>1, UnsavingKeeps DEF saved
    <2>2. pc' \notin {"save", "write", "rename"}
        BY <1>1 DEF Unsaving, StartHmi, Toggle, ToggleRefused, SaveTheme, Forget, Rebuild, Open, Spawn,
            SpawnFails, Close
    <2> QED
        BY <2>1, <2>2
<1>2. ASSUME NEW c \in Choices, PressSave(c) PROVE Whole'
    BY <1>2 DEF PressSave
<1>3. CASE OpenTmp
    BY <1>3 DEF OpenTmp
<1>4. CASE WriteTmp
    <2>1. (tmp' = form /\ lost' = lost) \/ lost' = TRUE
        BY <1>4 DEF WriteTmp
    <2>2. pc = "write" /\ pc' = "rename" /\ UNCHANGED <<form, conf, asked, past>>
        BY <1>4 DEF WriteTmp
    <2> QED
        BY <2>1, <2>2
<1>5. CASE Rename
    <2>1. /\ pc = "rename" /\ pc' = "spawn" /\ conf' = tmp /\ past' = past \cup {tmp}
          /\ UNCHANGED <<asked, lost>>
        BY <1>5 DEF Rename
    <2> QED
        BY <2>1
<1>6. CASE SaveFails
    BY <1>6 DEF SaveFails
<1>7. CASE Kill
    BY <1>7 DEF Kill, HmiGone
<1>8. CASE Outage
    BY <1>8 DEF Outage, HmiGone
<1>9. ASSUME NEW i \in Jobs, Apply(i) \/ GiveUp(i) PROVE Whole'
    BY <1>9, ScriptKeeps DEF saved
<1>10. CASE UNCHANGED vars
    BY <1>10 DEF vars, saved
<1> QED
    BY <1>1, <1>2, <1>3, <1>4, <1>5, <1>6, <1>7, <1>8, <1>9, <1>10, NextParts DEF HmiSteps, Unsaving

\* However kills, failing calls and power losses fall between the calls of netcfg_save,
\* network.conf is, and after a power loss is again, a whole configuration that was asked
\* for, as long as no short write has gone unnoticed.
THEOREM ConfIsWhole == Spec => []ConfWhole
<1>1. Init => Whole
    <2> SUFFICES ASSUME Init PROVE Whole
        OBVIOUS
    <2>1. pc = "off" /\ past = {conf} /\ asked = {conf}
        BY Zenon DEF Init
    <2> QED
        BY <2>1 DEF Whole
<1>2. Whole /\ [Next]_vars => Whole'
    BY WholeStays
<1>3. Whole => ConfWhole
    BY DEF Whole, ConfWhole
<1> QED
    BY <1>1, <1>2, <1>3, PTL DEF Spec

-----------------------------------------------------------------------------
(* The scripts.                                                             *)

\* The script of a save in progress has not been started: the numbers above saves are free.
Room ==
    /\ pc \in {"save", "write", "rename", "spawn"} => saves < MaxSaves
    /\ \A i \in Jobs : i > saves => job[i] = "off"

LEMMA RoomStays == Types /\ Room /\ [Next]_vars => Room'
<1> SUFFICES ASSUME Types, Room, [Next]_vars PROVE Room'
    OBVIOUS
<1> USE DEF Room, Types
<1>1. CASE HmiSteps
    <2>1. job' = job
        BY <1>1, HmiKeepsScripts
    <2>2. saves' = saves
        BY <1>1, Zenon DEF HmiSteps, StartHmi, Toggle, ToggleRefused, SaveTheme, Forget, Rebuild, Open,
            PressSave, OpenTmp, WriteTmp, Rename, SaveFails, SpawnFails, Close, Kill, HmiGone
    <2>3. pc' \in {"save", "write", "rename", "spawn"} => saves < MaxSaves
        BY <1>1 DEF HmiSteps, StartHmi, Toggle, ToggleRefused, SaveTheme, Forget, Rebuild, Open,
            PressSave, OpenTmp, WriteTmp, Rename, SaveFails, SpawnFails, Close, Kill, HmiGone
    <2> QED
        BY <2>1, <2>2, <2>3
<1>2. CASE Spawn
    <2>1. /\ pc = "spawn" /\ pc' = "close" /\ saves' = saves + 1
          /\ job' = [job EXCEPT ![saves'] = "source"]
        BY <1>2, Zenon DEF Spawn
    <2> QED
        BY <2>1 DEF Screen, Files, Jobs
<1>3. CASE Outage
    <2>1. pc' = "off" /\ saves' = saves /\ job' = Boot
        BY <1>3, Zenon DEF Outage, HmiGone
    <2> QED
        BY <2>1 DEF Screen, Boot, Jobs
<1>4. ASSUME NEW i \in Jobs, Apply(i) \/ GiveUp(i) PROVE Room'
    <2>1. pc' = pc /\ saves' = saves
        BY <1>4, ScriptKeeps
    <2>2. job[i] # "off"
        BY <1>4 DEF Apply, Source, Copy, Copied, Resolv, IfDown, IfUp, GiveUp, To
    <2>3. \A k \in Jobs : job[k] = "off" => job'[k] = "off"
        <3>1. ASSUME NEW to, job' = [job EXCEPT ![i] = to] PROVE \A k \in Jobs : job[k] = "off" => job'[k] = "off"
            BY <2>2, <3>1 DEF Files
        <3>2. CASE Copy(i)
            BY <3>2 DEF Copy, Copying
        <3> QED
            BY <1>4, <3>1, <3>2 DEF Apply, Source, Copied, Resolv, IfDown, IfUp, GiveUp, To
    <2> QED
        BY <2>1, <2>3
<1>5. CASE UNCHANGED vars
    BY <1>5 DEF vars, script
<1> QED
    BY <1>1, <1>2, <1>3, <1>4, <1>5, NextParts

\* Script i has the interface x still to restart.
Owes(i, x) == job[i] \in {"copying", "resolv", "ifdown"} /\ got[i].iface = x
Ups(i, x)  == job[i] = "ifup" /\ got[i].iface = x

\* network.conf is in the interface file, or the one script that copies brings it there;
\* and its interface runs it, or a script has still to restart that interface.
Undisturbed ==
    ~stale =>
        /\ \A i \in Copying : job[i] = "copying" /\ got[i] = conf /\ Copying = {i}
        /\ Copying = {} => ifaces = conf
        /\ \/ net[conf.iface] = Runs(conf)
           \/ \E i \in Jobs : Owes(i, conf.iface)
           \/ net[conf.iface] = Down /\ \E i \in Jobs : Ups(i, conf.iface)

\* A script that leaves the interface file, its copies and what others have to do alone.
LEMMA OtherStep ==
    ASSUME Files, Saved, Undisturbed, NEW i \in Jobs, NEW to \in {"off", "copy", "source", "ifdown"},
           job[i] \in {"off", "source", "copy", "resolv"},
           job[i] = "resolv" => to = "ifdown" /\ got' = got,
           job' = [job EXCEPT ![i] = to],
           \A k \in Jobs : k # i => got'[k] = got[k],
           to = "ifdown" => job[i] = "resolv",
           UNCHANGED <<conf, ifaces, net, stale>>
    PROVE  Undisturbed'
<1> SUFFICES ASSUME ~stale PROVE Undisturbed'
    BY DEF Undisturbed
<1>1. \A k \in Jobs : job'[k] = (IF k = i THEN to ELSE job[k])
    BY DEF Files
<1>2. Copying' = Copying /\ i \notin Copying
    BY <1>1 DEF Copying
<1>3. \A k \in Copying : job'[k] = job[k] /\ got'[k] = got[k]
    BY <1>1, <1>2 DEF Copying
<1>4. \A k \in Jobs : Owes(k, conf.iface) => Owes(k, conf.iface)'
    BY <1>1 DEF Owes
<1>5. \A k \in Jobs : Ups(k, conf.iface) => Ups(k, conf.iface)'
    BY <1>1 DEF Ups
<1>6. Runs(conf)' = Runs(conf)
    BY DEF Runs
<1> QED
    BY <1>2, <1>3, <1>4, <1>5, <1>6 DEF Undisturbed

\* One step of a script.
LEMMA ApplyUndisturbed ==
    ASSUME Files, Saved, Undisturbed, NEW i \in Jobs, Apply(i)
    PROVE  Undisturbed'
<1>0. conf' = conf
    BY ScriptKeeps DEF saved
<1>1. Runs(conf)' = Runs(conf) /\ conf \in Configs /\ conf.iface \in Ifaces /\ conf # Part /\ conf # Down
    BY <1>0, ConfigParts DEF Runs, Saved
<1>2. CASE Source(i)
    <2>1. /\ job[i] = "source" /\ job' = [job EXCEPT ![i] = "copy"]
          /\ got' = [got EXCEPT ![i] = conf] /\ UNCHANGED <<ifaces, net, stale>>
        BY <1>2 DEF Source, To
    <2>2. \A k \in Jobs : k # i => got'[k] = got[k]
        BY <2>1 DEF Files
    <2> QED
        BY <1>0, <2>1, <2>2, OtherStep
<1>3. CASE Copy(i)
    <2>1. /\ stale' = (Copying # {} \/ got[i] # conf) /\ got' = got /\ job[i] = "copy"
          /\ job' = [k \in Jobs |-> IF k \in Copying \cup {i}
                                    THEN IF Copying = {} THEN "copying" ELSE "mixing"
                                    ELSE job[k]]
        BY <1>3 DEF Copy
    <2> SUFFICES ASSUME ~stale' PROVE Undisturbed'
        BY DEF Undisturbed
    <2>2. Copying = {} /\ got[i] = conf
        BY <2>1
    <2>3. job'[i] = "copying" /\ (\A k \in Jobs : k # i => job'[k] = job[k])
        BY <2>1, <2>2
    <2>4. Copying' = {i}
        BY <2>2, <2>3 DEF Copying
    <2>5. Owes(i, conf.iface)'
        BY <1>0, <2>1, <2>2, <2>3 DEF Owes
    <2> QED
        BY <1>0, <2>1, <2>2, <2>3, <2>4, <2>5 DEF Undisturbed
<1>4. CASE Copied(i)
    <2>1. /\ stale' = stale /\ got' = got /\ net' = net /\ i \in Copying
          /\ job' = [job EXCEPT ![i] = IF got[i].mode = "static" THEN "resolv" ELSE "ifdown"]
          /\ ifaces' = got[i] \/ job[i] = "mixing"
        BY <1>4 DEF Copied, To, Copying
    <2> SUFFICES ASSUME ~stale PROVE Undisturbed'
        BY <2>1 DEF Undisturbed
    <2>2. job[i] = "copying" /\ got[i] = conf /\ Copying = {i}
        BY <2>1 DEF Undisturbed
    <2>3. job'[i] \in {"resolv", "ifdown"} /\ (\A k \in Jobs : k # i => job'[k] = job[k])
        BY <2>1 DEF Files
    <2>4. Copying' = {}
        BY <2>2, <2>3 DEF Copying
    <2>5. Owes(i, conf.iface)'
        BY <1>0, <2>1, <2>2, <2>3 DEF Owes
    <2>6. ifaces' = conf
        BY <2>1, <2>2
    <2> QED
        BY <1>0, <2>4, <2>5, <2>6 DEF Undisturbed
<1>5. CASE Resolv(i)
    <2>1. /\ job[i] = "resolv" /\ job' = [job EXCEPT ![i] = "ifdown"]
          /\ UNCHANGED <<got, ifaces, net, stale>>
        BY <1>5 DEF Resolv, To
    <2> QED
        BY <1>0, <2>1, OtherStep
<1>6. CASE IfDown(i)
    <2>1. /\ job[i] = "ifdown" /\ job' = [job EXCEPT ![i] = "ifup"]
          /\ UNCHANGED <<got, ifaces, stale>>
          /\ \/ net' = [net EXCEPT ![got[i].iface] = Down]
             \/ ~Names(got[i].iface) /\ net' = net
        BY <1>6 DEF IfDown, To
    <2> SUFFICES ASSUME ~stale PROVE Undisturbed'
        BY <2>1 DEF Undisturbed
    <2>2. job'[i] = "ifup" /\ (\A k \in Jobs : k # i => job'[k] = job[k])
        BY <2>1 DEF Files
    <2>3. Copying' = Copying /\ i \notin Copying
        BY <2>1, <2>2 DEF Copying
    <2>4. \A k \in Copying : job'[k] = "copying" /\ got'[k] = conf /\ Copying = {k}
        BY <2>1, <2>2, <2>3 DEF Undisturbed, Copying
    <2>5. \A k \in Jobs : k # i /\ Owes(k, conf.iface) => Owes(k, conf.iface)'
        BY <1>0, <2>1, <2>2 DEF Owes
    <2>6. \A k \in Jobs : Ups(k, conf.iface) => Ups(k, conf.iface)'
        BY <1>0, <2>1, <2>2 DEF Ups
    <2>7. CASE Copying # {}
        <3>1. PICK k \in Copying : TRUE
            BY <2>7
        <3>2. k \in Jobs /\ job'[k] = "copying" /\ got'[k] = conf
            BY <2>4, <3>1 DEF Copying
        <3>3. Owes(k, conf.iface)'
            BY <1>0, <3>2 DEF Owes
        <3> QED
            BY <1>0, <2>3, <2>4, <2>7, <3>2, <3>3 DEF Undisturbed
    <2>8. CASE Copying = {}
        <3>1. ifaces = conf /\ ifaces' = conf
            BY <2>1, <2>8 DEF Undisturbed
        <3>2. CASE got[i].iface = conf.iface
            <4>1. Names(conf.iface)
                BY <1>1, <3>1 DEF Names
            <4>2. net'[conf.iface] = Down
                BY <1>1, <2>1, <3>2, <4>1 DEF Files
            <4>3. Ups(i, conf.iface)'
                BY <1>0, <2>1, <2>2, <3>2 DEF Ups
            <4> QED
                BY <1>0, <2>3, <2>4, <2>8, <3>1, <4>2, <4>3 DEF Undisturbed
        <3>3. CASE got[i].iface # conf.iface
            <4>1. net'[conf.iface] = net[conf.iface]
                BY <1>1, <2>1, <3>3 DEF Files
            <4>2. ~Owes(i, conf.iface)
                BY <3>3 DEF Owes
            <4> QED
                BY <1>0, <1>1, <2>3, <2>4, <2>5, <2>6, <2>8, <3>1, <4>1, <4>2 DEF Undisturbed
        <3> QED
            BY <3>2, <3>3
    <2> QED
        BY <2>7, <2>8
<1>7. CASE IfUp(i)
    <2>1. /\ job[i] = "ifup" /\ job' = [job EXCEPT ![i] = "off"]
          /\ got' = [got EXCEPT ![i] = Default] /\ UNCHANGED <<ifaces, stale>>
          /\ \E up \in Upped(got[i].iface) : net' = [net EXCEPT ![got[i].iface] = up]
        BY <1>7 DEF IfUp, To
    <2> SUFFICES ASSUME ~stale PROVE Undisturbed'
        BY <2>1 DEF Undisturbed
    <2>2. job'[i] = "off" /\ (\A k \in Jobs : k # i => job'[k] = job[k] /\ got'[k] = got[k])
        BY <2>1 DEF Files
    <2>3. Copying' = Copying /\ i \notin Copying
        BY <2>1, <2>2 DEF Copying
    <2>4. \A k \in Copying : job'[k] = "copying" /\ got'[k] = conf /\ Copying = {k}
        BY <2>2, <2>3 DEF Undisturbed, Copying
    <2>5. \A k \in Jobs : Owes(k, conf.iface) => Owes(k, conf.iface)'
        BY <1>0, <2>1, <2>2 DEF Owes
    <2>6. \A k \in Jobs : k # i /\ Ups(k, conf.iface) => Ups(k, conf.iface)'
        BY <1>0, <2>2 DEF Ups
    <2>7. CASE \E k \in Jobs : Owes(k, conf.iface)
        BY <1>0, <2>1, <2>3, <2>4, <2>5, <2>7 DEF Undisturbed
    <2>8. ASSUME ~\E k \in Jobs : Owes(k, conf.iface) PROVE Undisturbed'
        <3>1. Copying = {}
            <4> SUFFICES ASSUME NEW k \in Copying PROVE FALSE
                OBVIOUS
            <4>1. k \in Jobs /\ job[k] = "copying" /\ got[k] = conf
                BY DEF Undisturbed, Copying
            <4> QED
                BY <2>8, <4>1 DEF Owes
        <3>2. ifaces = conf
            BY <3>1 DEF Undisturbed
        <3>3. CASE got[i].iface = conf.iface
            <4>1. net[conf.iface] \in {Down, Runs(conf)}
                BY <2>8 DEF Undisturbed
            <4>2. Upped(conf.iface) = {Runs(conf)}
                BY <1>1, <3>2, <4>1 DEF Upped, Names
            <4>3. net'[conf.iface] = Runs(conf)
                BY <1>1, <2>1, <3>3, <4>2 DEF Files
            <4> QED
                BY <1>0, <1>1, <2>1, <2>3, <3>1, <3>2, <4>3 DEF Undisturbed
        <3>4. CASE got[i].iface # conf.iface
            <4>1. net'[conf.iface] = net[conf.iface]
                BY <1>1, <2>1, <3>4 DEF Files
            <4>2. ~Ups(i, conf.iface)
                BY <3>4 DEF Ups
            <4> QED
                BY <1>0, <1>1, <2>1, <2>3, <2>6, <2>8, <3>1, <3>2, <4>1, <4>2 DEF Undisturbed
        <3> QED
            BY <3>3, <3>4
    <2> QED
        BY <2>7, <2>8
<1> QED
    BY <1>2, <1>3, <1>4, <1>5, <1>6, <1>7 DEF Apply

\* A script that gives up has not disturbed anything, or has made network.conf stale.
LEMMA GiveUpUndisturbed ==
    ASSUME Files, Saved, Undisturbed, NEW i \in Jobs, GiveUp(i)
    PROVE  Undisturbed'
<1>1. /\ job' = [job EXCEPT ![i] = "off"] /\ got' = [got EXCEPT ![i] = Default]
      /\ stale' = (stale \/ job[i] \notin {"source", "copy"}) /\ net' = net
      /\ ifaces' = ifaces \/ job[i] = "mixing"
    BY DEF GiveUp, To
<1>2. conf' = conf
    BY ScriptKeeps DEF saved
<1> SUFFICES ASSUME ~stale' PROVE Undisturbed'
    BY DEF Undisturbed
<1>3. ~stale /\ job[i] \in {"source", "copy"}
    BY <1>1
<1>4. ifaces' = ifaces /\ (\A k \in Jobs : k # i => got'[k] = got[k])
    BY <1>1, <1>3 DEF Files
<1>5. \A k \in Jobs : job'[k] = (IF k = i THEN "off" ELSE job[k])
    BY <1>1 DEF Files
<1>6. Copying' = Copying /\ i \notin Copying
    BY <1>3, <1>5 DEF Copying
<1>7. \A k \in Copying : job'[k] = job[k] /\ got'[k] = got[k]
    BY <1>4, <1>5, <1>6 DEF Copying
<1>8. \A k \in Jobs : Owes(k, conf.iface) => Owes(k, conf.iface)'
    BY <1>2, <1>3, <1>4, <1>5 DEF Owes
<1>9. \A k \in Jobs : Ups(k, conf.iface) => Ups(k, conf.iface)'
    BY <1>2, <1>3, <1>4, <1>5 DEF Ups
<1>10. Runs(conf)' = Runs(conf)
    BY <1>2 DEF Runs
<1> QED
    BY <1>1, <1>2, <1>3, <1>4, <1>6, <1>7, <1>8, <1>9, <1>10 DEF Undisturbed

LEMMA UndisturbedStays == Types /\ Room /\ Undisturbed /\ [Next]_vars => Undisturbed'
<1> SUFFICES ASSUME Types, Room, Undisturbed, [Next]_vars PROVE Undisturbed'
    OBVIOUS
<1> USE DEF Types
<1>1. CASE UNCHANGED <<conf, job, got, ifaces, net, stale>>
    BY <1>1 DEF Undisturbed, Copying, Owes, Ups, Runs
<1>2. CASE Rename
    <2>1. stale'
        BY <1>2, Zenon DEF Rename
    <2> QED
        BY <2>1 DEF Undisturbed
<1>3. CASE HmiSteps /\ ~Rename
    <2>1. UNCHANGED <<job, got, ifaces, net, stale>>
        BY <1>3, HmiKeepsScripts
    <2>2. conf' = conf
        BY <1>3, Zenon DEF HmiSteps, StartHmi, Toggle, ToggleRefused, SaveTheme, Forget, Rebuild, Open,
            PressSave, OpenTmp, WriteTmp, SaveFails, SpawnFails, Close, Kill, saved
    <2> QED
        BY <1>1, <2>1, <2>2
<1>4. CASE Spawn
    <2>1. /\ saves' = saves + 1 /\ job' = [job EXCEPT ![saves'] = "source"] /\ pc = "spawn"
          /\ UNCHANGED <<conf, got, ifaces, net, stale>>
        BY <1>4, Zenon DEF Spawn, saved
    <2>2. saves' \in Jobs /\ job[saves'] = "off"
        BY <2>1, ConfigsAssumption DEF Room, Screen, Jobs
    <2> QED
        BY <2>1, <2>2, OtherStep
<1>5. CASE Outage
    <2>1. stale'
        BY <1>5, Zenon DEF Outage
    <2> QED
        BY <2>1 DEF Undisturbed
<1>6. ASSUME NEW i \in Jobs, Apply(i) PROVE Undisturbed'
    BY <1>6, ApplyUndisturbed
<1>7. ASSUME NEW i \in Jobs, GiveUp(i) PROVE Undisturbed'
    BY <1>7, GiveUpUndisturbed
<1>8. CASE UNCHANGED vars
    BY <1>1, <1>8 DEF vars, script, saved
<1> QED
    BY <1>2, <1>3, <1>4, <1>5, <1>6, <1>7, <1>8, NextParts

\* However scripts overlap, give up and are started over, once the last has ended and
\* network.conf was copied undisturbed, the interface file and the interface have it.
THEOREM SettledIsApplied == Spec => []SettledIsSaved
<1>1. Init => Room /\ Undisturbed
    <2> SUFFICES ASSUME Init PROVE Room /\ Undisturbed
        OBVIOUS
    <2>1. stale = TRUE /\ saves = 0 /\ pc = "off" /\ job = Boot
        BY Zenon DEF Init
    <2> QED
        BY <2>1 DEF Undisturbed, Room, Boot, Jobs
<1>2. Types /\ Room /\ Undisturbed /\ [Next]_vars => (Types /\ Room /\ Undisturbed)'
    BY TypesStay, RoomStays, UndisturbedStays
<1>3. Undisturbed => SettledIsSaved
    <2> SUFFICES ASSUME Undisturbed, Running = {}, ~stale PROVE Settled
        BY DEF SettledIsSaved
    <2>1. \A i \in Jobs : job[i] = "off"
        BY DEF Running
    <2>2. Copying = {} /\ \A i \in Jobs : ~Owes(i, conf.iface) /\ ~Ups(i, conf.iface)
        BY <2>1 DEF Copying, Owes, Ups
    <2> QED
        BY <2>2 DEF Undisturbed, Settled
<1> QED
    BY <1>1, <1>2, <1>3, InitTypes, PTL DEF Spec
=============================================================================
