---------------------------- MODULE DeviceConfig ----------------------------
(***************************************************************************)
(* The settings file of the firmware (device_config.c): what loading makes *)
(* of a file, and what saving puts into it.                                *)
(*                                                                         *)
(* A setting that a file does not have, or has with a wrong type, is Nil.  *)
(* A list of lines is a sequence of numbers and of Nil, for an element     *)
(* that is not an integer; BadList is what is not a list at all.           *)
(***************************************************************************)
EXTENDS Integers, Sequences

CONSTANTS
    N,          \* MINIPLC_GPIO_CHANNELS
    Chips,      \* the names of GPIO chips
    Lines,      \* the numbers of lines
    Defaults,   \* the configuration of device_config_init_defaults
    Nil         \* no value

Channels == 1..N
ScanPeriods == 1..100
Configs == [chip : Chips, di : [Channels -> Lines], do : [Channels -> Lines], scan : ScanPeriods]

ASSUME ConfigAssumption ==
    /\ N \in Nat \ {0}
    /\ Lines \subseteq Int
    /\ Defaults \in Configs
    /\ Nil \notin Chips \cup Lines \cup ScanPeriods \cup [Channels -> Lines]

BadList == <<>>
NoFile == [chip |-> Nil, di |-> Nil, do |-> Nil, scan |-> Nil]

\* read_int_array.
Readable(list) == Len(list) >= N /\ \A c \in Channels : list[c] # Nil
Numbers(list) == [c \in Channels |-> list[c]]

\* The two lists, inputs first; each that cannot be read brings all the
\* defaults back.
WithLists(file, cfg) ==
    LET one == IF file.di = Nil THEN cfg
               ELSE IF Readable(file.di) THEN [cfg EXCEPT !.di = Numbers(file.di)]
               ELSE Defaults
    IN  IF file.do = Nil THEN one
        ELSE IF Readable(file.do) THEN [one EXCEPT !.do = Numbers(file.do)]
        ELSE Defaults

WithChip(file, cfg) == IF file.chip = Nil THEN cfg ELSE [cfg EXCEPT !.chip = file.chip]

\* Mutant of WithScan: the largest period is taken for out of range.
WithScanBelow(v, cfg) == IF v \in 1..99 THEN [cfg EXCEPT !.scan = v] ELSE cfg

\* A period out of range is ignored (0 < v <= 100 for the unsigned v).
WithScan(v, cfg) == IF v \in ScanPeriods THEN [cfg EXCEPT !.scan = v] ELSE cfg

\* device_config_load_file.
Loaded(file) == WithScan(file.scan, WithLists(file, WithChip(file, Defaults)))

\* device_config_save_file.
Saved(cfg) == [chip |-> cfg.chip, di |-> cfg.di, do |-> cfg.do, scan |-> cfg.scan]
=============================================================================
