-------------------------------- MODULE Adl --------------------------------
(***************************************************************************)
(* The start of Adl (Adl.cpp): for every adapter the tables of the driver  *)
(* are read, the voltage of the highest level is moved and moved back      *)
(* ("fix underclocking for vega cards"), and the profile of the            *)
(* configuration is written level by level, each write being a read of the *)
(* table, a change and a write of it.  Every call of the library may fail: *)
(* a read then gives a table of zeros.  tick() reads the tables again.     *)
(*                                                                         *)
(* The system and the memory clocks are set by the same code (the clocks   *)
(* here); the fan and the power limit are the two other settings.          *)
(***************************************************************************)
EXTENDS Integers, Sequences

CONSTANTS
  Busses,    \* the bus ids of the GPUs in use
  Known,     \* those among the adapters of the library
  Levels,    \* ADL_PERFORMANCE_LEVELS (code: 8)
  Tables,    \* the tables a driver may start with
  Profiles,  \* the levels of the configuration file, a set of sequences
  Settings,  \* target temperature and power limit, 0 if not configured
  High       \* voltage above which the first move is downwards (code: 1000)

ASSUME AdlAssumption ==
  /\ Known \subseteq Busses /\ Levels \in Nat \ {0} /\ High \in Nat
  /\ Tables \subseteq [0 .. Levels - 1 -> [enabled : BOOLEAN, clock : Nat, vddc : Nat]]
  /\ \A p \in Profiles : p \in Seq([clock : Nat, vddc : Nat])
  /\ Settings \subseteq [temperature : Nat, power : Int]

VARIABLES
  profile, settings,  \* the configuration
  driver,   \* the tables and settings of every adapter
  first,    \* history: the tables at the beginning
  cached,   \* Adl::systemClocks, what the HTTP API shows
  step,     \* per adapter: how far the constructor is
  failed,   \* history: adapters for which a call of the library failed
  misread,  \* history: adapters whose first read failed
  fault     \* a level outside the table was touched

adlVars == <<profile, settings, driver, first, cached, step, failed, misread, fault>>

config == <<profile, settings, first>>

-----------------------------------------------------------------------------
Top == Levels - 1

Zeros == [l \in 0 .. Top |-> [enabled |-> FALSE, clock |-> 0, vddc |-> 0]]

\* Adl::setSystemClock() and setMemoryClock(): the table is read, and written back
\* with a new level if the level is enabled.  The level behind the last one passes
\* the test of the code: the memory found there decides what happens.
setClock(b, level, clock, vddc) ==
  \E read \in BOOLEAN, accepted \in BOOLEAN :
     LET table == IF read THEN driver[b].table ELSE Zeros
         writes == level < Levels /\ table[level].enabled
     IN  /\ driver' = IF writes /\ accepted
                      THEN [driver EXCEPT ![b].table[level].clock = clock,
                                          ![b].table[level].vddc = vddc]
                      ELSE driver
         /\ failed' = IF ~read \/ (writes /\ ~accepted) THEN failed \cup {b} ELSE failed
         /\ fault' = (fault \/ level = Levels)

\* The adapters are set up one after the other.
Turn(b, at) ==
  /\ b \in Known /\ step[b] = at
  /\ \A c \in Known : step[c] \in {0, Len(profile) + 5} \/ c = b

\* The tables are read first.
ReadTables(b) ==
  /\ Turn(b, 0)
  /\ \/ /\ cached' = [cached EXCEPT ![b] = driver[b].table]
        /\ UNCHANGED <<failed, misread>>
     \/ /\ cached' = [cached EXCEPT ![b] = Zeros]
        /\ failed' = failed \cup {b} /\ misread' = misread \cup {b}
  /\ step' = [step EXCEPT ![b] = 1]
  /\ UNCHANGED <<config, driver, fault>>

Moved(v) == IF v > High THEN v - 1 ELSE v + 1

\* The voltage of the highest level is moved by one,
Toggle(b) ==
  /\ Turn(b, 1)
  /\ setClock(b, Top, cached[b][Top].clock, Moved(cached[b][Top].vddc))
  /\ step' = [step EXCEPT ![b] = 2]
  /\ UNCHANGED <<config, cached, misread>>

\* Mutant: the voltage is moved back from what the driver has now.
RestoredMutant(b) == driver[b].table[Top].vddc

Restored(b) == cached[b][Top].vddc

\* and back to what it was.
Restore(b) ==
  /\ Turn(b, 2)
  /\ setClock(b, Top, cached[b][Top].clock, Restored(b))
  /\ step' = [step EXCEPT ![b] = 3]
  /\ UNCHANGED <<config, cached, misread>>

\* The k-th level of the file is level k - 1 of the table.
Level(k) == k - 1

ApplyLevel(b, k) ==
  /\ k \in DOMAIN profile /\ Turn(b, k + 2)
  /\ setClock(b, Level(k), profile[k].clock, profile[k].vddc)
  /\ step' = [step EXCEPT ![b] = k + 3]
  /\ UNCHANGED <<config, cached, misread>>

\* setFanControl() and setPowerLimit(), if they are configured: what the driver has is
\* read, zeros if that fails, changed and written.
Apply(b, key) ==
  /\ Turn(b, Len(profile) + (IF key = "temperature" THEN 3 ELSE 4))
  /\ \E read, accepted \in BOOLEAN :
       /\ driver' = IF settings[key] # 0 /\ accepted
                    THEN [driver EXCEPT ![b][key] = settings[key]] ELSE driver
       /\ failed' = IF settings[key] # 0 /\ ~(read /\ accepted) THEN failed \cup {b} ELSE failed
  /\ step' = [step EXCEPT ![b] = @ + 1]
  /\ UNCHANGED <<config, cached, misread, fault>>

AllSet == \A b \in Known : step[b] = Len(profile) + 5

\* Adl::tick() reads every table again, where the library lets it.
Tick ==
  /\ AllSet
  /\ \E readable \in SUBSET Known :
       cached' = [b \in Busses |-> IF b \notin Known THEN cached[b]
                                   ELSE IF b \in readable THEN driver[b].table ELSE Zeros]
  /\ UNCHANGED <<config, driver, step, failed, misread, fault>>

AdlInit ==
  /\ profile \in Profiles /\ settings \in Settings
  /\ driver \in [Busses -> [table : Tables, temperature : {0}, power : {0}]]
  /\ first = [b \in Busses |-> driver[b].table]
  /\ cached = first
  /\ step = [b \in Busses |-> 0] /\ failed = {} /\ misread = {} /\ fault = FALSE

AdlNext ==
  \/ \E b \in Busses :
       \/ ReadTables(b) \/ Toggle(b) \/ Restore(b)
       \/ \E k \in DOMAIN profile : ApplyLevel(b, k)
       \/ \E key \in {"temperature", "power"} : Apply(b, key)
  \/ Tick

AdlSpec == AdlInit /\ [][AdlNext]_adlVars

-----------------------------------------------------------------------------
\* Every table and setting has its type; no voltage becomes negative (Adl.cpp).
AdlTypeOK ==
  /\ \A b \in Busses :
       /\ driver[b].table \in [0 .. Top -> [enabled : BOOLEAN, clock : Nat, vddc : Nat]]
       /\ cached[b] \in [0 .. Top -> [enabled : BOOLEAN, clock : Nat, vddc : Nat]]
       /\ step[b] \in 0 .. Len(profile) + 5
  /\ failed \subseteq Known /\ misread \subseteq failed /\ fault \in BOOLEAN

\* If no call fails, an adapter ends up with the profile on its enabled levels and
\* with its own clocks and voltages on all others: what was done to the highest
\* level for its own sake leaves no trace (Adl.cpp, constructor).
ProfileIsApplied ==
  AllSet => \A b \in Known \ failed : \A l \in 0 .. Top :
            LET now == driver[b].table[l] IN
            IF first[b][l].enabled /\ l + 1 \in DOMAIN profile
            THEN now.clock = profile[l + 1].clock /\ now.vddc = profile[l + 1].vddc
            ELSE now = first[b][l]

\* Whatever call fails, the voltage of a highest level outside the profile is at
\* most one step away from what it was, if only the first read succeeded
\* (Adl.cpp, constructor).
VoltageStaysNear ==
  \A b \in Known \ misread :
    Len(profile) < Levels =>
      LET v == driver[b].table[Top].vddc IN
      first[b][Top].vddc - 1 <= v /\ v <= first[b][Top].vddc + 1

\* Memory behind the table is touched only for a profile with more levels than the
\* table has (Adl.cpp, setSystemClock).
OutsideOnlyWithLongProfile == fault => Len(profile) > Levels

\* The set-up of the clocks, whichever calls of the library fail: the profile if none
\* does, voltages near their own otherwise, and no access behind the table
\* (Adl.cpp, constructor, setSystemClock, setMemoryClock).
AdlInvariant ==
  AdlTypeOK /\ ProfileIsApplied /\ VoltageStaysNear /\ OutsideOnlyWithLongProfile
=============================================================================
