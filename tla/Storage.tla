------------------------------ MODULE Storage -------------------------------
(***************************************************************************)
(* The AT24C02 and everything that reads or writes it: src/eeprom.rs,      *)
(* src/persistence.rs (the LED record at 0), src/config.rs (the network    *)
(* configuration at 16), the /save handler of src/web.rs, and the boot     *)
(* sequence of src/main.rs that loads both records.                        *)
(*                                                                         *)
(* A write is one byte per transaction with an await after each, so other  *)
(* tasks, a reset or a power cut come between any two bytes, and each      *)
(* transaction may fail.  A byte is either written or not.                 *)
(***************************************************************************)
EXTENDS ConfigCodec

CONSTANTS Web,        \* the tasks that serve HTTP, web_task and web_task_b
          Configs,    \* what users submit to /save and parse_form accepts
          Formatted,  \* does the chip hold a valid LED record at first?
          MaxLedCmds, MaxSaves,  \* bounds: LED commands, requests to /save
          MaxResets,  \* bound: resets and power cuts
          MaxErrs     \* bound: failed I2C transactions

Mqtt == "mqtt"
Tasks == {Mqtt} \union Web

\* The image fits on the chip behind the LED record: eight-bit addresses do
\* not wrap.  No web task is the MQTT task.
ASSUME StorageAssumption ==
    /\ 16 + ImageLen <= 256
    /\ Mqtt \notin Web /\ "free" \notin Tasks
    /\ {MaxLedCmds, MaxSaves, MaxResets, MaxErrs} \subseteq Nat

\* parse_form makes a NetworkConfig; form_url_decode refuses a NUL.
ASSUME ConfigsAssumption == \A c \in Configs : NetworkConfig(c)
ASSUME NoNulAssumption ==
    \A c \in Configs :
        \A s \in {c.id, c.mqtt_user, c.mqtt_pass, c.web_user, c.web_pass} : NoNul(s)

VARIABLES mem,     \* the chip
          owner,   \* who holds the EEPROM mutex, or "free"
          pc,      \* of each task: "idle", "lock", "write" or "reboot"
          at,      \* of each task: bytes that write_bytes has written
          led,     \* the LED pins
          cache,   \* STATE_CACHE
          want,    \* the OutputState that save_field is writing
          cfg,     \* the configuration that the firmware runs on
          form     \* of each web task: the configuration it is to save
VARIABLES cmds, saves, resets, errs,  \* history: counts, for the bounds
          acked,   \* history: the configuration saved last, as a set, empty
                   \* once another write has begun
          torn,    \* history: the last save of the LEDs failed half-way, or the
                   \* last boot could not read them
          lit      \* history: LEDs that were commanded on at some time

taskVars == <<owner, pc, at>>
ledVars == <<led, cache, want>>
cfgVars == <<cfg, form>>
countVars == <<cmds, saves, resets, errs>>
ledHistory == <<torn, lit>>
vars == <<mem, taskVars, ledVars, cfgVars, countVars, acked, ledHistory>>

Leds == 1..2
Dark == [l \in Leds |-> 0]  \* OutputState::default(); 1 is lit

-----------------------------------------------------------------------------
(* The two records on the chip.                                            *)

LedBase == 0
CfgBase == 16
LedMagic == <<202, 254, 240, 13>>

\* The eight bytes that save_field writes.
LedBytes(state) ==
    <<LedMagic[1], LedMagic[2], LedMagic[3], LedMagic[4], 0, state[1], state[2], 0>>

\* read: len consecutive bytes of the chip.
Read(base, len) == [i \in 1..len |-> mem[base + i - 1]]

\* Mutant of LedState: the LEDs are read one byte too early.
LedStateShifted(b) ==
    IF \A i \in 1..4 : b[i] = LedMagic[i]
    THEN [l \in Leds |-> b[4 + l] % 2]
    ELSE Dark

\* load_state on the bytes that it has read.
LedState(b) ==
    IF \A i \in 1..4 : b[i] = LedMagic[i]
    THEN [l \in Leds |-> b[5 + l] % 2]
    ELSE Dark

StoredLeds == LedState(Read(LedBase, 8))
StoredConfig == FromBytes(Read(CfgBase, ImageLen))

\* Mutant of Data: the record is made from the cache, not from the new state.
DataStale(t) == IF t = Mqtt THEN LedBytes(cache) ELSE ToBytes(form[t])

\* What a task writes, how much of it, and where.
Data(t) == IF t = Mqtt THEN LedBytes(want) ELSE ToBytes(form[t])
Size(t) == IF t = Mqtt THEN 8 ELSE ImageLen
Base(t) == IF t = Mqtt THEN LedBase ELSE CfgBase

-----------------------------------------------------------------------------
TypeOK ==
    /\ mem \in [0..CfgBase + ImageLen - 1 -> Byte]
    /\ owner \in Tasks \union {"free"}
    /\ pc \in [Tasks -> {"idle", "lock", "write", "reboot"}]
    /\ \A t \in Tasks : at[t] \in 0..Size(t)
    /\ led \in [Leds -> {0, 1}] /\ cache \in [Leds -> {0, 1}]
    /\ want \in [Leds -> {0, 1}]
    /\ form \in [Web -> Configs \union {Default}]

\* A chip from the factory is all 0xFF; Formatted puts a LED record on it.
BlankMem ==
    [a \in 0..CfgBase + ImageLen - 1 |->
        IF Formatted /\ a < 8 THEN LedBytes(Dark)[a + 1] ELSE 255]

Init ==
    /\ mem = BlankMem
    /\ owner = "free" /\ pc = [t \in Tasks |-> "idle"] /\ at = [t \in Tasks |-> 0]
    /\ led = StoredLeds /\ cache = StoredLeds /\ want = Dark
    /\ cfg = StoredConfig
    /\ form = [w \in Web |-> Default]
    /\ cmds = 0 /\ saves = 0 /\ resets = 0 /\ errs = 0
    /\ acked = {}
    /\ torn = FALSE /\ lit = {}

-----------------------------------------------------------------------------
(* save_field and save_config up to the EEPROM mutex.                      *)

\* Mutant of Wanted: the number of the LED is stored in place of a flag.
WantedNumber(which, on) == [l \in Leds |-> IF l \in which THEN l * on ELSE cache[l]]

\* The OutputState to save: the cached one with the LEDs of the command changed.
Wanted(which, on) == [l \in Leds |-> IF l \in which THEN on ELSE cache[l]]

\* An LED command of the MQTT task: the pins, then the record, unless the
\* cache says that the chip has this state already.
LedCommand(which, on) ==
    /\ pc[Mqtt] = "idle" /\ cmds < MaxLedCmds
    /\ led' = [l \in Leds |-> IF l \in which THEN on ELSE led[l]]
    /\ want' = Wanted(which, on)
    /\ pc' = [pc EXCEPT ![Mqtt] = IF want' = cache THEN "idle" ELSE "lock"]
    /\ cmds' = cmds + 1
    /\ lit' = IF on = 1 THEN lit \union which ELSE lit
    /\ UNCHANGED <<mem, owner, at, cache, cfgVars, saves, resets, errs, acked, torn>>

\* Mutant of Save: the parsed form lies in a buffer that the web tasks share.
SaveShared(w, c) ==
    /\ pc[w] = "idle" /\ saves < MaxSaves
    /\ form' = [v \in Web |-> c]
    /\ pc' = [pc EXCEPT ![w] = "lock"]
    /\ saves' = saves + 1
    /\ UNCHANGED <<mem, owner, at, ledVars, cfg, cmds, resets, errs,
                   acked, ledHistory>>

\* POST /save with a form that parse_form accepts.
Save(w, c) ==
    /\ pc[w] = "idle" /\ saves < MaxSaves
    /\ form' = [form EXCEPT ![w] = c]
    /\ pc' = [pc EXCEPT ![w] = "lock"]
    /\ saves' = saves + 1
    /\ UNCHANGED <<mem, owner, at, ledVars, cfg, cmds, resets, errs,
                   acked, ledHistory>>

\* Mutant of Available: the mutex keeps out the LED record only, and two
\* saves of a configuration write at once.
Unguarded == owner # Mqtt

Available == owner = "free"

\* EEPROM.lock().await returns.
Lock(t) ==
    /\ pc[t] = "lock" /\ Available
    /\ owner' = t
    /\ pc' = [pc EXCEPT ![t] = "write"]
    /\ at' = [at EXCEPT ![t] = 0]
    /\ acked' = IF t \in Web THEN {} ELSE acked
    /\ UNCHANGED <<mem, ledVars, cfgVars, countVars, ledHistory>>

-----------------------------------------------------------------------------
(* write_bytes, with the mutex held.                                       *)

WriteByte(t) ==
    /\ pc[t] = "write" /\ at[t] < Size(t)
    /\ mem' = [mem EXCEPT ![(Base(t) + at[t]) % 256] = Data(t)[at[t] + 1]]
    /\ at' = [at EXCEPT ![t] = @ + 1]
    /\ UNCHANGED <<owner, pc, ledVars, cfgVars, countVars, acked, ledHistory>>

Release(t, next) ==
    /\ owner' = "free"
    /\ pc' = [pc EXCEPT ![t] = next]
    /\ at' = [at EXCEPT ![t] = 0]

\* Mutant of WriteError: the write starts over for as long as the chip fails.
WriteErrorRetries(t) ==
    /\ pc[t] = "write" /\ at[t] < Size(t) /\ errs < MaxErrs
    /\ at' = [at EXCEPT ![t] = 0]
    /\ UNCHANGED <<mem, owner, pc, ledVars, cfgVars, countVars, acked,
                   ledHistory>>

\* A NACK: the error is passed up.  save_field drops it; /save answers 500.
WriteError(t) ==
    /\ pc[t] = "write" /\ at[t] < Size(t) /\ errs < MaxErrs
    /\ errs' = errs + 1
    /\ Release(t, "idle")
    /\ torn' = (torn \/ (t = Mqtt /\ at[t] > 0))
    /\ UNCHANGED <<mem, ledVars, cfgVars, cmds, saves, resets, acked, lit>>

\* Mutant of LedSaved: the cache keeps the state from boot.
LedSavedUncached ==
    /\ pc[Mqtt] = "write" /\ at[Mqtt] = Size(Mqtt)
    /\ Release(Mqtt, "idle")
    /\ torn' = FALSE
    /\ UNCHANGED <<mem, ledVars, cfgVars, countVars, acked, lit>>

\* The last byte is through: save_field updates the cache.
LedSaved ==
    /\ pc[Mqtt] = "write" /\ at[Mqtt] = Size(Mqtt)
    /\ cache' = want
    /\ Release(Mqtt, "idle")
    /\ torn' = FALSE
    /\ UNCHANGED <<mem, led, want, cfgVars, countVars, acked, lit>>

\* /save answers "Saved. Rebooting..." and sleeps for 200 ms.
ConfigSaved(w) ==
    /\ pc[w] = "write" /\ at[w] = Size(w)
    /\ acked' = {form[w]}
    /\ Release(w, "reboot")
    /\ UNCHANGED <<mem, ledVars, cfgVars, countVars, ledHistory>>

-----------------------------------------------------------------------------
(* Resets.                                                                 *)

\* Mutant of Pins: the state is taken for the active-low levels of the pins.
PinsInverted(state) == [l \in Leds |-> 1 - state[l]]

\* OUTPUTS.set for each LED of the restored state.
Pins(state) == [l \in Leds |-> state[l]]

\* The boot sequence: load_config, load_state, OUTPUTS.set.  Either read may
\* fail, which leaves the defaults.
Boot(cfgRead, ledRead) ==
    /\ owner' = "free"
    /\ pc' = [t \in Tasks |-> "idle"] /\ at' = [t \in Tasks |-> 0]
    /\ cfg' = IF cfgRead THEN StoredConfig ELSE Default
    /\ cache' = IF ledRead THEN StoredLeds ELSE Dark
    /\ led' = Pins(cache')
    /\ errs' = errs + (IF cfgRead THEN 0 ELSE 1) + (IF ledRead THEN 0 ELSE 1)
    /\ errs' <= MaxErrs
    /\ want' = Dark /\ form' = [w \in Web |-> Default]
    /\ torn' = ~ledRead
    /\ UNCHANGED <<mem, cmds, saves, acked, lit>>

\* A power cut, a watchdog reset, POST /reboot of another web task or a reboot
\* command: at any time, whatever the other tasks are doing.
Reset(cfgRead, ledRead) ==
    /\ resets < MaxResets
    /\ resets' = resets + 1
    /\ Boot(cfgRead, ledRead)

\* safe_reboot() at the end of save_and_reboot().
RebootAfterSave(w, cfgRead, ledRead) ==
    /\ pc[w] = "reboot"
    /\ Boot(cfgRead, ledRead)
    /\ UNCHANGED resets

Reboot(w) == \E r1, r2 \in BOOLEAN : RebootAfterSave(w, r1, r2)

\* What a poll of a task can do: each task is at one await at a time.
Work(t) ==
    \/ Lock(t) \/ WriteByte(t) \/ WriteError(t)
    \/ t = Mqtt /\ LedSaved
    \/ t \in Web /\ ConfigSaved(t)
Step(t) == Work(t) \/ (t \in Web /\ Reboot(t))

\* With nothing to save the tasks wait for the next request; any other state
\* without a step is a deadlock.
Idle == \A t \in Tasks : pc[t] = "idle"

Next ==
    \/ \E t \in Tasks : Step(t)
    \/ \E r1, r2 \in BOOLEAN : Reset(r1, r2)
    \/ \E which \in {{1}, {2}, Leds}, on \in {0, 1} : LedCommand(which, on)
    \/ \E w \in Web, c \in Configs : Save(w, c)
    \/ Idle /\ UNCHANGED vars

\* Every task that can run is polled, and a free mutex goes to a waiter.
Fairness == \A t \in Tasks : WF_vars(Step(t))

Spec == Init /\ [][Next]_vars /\ Fairness
-----------------------------------------------------------------------------
(* Properties.                                                             *)

\* persistence.rs, save_field: the cache is what the chip holds whenever no byte of
\* a LED record has been written yet, so that skipping a write of the cached state is
\* sound; resets, other writers and failed transactions included.  Only a save
\* that failed half-way or a boot that could not read the record parts them,
\* until the next save or boot that succeeds.
CacheCoherent ==
    ~torn /\ (pc[Mqtt] = "write" => at[Mqtt] = 0) => cache = StoredLeds

\* The strengthening of CacheCoherent that every step preserves: the bytes of
\* a record that is being written are on the chip up to the current one, and
\* no image of a configuration reaches into the LED record.
LedRecordType ==
    /\ DOMAIN mem = 0..CfgBase + ImageLen - 1
    /\ \A a \in 0..7 : mem[a] \in Nat
LedTaskType ==
    /\ pc \in [Tasks -> {"idle", "lock", "write", "reboot"}]
    /\ at \in [Tasks -> Nat] /\ at[Mqtt] <= 8
    /\ cache \in [Leds -> {0, 1}] /\ want \in [Leds -> {0, 1}]
    /\ torn \in BOOLEAN
LedPrefix ==
    pc[Mqtt] = "write" =>
        \A i \in 1..at[Mqtt] : mem[i - 1] = LedBytes(want)[i]
LedInv == LedRecordType /\ LedTaskType /\ CacheCoherent /\ LedPrefix

\* A reset in the middle of save_field restores each LED as it was before or
\* as it was about to be, on a chip that has held a LED record before, unless
\* the save before it had failed half-way.
LedsOldOrNew ==
    ~torn /\ Formatted =>
        \A l \in Leds : StoredLeds[l] \in {cache[l], want[l]} \/ pc[Mqtt] # "write"

\* main.rs, Ipv4Cidr::new: whatever a torn write leaves behind, the firmware
\* boots on a prefix length and a port that it can use.
BootConfigUsable == cfg.prefix \in 1..32 /\ cfg.port \in 1..MaxPort

\* A configuration that /save has acknowledged is the one that the chip holds
\* until the next /save begins to write, across resets and LED saves.
SavedDurable == \A c \in acked : StoredConfig = c

\* config.rs and web.rs, save_and_reboot: behind the bytes, the mutex and the
\* resets the configuration is a register with one writer at a time, which is
\* written as a whole and keeps its value across restarts.
Reg == INSTANCE Register WITH
           Values <- Configs, Fallback <- Default,
           val <- acked, pending <- IF owner \in Web THEN {form[owner]} ELSE {},
           running <- cfg

ImplementsRegister == Reg!Spec

\* eeprom.rs, EEPROM: nobody waits for the mutex for ever and every accepted
\* save ends, with an answer or a reboot, whatever fails on the way: again and
\* again all tasks are idle, for the number of requests is bounded.
SavesFinish == []<>Idle

\* README, fail-safe behaviour: "LEDs are fail-last: their state is persisted
\* to EEPROM and restored on boot".  An LED is lit only if somebody lit it.
RestoredWasCommanded == \A l \in Leds : led[l] = 1 => l \in lit
=============================================================================
