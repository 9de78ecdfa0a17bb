--------------------------- MODULE StorageProofs ----------------------------
(***************************************************************************)
(* STATE_CACHE agrees with the EEPROM, the byte image of a configuration   *)
(* is read back as it was written, and what is acknowledged survives torn  *)
(* writes and resets: for every number of web tasks, every set of          *)
(* configurations, every width of their fields that fits the chip, and     *)
(* every number of commands, saves and resets.                             *)
(***************************************************************************)
EXTENDS Storage, TLAPS, FiniteSetTheorems

\* None of the strings of a configuration holds a NUL.
NoNulIn(c) ==
    \A s \in {c.id, c.mqtt_user, c.mqtt_pass, c.web_user, c.web_pass} : NoNul(s)

\* A configuration that parse_form or from_bytes can return.
Valid(c) == NetworkConfig(c) /\ NoNulIn(c)

\* What the steps of Storage have in common with those of a system around it
\* that decides itself which configurations are saved.
Move ==
    \/ \E t \in Tasks : Step(t)
    \/ \E r1, r2 \in BOOLEAN : Reset(r1, r2)
    \/ \E which \in {{1}, {2}, Leds}, on \in {0, 1} : LedCommand(which, on)
    \/ \E w \in Web : \E c : Valid(c) /\ Save(w, c)
    \/ UNCHANGED <<mem, taskVars, ledVars, cfgVars, torn, acked>>

LEMMA NextMoves == [Next]_vars => Move
<1>1. \A c \in Configs : Valid(c)
    BY ConfigsAssumption, NoNulAssumption DEF Valid, NoNulIn
<1> QED BY <1>1 DEF Next, Move, vars, ledHistory

\* The addresses of the two records, from the layout of the image.
LEMMA ImageLenType == ImageLen \in Nat /\ 16 + ImageLen <= 256
<1>1. ImageLen \in Nat
    BY CodecAssumption
    DEF ImageLen, AtCred, AtId, AtPort, AtBroker, AtGateway, AtPrefix, AtIp
<1> QED BY <1>1, StorageAssumption

\* A task writes either the LED record or the image of a configuration.
LEMMA SizeFacts ==
    /\ Size(Mqtt) = 8 /\ Base(Mqtt) = 0
    /\ \A w \in Web : Size(w) = ImageLen /\ Base(w) = 16
    /\ Mqtt \in Tasks
BY StorageAssumption DEF Size, Base, LedBase, CfgBase, Tasks

\* The eight bytes of a LED record are numbers, and its last but one bytes are
\* the two LEDs.
LEMMA LedBytesFacts ==
    ASSUME NEW s \in [Leds -> {0, 1}]
    PROVE  /\ \A i \in 1..8 : LedBytes(s)[i] \in Nat
           /\ \A i \in 1..4 : LedBytes(s)[i] = LedMagic[i]
           /\ \A l \in Leds : LedBytes(s)[5 + l] = s[l]
BY DEF LedBytes, LedMagic, Leds

\* What load_state sees depends on the first eight bytes only.
LEMMA StoredLedsFrame ==
    ASSUME \A a \in 0..7 : mem'[a] = mem[a]
    PROVE  StoredLeds' = StoredLeds
<1>1. \A i \in 1..8 : LedBase + i - 1 \in 0..7
    BY DEF LedBase
<1>2. Read(LedBase, 8)' = Read(LedBase, 8)
    BY <1>1 DEF Read, LedBase
<1> QED BY <1>2 DEF StoredLeds

\* load_state returns the state of a record that is completely written.
LEMMA WholeRecord ==
    ASSUME NEW s \in [Leds -> {0, 1}],
           \A i \in 1..8 : mem[i - 1] = LedBytes(s)[i]
    PROVE  StoredLeds = s
<1> DEFINE b == Read(LedBase, 8)
<1>1. \A i \in 1..8 : b[i] = LedBytes(s)[i]
    BY DEF Read, LedBase
<1>2. \A i \in 1..4 : b[i] = LedMagic[i]
    BY <1>1, LedBytesFacts
<1>3. \A l \in Leds : b[5 + l] % 2 = s[l]
    BY <1>1, LedBytesFacts DEF Leds
<1> HIDE DEF b
<1>4. LedState(b) = [l \in Leds |-> b[5 + l] % 2]
    BY <1>2 DEF LedState
<1> QED BY <1>3, <1>4 DEF StoredLeds, b

\* Whatever the chip holds, load_state returns a state of two LEDs.
LEMMA StoredLedsType ==
    ASSUME \A a \in 0..7 : mem[a] \in Nat
    PROVE  StoredLeds \in [Leds -> {0, 1}]
<1> DEFINE b == Read(LedBase, 8)
<1>1. \A i \in 1..8 : b[i] \in Nat
    BY DEF Read, LedBase
<1>2. \A l \in Leds : b[5 + l] % 2 \in {0, 1}
    BY <1>1 DEF Leds
<1> HIDE DEF b
<1> QED BY <1>2 DEF StoredLeds, LedState, Dark, b

-----------------------------------------------------------------------------
(* LedInv is inductive.                                                    *)

\* The LED record lies on the chip.
LEMMA LedAddresses ==
    ASSUME LedRecordType PROVE \A b \in 0..7 : b \in DOMAIN mem
BY ImageLenType DEF LedRecordType, CfgBase

\* The chip at first, blank or with a LED record on it.
LEMMA InitLedInv == Init => LedInv
<1> SUFFICES ASSUME Init PROVE LedInv
    OBVIOUS
<1>1. DOMAIN mem = 0..CfgBase + ImageLen - 1
    BY DEF Init, BlankMem
<1>2. \A a \in 0..7 : mem[a] \in Nat
  <2> SUFFICES ASSUME NEW a \in 0..7 PROVE mem[a] \in Nat
      OBVIOUS
  <2>1. Dark \in [Leds -> {0, 1}]
      BY DEF Dark
  <2>2. LedBytes(Dark)[a + 1] \in Nat
      BY <2>1, LedBytesFacts
  <2>3. mem[a] = IF Formatted /\ a < 8 THEN LedBytes(Dark)[a + 1] ELSE 255
      BY ImageLenType DEF Init, BlankMem, CfgBase
  <2> QED BY <2>2, <2>3
<1>3. StoredLeds \in [Leds -> {0, 1}]
    BY <1>2, StoredLedsType
<1>t. torn \in BOOLEAN
    BY Zenon DEF Init
<1>4. LedTaskType
  <2>1. /\ pc \in [Tasks -> {"idle", "lock", "write", "reboot"}]
        /\ at \in [Tasks -> Nat] /\ at[Mqtt] <= 8
        /\ cache \in [Leds -> {0, 1}] /\ want \in [Leds -> {0, 1}]
      BY <1>3, SizeFacts DEF Init, Dark
  <2> QED BY <1>t, <2>1 DEF LedTaskType
<1>5. CacheCoherent /\ LedPrefix
    BY SizeFacts DEF Init, CacheCoherent, LedPrefix
<1> QED BY <1>1, <1>2, <1>4, <1>5 DEF LedInv, LedRecordType

\* A reset abandons every write, and load_state refills the cache.
LEMMA BootLedInv ==
    ASSUME LedInv, NEW r1 \in BOOLEAN, NEW r2 \in BOOLEAN, Boot(r1, r2)
    PROVE  LedInv'
<1>1. StoredLeds \in [Leds -> {0, 1}]
    BY StoredLedsType DEF LedInv, LedRecordType
<1>2. StoredLeds' = StoredLeds
    BY StoredLedsFrame DEF Boot
<1>3. pc' = [t \in Tasks |-> "idle"] /\ at' = [t \in Tasks |-> 0]
    BY DEF Boot
<1>4. cache' \in [Leds -> {0, 1}] /\ want' \in [Leds -> {0, 1}]
    BY <1>1 DEF Boot, Dark
<1>5. torn' \in BOOLEAN /\ (~torn' => r2)
    BY DEF Boot, LedInv, LedTaskType
<1>6. LedRecordType'
    BY DEF LedInv, LedRecordType, Boot
<1>7. LedTaskType'
    BY <1>3, <1>4, <1>5, SizeFacts DEF LedTaskType
<1>8. CacheCoherent'
    BY <1>2, <1>5 DEF CacheCoherent, Boot
<1>9. LedPrefix'
    BY <1>3, SizeFacts DEF LedPrefix
<1> QED BY <1>6, <1>7, <1>8, <1>9 DEF LedInv

\* One byte of the LED record, which then agrees with want up to that byte.
LEMMA WriteLedByte ==
    ASSUME LedInv, WriteByte(Mqtt)
    PROVE  LedInv'
<1> DEFINE a == at[Mqtt]
<1>1. /\ pc[Mqtt] = "write" /\ a \in 0..7
      /\ at' = [at EXCEPT ![Mqtt] = a + 1]
      /\ UNCHANGED <<pc, cache, want, torn>>
    BY SizeFacts DEF WriteByte, LedInv, LedTaskType, ledVars, ledHistory
<1>2. (Base(Mqtt) + a) % 256 = a
    BY <1>1, SizeFacts
<1>3. mem' = [mem EXCEPT ![a] = LedBytes(want)[a + 1]]
    BY <1>2 DEF WriteByte, Data
<1>4. at \in [Tasks -> Nat] /\ at' \in [Tasks -> Nat] /\ at'[Mqtt] = a + 1
    BY <1>1, SizeFacts DEF LedInv, LedTaskType
<1> HIDE DEF a
<1>5. a + 1 \in 1..8 /\ want \in [Leds -> {0, 1}]
    BY <1>1 DEF LedInv, LedTaskType
<1>6. LedBytes(want)[a + 1] \in Nat
    BY <1>5, LedBytesFacts
<1>7. DOMAIN mem' = DOMAIN mem
    BY <1>3
<1>8. /\ mem'[a] = LedBytes(want)[a + 1]
      /\ \A b \in 0..7 : b # a => mem'[b] = mem[b]
    BY <1>1, <1>3, LedAddresses DEF LedInv
<1>9. LedRecordType'
  <2>1. \A b \in 0..7 : mem'[b] \in Nat
      BY <1>6, <1>8 DEF LedInv, LedRecordType
  <2> QED BY <1>7, <2>1 DEF LedInv, LedRecordType
<1>10. LedTaskType'
    BY <1>1, <1>4, <1>5 DEF LedInv, LedTaskType
<1>11. CacheCoherent'
  <2>1. pc'[Mqtt] = "write" /\ at'[Mqtt] # 0
      BY <1>1, <1>4
  <2> QED BY <2>1 DEF CacheCoherent
<1>12. LedPrefix'
  <2> SUFFICES ASSUME NEW i \in 1..(a + 1)
               PROVE  mem'[i - 1] = LedBytes(want)[i]
      BY <1>1, <1>4 DEF LedPrefix, LedBytes
  <2>1. CASE i = a + 1
      BY <2>1, <1>1, <1>8
  <2>2. CASE i # a + 1
    <3>1. i \in 1..a /\ i - 1 \in 0..7 /\ i - 1 # a
        BY <2>2, <1>1
    <3>2. mem[i - 1] = LedBytes(want)[i]
        BY <3>1, <1>1 DEF LedInv, LedPrefix, a
    <3> QED BY <3>1, <3>2, <1>8
  <2> QED BY <2>1, <2>2
<1> QED BY <1>9, <1>10, <1>11, <1>12 DEF LedInv

\* What a step has to leave alone to keep LedInv: the LED record, the MQTT
\* task's place in its write, the cache and what is being written.
LEMMA LedFrame ==
    ASSUME LedInv,
           DOMAIN mem' = DOMAIN mem, \A b \in 0..7 : mem'[b] = mem[b],
           UNCHANGED <<cache, want, torn>>,
           pc' \in [Tasks -> {"idle", "lock", "write", "reboot"}],
           at' \in [Tasks -> Nat],
           pc'[Mqtt] = pc[Mqtt], at'[Mqtt] = at[Mqtt]
    PROVE  LedInv'
<1>1. StoredLeds' = StoredLeds
    BY StoredLedsFrame
<1>2. at[Mqtt] \in 0..8
    BY SizeFacts DEF LedInv, LedTaskType
<1>3. LedRecordType'
    BY DEF LedInv, LedRecordType
<1>4. LedTaskType'
    BY <1>2 DEF LedInv, LedTaskType
<1>5. CacheCoherent'
    BY <1>1 DEF LedInv, CacheCoherent
<1>6. LedPrefix'
  <2>1. \A i \in 1..at[Mqtt] : mem'[i - 1] = mem[i - 1]
      BY <1>2
  <2> QED BY <2>1 DEF LedInv, LedPrefix, LedBytes
<1> QED BY <1>3, <1>4, <1>5, <1>6 DEF LedInv

\* One byte of a configuration leaves the LED record alone.
LEMMA WriteConfigByte ==
    ASSUME LedInv, NEW w \in Web, WriteByte(w)
    PROVE  LedInv'
<1> DEFINE a == 16 + at[w]
<1>1. w \in Tasks /\ w # Mqtt
    BY StorageAssumption DEF Tasks
<1>2. at \in [Tasks -> Nat] /\ pc \in [Tasks -> {"idle", "lock", "write", "reboot"}]
    BY DEF LedInv, LedTaskType
<1>3. at[w] \in Nat /\ at[w] < ImageLen
    BY <1>1, <1>2, SizeFacts DEF WriteByte
<1>4. a \in 16..255 /\ (Base(w) + at[w]) % 256 = a
    BY <1>3, ImageLenType, SizeFacts
<1>5. mem' = [mem EXCEPT ![a] = Data(w)[at[w] + 1]]
    BY <1>4 DEF WriteByte
<1> HIDE DEF a
<1>6. DOMAIN mem' = DOMAIN mem
    BY <1>5
<1>7. \A b \in 0..7 : mem'[b] = mem[b]
  <2>1. \A b \in 0..7 : b # a
      BY <1>4
  <2> QED BY <1>5, <2>1, LedAddresses DEF LedInv
<1>8. at' = [at EXCEPT ![w] = at[w] + 1]
    BY DEF WriteByte
<1>9. at' \in [Tasks -> Nat] /\ at'[Mqtt] = at[Mqtt]
    BY <1>1, <1>2, <1>3, <1>8, SizeFacts
<1>10. UNCHANGED <<pc, cache, want, torn>>
    BY DEF WriteByte, ledVars, ledHistory
<1> QED BY <1>2, <1>6, <1>7, <1>9, <1>10, LedFrame

\* Every step of the specification, one action at a time.
LEMMA LedMove == LedInv /\ Move => LedInv'
<1> SUFFICES ASSUME LedInv, Move PROVE LedInv'
    OBVIOUS
<1>1. /\ pc \in [Tasks -> {"idle", "lock", "write", "reboot"}]
      /\ at \in [Tasks -> Nat]
    BY DEF LedInv, LedTaskType
<1>2. \A w \in Web : w \in Tasks /\ w # Mqtt
    BY StorageAssumption DEF Tasks
<1>3. CASE UNCHANGED <<mem, taskVars, ledVars, cfgVars, torn, acked>>
  <2>1. UNCHANGED <<mem, pc, at, cache, want, torn>>
      BY <1>3 DEF taskVars, ledVars
  <2> QED BY <1>1, <2>1, LedFrame
<1>4. ASSUME NEW t \in Tasks, Lock(t) PROVE LedInv'
  <2>1. /\ UNCHANGED <<mem, cache, want, torn>> /\ pc[t] = "lock"
        /\ pc' = [pc EXCEPT ![t] = "write"] /\ at' = [at EXCEPT ![t] = 0]
      BY <1>4 DEF Lock, ledVars, ledHistory
  <2>2. /\ pc' \in [Tasks -> {"idle", "lock", "write", "reboot"}]
        /\ at' \in [Tasks -> Nat]
      BY <1>1, <2>1
  <2>3. CASE t = Mqtt
    <3>1. pc[Mqtt] = "lock" /\ pc'[Mqtt] = "write" /\ at'[Mqtt] = 0
        BY <1>1, <2>1, <2>3, SizeFacts
    <3>2. LedRecordType' /\ LedTaskType'
      <4>1. LedRecordType'
          BY <2>1 DEF LedInv, LedRecordType
      <4>2. at'[Mqtt] <= 8
          BY <3>1
      <4>3. LedTaskType'
          BY <2>1, <2>2, <4>2 DEF LedInv, LedTaskType
      <4> QED BY <4>1, <4>3
    <3>3. CacheCoherent'
      <4>1. StoredLeds' = StoredLeds
          BY <2>1, StoredLedsFrame
      <4> QED BY <2>1, <3>1, <4>1 DEF LedInv, CacheCoherent
    <3>4. 1..at'[Mqtt] = {}
        BY <3>1
    <3>5. LedPrefix'
        BY <3>4 DEF LedPrefix
    <3> QED BY <3>2, <3>3, <3>5 DEF LedInv
  <2>4. CASE t # Mqtt
    <3>1. pc'[Mqtt] = pc[Mqtt] /\ at'[Mqtt] = at[Mqtt]
        BY <1>1, <2>1, <2>4, SizeFacts
    <3> QED BY <2>1, <2>2, <3>1, LedFrame
  <2> QED BY <2>3, <2>4
<1>5. ASSUME NEW t \in Tasks, WriteByte(t) PROVE LedInv'
    BY <1>5, WriteLedByte, WriteConfigByte DEF Tasks
<1>6. ASSUME NEW t \in Tasks, WriteError(t) PROVE LedInv'
  <2>1. /\ UNCHANGED <<mem, cache, want>> /\ pc[t] = "write"
        /\ torn' = (torn \/ (t = Mqtt /\ at[t] > 0))
        /\ pc' = [pc EXCEPT ![t] = "idle"] /\ at' = [at EXCEPT ![t] = 0]
      BY <1>6 DEF WriteError, Release, ledVars
  <2>2. torn' \in BOOLEAN /\ torn \in BOOLEAN
      BY <2>1 DEF LedInv, LedTaskType
  <2>3. /\ pc' \in [Tasks -> {"idle", "lock", "write", "reboot"}]
        /\ at' \in [Tasks -> Nat] /\ at'[Mqtt] <= 8
      BY <1>1, <2>1, SizeFacts DEF LedInv, LedTaskType
  <2>4. CASE t = Mqtt
    <3>1. pc[Mqtt] = "write" /\ pc'[Mqtt] = "idle" /\ at[Mqtt] \in Nat
        BY <1>1, <2>1, <2>4, SizeFacts
    <3>2. LedRecordType'
        BY <2>1 DEF LedInv, LedRecordType
    <3>3. LedTaskType'
        BY <2>1, <2>2, <2>3 DEF LedInv, LedTaskType
    <3>4. StoredLeds' = StoredLeds
        BY <2>1, StoredLedsFrame
    <3>5. ~torn' => ~torn /\ at[Mqtt] = 0
      <4>1. ~torn' => ~torn /\ ~(at[Mqtt] > 0)
          BY <2>1, <2>2, <2>4, Zenon
      <4> QED BY <3>1, <4>1
    <3>6. CacheCoherent'
        BY <2>1, <3>1, <3>4, <3>5 DEF LedInv, CacheCoherent
    <3>7. LedPrefix'
        BY <3>1 DEF LedPrefix
    <3> QED BY <3>2, <3>3, <3>6, <3>7 DEF LedInv
  <2>5. CASE t # Mqtt
    <3>1. torn' = torn /\ pc'[Mqtt] = pc[Mqtt] /\ at'[Mqtt] = at[Mqtt]
        BY <1>1, <2>1, <2>2, <2>5, SizeFacts
    <3> QED BY <2>1, <2>3, <3>1, LedFrame
  <2> QED BY <2>4, <2>5
<1>7. CASE LedSaved
  <2>1. /\ UNCHANGED <<mem, want>> /\ cache' = want /\ torn' = FALSE
        /\ pc[Mqtt] = "write" /\ at[Mqtt] = 8
        /\ pc' = [pc EXCEPT ![Mqtt] = "idle"] /\ at' = [at EXCEPT ![Mqtt] = 0]
      BY <1>7, SizeFacts DEF LedSaved, Release
  <2>2. /\ pc' \in [Tasks -> {"idle", "lock", "write", "reboot"}]
        /\ at' \in [Tasks -> Nat] /\ at'[Mqtt] = 0 /\ pc'[Mqtt] = "idle"
      BY <1>1, <2>1, SizeFacts
  <2>3. StoredLeds = want
      BY <2>1, WholeRecord DEF LedInv, LedPrefix, LedTaskType
  <2>4. StoredLeds' = StoredLeds
      BY <2>1, StoredLedsFrame
  <2>t. torn' \in BOOLEAN
      BY <2>1, Zenon
  <2>5. LedRecordType' /\ LedTaskType'
      BY <2>1, <2>2, <2>t DEF LedInv, LedRecordType, LedTaskType
  <2>6. CacheCoherent' /\ LedPrefix'
      BY <2>1, <2>2, <2>3, <2>4 DEF CacheCoherent, LedPrefix
  <2> QED BY <2>5, <2>6 DEF LedInv
<1>8. ASSUME NEW w \in Web, ConfigSaved(w) PROVE LedInv'
  <2>1. /\ UNCHANGED <<mem, cache, want, torn>>
        /\ pc' = [pc EXCEPT ![w] = "reboot"] /\ at' = [at EXCEPT ![w] = 0]
      BY <1>8 DEF ConfigSaved, Release, ledVars, ledHistory
  <2>2. /\ pc' \in [Tasks -> {"idle", "lock", "write", "reboot"}]
        /\ at' \in [Tasks -> Nat]
        /\ pc'[Mqtt] = pc[Mqtt] /\ at'[Mqtt] = at[Mqtt]
      BY <1>1, <1>2, <2>1, SizeFacts
  <2> QED BY <2>1, <2>2, LedFrame
<1>9. ASSUME NEW which \in {{1}, {2}, Leds}, NEW on \in {0, 1}, LedCommand(which, on)
      PROVE  LedInv'
  <2>1. UNCHANGED <<mem, at, cache, torn>> /\ pc[Mqtt] = "idle"
      BY <1>9 DEF LedCommand
  <2>2. want' \in [Leds -> {0, 1}]
      BY <1>9 DEF LedCommand, Wanted, LedInv, LedTaskType
  <2>3. /\ pc' \in [Tasks -> {"idle", "lock", "write", "reboot"}]
        /\ pc'[Mqtt] \in {"idle", "lock"}
      BY <1>1, <1>9, SizeFacts DEF LedCommand
  <2>4. StoredLeds' = StoredLeds
      BY <2>1, StoredLedsFrame
  <2>5. LedRecordType' /\ LedTaskType'
      BY <2>1, <2>2, <2>3 DEF LedInv, LedRecordType, LedTaskType
  <2>6. CacheCoherent' /\ LedPrefix'
      BY <2>1, <2>3, <2>4 DEF LedInv, CacheCoherent, LedPrefix
  <2> QED BY <2>5, <2>6 DEF LedInv
<1>10. ASSUME NEW w \in Web, NEW c, Save(w, c) PROVE LedInv'
  <2>1. UNCHANGED <<mem, at, cache, want, torn>> /\ pc' = [pc EXCEPT ![w] = "lock"]
      BY <1>10 DEF Save, ledVars, ledHistory
  <2>2. /\ pc' \in [Tasks -> {"idle", "lock", "write", "reboot"}]
        /\ pc'[Mqtt] = pc[Mqtt]
      BY <1>1, <1>2, <2>1, SizeFacts
  <2> QED BY <1>1, <2>1, <2>2, LedFrame
<1>11. ASSUME NEW r1 \in BOOLEAN, NEW r2 \in BOOLEAN, Reset(r1, r2) PROVE LedInv'
    BY <1>11, BootLedInv DEF Reset
<1>12. ASSUME NEW w \in Web, NEW r1 \in BOOLEAN, NEW r2 \in BOOLEAN,
              RebootAfterSave(w, r1, r2)
       PROVE  LedInv'
    BY <1>12, BootLedInv DEF RebootAfterSave
<1> QED
    BY <1>3, <1>4, <1>5, <1>6, <1>7, <1>8, <1>9, <1>10, <1>11, <1>12
    DEF Move, Step, Work, Reboot

\* persistence.rs: the strengthened invariant holds in every reachable state.
THEOREM StorageLedInvariant == Spec => []LedInv
BY InitLedInv, LedMove, NextMoves, PTL DEF Spec

\* persistence.rs, save_field: as long as no transaction fails, the cache that
\* lets save_field skip a write is what load_state would read.
THEOREM StorageCacheCoherent == Spec => []CacheCoherent
<1>1. LedInv => CacheCoherent
    BY DEF LedInv
<1> QED BY <1>1, StorageLedInvariant, PTL

-----------------------------------------------------------------------------
(* Torn LED records, and what a reset restores from them.                  *)

\* On a chip that holds a LED record from the first, the magic is never
\* disturbed, and neither the record nor a copy of it lights an LED that
\* nobody has commanded on.
MagicOnChip == \A i \in 1..4 : mem[i - 1] = LedMagic[i]
LitInv ==
    Formatted =>
        /\ MagicOnChip
        /\ \A l \in Leds : 1 \in {mem[4 + l] % 2, cache[l], want[l], led[l]} => l \in lit

\* With the magic in place load_state takes the LEDs as they are.
LEMMA MagicStored == MagicOnChip => StoredLeds = [l \in Leds |-> mem[4 + l] % 2]
<1> SUFFICES ASSUME MagicOnChip PROVE StoredLeds = [l \in Leds |-> mem[4 + l] % 2]
    OBVIOUS
<1> DEFINE b == Read(LedBase, 8)
<1>1. \A i \in 1..4 : b[i] = LedMagic[i]
    BY DEF MagicOnChip, Read, LedBase
<1>2. \A l \in Leds : b[5 + l] = mem[4 + l]
    BY DEF Read, LedBase, Leds
<1> HIDE DEF b
<1> QED BY <1>1, <1>2 DEF StoredLeds, LedState, b

LEMMA InitLitInv == Init => LitInv
<1> SUFFICES ASSUME Init, Formatted
             PROVE  /\ MagicOnChip
                    /\ \A l \in Leds :
                           1 \in {mem[4 + l] % 2, cache[l], want[l], led[l]} => l \in lit
    BY DEF LitInv
<1>1. \A a \in 0..7 : mem[a] = LedBytes(Dark)[a + 1]
    BY ImageLenType DEF Init, BlankMem, CfgBase
<1>2. /\ mem[0] = 202 /\ mem[1] = 254 /\ mem[2] = 240 /\ mem[3] = 13
      /\ mem[5] = 0 /\ mem[6] = 0
    BY <1>1 DEF LedBytes, LedMagic, Dark, Leds
<1>3. MagicOnChip
    BY <1>2 DEF MagicOnChip, LedMagic
<1>4. \A l \in Leds : mem[4 + l] % 2 = 0
    BY <1>2 DEF Leds
<1>5. \A l \in Leds : StoredLeds[l] = 0 /\ want[l] = 0
    BY <1>3, <1>4, MagicStored DEF Init, Dark
<1>6. cache = StoredLeds /\ led = StoredLeds
    BY DEF Init
<1> QED BY <1>3, <1>4, <1>5, <1>6

\* A step that leaves the LED record alone.
LEMMA LitFrame ==
    ASSUME LitInv, \A b \in 0..7 : mem'[b] = mem[b], lit \subseteq lit',
           Formatted => \A l \in Leds : 1 \in {cache'[l], want'[l], led'[l]} => l \in lit'
    PROVE  LitInv'
<1>1. \A i \in 1..4 : mem'[i - 1] = mem[i - 1]
    OBVIOUS
<1>2. \A l \in Leds : mem'[4 + l] = mem[4 + l]
    BY DEF Leds
<1> QED BY <1>1, <1>2 DEF LitInv, MagicOnChip, LedMagic

\* One byte of a LED record: the magic over itself, a reserved byte, or an LED.
LEMMA WriteLitInv ==
    ASSUME LedInv, LitInv, WriteByte(Mqtt), Formatted
    PROVE  /\ LitInv'
           /\ \A l \in Leds : mem'[4 + l] % 2 \in {mem[4 + l] % 2, want[l]}
<1>1. PICK a \in 0..7 : a = at[Mqtt]
    BY SizeFacts DEF WriteByte, LedInv, LedTaskType
<1>2. (Base(Mqtt) + at[Mqtt]) % 256 = a
    BY <1>1, SizeFacts
<1>3. mem' = [mem EXCEPT ![a] = LedBytes(want)[a + 1]]
    BY <1>1, <1>2 DEF WriteByte, Data
<1>4. /\ mem'[a] = LedBytes(want)[a + 1]
      /\ \A b \in 0..7 : b # a => mem'[b] = mem[b]
    BY <1>3, LedAddresses DEF LedInv
<1>5. /\ \A i \in 1..4 : LedBytes(want)[i] = LedMagic[i]
      /\ \A l \in Leds : LedBytes(want)[5 + l] = want[l]
    BY LedBytesFacts DEF LedInv, LedTaskType
<1>6. ASSUME NEW i \in 1..4 PROVE mem'[i - 1] = LedMagic[i]
  <2>1. i - 1 \in 0..7 /\ mem[i - 1] = LedMagic[i]
      BY DEF LitInv, MagicOnChip
  <2>2. i - 1 = a => mem'[i - 1] = LedMagic[i]
      BY <1>4, <1>5
  <2> QED BY <1>4, <2>1, <2>2
<1>7. ASSUME NEW l \in Leds PROVE mem'[4 + l] % 2 \in {mem[4 + l] % 2, want[l]}
  <2>1. 4 + l \in 0..7 /\ want[l] \in {0, 1}
      BY DEF Leds, LedInv, LedTaskType
  <2>2. CASE 4 + l = a
    <3>1. a + 1 = 5 + l
        BY <2>2 DEF Leds
    <3>2. mem'[4 + l] = want[l]
        BY <1>4, <1>5, <2>2, <3>1
    <3>3. want[l] % 2 = want[l]
        BY <2>1
    <3> QED BY <3>2, <3>3
  <2>3. CASE 4 + l # a
      BY <1>4, <2>1, <2>3
  <2> QED BY <2>2, <2>3
<1>8. UNCHANGED <<cache, want, led, lit>>
    BY DEF WriteByte, ledVars, ledHistory
<1>9. LitInv'
    BY <1>6, <1>7, <1>8 DEF LitInv, MagicOnChip, LedMagic
<1> QED BY <1>7, <1>9

\* A boot lights what load_state has returned.
LEMMA BootLitInv ==
    ASSUME LitInv, NEW r1 \in BOOLEAN, NEW r2 \in BOOLEAN, Boot(r1, r2)
    PROVE  LitInv'
<1>1. /\ UNCHANGED <<mem, lit>> /\ want' = Dark /\ led' = Pins(cache')
      /\ cache' = IF r2 THEN StoredLeds ELSE Dark
    BY DEF Boot
<1>2. ASSUME Formatted, NEW l \in Leds, 1 \in {cache'[l], want'[l], led'[l]}
      PROVE  l \in lit'
  <2>1. want'[l] = 0 /\ led'[l] = cache'[l]
      BY <1>1 DEF Dark, Pins
  <2>2. cache'[l] = 1
      BY <1>2, <2>1
  <2>3. StoredLeds[l] = 1
      BY <1>1, <2>2 DEF Dark
  <2>4. StoredLeds[l] = mem[4 + l] % 2
      BY <1>2, MagicStored DEF LitInv
  <2> QED BY <1>1, <1>2, <2>3, <2>4 DEF LitInv
<1> QED BY <1>1, <1>2, LitFrame

\* Steps that change neither the LED record nor a copy of it.
LEMMA LitStutter ==
    ASSUME LitInv, \A b \in 0..7 : mem'[b] = mem[b], UNCHANGED <<cache, want, led, lit>>
    PROVE  LitInv'
<1>1. Formatted => \A l \in Leds : 1 \in {cache'[l], want'[l], led'[l]} => l \in lit'
    BY DEF LitInv
<1> QED BY <1>1, LitFrame

\* The image of a configuration begins behind the LED record.
LEMMA ConfigByteElsewhere ==
    ASSUME LedInv, NEW w \in Web, WriteByte(w)
    PROVE  \A b \in 0..7 : mem'[b] = mem[b]
<1>1. w \in Tasks /\ at \in [Tasks -> Nat]
    BY DEF Tasks, LedInv, LedTaskType
<1>2. PICK n \in Nat : n = at[w] /\ n < ImageLen
    BY <1>1, SizeFacts DEF WriteByte
<1>3. PICK a \in 16..255 : a = (Base(w) + at[w]) % 256
    BY <1>2, ImageLenType, SizeFacts
<1>4. mem' = [mem EXCEPT ![a] = Data(w)[at[w] + 1]]
    BY <1>3 DEF WriteByte
<1>5. \A b \in 0..7 : b # a
    BY <1>3
<1> QED BY <1>4, <1>5, LedAddresses DEF LedInv

LEMMA LitStep == LedInv /\ LitInv /\ [Next]_vars => LitInv'
<1> SUFFICES ASSUME LedInv, LitInv, [Next]_vars PROVE LitInv'
    OBVIOUS
<1>1. CASE UNCHANGED vars
    BY <1>1, LitStutter DEF vars, ledVars, ledHistory
<1>2. ASSUME NEW t \in Tasks, Lock(t) \/ WriteError(t) \/ (t \in Web /\ ConfigSaved(t))
      PROVE  LitInv'
  <2>1. UNCHANGED <<mem, cache, want, led, lit>>
      BY <1>2 DEF Lock, WriteError, ConfigSaved, ledVars, ledHistory
  <2> QED BY <2>1, LitStutter
<1>3. ASSUME NEW w \in Web, WriteByte(w) PROVE LitInv'
  <2>1. UNCHANGED <<cache, want, led, lit>>
      BY <1>3 DEF WriteByte, ledVars, ledHistory
  <2> QED BY <1>3, <2>1, ConfigByteElsewhere, LitStutter
<1>4. CASE WriteByte(Mqtt)
    BY <1>4, WriteLitInv DEF LitInv
<1>5. CASE LedSaved
  <2>1. cache' = want /\ UNCHANGED <<mem, want, led, lit>>
      BY <1>5 DEF LedSaved
  <2>2. Formatted => \A l \in Leds : 1 \in {cache'[l], want'[l], led'[l]} => l \in lit'
      BY <2>1 DEF LitInv
  <2> QED BY <2>1, <2>2, LitFrame
<1>6. ASSUME NEW which \in {{1}, {2}, Leds}, NEW on \in {0, 1}, LedCommand(which, on)
      PROVE  LitInv'
  <2>1. /\ UNCHANGED <<mem, cache>> /\ lit' = IF on = 1 THEN lit \union which ELSE lit
        /\ want' = [l \in Leds |-> IF l \in which THEN on ELSE cache[l]]
        /\ led' = [l \in Leds |-> IF l \in which THEN on ELSE led[l]]
      BY <1>6 DEF LedCommand, Wanted
  <2>2. ASSUME Formatted, NEW l \in Leds, 1 \in {cache'[l], want'[l], led'[l]}
        PROVE  l \in lit'
    <3>1. 1 \in {cache[l], led[l]} \/ (l \in which /\ on = 1)
        BY <2>1, <2>2
    <3> QED BY <2>1, <2>2, <3>1 DEF LitInv
  <2> QED BY <2>1, <2>2, LitFrame
<1>7. ASSUME NEW w \in Web, NEW c \in Configs, Save(w, c) PROVE LitInv'
  <2>1. UNCHANGED <<mem, cache, want, led, lit>>
      BY <1>7 DEF Save, ledVars, ledHistory
  <2> QED BY <2>1, LitStutter
<1>8. ASSUME NEW r1 \in BOOLEAN, NEW r2 \in BOOLEAN,
             Reset(r1, r2) \/ \E w \in Web : RebootAfterSave(w, r1, r2)
      PROVE  LitInv'
    BY <1>8, BootLitInv DEF Reset, RebootAfterSave
<1> QED
    BY <1>1, <1>2, <1>3, <1>4, <1>5, <1>6, <1>7, <1>8 DEF Next, Step, Work, Reboot, Tasks

\* Before the first byte of a record the chip holds the cached state; a byte
\* changes one LED to the wanted state or none.
LEMMA OldOrNewStep ==
    LedInv /\ LitInv /\ LedsOldOrNew /\ [Next]_vars => LedsOldOrNew'
<1> SUFFICES ASSUME LedInv, LitInv, LedsOldOrNew, [Next]_vars,
                    ~torn', Formatted, pc'[Mqtt] = "write"
             PROVE  \A l \in Leds : StoredLeds'[l] \in {cache'[l], want'[l]}
    BY DEF LedsOldOrNew
<1>1. LitInv'
    BY LitStep
<1>2. /\ \A l \in Leds : StoredLeds[l] = mem[4 + l] % 2
      /\ \A l \in Leds : StoredLeds'[l] = mem'[4 + l] % 2
  <2>1. \A l \in Leds : StoredLeds[l] = mem[4 + l] % 2
      BY MagicStored DEF LitInv
  <2>2. MagicOnChip'
      BY <1>1 DEF LitInv
  <2>3. (StoredLeds = [l \in Leds |-> mem[4 + l] % 2])'
      BY <2>2, MagicStored, PTL
  <2> QED BY <2>1, <2>3
<1>3. /\ pc \in [Tasks -> {"idle", "lock", "write", "reboot"}] /\ Mqtt \in Tasks
    BY SizeFacts DEF LedInv, LedTaskType
<1>4. ASSUME pc[Mqtt] = "write", ~torn,
             UNCHANGED <<cache, want>>, \A b \in 0..7 : mem'[b] = mem[b]
      PROVE  \A l \in Leds : StoredLeds'[l] \in {cache'[l], want'[l]}
  <2>1. StoredLeds' = StoredLeds
      BY <1>4, StoredLedsFrame
  <2> QED BY <1>4, <2>1 DEF LedsOldOrNew
<1>5. ASSUME NEW t \in Tasks, Lock(t)
      PROVE  \A l \in Leds : StoredLeds'[l] \in {cache'[l], want'[l]}
  <2>1. /\ UNCHANGED <<mem, cache, want, torn>> /\ pc[t] = "lock"
        /\ pc' = [pc EXCEPT ![t] = "write"]
      BY <1>5 DEF Lock, ledVars, ledHistory
  <2>2. CASE t = Mqtt
    <3>1. cache = StoredLeds
        BY <2>1, <2>2 DEF LedInv, CacheCoherent
    <3>2. StoredLeds' = StoredLeds
        BY <2>1, StoredLedsFrame
    <3> QED BY <2>1, <3>1, <3>2
  <2>3. CASE t # Mqtt
      BY <1>3, <1>4, <2>1, <2>3
  <2> QED BY <2>2, <2>3
<1>6. CASE WriteByte(Mqtt)
  <2>1. UNCHANGED <<pc, cache, want, torn>>
      BY <1>6 DEF WriteByte, ledVars, ledHistory
  <2>2. \A l \in Leds : mem'[4 + l] % 2 \in {mem[4 + l] % 2, want[l]}
      BY <1>6, WriteLitInv
  <2>3. \A l \in Leds : mem[4 + l] % 2 \in {cache[l], want[l]}
      BY <1>2, <2>1 DEF LedsOldOrNew
  <2> QED BY <1>2, <2>1, <2>2, <2>3
<1>7. ASSUME NEW w \in Web, WriteByte(w)
      PROVE  \A l \in Leds : StoredLeds'[l] \in {cache'[l], want'[l]}
  <2>1. UNCHANGED <<pc, cache, want, torn>>
      BY <1>7 DEF WriteByte, ledVars, ledHistory
  <2> QED BY <1>4, <1>7, <2>1, ConfigByteElsewhere
<1>8. ASSUME NEW t \in Tasks, WriteError(t)
      PROVE  \A l \in Leds : StoredLeds'[l] \in {cache'[l], want'[l]}
  <2>1. /\ UNCHANGED <<mem, cache, want>> /\ ~torn
        /\ pc' = [pc EXCEPT ![t] = "idle"]
      BY <1>8 DEF WriteError, Release, ledVars
  <2>2. t # Mqtt /\ pc[Mqtt] = "write"
      BY <1>3, <2>1
  <2> QED BY <1>4, <2>1, <2>2
<1>9. ~LedSaved
    BY <1>3 DEF LedSaved, Release
<1>10. ASSUME NEW w \in Web, ConfigSaved(w)
       PROVE  \A l \in Leds : StoredLeds'[l] \in {cache'[l], want'[l]}
  <2>1. UNCHANGED <<mem, cache, want, torn>> /\ pc' = [pc EXCEPT ![w] = "reboot"]
      BY <1>10 DEF ConfigSaved, Release, ledVars, ledHistory
  <2> QED BY <1>3, <1>4, <2>1
<1>11. ASSUME NEW which \in {{1}, {2}, Leds}, NEW on \in {0, 1} PROVE ~LedCommand(which, on)
    BY <1>3 DEF LedCommand
<1>12. ASSUME NEW w \in Web, NEW c \in Configs, Save(w, c)
       PROVE  \A l \in Leds : StoredLeds'[l] \in {cache'[l], want'[l]}
  <2>1. UNCHANGED <<mem, cache, want, torn>> /\ pc' = [pc EXCEPT ![w] = "lock"]
      BY <1>12 DEF Save, ledVars, ledHistory
  <2> QED BY <1>3, <1>4, <2>1
<1>13. ASSUME NEW r1 \in BOOLEAN, NEW r2 \in BOOLEAN PROVE ~Boot(r1, r2)
    BY <1>3 DEF Boot
<1>14. CASE UNCHANGED vars
    BY <1>4, <1>14 DEF vars, taskVars, ledVars, ledHistory
<1> QED
    BY <1>5, <1>6, <1>7, <1>8, <1>9, <1>10, <1>11, <1>12, <1>13, <1>14
    DEF Next, Step, Work, Reboot, Reset, RebootAfterSave, Tasks

LEMMA StorageLitInvariant == Spec => []LitInv
BY InitLitInv, LitStep, StorageLedInvariant, PTL DEF Spec

\* persistence.rs, save_field: a reset in the middle of a write restores each
\* LED as it was or as it was about to be.
THEOREM TornRecordOldOrNew == Spec => []LedsOldOrNew
<1>1. Init => LedsOldOrNew
    BY SizeFacts DEF Init, LedsOldOrNew
<1> QED
    BY <1>1, OldOrNewStep, StorageLedInvariant, StorageLitInvariant, PTL DEF Spec

\* README, "LEDs are fail-last": whatever write is torn by a reset, whatever
\* transaction fails, an LED is lit only if somebody lit it, on a chip that
\* holds a LED record from the first.
THEOREM LitOnlyIfCommanded == Spec => [](Formatted => RestoredWasCommanded)
<1>1. LitInv => (Formatted => RestoredWasCommanded)
    BY DEF LitInv, RestoredWasCommanded
<1> QED BY <1>1, StorageLitInvariant, PTL

-----------------------------------------------------------------------------
(* Sequences of bytes.                                                     *)

\* A set of naturals has a least element.
LEMMA Least ==
    ASSUME NEW S \in SUBSET Nat, S # {}
    PROVE  \E n \in S : \A m \in S : n <= m
<1> DEFINE below == {0..n : n \in S}
           R == StrictSubsetOrdering(Nat)
           F == FiniteSubsetsOf(Nat)
<1>1. below \subseteq F /\ below # {}
  <2>1. \A n \in S : IsFiniteSet(0..n) /\ 0..n \subseteq Nat
      BY FS_Interval
  <2> QED BY <2>1 DEF FiniteSubsetsOf
<1>2. IsWellFoundedOn(R, F)
    BY FS_StrictSubsetOrderingWellFounded
<1> HIDE DEF below, R, F
<1>3. PICK x \in below : \A y \in below : <<y, x>> \notin R
    BY <1>1, <1>2, WFMin
<1>4. PICK n \in S : x = 0..n
    BY DEF below
<1>5. ASSUME NEW m \in S, m < n PROVE FALSE
  <2>1. 0..m \in below /\ <<0..m, 0..n>> \notin R
      BY <1>3, <1>4 DEF below
  <2>2. 0..m \subseteq 0..n /\ 0..m # 0..n /\ 0..m \subseteq Nat /\ 0..n \subseteq Nat
    <3>1. n \in 0..n /\ n \notin 0..m
        BY <1>5
    <3> QED BY <3>1, <1>5
  <2> QED BY <2>1, <2>2 DEF R, StrictSubsetOrdering
<1> QED BY <1>5

\* Sequence f is part of image b, from offset off on.
PlacedAt(b, off, f) == \A i \in 1..Len(f) : b[off + i] = f[i]

\* An image of n bytes.
Image(b, n) == b \in Seq(Byte) /\ Len(b) = n

\* Image whole begins with the m bytes of b.
StartsWith(whole, b, m) == \A i \in 1..m : whole[i] = b[i]

LEMMA FunctionIsImage ==
    ASSUME NEW n \in Nat, NEW f \in [1..n -> Byte]
    PROVE  Image(f, n)
BY DEF Image

LEMMA ConcatImage ==
    ASSUME NEW m \in Nat, NEW n \in Nat, NEW b, NEW t, Image(b, m), Image(t, n)
    PROVE  /\ Image(b \o t, m + n)
           /\ StartsWith(b \o t, b, m) /\ PlacedAt(b \o t, m, t)
BY DEF Image, PlacedAt, StartsWith

\* What is concatenated is found where it was put, whatever is appended later.
LEMMA PartPlaced ==
    ASSUME NEW m \in Nat, NEW n \in Nat, NEW b, NEW t, Image(b, m), Image(t, n),
           NEW whole, StartsWith(whole, b \o t, m + n)
    PROVE  StartsWith(whole, b, m) /\ PlacedAt(whole, m, t)
<1> DEFINE bt == b \o t
<1>1. StartsWith(bt, b, m)
    BY ConcatImage, Zenon
<1>2. PlacedAt(bt, m, t)
    BY ConcatImage, Zenon
<1> HIDE DEF bt
<1>3. \A i \in 1..m + n : whole[i] = bt[i]
    BY DEF StartsWith, bt
<1>4. Len(t) = n
    BY DEF Image
<1>5. StartsWith(whole, b, m)
    BY <1>1, <1>3 DEF StartsWith
<1>6. \A i \in 1..n : m + i \in 1..m + n
    OBVIOUS
<1>7. PlacedAt(whole, m, t)
    BY <1>2, <1>3, <1>4, <1>6 DEF PlacedAt
<1> QED BY <1>5, <1>7

LEMMA SliceOfPlaced ==
    ASSUME NEW m \in Nat, NEW b, Image(b, m), NEW off \in Nat,
           NEW k \in Nat, NEW f, Image(f, k), off + k <= m, PlacedAt(b, off, f)
    PROVE  Slice(b, off, k) = f
<1> DEFINE s == Slice(b, off, k)
<1>1. s = [i \in 1..k |-> b[off + i]]
    BY DEF Slice, Image
<1>2. f = [i \in 1..k |-> f[i]]
    BY DEF Image
<1>3. \A i \in 1..k : b[off + i] = f[i]
    BY DEF PlacedAt, Image
<1> HIDE DEF s
<1>4. s = f
    BY <1>1, <1>2, <1>3
<1> QED BY <1>4 DEF s
-----------------------------------------------------------------------------
(* The layout.                                                             *)

\* Each field begins where the one before it ends.
LEMMA Offsets ==
    /\ AddrLen \in Nat /\ IdLen \in Nat /\ CredLen \in Nat
    /\ AtIp = 4 /\ AtPrefix \in Nat /\ AtPrefix = 4 + AddrLen
    /\ AtGateway \in Nat /\ AtGateway = AtPrefix + 1 + 3
    /\ AtBroker \in Nat /\ AtBroker = AtGateway + AddrLen
    /\ AtPort \in Nat /\ AtPort = AtBroker + AddrLen
    /\ AtId \in Nat /\ AtId = AtPort + 2 + 1
    /\ AtCred(1) \in Nat /\ AtCred(1) = AtId + IdLen
    /\ AtCred(2) \in Nat /\ AtCred(2) = AtCred(1) + CredLen
    /\ AtCred(3) \in Nat /\ AtCred(3) = AtCred(2) + CredLen
    /\ AtCred(4) \in Nat /\ AtCred(4) = AtCred(3) + CredLen
    /\ ImageLen \in Nat /\ ImageLen = AtCred(4) + CredLen
<1>1. AddrLen \in Nat /\ IdLen \in Nat /\ CredLen \in Nat
    BY CodecAssumption
<1>2. /\ AtIp = 4 /\ AtPrefix \in Nat /\ AtPrefix = 4 + AddrLen
      /\ AtGateway \in Nat /\ AtGateway = AtPrefix + 1 + 3
      /\ AtBroker \in Nat /\ AtBroker = AtGateway + AddrLen
      /\ AtPort \in Nat /\ AtPort = AtBroker + AddrLen
      /\ AtId \in Nat /\ AtId = AtPort + 2 + 1
    BY <1>1 DEF AtIp, AtPrefix, AtGateway, AtBroker, AtPort, AtId
<1>3. /\ AtCred(1) = AtId + IdLen /\ AtCred(2) = AtId + IdLen + CredLen
      /\ AtCred(3) = AtId + IdLen + CredLen + CredLen
      /\ AtCred(4) = AtId + IdLen + CredLen + CredLen + CredLen
      /\ ImageLen = AtId + IdLen + CredLen + CredLen + CredLen + CredLen
    BY <1>1, <1>2 DEF AtCred, ImageLen
<1> QED BY <1>1, <1>2, <1>3

\* write_str fills a slot with bytes.
LEMMA SlotImage ==
    ASSUME NEW len \in Nat, NEW s \in Text(len)
    PROVE  Image(Slot(s, len), len)
<1>1. s \in Seq(Byte) /\ Len(s) <= len
    BY DEF Text
<1>2. ASSUME NEW i \in 1..len PROVE (IF i <= Len(s) THEN s[i] ELSE 0) \in Byte
  <2>1. 0 \in Byte /\ Len(s) \in Nat
      BY <1>1 DEF Byte
  <2>2. i <= Len(s) => i \in 1..Len(s)
      BY <2>1
  <2>3. \A j \in 1..Len(s) : s[j] \in Byte
      BY <1>1
  <2> QED BY <2>1, <2>2, <2>3
<1>3. Slot(s, len) \in [1..len -> Byte]
    BY <1>2 DEF Slot
<1> QED BY <1>3, FunctionIsImage

\* The fields of a configuration.
LEMMA ConfigFields ==
    ASSUME NEW c, NetworkConfig(c)
    PROVE  /\ c.ip \in Address /\ c.gateway \in Address /\ c.broker \in Address
           /\ c.prefix \in 1..32 /\ c.port \in 1..MaxPort /\ c.id \in Text(IdLen)
           /\ c.mqtt_user \in Text(CredLen) /\ c.mqtt_pass \in Text(CredLen)
           /\ c.web_user \in Text(CredLen) /\ c.web_pass \in Text(CredLen)
BY DEF NetworkConfig

\* The port is two bytes, the high one first.
LEMMA PortBytes ==
    ASSUME NEW port \in 1..MaxPort
    PROVE  /\ port \div 256 \in Byte /\ port % 256 \in Byte
           /\ (port \div 256) * 256 + (port % 256) = port
<1>1. port \in Nat \ {0} /\ port <= 65535
    BY DEF MaxPort
<1>2. port \div 256 \in 0..255
    BY <1>1, SMT
<1>3. port % 256 \in 0..255
    BY <1>1, SMT
<1>4. (port \div 256) * 256 + (port % 256) = port
    BY <1>1, SMT
<1> QED BY <1>2, <1>3, <1>4, Zenon DEF Byte

\* to_bytes puts every field at its offset and makes an image of LEN bytes.
LEMMA ToBytesLayout ==
    ASSUME NEW c, NetworkConfig(c), NEW b, b = ToBytes(c)
    PROVE  /\ Image(b, ImageLen)
           /\ PlacedAt(b, 0, Magic)
           /\ PlacedAt(b, AtIp, c.ip)
           /\ PlacedAt(b, AtPrefix, <<c.prefix>>)
           /\ PlacedAt(b, AtGateway, c.gateway)
           /\ PlacedAt(b, AtBroker, c.broker)
           /\ PlacedAt(b, AtPort, <<c.port \div 256, c.port % 256>>)
           /\ PlacedAt(b, AtId, Slot(c.id, IdLen))
           /\ PlacedAt(b, AtCred(1), Slot(c.mqtt_user, CredLen))
           /\ PlacedAt(b, AtCred(2), Slot(c.mqtt_pass, CredLen))
           /\ PlacedAt(b, AtCred(3), Slot(c.web_user, CredLen))
           /\ PlacedAt(b, AtCred(4), Slot(c.web_pass, CredLen))
<1> DEFINE p1 == Magic
           p2 == p1 \o c.ip
           p3 == p2 \o <<c.prefix>>
           p4 == p3 \o <<0, 0, 0>>
           p5 == p4 \o c.gateway
           p6 == p5 \o c.broker
           p7 == p6 \o <<c.port \div 256, c.port % 256>>
           p8 == p7 \o <<0>>
           p9 == p8 \o Slot(c.id, IdLen)
           p10 == p9 \o Slot(c.mqtt_user, CredLen)
           p11 == p10 \o Slot(c.mqtt_pass, CredLen)
           p12 == p11 \o Slot(c.web_user, CredLen)
           p13 == p12 \o Slot(c.web_pass, CredLen)
<1>1. b = p13
    BY DEF ToBytes
<1> HIDE DEF p1, p2, p3, p4, p5, p6, p7,
            p8, p9, p10, p11, p12, p13
<1>2. /\ c.ip \in Address /\ c.gateway \in Address /\ c.broker \in Address
      /\ c.prefix \in Byte /\ c.port \div 256 \in Byte /\ c.port % 256 \in Byte
      /\ c.id \in Text(IdLen)
      /\ c.mqtt_user \in Text(CredLen) /\ c.mqtt_pass \in Text(CredLen)
      /\ c.web_user \in Text(CredLen) /\ c.web_pass \in Text(CredLen)
  <2>1. 1..32 \subseteq Byte
      BY DEF Byte
  <2> QED BY <2>1, ConfigFields, PortBytes
<1>3. /\ Image(Magic, 4) /\ Image(<<c.prefix>>, 1) /\ Image(<<0, 0, 0>>, 3)
      /\ Image(<<c.port \div 256, c.port % 256>>, 2) /\ Image(<<0>>, 1)
    BY <1>2 DEF Image, Magic, Byte
<1>4. /\ Image(c.ip, AddrLen) /\ Image(c.gateway, AddrLen) /\ Image(c.broker, AddrLen)
    BY <1>2, Offsets, FunctionIsImage DEF Address
<1>5. /\ Image(Slot(c.id, IdLen), IdLen)
      /\ Image(Slot(c.mqtt_user, CredLen), CredLen)
      /\ Image(Slot(c.mqtt_pass, CredLen), CredLen)
      /\ Image(Slot(c.web_user, CredLen), CredLen)
      /\ Image(Slot(c.web_pass, CredLen), CredLen)
    BY <1>2, Offsets, SlotImage
<1>6. Image(p1, 4)
    BY <1>3 DEF p1
<1>7. Image(p2, AtPrefix)
    BY <1>4, <1>6, Offsets, ConcatImage DEF p2
<1>8. Image(p3, AtPrefix + 1)
    BY <1>3, <1>7, Offsets, ConcatImage DEF p3
<1>9. Image(p4, AtGateway)
    BY <1>3, <1>8, Offsets, ConcatImage DEF p4
<1>10. Image(p5, AtBroker)
    BY <1>4, <1>9, Offsets, ConcatImage DEF p5
<1>11. Image(p6, AtPort)
    BY <1>4, <1>10, Offsets, ConcatImage DEF p6
<1>12. Image(p7, AtPort + 2)
    BY <1>3, <1>11, Offsets, ConcatImage DEF p7
<1>13. Image(p8, AtId)
    BY <1>3, <1>12, Offsets, ConcatImage DEF p8
<1>14. Image(p9, AtCred(1))
    BY <1>5, <1>13, Offsets, ConcatImage DEF p9
<1>15. Image(p10, AtCred(2))
    BY <1>5, <1>14, Offsets, ConcatImage DEF p10
<1>16. Image(p11, AtCred(3))
    BY <1>5, <1>15, Offsets, ConcatImage DEF p11
<1>17. Image(p12, AtCred(4))
    BY <1>5, <1>16, Offsets, ConcatImage DEF p12
<1>18. Image(p13, ImageLen)
    BY <1>5, <1>17, Offsets, ConcatImage DEF p13
<1>19. StartsWith(b, p13, ImageLen)
    BY <1>1 DEF StartsWith
<1>20. StartsWith(b, p12, AtCred(4)) /\ PlacedAt(b, AtCred(4), Slot(c.web_pass, CredLen))
    BY <1>5, <1>17, <1>19, Offsets, PartPlaced DEF p13
<1>21. StartsWith(b, p11, AtCred(3)) /\ PlacedAt(b, AtCred(3), Slot(c.web_user, CredLen))
    BY <1>5, <1>16, <1>20, Offsets, PartPlaced DEF p12
<1>22. StartsWith(b, p10, AtCred(2)) /\ PlacedAt(b, AtCred(2), Slot(c.mqtt_pass, CredLen))
    BY <1>5, <1>15, <1>21, Offsets, PartPlaced DEF p11
<1>23. StartsWith(b, p9, AtCred(1)) /\ PlacedAt(b, AtCred(1), Slot(c.mqtt_user, CredLen))
    BY <1>5, <1>14, <1>22, Offsets, PartPlaced DEF p10
<1>24. StartsWith(b, p8, AtId) /\ PlacedAt(b, AtId, Slot(c.id, IdLen))
    BY <1>5, <1>13, <1>23, Offsets, PartPlaced DEF p9
<1>25. StartsWith(b, p7, AtPort + 2) /\ PlacedAt(b, AtPort + 2, <<0>>)
    BY <1>3, <1>12, <1>24, Offsets, PartPlaced DEF p8
<1>26. StartsWith(b, p6, AtPort) /\ PlacedAt(b, AtPort, <<c.port \div 256, c.port % 256>>)
    BY <1>3, <1>11, <1>25, Offsets, PartPlaced DEF p7
<1>27. StartsWith(b, p5, AtBroker) /\ PlacedAt(b, AtBroker, c.broker)
    BY <1>4, <1>10, <1>26, Offsets, PartPlaced DEF p6
<1>28. StartsWith(b, p4, AtGateway) /\ PlacedAt(b, AtGateway, c.gateway)
    BY <1>4, <1>9, <1>27, Offsets, PartPlaced DEF p5
<1>29. StartsWith(b, p3, AtPrefix + 1) /\ PlacedAt(b, AtPrefix + 1, <<0, 0, 0>>)
    BY <1>3, <1>8, <1>28, Offsets, PartPlaced DEF p4
<1>30. StartsWith(b, p2, AtPrefix) /\ PlacedAt(b, AtPrefix, <<c.prefix>>)
    BY <1>3, <1>7, <1>29, Offsets, PartPlaced DEF p3
<1>31. StartsWith(b, p1, 4) /\ PlacedAt(b, 4, c.ip)
    BY <1>4, <1>6, <1>30, Offsets, PartPlaced DEF p2
<1>32. PlacedAt(b, 0, Magic)
  <2>1. \A i \in 1..4 : b[i] = Magic[i] /\ 0 + i = i
      BY <1>31 DEF StartsWith, p1
  <2>2. Len(Magic) = 4
      BY DEF Magic
  <2> QED BY <2>1, <2>2 DEF PlacedAt
<1> QED
    BY <1>1, <1>18, <1>20, <1>21, <1>22, <1>23, <1>24, <1>25, <1>26, <1>27, <1>28,
       <1>29, <1>30, <1>31, <1>32, Offsets

\* read_str finds what write_str has put into a slot, unless it holds a NUL.
LEMMA SlotRoundTrip ==
    ASSUME NEW len \in Nat, NEW s \in Text(len), NoNul(s)
    PROVE  UpToNul(Slot(s, len)) = s
<1> DEFINE slot == Slot(s, len)
           End(n) == /\ \A i \in 1..n : slot[i] # 0
                     /\ n < len => slot[n + 1] = 0
<1>1. PICK k \in Nat : k = Len(s) /\ k <= len /\ DOMAIN s = 1..k
    BY DEF Text
<1>2. s \in Seq(Byte) /\ \A i \in 1..k : s[i] # 0
    BY <1>1 DEF Text, NoNul
<1>3. /\ \A i \in 1..k : slot[i] = s[i]
      /\ k < len => slot[k + 1] = 0
    BY <1>1 DEF Slot
<1>4. slot \in Seq(Byte) /\ Len(slot) = len
    BY SlotImage DEF Image
<1> HIDE DEF slot
<1>5. End(k) /\ k \in 0..len
    BY <1>1, <1>2, <1>3
<1>6. \A n \in 0..len : End(n) => n = k
  <2> SUFFICES ASSUME NEW n \in 0..len, End(n) PROVE n = k
      OBVIOUS
  <2>1. CASE n < k
    <3>1. n + 1 \in 1..k /\ n < len
        BY <1>1, <2>1
    <3> QED BY <1>2, <1>3, <3>1
  <2>2. CASE n > k
    <3>1. k + 1 \in 1..n /\ k < len
        BY <1>1, <2>2
    <3> QED BY <1>3, <3>1
  <2> QED BY <2>1, <2>2
<1>7. UpToNul(slot) = SubSeq(slot, 1, CHOOSE n \in 0..len : End(n))
    BY <1>4 DEF UpToNul
<1> HIDE DEF End
<1>8. (CHOOSE n \in 0..len : End(n)) = k
    BY <1>5, <1>6
<1>9. SubSeq(slot, 1, k) = s
  <2>1. SubSeq(slot, 1, k) = [i \in 1..k |-> slot[i]]
      BY <1>1, <1>4
  <2>2. s = [i \in 1..k |-> s[i]]
      BY <1>1, <1>2
  <2> QED BY <1>3, <2>1, <2>2
<1> QED BY <1>7, <1>8, <1>9 DEF slot

\* A credential that was written to its slot is read back.
LEMMA CredRoundTrip ==
    ASSUME NEW b, Image(b, ImageLen), NEW off \in Nat, off + CredLen <= ImageLen,
           NEW s \in Text(CredLen), NoNul(s), PlacedAt(b, off, Slot(s, CredLen))
    PROVE  ReadStr(Slice(b, off, CredLen)) = s
<1>1. Image(Slot(s, CredLen), CredLen)
    BY Offsets, SlotImage
<1>2. Slice(b, off, CredLen) = Slot(s, CredLen)
    BY <1>1, Offsets, SliceOfPlaced
<1>3. UpToNul(Slot(s, CredLen)) = s
    BY Offsets, SlotRoundTrip
<1>4. Utf8(s)
    BY DEF Text
<1> QED BY <1>2, <1>3, <1>4 DEF ReadStr

\* logic/src/config.rs: from_bytes accepts what to_bytes has made, and returns
\* the same configuration, for every width of the fields.
THEOREM RoundTrip ==
    ASSUME NEW c, NetworkConfig(c), NoNulIn(c)
    PROVE  FromBytes(ToBytes(c)) = c
<1> DEFINE b == ToBytes(c)
<1>1. /\ Image(b, ImageLen)
      /\ PlacedAt(b, 0, Magic) /\ PlacedAt(b, AtIp, c.ip)
      /\ PlacedAt(b, AtPrefix, <<c.prefix>>)
      /\ PlacedAt(b, AtGateway, c.gateway) /\ PlacedAt(b, AtBroker, c.broker)
      /\ PlacedAt(b, AtPort, <<c.port \div 256, c.port % 256>>)
      /\ PlacedAt(b, AtId, Slot(c.id, IdLen))
      /\ PlacedAt(b, AtCred(1), Slot(c.mqtt_user, CredLen))
      /\ PlacedAt(b, AtCred(2), Slot(c.mqtt_pass, CredLen))
      /\ PlacedAt(b, AtCred(3), Slot(c.web_user, CredLen))
      /\ PlacedAt(b, AtCred(4), Slot(c.web_pass, CredLen))
    BY ToBytesLayout
<1> HIDE DEF b
<1>2. Slice(b, 0, 4) = Magic
  <2>1. Image(Magic, 4)
      BY DEF Image, Magic, Byte
  <2> QED BY <1>1, <2>1, Offsets, SliceOfPlaced
<1>3. /\ Image(c.ip, AddrLen) /\ Image(c.gateway, AddrLen) /\ Image(c.broker, AddrLen)
    BY ConfigFields, Offsets, FunctionIsImage DEF Address
<1>4. Slice(b, AtIp, AddrLen) = c.ip
    BY <1>1, <1>3, Offsets, SliceOfPlaced
<1>5. Slice(b, AtGateway, AddrLen) = c.gateway
    BY <1>1, <1>3, Offsets, SliceOfPlaced
<1>6. Slice(b, AtBroker, AddrLen) = c.broker
    BY <1>1, <1>3, Offsets, SliceOfPlaced
<1>7. b[AtPrefix + 1] = c.prefix
    BY <1>1 DEF PlacedAt
<1>8. b[AtPort + 1] = c.port \div 256 /\ b[AtPort + 2] = c.port % 256
    BY <1>1 DEF PlacedAt
<1>9. PortOf(b) = c.port
    BY <1>8, ConfigFields, PortBytes DEF PortOf
<1>10. IdOf(b) = c.id
  <2>1. Image(Slot(c.id, IdLen), IdLen)
      BY ConfigFields, Offsets, SlotImage
  <2>2. Slice(b, AtId, IdLen) = Slot(c.id, IdLen)
      BY <1>1, <2>1, Offsets, SliceOfPlaced
  <2>3. UpToNul(Slot(c.id, IdLen)) = c.id
      BY ConfigFields, Offsets, SlotRoundTrip DEF NoNulIn
  <2> QED BY <2>2, <2>3 DEF IdOf
<1>11. ReadStr(Slice(b, AtCred(1), CredLen)) = c.mqtt_user
    BY <1>1, ConfigFields, Offsets, CredRoundTrip DEF NoNulIn
<1>12. ReadStr(Slice(b, AtCred(2), CredLen)) = c.mqtt_pass
    BY <1>1, ConfigFields, Offsets, CredRoundTrip DEF NoNulIn
<1>13. ReadStr(Slice(b, AtCred(3), CredLen)) = c.web_user
    BY <1>1, ConfigFields, Offsets, CredRoundTrip DEF NoNulIn
<1>14. ReadStr(Slice(b, AtCred(4), CredLen)) = c.web_pass
    BY <1>1, ConfigFields, Offsets, CredRoundTrip DEF NoNulIn
<1>15. Accepts(b)
  <2>1. c.prefix \in 1..32 /\ c.port # 0 /\ Utf8(c.id)
      BY ConfigFields DEF Text
  <2> QED BY <1>2, <1>7, <1>9, <1>10, <2>1 DEF Accepts
<1>16. Parsed(b) = Fields(c)
    BY <1>4, <1>5, <1>6, <1>7, <1>9, <1>10, <1>11, <1>12, <1>13, <1>14
    DEF Parsed, Fields
<1>17. c = Fields(c)
    BY DEF NetworkConfig
<1> QED BY <1>15, <1>16, <1>17 DEF FromBytes, b

-----------------------------------------------------------------------------
(* The inductive invariant.                                                *)

\* The image of configuration c is on the chip up to byte n.
OnChip(c, n) == \A i \in 1..n : mem[CfgBase + i - 1] = ToBytes(c)[i]

\* The task that writes is the one that holds the mutex.
MutexInv ==
    /\ owner \in Tasks \union {"free"}
    /\ \A t \in Tasks : pc[t] = "write" <=> owner = t
    /\ \A t \in Tasks : at[t] \in 0..Size(t)

\* What a web task writes is valid; up to its current byte it is on the chip.
FormInv ==
    /\ DOMAIN form = Web
    /\ \A w \in Web : pc[w] \in {"lock", "write"} => Valid(form[w])
    /\ \A w \in Web : pc[w] = "write" => OnChip(form[w], at[w])

\* An acknowledged configuration is on the chip, until a web task writes.
AckedInv ==
    /\ \A c \in acked : Valid(c)
    /\ owner \in Web => acked = {}
    /\ \A c \in acked : OnChip(c, ImageLen)

ChipType == mem \in [0..CfgBase + ImageLen - 1 -> Byte]

ConfigInv ==
    /\ ChipType /\ MutexInv /\ FormInv /\ AckedInv /\ Valid(cfg)
    /\ led \in [Leds -> {0, 1}]

\* The images lie on the chip.
LEMMA CfgAddresses ==
    /\ \A i \in 1..ImageLen : CfgBase + i - 1 \in 16..CfgBase + ImageLen - 1
    /\ 0..7 \subseteq 0..CfgBase + ImageLen - 1
    /\ CfgBase = 16 /\ ImageLen \in Nat
BY Offsets DEF CfgBase

\* A part of an image is a sequence of bytes.
LEMMA SliceType ==
    ASSUME NEW m \in Nat, NEW b \in [1..m -> Byte], NEW off \in Nat, NEW k \in Nat,
           off + k <= m
    PROVE  Slice(b, off, k) \in [1..k -> Byte]
<1>1. Slice(b, off, k) = [i \in 1..k |-> b[off + i]]
    BY DEF Slice
<1>2. ASSUME NEW i \in 1..k PROVE b[off + i] \in Byte
  <2>1. off + i \in 1..m
      OBVIOUS
  <2> QED BY <2>1
<1> QED BY <1>1, <1>2

\* A slot has an end: what is read from it is a text without a NUL.
LEMMA UpToNulType ==
    ASSUME NEW k \in Nat, NEW slot \in [1..k -> Byte]
    PROVE  /\ UpToNul(slot) \in Seq(Byte) /\ Len(UpToNul(slot)) <= k
           /\ NoNul(UpToNul(slot))
<1> DEFINE End(n) == /\ \A i \in 1..n : slot[i] # 0
                     /\ n < k => slot[n + 1] = 0
           Stop == {n \in 0..k : n < k => slot[n + 1] = 0}
<1>1. slot \in Seq(Byte) /\ Len(slot) = k
    OBVIOUS
<1>2. Stop \subseteq Nat /\ k \in Stop
    OBVIOUS
<1>3. PICK n \in Stop : \A m \in Stop : n <= m
    BY <1>2, Least
<1>4. End(n)
  <2>1. ASSUME NEW i \in 1..n, slot[i] = 0 PROVE FALSE
    <3>1. i - 1 \in 0..k /\ (i - 1) + 1 = i
        BY <1>3
    <3>2. i - 1 \in Stop
        BY <2>1, <3>1
    <3>3. i - 1 < n /\ n \in Nat
        BY <1>2
    <3> QED BY <1>3, <3>1, <3>2, <3>3
  <2> QED BY <1>3, <2>1
<1>5. UpToNul(slot) = SubSeq(slot, 1, CHOOSE e \in 0..k : End(e))
    BY <1>1 DEF UpToNul
<1>6. n \in 0..k
    OBVIOUS
<1> HIDE DEF End, Stop
<1>7. PICK e \in 0..k : e = (CHOOSE x \in 0..k : End(x)) /\ End(e)
    BY <1>4, <1>6
<1> DEFINE t == SubSeq(slot, 1, e)
<1>8. t = [i \in 1..e |-> slot[i]] /\ e \in Nat /\ e <= k
    BY <1>1
<1>9. \A i \in 1..e : slot[i] \in Byte /\ slot[i] # 0
    BY <1>7 DEF End
<1> HIDE DEF t
<1>10. t \in Seq(Byte) /\ Len(t) <= k /\ NoNul(t)
    BY <1>8, <1>9 DEF NoNul
<1> QED BY <1>5, <1>7, <1>10 DEF t

LEMMA ReadStrType ==
    ASSUME NEW k \in Nat, NEW slot \in [1..k -> Byte]
    PROVE  ReadStr(slot) \in Text(k) /\ NoNul(ReadStr(slot))
<1>1. <<>> \in Text(k) /\ NoNul(<<>>)
    BY DEF Text, Utf8, NoNul
<1> QED BY <1>1, UpToNulType DEF ReadStr, Text

\* Every field lies inside the image.
LEMMA OffsetBounds ==
    /\ AtIp + AddrLen <= ImageLen /\ AtPrefix + 1 <= ImageLen
    /\ AtGateway + AddrLen <= ImageLen /\ AtBroker + AddrLen <= ImageLen
    /\ AtPort + 2 <= ImageLen /\ AtId + IdLen <= ImageLen
    /\ AtCred(1) + CredLen <= ImageLen /\ AtCred(2) + CredLen <= ImageLen
    /\ AtCred(3) + CredLen <= ImageLen /\ AtCred(4) + CredLen <= ImageLen
<1>1. PICK a \in Nat, d \in Nat, k \in Nat : a = AddrLen /\ d = IdLen /\ k = CredLen
    BY Offsets
<1>2. /\ AtIp = 4 /\ AtPrefix = 4 + a /\ AtGateway = 8 + a
      /\ AtBroker = 8 + 2 * a /\ AtPort = 8 + 3 * a /\ AtId = 11 + 3 * a
    BY <1>1, Offsets
<1>3. /\ AtCred(1) = 11 + 3 * a + d /\ AtCred(2) = 11 + 3 * a + d + k
      /\ AtCred(3) = 11 + 3 * a + d + 2 * k /\ AtCred(4) = 11 + 3 * a + d + 3 * k
      /\ ImageLen = 11 + 3 * a + d + 4 * k
  <2>1. AtCred(1) = 11 + 3 * a + d
      BY <1>1, <1>2, Offsets
  <2>2. AtCred(2) = 11 + 3 * a + d + k
      BY <1>1, <2>1, Offsets
  <2>3. AtCred(3) = 11 + 3 * a + d + 2 * k
      BY <1>1, <2>2, Offsets
  <2>4. AtCred(4) = 11 + 3 * a + d + 3 * k
      BY <1>1, <2>3, Offsets
  <2>5. ImageLen = 11 + 3 * a + d + 4 * k
      BY <1>1, <2>4, Offsets
  <2> QED BY <2>1, <2>2, <2>3, <2>4, <2>5
<1> QED BY <1>1, <1>2, <1>3

\* from_bytes accepts only what makes a configuration that works.
LEMMA ParsedValid ==
    ASSUME NEW b \in [1..ImageLen -> Byte], Accepts(b)
    PROVE  Valid(Parsed(b))
<1>1. /\ Slice(b, AtIp, AddrLen) \in Address
      /\ Slice(b, AtGateway, AddrLen) \in Address
      /\ Slice(b, AtBroker, AddrLen) \in Address
    BY Offsets, OffsetBounds, SliceType DEF Address
<1>2. IdOf(b) \in Text(IdLen) /\ NoNul(IdOf(b))
  <2>1. Slice(b, AtId, IdLen) \in [1..IdLen -> Byte]
      BY Offsets, OffsetBounds, SliceType
  <2> QED BY <2>1, Offsets, UpToNulType DEF IdOf, Text, Accepts
<1>3. ASSUME NEW off \in Nat, off + CredLen <= ImageLen
      PROVE  /\ ReadStr(Slice(b, off, CredLen)) \in Text(CredLen)
             /\ NoNul(ReadStr(Slice(b, off, CredLen)))
  <2>1. Slice(b, off, CredLen) \in [1..CredLen -> Byte]
      BY <1>3, Offsets, SliceType
  <2> QED BY <2>1, Offsets, ReadStrType
<1>4. /\ AtCred(1) + CredLen <= ImageLen /\ AtCred(2) + CredLen <= ImageLen
      /\ AtCred(3) + CredLen <= ImageLen /\ AtCred(4) + CredLen <= ImageLen
    BY OffsetBounds
<1>5. b[AtPrefix + 1] \in 1..32 /\ PortOf(b) # 0
    BY DEF Accepts
<1>6. PortOf(b) \in 1..MaxPort
  <2>1. AtPort + 1 \in 1..ImageLen /\ AtPort + 2 \in 1..ImageLen
    <3>1. PICK p \in Nat, m \in Nat : p = AtPort /\ m = ImageLen
        BY Offsets
    <3>2. p + 2 <= m
        BY <3>1, OffsetBounds
    <3>3. p + 1 \in 1..m /\ p + 2 \in 1..m
        BY <3>2
    <3> QED BY <3>1, <3>3
  <2>2. PICK hi \in 0..255, lo \in 0..255 : PortOf(b) = hi * 256 + lo
      BY <2>1 DEF PortOf, Byte
  <2>3. PICK p \in Nat : p = hi * 256 + lo /\ p <= MaxPort
      BY DEF MaxPort
  <2>4. MaxPort \in Nat /\ p # 0
      BY <1>5, <2>2, <2>3 DEF MaxPort
  <2> QED BY <2>2, <2>3, <2>4
<1> DEFINE c == Parsed(b)
<1>7. /\ c.ip = Slice(b, AtIp, AddrLen) /\ c.prefix = b[AtPrefix + 1]
      /\ c.gateway = Slice(b, AtGateway, AddrLen)
      /\ c.broker = Slice(b, AtBroker, AddrLen)
      /\ c.port = PortOf(b) /\ c.id = IdOf(b)
      /\ c.mqtt_user = ReadStr(Slice(b, AtCred(1), CredLen))
      /\ c.mqtt_pass = ReadStr(Slice(b, AtCred(2), CredLen))
      /\ c.web_user = ReadStr(Slice(b, AtCred(3), CredLen))
      /\ c.web_pass = ReadStr(Slice(b, AtCred(4), CredLen))
      /\ c = Fields(c)
    BY DEF Parsed, Fields
<1> HIDE DEF c
<1>8. NetworkConfig(c)
    BY <1>1, <1>2, <1>3, <1>4, <1>5, <1>6, <1>7, Offsets DEF NetworkConfig
<1>9. NoNulIn(c)
    BY <1>2, <1>3, <1>4, <1>7, Offsets DEF NoNulIn
<1> QED BY <1>8, <1>9 DEF Valid, c

\* So do the defaults.
LEMMA DefaultValid == Valid(Default)
<1>1. PICK a \in 0..4 : a = AddrLen
    BY CodecAssumption
<1>2. ASSUME NEW x \in Byte
      PROVE  SubSeq(<<192, 168, 137, x>>, 5 - AddrLen, 4) \in Address
  <2> DEFINE s == <<192, 168, 137, x>>
  <2>1. s \in Seq(Byte) /\ Len(s) = 4
      BY DEF Byte
  <2>2. \A i \in 1..4 : s[i] \in Byte
      BY <2>1
  <2> HIDE DEF s
  <2>3. PICK k \in 1..5 : k = 5 - a
      BY <1>1
  <2>4. SubSeq(s, k, 4) = [i \in 1..4 - k + 1 |-> s[k + i - 1]]
      BY <2>1, <2>3
  <2>5. 4 - k + 1 = a
      BY <2>3
  <2>6. ASSUME NEW i \in 1..a PROVE s[k + i - 1] \in Byte
    <3>1. k + i - 1 \in 1..4
        BY <2>3
    <3> QED BY <2>2, <3>1
  <2>7. SubSeq(s, k, 4) \in [1..a -> Byte]
      BY <2>4, <2>5, <2>6
  <2> QED BY <1>1, <2>3, <2>7 DEF Address, s
<1> DEFINE name == <<115, 116, 109, 51, 50, 45, 106, 122, 102, 52, 48, 55>>
           n == IF IdLen < 12 THEN IdLen ELSE 12
           id == SubSeq(name, 1, n)
           Letter(x) == x \in Nat /\ 1 <= x /\ x < 128
<1>3. id \in Text(IdLen) /\ NoNul(id)
  <2>1. Len(name) = 12
      OBVIOUS
  <2>2. ASSUME NEW i \in 1..12 PROVE Letter(name[i])
    <3>1. /\ Letter(115) /\ Letter(116) /\ Letter(109) /\ Letter(51)
          /\ Letter(50) /\ Letter(45) /\ Letter(106) /\ Letter(122)
          /\ Letter(102) /\ Letter(52) /\ Letter(48) /\ Letter(55)
        OBVIOUS
    <3> HIDE DEF Letter
    <3>2. i \in {1, 2, 3, 4, 5, 6, 7, 8, 9, 10, 11, 12}
        OBVIOUS
    <3> QED BY <3>1, <3>2
  <2>3. name \in Seq(Nat)
      OBVIOUS
  <2> HIDE DEF name, Letter
  <2>4. n \in 0..12 /\ n <= IdLen
      BY CodecAssumption
  <2> HIDE DEF n
  <2>5. id = [i \in 1..n |-> name[i]]
      BY <2>1, <2>3, <2>4
  <2>6. \A i \in 1..n : Letter(name[i])
      BY <2>2, <2>4
  <2> HIDE DEF id
  <2>7. \A i \in 1..n : name[i] \in Byte /\ name[i] < 128 /\ name[i] # 0
    <3>1. \A x : Letter(x) => x \in Byte /\ x < 128 /\ x # 0
        BY DEF Letter, Byte
    <3> QED BY <2>6, <3>1
  <2>8. id \in Seq(Byte) /\ Len(id) = n /\ DOMAIN id = 1..n
      BY <2>4, <2>5, <2>7
  <2>9. \A i \in DOMAIN id : id[i] < 128 /\ id[i] # 0
      BY <2>5, <2>7, <2>8
  <2> QED BY <2>4, <2>8, <2>9 DEF Text, Utf8, NoNul
<1>4. <<>> \in Text(CredLen) /\ NoNul(<<>>)
    BY CodecAssumption DEF Text, Utf8, NoNul
<1>5. 1 \in Byte /\ 2 \in Byte /\ 24 \in 1..32 /\ 1883 \in 1..MaxPort
    BY DEF Byte, MaxPort
<1> DEFINE c == Default
<1>6. /\ c.ip = SubSeq(<<192, 168, 137, 2>>, 5 - AddrLen, 4) /\ c.prefix = 24
      /\ c.gateway = SubSeq(<<192, 168, 137, 1>>, 5 - AddrLen, 4)
      /\ c.broker = SubSeq(<<192, 168, 137, 1>>, 5 - AddrLen, 4)
      /\ c.port = 1883 /\ c.id = id
      /\ c.mqtt_user = <<>> /\ c.mqtt_pass = <<>>
      /\ c.web_user = <<>> /\ c.web_pass = <<>>
    BY DEF Default
<1>7. c = Fields(c)
    BY DEF Default, Fields
<1> HIDE DEF c, id
<1>8. NetworkConfig(c)
    BY <1>2, <1>3, <1>4, <1>5, <1>6, <1>7 DEF NetworkConfig
<1>9. NoNulIn(c)
    BY <1>3, <1>4, <1>6 DEF NoNulIn
<1> QED BY <1>8, <1>9 DEF Valid, c

\* Whatever the chip holds, load_config returns a configuration that works.
LEMMA StoredConfigValid ==
    ASSUME ChipType
    PROVE  Valid(StoredConfig)
<1> DEFINE b == Read(CfgBase, ImageLen)
<1>1. b \in [1..ImageLen -> Byte]
  <2> SUFFICES ASSUME NEW i \in 1..ImageLen PROVE mem[CfgBase + i - 1] \in Byte
      BY DEF Read
  <2>1. CfgBase + i - 1 \in 0..CfgBase + ImageLen - 1
      BY CfgAddresses
  <2> QED BY <2>1 DEF ChipType
<1> HIDE DEF b
<1>2. Valid(FromBytes(b))
    BY <1>1, ParsedValid, DefaultValid DEF FromBytes
<1> QED BY <1>2 DEF StoredConfig, b

\* load_config of a chip that holds the image of a configuration.
LEMMA OnChipStored ==
    ASSUME NEW c, Valid(c), OnChip(c, ImageLen)
    PROVE  StoredConfig = c
<1>1. NetworkConfig(c) /\ NoNulIn(c)
    BY DEF Valid
<1> DEFINE b == ToBytes(c)
<1>2. b \in Seq(Byte) /\ Len(b) = ImageLen
    BY <1>1, ToBytesLayout DEF Image
<1> HIDE DEF b
<1>3. b = [i \in 1..ImageLen |-> b[i]]
    BY <1>2
<1>4. Read(CfgBase, ImageLen) = [i \in 1..ImageLen |-> b[i]]
    BY DEF Read, OnChip, b
<1>5. Read(CfgBase, ImageLen) = b
    BY <1>3, <1>4
<1>6. FromBytes(b) = c
    BY <1>1, RoundTrip DEF b
<1> QED BY <1>5, <1>6 DEF StoredConfig

\* The chip as it is delivered.
LEMMA InitChip == Init => ChipType
<1> SUFFICES ASSUME Init PROVE ChipType
    OBVIOUS
<1>1. \A i \in 1..8 : LedBytes(Dark)[i] \in Byte
    BY DEF LedBytes, LedMagic, Dark, Leds, Byte
<1>2. 255 \in Byte
    BY DEF Byte
<1>3. ASSUME NEW a \in 0..CfgBase + ImageLen - 1
      PROVE  (IF Formatted /\ a < 8 THEN LedBytes(Dark)[a + 1] ELSE 255) \in Byte
  <2>1. a < 8 => a + 1 \in 1..8
      BY Offsets DEF CfgBase
  <2> QED BY <1>1, <1>2, <2>1
<1> QED BY <1>3 DEF Init, BlankMem, ChipType

LEMMA InitConfigInv == Init => ConfigInv
<1> SUFFICES ASSUME Init PROVE ConfigInv
    OBVIOUS
<1>1. ChipType
    BY InitChip
<1>2. MutexInv
  <2>1. \A t \in Tasks : Size(t) \in Nat /\ t # "free"
      BY SizeFacts, Offsets, StorageAssumption DEF Tasks
  <2> QED BY <2>1 DEF Init, MutexInv
<1>3. FormInv /\ AckedInv
    BY StorageAssumption DEF Init, FormInv, AckedInv, Tasks
<1>4. Valid(cfg)
    BY <1>1, StoredConfigValid DEF Init
<1>5. led \in [Leds -> {0, 1}]
    BY InitLedInv DEF Init, LedInv, LedTaskType
<1> QED BY <1>1, <1>2, <1>3, <1>4, <1>5 DEF ConfigInv

-----------------------------------------------------------------------------
(* Every step preserves it.                                                *)

\* A boot abandons every write; the chip keeps what it holds.
LEMMA BootConfigInv ==
    ASSUME ConfigInv, LedInv, NEW r1 \in BOOLEAN, NEW r2 \in BOOLEAN, Boot(r1, r2)
    PROVE  ConfigInv'
<1>1. mem' = mem /\ acked' = acked /\ owner' = "free"
      /\ pc' = [t \in Tasks |-> "idle"] /\ at' = [t \in Tasks |-> 0]
      /\ form' = [w \in Web |-> Default]
    BY DEF Boot
<1>2. ChipType'
    BY <1>1 DEF ConfigInv, ChipType
<1>3. MutexInv'
  <2>1. \A t \in Tasks : Size(t) \in Nat /\ t # "free"
      BY SizeFacts, Offsets, StorageAssumption DEF Tasks
  <2> QED BY <1>1, <2>1 DEF MutexInv, Size
<1>4. FormInv'
    BY <1>1 DEF FormInv, Tasks
<1>5. AckedInv'
    BY <1>1, StorageAssumption DEF ConfigInv, AckedInv, OnChip, Tasks
<1>6. Valid(cfg')
    BY DefaultValid, StoredConfigValid DEF Boot, ConfigInv
<1>7. (led \in [Leds -> {0, 1}])'
  <2>1. cache' \in [Leds -> {0, 1}]
    <3>1. StoredLeds \in [Leds -> {0, 1}]
        BY StoredLedsType DEF LedInv, LedRecordType
    <3> QED BY <3>1 DEF Boot, Dark
  <2> QED BY <2>1 DEF Boot, Pins
<1> QED BY <1>2, <1>3, <1>4, <1>5, <1>6, <1>7 DEF ConfigInv

\* One byte of the LED record.
LEMMA WriteLedConfigInv ==
    ASSUME ConfigInv, LedInv, WriteByte(Mqtt)
    PROVE  ConfigInv'
<1> DEFINE a == at[Mqtt]
<1>1. /\ pc[Mqtt] = "write" /\ a \in 0..7
      /\ at' = [at EXCEPT ![Mqtt] = a + 1]
      /\ UNCHANGED <<owner, pc, led, cfg, form, acked>>
    BY SizeFacts DEF WriteByte, LedInv, LedTaskType, ledVars, cfgVars
<1>2. (Base(Mqtt) + a) % 256 = a
    BY <1>1, SizeFacts
<1>3. mem' = [mem EXCEPT ![a] = LedBytes(want)[a + 1]]
    BY <1>2 DEF WriteByte, Data
<1>4. at \in [Tasks -> Nat] /\ Mqtt \in Tasks
    BY SizeFacts DEF LedInv, LedTaskType
<1> HIDE DEF a
<1>5. LedBytes(want)[a + 1] \in Byte
  <2>1. want[1] \in Byte /\ want[2] \in Byte
      BY DEF LedInv, LedTaskType, Leds, Byte
  <2>2. \A i \in 1..8 : LedBytes(want)[i] \in Byte
      BY <2>1 DEF LedBytes, LedMagic, Byte
  <2> QED BY <1>1, <2>2
<1>6. ChipType'
    BY <1>3, <1>5 DEF ConfigInv, ChipType
<1>7. \A i \in 1..ImageLen : mem'[CfgBase + i - 1] = mem[CfgBase + i - 1]
  <2>1. \A i \in 1..ImageLen : CfgBase + i - 1 # a
      BY <1>1, CfgAddresses
  <2>2. \A i \in 1..ImageLen : CfgBase + i - 1 \in DOMAIN mem
      BY CfgAddresses DEF ConfigInv, ChipType
  <2> QED BY <1>3, <2>1, <2>2
<1>8. MutexInv'
    BY <1>1, <1>4, SizeFacts DEF ConfigInv, MutexInv, Size
<1>9. FormInv'
  <2>1. \A w \in Web : pc[w] # "write"
      BY <1>1, <1>4, StorageAssumption DEF ConfigInv, MutexInv, Tasks
  <2> QED BY <1>1, <2>1 DEF ConfigInv, FormInv
<1>10. AckedInv'
    BY <1>1, <1>7 DEF ConfigInv, AckedInv, OnChip
<1> QED
    BY <1>1, <1>6, <1>8, <1>9, <1>10 DEF ConfigInv

\* One byte of a configuration, which is then on the chip up to that byte.
LEMMA WriteCfgConfigInv ==
    ASSUME ConfigInv, LedInv, NEW w \in Web, WriteByte(w)
    PROVE  ConfigInv'
<1>0. w \in Tasks /\ w # Mqtt /\ at \in [Tasks -> Nat]
    BY StorageAssumption DEF Tasks, LedInv, LedTaskType
<1>1. PICK n \in Nat : n = at[w] /\ n < ImageLen
    BY <1>0, SizeFacts DEF WriteByte
<1>2. /\ pc[w] = "write" /\ owner = w /\ acked = {}
      /\ at' = [at EXCEPT ![w] = n + 1]
      /\ UNCHANGED <<owner, pc, led, cfg, form, acked>>
    BY <1>0, <1>1 DEF WriteByte, ConfigInv, MutexInv, AckedInv, ledVars, cfgVars
<1>3. PICK a \in 16..CfgBase + ImageLen - 1 :
          a = CfgBase + n /\ (Base(w) + at[w]) % 256 = a
  <2>1. CfgBase + n \in 16..CfgBase + ImageLen - 1
      BY <1>1, CfgAddresses
  <2>2. (Base(w) + at[w]) % 256 = CfgBase + n
      BY <1>1, <2>1, SizeFacts, CfgAddresses, ImageLenType
  <2> QED BY <2>1, <2>2
<1>4. mem' = [mem EXCEPT ![a] = ToBytes(form[w])[n + 1]]
    BY <1>0, <1>1, <1>3 DEF WriteByte, Data
<1>5. NetworkConfig(form[w])
    BY <1>2 DEF ConfigInv, FormInv, Valid
<1>6. ToBytes(form[w])[n + 1] \in Byte
  <2> DEFINE b == ToBytes(form[w])
  <2>1. b \in Seq(Byte) /\ Len(b) = ImageLen
      BY <1>5, ToBytesLayout DEF Image
  <2> HIDE DEF b
  <2>2. n + 1 \in 1..ImageLen
      BY <1>1, CfgAddresses
  <2>3. b[n + 1] \in Byte
      BY <2>1, <2>2
  <2> QED BY <2>3 DEF b
<1>7. ChipType'
    BY <1>4, <1>6 DEF ConfigInv, ChipType
<1>8. MutexInv'
  <2>1. n + 1 \in 0..Size(w)
      BY <1>1, SizeFacts, CfgAddresses
  <2> QED BY <1>0, <1>2, <2>1 DEF ConfigInv, MutexInv, Size
<1>9. OnChip(form[w], n + 1)'
  <2> SUFFICES ASSUME NEW i \in 1..n + 1
               PROVE  mem'[CfgBase + i - 1] = ToBytes(form'[w])[i]
      BY DEF OnChip
  <2>1. form' = form
      BY <1>2
  <2>2. CASE i = n + 1
    <3>1. CfgBase + i - 1 = a /\ a \in DOMAIN mem
        BY <1>3, <2>2, CfgAddresses DEF ConfigInv, ChipType
    <3> QED BY <1>4, <2>1, <2>2, <3>1
  <2>3. CASE i # n + 1
    <3>1. i \in 1..n /\ CfgBase + i - 1 # a /\ i \in 1..ImageLen
        BY <1>1, <1>3, <2>3, CfgAddresses
    <3>2. CfgBase + i - 1 \in DOMAIN mem
        BY <3>1, CfgAddresses DEF ConfigInv, ChipType
    <3>3. mem[CfgBase + i - 1] = ToBytes(form[w])[i]
        BY <1>1, <1>2, <3>1 DEF ConfigInv, FormInv, OnChip
    <3> QED BY <1>4, <2>1, <3>1, <3>2, <3>3
  <2> QED BY <2>2, <2>3
<1>10. FormInv'
  <2>1. \A v \in Web : pc[v] = "write" => v = w
      BY <1>2 DEF ConfigInv, MutexInv, Tasks
  <2>2. at'[w] = n + 1
      BY <1>0, <1>2
  <2>3. \A v \in Web : pc'[v] = "write" => OnChip(form[v], at[v])'
      BY <1>2, <1>9, <2>1, <2>2
  <2> QED BY <1>2, <2>3 DEF ConfigInv, FormInv
<1>11. AckedInv'
    BY <1>2 DEF ConfigInv, AckedInv
<1> QED
    BY <1>2, <1>7, <1>8, <1>10, <1>11 DEF ConfigInv

\* A step of the mutex, with the chip left alone: what holds of the tasks that
\* are writing has to hold of the ones that write after it.
LEMMA ConfigFrame ==
    ASSUME ConfigInv, UNCHANGED <<mem, cfg>>, (led \in [Leds -> {0, 1}])', MutexInv',
           DOMAIN form' = Web,
           \A w \in Web : pc'[w] \in {"lock", "write"} => Valid(form'[w]),
           \A w \in Web : pc'[w] = "write" =>
               (pc[w] = "write" /\ form'[w] = form[w] /\ at'[w] = at[w]) \/ at'[w] = 0,
           acked' \subseteq acked, owner' \in Web => acked' = {}
    PROVE  ConfigInv'
<1>1. ChipType' /\ Valid(cfg')
    BY DEF ConfigInv, ChipType
<1>2. FormInv'
  <2> SUFFICES ASSUME NEW w \in Web, pc'[w] = "write"
               PROVE  OnChip(form[w], at[w])'
      BY DEF FormInv
  <2>1. CASE at'[w] = 0
    <3>1. 1..at'[w] = {}
        BY <2>1
    <3> QED BY <3>1 DEF OnChip
  <2>2. CASE pc[w] = "write" /\ form'[w] = form[w] /\ at'[w] = at[w]
      BY <2>2 DEF ConfigInv, FormInv, OnChip
  <2> QED BY <2>1, <2>2
<1>3. AckedInv'
    BY DEF ConfigInv, AckedInv, OnChip
<1> QED BY <1>1, <1>2, <1>3 DEF ConfigInv

\* A task that ends its write, or fails in it, frees the mutex.
LEMMA ReleaseMutex ==
    ASSUME ConfigInv, LedInv, NEW t \in Tasks, pc[t] = "write",
           NEW next \in {"idle", "reboot"}, Release(t, next)
    PROVE  /\ MutexInv' /\ owner' = "free"
           /\ \A w \in Web : pc'[w] \in {"lock", "write"} =>
                  pc'[w] = "lock" /\ pc[w] = "lock"
<1>1. owner' = "free" /\ pc' = [pc EXCEPT ![t] = next] /\ at' = [at EXCEPT ![t] = 0]
    BY DEF Release
<1>2. /\ pc \in [Tasks -> {"idle", "lock", "write", "reboot"}]
      /\ at \in [Tasks -> Nat]
    BY DEF LedInv, LedTaskType
<1>3. \A u \in Tasks : u # t => pc[u] # "write"
    BY DEF ConfigInv, MutexInv
<1>4. \A u \in Tasks : Size(u) \in Nat /\ u # "free"
    BY SizeFacts, Offsets, StorageAssumption DEF Tasks
<1>5. \A u \in Tasks : pc'[u] # "write" /\ (pc'[u] = "lock" => pc[u] = "lock")
    BY <1>1, <1>2, <1>3
<1>6. \A u \in Tasks : at'[u] \in 0..Size(u)
    BY <1>1, <1>2, <1>4 DEF ConfigInv, MutexInv
<1>7. MutexInv'
    BY <1>1, <1>4, <1>5, <1>6 DEF MutexInv, Size
<1> QED BY <1>1, <1>5, <1>7 DEF Tasks

LEMMA LockConfigInv ==
    ASSUME ConfigInv, LedInv, NEW t \in Tasks, Lock(t)
    PROVE  ConfigInv'
<1>1. /\ pc \in [Tasks -> {"idle", "lock", "write", "reboot"}]
      /\ at \in [Tasks -> Nat]
    BY DEF LedInv, LedTaskType
<1>2. /\ pc[t] = "lock" /\ owner = "free" /\ owner' = t
      /\ pc' = [pc EXCEPT ![t] = "write"] /\ at' = [at EXCEPT ![t] = 0]
      /\ acked' = IF t \in Web THEN {} ELSE acked
      /\ UNCHANGED <<mem, led, cfg, form>>
    BY DEF Lock, Available, ledVars, cfgVars
<1>3. \A u \in Tasks : Size(u) \in Nat /\ u # "free"
    BY SizeFacts, Offsets, StorageAssumption DEF Tasks
<1>4. \A u \in Tasks : pc[u] # "write"
    BY <1>2, <1>3 DEF ConfigInv, MutexInv
<1>5. MutexInv'
  <2>1. \A u \in Tasks : pc'[u] = "write" <=> owner' = u
      BY <1>1, <1>2, <1>4
  <2>2. \A u \in Tasks : at'[u] \in 0..Size(u)
      BY <1>1, <1>2, <1>3 DEF ConfigInv, MutexInv
  <2> QED BY <1>2, <2>1, <2>2 DEF MutexInv, Size
<1>6. \A w \in Web : pc'[w] = "write" => at'[w] = 0
    BY <1>1, <1>2, <1>4 DEF Tasks
<1>7. \A w \in Web : pc'[w] \in {"lock", "write"} => pc[w] = "lock"
    BY <1>1, <1>2, <1>4 DEF Tasks
<1>8. DOMAIN form' = Web
      /\ \A w \in Web : pc'[w] \in {"lock", "write"} => Valid(form'[w])
    BY <1>2, <1>7 DEF ConfigInv, FormInv
<1>9. acked' \subseteq acked /\ (owner' \in Web => acked' = {})
    BY <1>2
<1>10. (led \in [Leds -> {0, 1}])'
    BY <1>2 DEF ConfigInv
<1> QED BY <1>2, <1>5, <1>6, <1>8, <1>9, <1>10, ConfigFrame

\* The image is complete when /save answers.
LEMMA SavedConfigInv ==
    ASSUME ConfigInv, LedInv, NEW w \in Web, ConfigSaved(w)
    PROVE  ConfigInv'
<1>1. /\ pc[w] = "write" /\ at[w] = ImageLen /\ acked' = {form[w]}
      /\ Release(w, "reboot") /\ UNCHANGED <<mem, led, cfg, form>>
    BY SizeFacts DEF ConfigSaved, ledVars, cfgVars
<1>2. /\ MutexInv' /\ owner' = "free"
      /\ \A v \in Web : pc'[v] \in {"lock", "write"} =>
             pc'[v] = "lock" /\ pc[v] = "lock"
    BY <1>1, ReleaseMutex DEF Tasks
<1>3. ChipType' /\ Valid(cfg') /\ (led \in [Leds -> {0, 1}])'
    BY <1>1 DEF ConfigInv, ChipType
<1>4. FormInv'
    BY <1>1, <1>2 DEF ConfigInv, FormInv
<1>5. AckedInv'
  <2>1. Valid(form[w]) /\ OnChip(form[w], ImageLen)
      BY <1>1 DEF ConfigInv, FormInv
  <2>2. owner' \notin Web
      BY <1>2, StorageAssumption DEF Tasks
  <2> QED BY <1>1, <2>1, <2>2 DEF AckedInv, OnChip
<1> QED BY <1>2, <1>3, <1>4, <1>5 DEF ConfigInv

LEMMA ConfigMove == ConfigInv /\ LedInv /\ Move => ConfigInv'
<1> SUFFICES ASSUME ConfigInv, LedInv, Move PROVE ConfigInv'
    OBVIOUS
<1>1. /\ pc \in [Tasks -> {"idle", "lock", "write", "reboot"}]
      /\ at \in [Tasks -> Nat]
      /\ MutexInv /\ FormInv /\ AckedInv /\ led \in [Leds -> {0, 1}]
    BY DEF LedInv, LedTaskType, ConfigInv
<1>2. "free" \notin Web /\ \A w \in Web : w \in Tasks /\ w # Mqtt
    BY StorageAssumption DEF Tasks
<1>3. CASE UNCHANGED <<mem, taskVars, ledVars, cfgVars, torn, acked>>
    BY <1>3 DEF taskVars, ledVars, cfgVars, ConfigInv, ChipType, MutexInv,
                FormInv, AckedInv, OnChip, Size
<1>4. ASSUME NEW t \in Tasks, Lock(t) PROVE ConfigInv'
    BY <1>4, LockConfigInv
<1>5. ASSUME NEW t \in Tasks, WriteByte(t) PROVE ConfigInv'
    BY <1>5, WriteLedConfigInv, WriteCfgConfigInv DEF Tasks
<1>6. ASSUME NEW t \in Tasks, WriteError(t) PROVE ConfigInv'
  <2>1. pc[t] = "write" /\ Release(t, "idle") /\ UNCHANGED <<mem, led, cfg, form, acked>>
      BY <1>6 DEF WriteError, ledVars, cfgVars
  <2>2. /\ MutexInv' /\ owner' = "free"
        /\ \A w \in Web : pc'[w] \in {"lock", "write"} =>
               pc'[w] = "lock" /\ pc[w] = "lock"
      BY <2>1, ReleaseMutex
  <2>3. DOMAIN form' = Web
        /\ \A w \in Web : pc'[w] \in {"lock", "write"} => Valid(form'[w])
      BY <1>1, <2>1, <2>2 DEF FormInv
  <2> QED BY <1>1, <1>2, <2>1, <2>2, <2>3, ConfigFrame
<1>7. CASE LedSaved
  <2>1. pc[Mqtt] = "write" /\ Release(Mqtt, "idle")
        /\ UNCHANGED <<mem, led, cfg, form, acked>>
      BY <1>7 DEF LedSaved, cfgVars
  <2>2. /\ MutexInv' /\ owner' = "free"
        /\ \A w \in Web : pc'[w] \in {"lock", "write"} =>
               pc'[w] = "lock" /\ pc[w] = "lock"
      BY <2>1, SizeFacts, ReleaseMutex
  <2>3. DOMAIN form' = Web
        /\ \A w \in Web : pc'[w] \in {"lock", "write"} => Valid(form'[w])
      BY <1>1, <2>1, <2>2 DEF FormInv
  <2> QED BY <1>1, <1>2, <2>1, <2>2, <2>3, ConfigFrame
<1>8. ASSUME NEW w \in Web, ConfigSaved(w) PROVE ConfigInv'
    BY <1>8, SavedConfigInv
<1>9. ASSUME NEW which \in {{1}, {2}, Leds}, NEW on \in {0, 1}, LedCommand(which, on)
      PROVE  ConfigInv'
  <2>1. /\ UNCHANGED <<mem, owner, at, cfg, form, acked>> /\ pc[Mqtt] = "idle"
        /\ pc'[Mqtt] \in {"idle", "lock"} /\ \A w \in Web : pc'[w] = pc[w]
      BY <1>1, <1>2, <1>9, SizeFacts DEF LedCommand, cfgVars
  <2>2. (led \in [Leds -> {0, 1}])'
      BY <1>1, <1>9 DEF LedCommand
  <2>3. MutexInv'
      BY <1>1, <2>1 DEF MutexInv, Size, Tasks
  <2> QED BY <1>1, <2>1, <2>2, <2>3, ConfigFrame DEF FormInv, AckedInv
<1>10. ASSUME NEW w \in Web, NEW c, Valid(c), Save(w, c) PROVE ConfigInv'
  <2>1. /\ UNCHANGED <<mem, owner, at, led, cfg, acked>> /\ pc[w] = "idle"
        /\ pc' = [pc EXCEPT ![w] = "lock"] /\ form' = [form EXCEPT ![w] = c]
      BY <1>10 DEF Save, ledVars
  <2>2. MutexInv'
      BY <1>1, <1>2, <2>1 DEF MutexInv, Size
  <2>3. DOMAIN form' = Web
        /\ \A v \in Web : pc'[v] \in {"lock", "write"} => Valid(form'[v])
    <3>1. DOMAIN form' = Web /\ form'[w] = c
        BY <1>1, <2>1 DEF FormInv
    <3>2. ASSUME NEW v \in Web, v # w PROVE form'[v] = form[v] /\ pc'[v] = pc[v]
        BY <1>1, <1>2, <2>1, <3>2 DEF FormInv
    <3> QED BY <1>1, <1>10, <3>1, <3>2 DEF FormInv
  <2>4. \A v \in Web : pc'[v] = "write" =>
            pc[v] = "write" /\ form'[v] = form[v] /\ at'[v] = at[v]
      BY <1>1, <1>2, <2>1 DEF FormInv
  <2> QED BY <1>1, <2>1, <2>2, <2>3, <2>4, ConfigFrame DEF AckedInv
<1>11. ASSUME NEW r1 \in BOOLEAN, NEW r2 \in BOOLEAN, Reset(r1, r2) PROVE ConfigInv'
    BY <1>11, BootConfigInv DEF Reset
<1>12. ASSUME NEW w \in Web, NEW r1 \in BOOLEAN, NEW r2 \in BOOLEAN,
              RebootAfterSave(w, r1, r2)
       PROVE  ConfigInv'
    BY <1>12, BootConfigInv DEF RebootAfterSave
<1> QED
    BY <1>3, <1>4, <1>5, <1>6, <1>7, <1>8, <1>9, <1>10, <1>11, <1>12
    DEF Move, Step, Work, Reboot

LEMMA StorageConfigInvariant == Spec => []ConfigInv
BY InitConfigInv, ConfigMove, NextMoves, StorageLedInvariant, PTL DEF Spec

\* What is saved was submitted.
FormType == form \in [Web -> Configs \union {Default}]

LEMMA StorageFormType == Spec => []FormType
<1>1. Init => FormType
    BY DEF Init, FormType
<1>2. FormType /\ [Next]_vars => FormType'
  <2> SUFFICES ASSUME FormType, [Next]_vars PROVE FormType'
      OBVIOUS
  <2>1. ASSUME NEW w \in Web, NEW c \in Configs, Save(w, c) PROVE FormType'
      BY <2>1 DEF FormType, Save
  <2>2. ASSUME NEW r1 \in BOOLEAN, NEW r2 \in BOOLEAN, Boot(r1, r2) PROVE FormType'
      BY <2>2 DEF FormType, Boot
  <2>3. ASSUME form' = form PROVE FormType'
      BY <2>3 DEF FormType
  <2>4. ASSUME NEW t \in Tasks, Work(t) PROVE form' = form
      BY <2>4 DEF Work, Lock, WriteByte, WriteError, LedSaved, ConfigSaved, cfgVars
  <2>5. ASSUME NEW which \in {{1}, {2}, Leds}, NEW on \in {0, 1}, LedCommand(which, on)
        PROVE  form' = form
      BY <2>5 DEF LedCommand, cfgVars
  <2>6. UNCHANGED vars => form' = form
      BY DEF vars, cfgVars
  <2> QED
      BY <2>1, <2>2, <2>3, <2>4, <2>5, <2>6
      DEF Next, Step, Reboot, Reset, RebootAfterSave
<1> QED BY <1>1, <1>2, PTL DEF Spec

\* eeprom.rs, config.rs, persistence.rs: the types of the state; a write never
\* runs past the record, and only the holder of the mutex writes.
THEOREM StorageTypeOK == Spec => []TypeOK
<1>1. ConfigInv /\ LedInv /\ FormType => TypeOK
    BY DEF ConfigInv, ChipType, MutexInv, FormType, LedInv, LedTaskType, TypeOK
<1> QED BY <1>1, StorageConfigInvariant, StorageLedInvariant, StorageFormType, PTL

\* main.rs, Ipv4Cidr::new: whatever a torn write or a failed read leaves
\* behind, the firmware boots on a prefix length and a port that it can use.
THEOREM FirmwareBoots == Spec => []BootConfigUsable
<1>1. ConfigInv => BootConfigUsable
    BY ConfigFields DEF ConfigInv, Valid, BootConfigUsable
<1> QED BY <1>1, StorageConfigInvariant, PTL

\* web.rs, save_and_reboot: the configuration that /save has acknowledged is
\* the one that load_config returns, until the next /save begins to write.
THEOREM AckedIsStored == Spec => []SavedDurable
<1>1. ConfigInv => SavedDurable
    BY OnChipStored DEF ConfigInv, AckedInv, SavedDurable
<1> QED BY <1>1, StorageConfigInvariant, PTL
-----------------------------------------------------------------------------
(* The configuration as a register.                                        *)

\* What a web task is about to write, or writes, was submitted.
Submitted == \A w \in Web : pc[w] \in {"lock", "write"} => form[w] \in Configs

LEMMA StorageSubmitted == Spec => []Submitted
<1>1. Init => Submitted
    BY DEF Init, Submitted, Tasks
<1>2. Submitted /\ LedInv /\ FormType /\ [Next]_vars => Submitted'
  <2> SUFFICES ASSUME Submitted, LedInv, FormType, [Next]_vars PROVE Submitted'
      OBVIOUS
  <2>1. pc \in [Tasks -> {"idle", "lock", "write", "reboot"}]
        /\ \A w \in Web : w \in Tasks /\ w # Mqtt
      BY StorageAssumption DEF LedInv, LedTaskType, Tasks
  <2>2. ASSUME NEW w \in Web, NEW c \in Configs, Save(w, c) PROVE Submitted'
    <3>1. pc' = [pc EXCEPT ![w] = "lock"] /\ form' = [form EXCEPT ![w] = c]
        BY <2>2 DEF Save
    <3>2. ASSUME NEW v \in Web, pc'[v] \in {"lock", "write"}
          PROVE  form'[v] \in Configs
        BY <2>1, <3>1, <3>2 DEF Submitted, FormType
    <3> QED BY <3>2 DEF Submitted
  <2>3. ASSUME NEW r1 \in BOOLEAN, NEW r2 \in BOOLEAN, Boot(r1, r2) PROVE Submitted'
      BY <2>1, <2>3 DEF Submitted, Boot
  <2>4. ASSUME form' = form,
               \A w \in Web : pc'[w] \in {"lock", "write"} => pc[w] \in {"lock", "write"}
        PROVE  Submitted'
      BY <2>4 DEF Submitted
  <2>5. ASSUME NEW t \in Tasks, Lock(t) PROVE Submitted'
      BY <2>1, <2>4, <2>5 DEF Lock, cfgVars
  <2>6. ASSUME NEW t \in Tasks, WriteByte(t) PROVE Submitted'
      BY <2>4, <2>6 DEF WriteByte, cfgVars
  <2>7. ASSUME NEW t \in Tasks, WriteError(t) PROVE Submitted'
      BY <2>1, <2>4, <2>7 DEF WriteError, Release, cfgVars
  <2>8. CASE LedSaved
      BY <2>1, <2>4, <2>8 DEF LedSaved, Release, cfgVars
  <2>9. ASSUME NEW w \in Web, ConfigSaved(w) PROVE Submitted'
      BY <2>1, <2>4, <2>9 DEF ConfigSaved, Release, cfgVars
  <2>10. ASSUME NEW which \in {{1}, {2}, Leds}, NEW on \in {0, 1}, LedCommand(which, on)
         PROVE  Submitted'
      BY <2>1, <2>4, <2>10 DEF LedCommand, cfgVars
  <2>11. CASE UNCHANGED vars
      BY <2>4, <2>11 DEF vars, taskVars, cfgVars
  <2> QED
      BY <2>2, <2>3, <2>5, <2>6, <2>7, <2>8, <2>9, <2>10, <2>11
      DEF Next, Step, Work, Reboot, Reset, RebootAfterSave
<1> QED
    BY <1>1, <1>2, StorageLedInvariant, StorageFormType, PTL DEF Spec

\* A chip from the factory holds no configuration.
LEMMA InitRegister == Init => Reg!Init
<1> SUFFICES ASSUME Init PROVE Reg!Init
    OBVIOUS
<1> DEFINE b == Read(CfgBase, ImageLen)
<1>1. 1 \in 1..ImageLen /\ CfgBase + 1 - 1 \in 0..CfgBase + ImageLen - 1
    BY Offsets DEF CfgBase
<1>2. mem[CfgBase + 1 - 1] = 255
  <2>1. ~(CfgBase + 1 - 1 < 8)
      BY DEF CfgBase
  <2> QED BY <1>1, <2>1 DEF Init, BlankMem
<1>3. b[1] = 255
    BY <1>1, <1>2 DEF Read
<1> HIDE DEF b
<1>4. ~Accepts(b)
  <2>1. Slice(b, 0, 4)[1] = 255
      BY <1>3 DEF Slice
  <2>2. Magic[1] = 192
      BY DEF Magic
  <2> QED BY <2>1, <2>2 DEF Accepts
<1>5. cfg = Default
    BY <1>4 DEF Init, StoredConfig, FromBytes, b
<1>6. owner \notin Web
    BY StorageAssumption DEF Init, Tasks
<1> QED BY <1>5, <1>6 DEF Init, Reg!Init

\* The value that a web task is writing, as the register sees it.
Pending == IF owner \in Web THEN {form[owner]} ELSE {}

\* A boot runs on what was acknowledged, if anything was, or on the defaults.
LEMMA BootRegister ==
    ASSUME ConfigInv, NEW r1 \in BOOLEAN, NEW r2 \in BOOLEAN, Boot(r1, r2)
    PROVE  Reg!Restart
<1>1. owner' \notin Web /\ acked' = acked
    BY StorageAssumption DEF Boot, Tasks
<1>2. \A c \in acked : StoredConfig = c
    BY OnChipStored DEF ConfigInv, AckedInv
<1>3. cfg' \in {StoredConfig, Default}
    BY DEF Boot
<1>4. acked # {} => cfg' \in acked \union {Default}
    BY <1>2, <1>3
<1> QED BY <1>1, <1>4 DEF Reg!Restart

LEMMA StepRegister ==
    ASSUME ConfigInv, LedInv, FormType, Submitted, [Next]_vars
    PROVE  [Reg!Next]_(Reg!vars)
<1>1. /\ pc \in [Tasks -> {"idle", "lock", "write", "reboot"}]
      /\ \A t \in Tasks : pc[t] = "write" <=> owner = t
      /\ "free" \notin Web /\ Mqtt \notin Web /\ \A w \in Web : w \in Tasks
    BY StorageAssumption DEF LedInv, LedTaskType, ConfigInv, MutexInv, Tasks
<1>2. ASSUME acked' = acked, cfg' = cfg, Pending' = Pending
      PROVE  UNCHANGED Reg!vars
    BY <1>2 DEF Reg!vars, Pending
<1>3. ASSUME acked' = acked, cfg' = cfg, owner' = owner, form' = form
      PROVE  UNCHANGED Reg!vars
    BY <1>2, <1>3 DEF Pending
<1>4. ASSUME NEW t \in Tasks, Lock(t) PROVE [Reg!Next]_(Reg!vars)
  <2>1. owner \notin Web /\ owner' = t /\ pc[t] = "lock" /\ form' = form /\ cfg' = cfg
      BY <1>1, <1>4 DEF Lock, Available, cfgVars
  <2>2. CASE t \in Web
    <3>1. form[t] \in Configs /\ acked' = {}
        BY <1>4, <2>1, <2>2 DEF Lock, Submitted
    <3>2. Reg!Begin(form[t])
        BY <2>1, <2>2, <3>1 DEF Reg!Begin
    <3> QED BY <3>1, <3>2 DEF Reg!Next
  <2>3. CASE t \notin Web
      BY <1>2, <1>4, <2>1, <2>3 DEF Lock, Pending
  <2> QED BY <2>2, <2>3
<1>5. ASSUME NEW t \in Tasks, WriteByte(t) PROVE [Reg!Next]_(Reg!vars)
    BY <1>3, <1>5 DEF WriteByte, cfgVars
<1>6. ASSUME NEW t \in Tasks, WriteError(t) PROVE [Reg!Next]_(Reg!vars)
  <2>1. owner = t /\ owner' = "free" /\ acked' = acked /\ cfg' = cfg
      BY <1>1, <1>6 DEF WriteError, Release, cfgVars
  <2>2. CASE t \in Web
    <3>1. Reg!Abort
        BY <1>1, <2>1, <2>2 DEF Reg!Abort
    <3> QED BY <3>1 DEF Reg!Next
  <2>3. CASE t \notin Web
      BY <1>1, <1>2, <2>1, <2>3 DEF Pending
  <2> QED BY <2>2, <2>3
<1>7. CASE LedSaved
  <2>1. owner = Mqtt /\ owner' = "free" /\ acked' = acked /\ cfg' = cfg
      BY <1>1, <1>7, SizeFacts DEF LedSaved, Release, cfgVars
  <2> QED BY <1>1, <1>2, <2>1 DEF Pending
<1>8. ASSUME NEW w \in Web, ConfigSaved(w) PROVE [Reg!Next]_(Reg!vars)
  <2>1. owner = w /\ owner' = "free" /\ acked' = {form[w]} /\ cfg' = cfg
      BY <1>1, <1>8 DEF ConfigSaved, Release, cfgVars
  <2>2. Reg!Commit
      BY <1>1, <2>1 DEF Reg!Commit
  <2> QED BY <2>2 DEF Reg!Next
<1>9. ASSUME NEW which \in {{1}, {2}, Leds}, NEW on \in {0, 1}, LedCommand(which, on)
      PROVE  [Reg!Next]_(Reg!vars)
    BY <1>3, <1>9 DEF LedCommand, cfgVars
<1>10. ASSUME NEW w \in Web, NEW c \in Configs, Save(w, c)
       PROVE  [Reg!Next]_(Reg!vars)
  <2>1. /\ owner' = owner /\ acked' = acked /\ cfg' = cfg /\ owner # w
        /\ form' = [form EXCEPT ![w] = c]
      BY <1>1, <1>10 DEF Save
  <2>2. \A v \in Web : v # w => form'[v] = form[v]
      BY <2>1 DEF FormType
  <2>3. Pending' = Pending
      BY <2>1, <2>2 DEF Pending
  <2> QED BY <1>2, <2>1, <2>3
<1>11. ASSUME NEW r1 \in BOOLEAN, NEW r2 \in BOOLEAN, Boot(r1, r2)
       PROVE  [Reg!Next]_(Reg!vars)
    BY <1>11, BootRegister DEF Reg!Next
<1>12. CASE UNCHANGED vars
    BY <1>3, <1>12 DEF vars, taskVars, cfgVars
<1> QED
    BY <1>4, <1>5, <1>6, <1>7, <1>8, <1>9, <1>10, <1>11, <1>12
    DEF Next, Step, Work, Reboot, Reset, RebootAfterSave

\* config.rs, eeprom.rs and web.rs, save_and_reboot: bytes that are written one
\* at a time, by several tasks, between resets and failures, implement a
\* register that is written as a whole and lasts across restarts.
THEOREM StorageImplementsRegister == Spec => ImplementsRegister
<1>1. ConfigInv /\ LedInv /\ FormType /\ Submitted /\ [Next]_vars
          => [Reg!Next]_(Reg!vars)
    BY StepRegister
<1> QED
    BY <1>1, InitRegister, StorageConfigInvariant, StorageLedInvariant,
       StorageFormType, StorageSubmitted, PTL
    DEF Spec, ImplementsRegister, Reg!Spec
=============================================================================
