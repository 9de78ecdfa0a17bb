------------------------- MODULE BusRecoveryProofs --------------------------
(***************************************************************************)
(* Reset reasons and the recovery of the I2C bus, for any number of resets *)
(* and for every width of a byte.                                          *)
(***************************************************************************)
EXTENDS BusRecovery, TLAPS

-----------------------------------------------------------------------------
(* Reset reasons.                                                          *)

\* What the flags and the marker say is about resets since the last read.  A
\* remote reboot leaves the flag of a software reset: its marker is lost only
\* together with power, and then a flag that outranks it is set.
ReasonInv ==
    /\ phase # "starting" => csr = {} /\ marker = "clear" /\ causes = {}
    /\ phase = "starting" => "pad" \in csr
    /\ "por" \in csr => "power" \in causes
    /\ "bor" \in csr /\ "por" \notin csr => "brownout" \in causes
    /\ "wdg" \in csr => "watchdog" \in causes
    /\ "sft" \in csr /\ "por" \notin csr /\ "bor" \notin csr /\ marker # "remote"
           => "software" \in causes
    /\ csr = {"pad"} => "pin" \in causes
    /\ marker = "remote" => "remote" \in causes
    /\ ReasonTrue

\* The flag that read_and_clear reports is the first one in its order.
LEMMA ReasonOf ==
    ASSUME csr \subseteq {"por", "bor", "wdg", "sft", "pad"}, marker # "remote"
    PROVE  /\ "por" \in csr => Reason = "power_on"
           /\ "por" \notin csr /\ "bor" \in csr => Reason = "brown_out"
           /\ csr \subseteq {"wdg", "sft", "pad"} /\ "wdg" \in csr
                  => Reason = "iwdg_timeout"
           /\ csr \subseteq {"sft", "pad"} /\ "sft" \in csr => Reason = "software"
           /\ csr = {"pad"} => Reason = "nrst_pin"
<1> DEFINE First(i) == Ranked[i] \in csr /\ \A j \in 1..i - 1 : Ranked[j] \notin csr
<1>1. /\ DOMAIN Ranked = 1..5 /\ Ranked[1] = "por" /\ Ranked[2] = "bor"
      /\ Ranked[3] = "wdg" /\ Ranked[4] = "sft" /\ Ranked[5] = "pad"
    BY DEF Ranked
<1>2. ASSUME NEW k \in 1..5, First(k) PROVE FirstFlag = k
  <2>1. \A i \in 1..5 : First(i) => i = k
      BY <1>2
  <2>2. FirstFlag \in 1..5 /\ First(FirstFlag)
      BY <1>1, <1>2 DEF FirstFlag
  <2> QED BY <2>1, <2>2
<1>3. ASSUME NEW k \in 1..5, First(k) PROVE Reason = FlagReason[Ranked[k]]
    BY <1>2, <1>3 DEF Reason
<1>4. ASSUME "por" \in csr PROVE Reason = "power_on"
    BY <1>1, <1>3, <1>4 DEF FlagReason
<1>5. ASSUME "por" \notin csr, "bor" \in csr PROVE Reason = "brown_out"
    BY <1>1, <1>3, <1>5 DEF FlagReason
<1>6. ASSUME csr \subseteq {"wdg", "sft", "pad"}, "wdg" \in csr
      PROVE  Reason = "iwdg_timeout"
    BY <1>1, <1>3, <1>6 DEF FlagReason
<1>7. ASSUME csr \subseteq {"sft", "pad"}, "sft" \in csr PROVE Reason = "software"
    BY <1>1, <1>3, <1>7 DEF FlagReason
<1>8. ASSUME csr = {"pad"} PROVE Reason = "nrst_pin"
    BY <1>1, <1>3, <1>8 DEF FlagReason
<1> QED BY <1>4, <1>5, <1>6, <1>7, <1>8

\* What read_and_clear returns is the meaning of a reset since the last read.
LEMMA ReasonMeant ==
    ASSUME TypeOK, ReasonInv, phase = "starting"
    PROVE  Reason \in {Meaning[c] : c \in causes}
<1>1. CASE marker = "remote"
    BY <1>1 DEF Reason, Meaning, ReasonInv
<1>2. CASE marker # "remote"
  <2>0. csr \subseteq {"por", "bor", "wdg", "sft", "pad"} /\ "pad" \in csr
      BY DEF TypeOK, ReasonInv
  <2>1. CASE "por" \in csr
      BY <1>2, <2>0, <2>1, ReasonOf DEF Meaning, ReasonInv
  <2>2. CASE "por" \notin csr /\ "bor" \in csr
      BY <1>2, <2>0, <2>2, ReasonOf DEF Meaning, ReasonInv
  <2>3. CASE csr \subseteq {"wdg", "sft", "pad"} /\ "wdg" \in csr
      BY <1>2, <2>0, <2>3, ReasonOf DEF Meaning, ReasonInv
  <2>4. CASE csr \subseteq {"sft", "pad"} /\ "sft" \in csr
    <3>1. "software" \in causes
        BY <1>2, <2>4 DEF ReasonInv
    <3> QED BY <1>2, <2>0, <2>4, <3>1, ReasonOf DEF Meaning
  <2>5. CASE csr = {"pad"}
      BY <1>2, <2>0, <2>5, ReasonOf DEF Meaning, ReasonInv
  <2> QED BY <2>0, <2>1, <2>2, <2>3, <2>4, <2>5
<1> QED BY <1>1, <1>2

LEMMA ResetFlags ==
    /\ Flags("power") = {"por", "bor", "pad"} /\ Flags("brownout") = {"bor", "pad"}
    /\ Flags("watchdog") = {"wdg", "pad"} /\ Flags("software") = {"sft", "pad"}
    /\ Flags("remote") = {"sft", "pad"} /\ Flags("pin") = {"pad"}
BY DEF Flags

\* Every reset adds its flags and its cause; a mark is written only for a remote
\* reboot, and lost only with power or at a brown-out.
LEMMA ResetStep ==
    ASSUME TypeOK, ReasonInv, NEW cause \in Causes, NEW mark, Reset(cause, mark),
           \/ cause = "remote" /\ mark = "remote"
           \/ cause # "remote" /\ mark = marker
           \/ cause \in {"power", "brownout"} /\ mark = "garbage",
           cause \in {"remote", "software"} => phase # "starting"
    PROVE  TypeOK' /\ ReasonInv'
<1>1. TypeOK'
    BY ResetFlags DEF TypeOK, Reset, Causes
<1>2. ReasonTrue'
    BY DEF Reset, ReasonTrue
<1>3. CASE cause = "power"
    BY <1>1, <1>2, <1>3, ResetFlags DEF Reset, ReasonInv
<1>4. CASE cause = "brownout"
    BY <1>1, <1>2, <1>4, ResetFlags DEF Reset, ReasonInv
<1>5. CASE cause = "watchdog"
    BY <1>1, <1>2, <1>5, ResetFlags DEF Reset, ReasonInv
<1>6. CASE cause = "software"
    BY <1>1, <1>2, <1>6, ResetFlags DEF Reset, ReasonInv
<1>7. CASE cause = "remote"
    BY <1>1, <1>2, <1>7, ResetFlags DEF Reset, ReasonInv
<1>8. CASE cause = "pin"
    BY <1>1, <1>2, <1>8, ResetFlags DEF Reset, ReasonInv
<1> QED BY <1>1, <1>3, <1>4, <1>5, <1>6, <1>7, <1>8 DEF Causes

LEMMA ReasonStep == TypeOK /\ ReasonInv /\ [Next]_vars => TypeOK' /\ ReasonInv'
<1> SUFFICES ASSUME TypeOK, ReasonInv, [Next]_vars PROVE TypeOK' /\ ReasonInv'
    OBVIOUS
<1>1. CASE ReadAndClear
  <2>1. Reason \in {Meaning[c] : c \in causes}
      BY <1>1, ReasonMeant DEF ReadAndClear
  <2>2. Reason \in {"power_on", "brown_out", "iwdg_timeout", "software",
                    "nrst_pin", "remote_reboot"}
      BY <2>1 DEF TypeOK, Causes, Meaning
  <2> QED BY <1>1, <2>1, <2>2 DEF ReadAndClear, TypeOK, ReasonInv, ReasonTrue
<1>2. CASE Arm
    BY <1>2 DEF Arm, TypeOK, ReasonInv, ReasonTrue
<1>3. CASE Wedge
    BY <1>3 DEF Wedge, TypeOK, ReasonInv, ReasonTrue
<1>4. CASE RemoteReboot
    BY <1>4, ResetStep DEF RemoteReboot, Causes
<1>5. CASE SoftwareReset
    BY <1>5, ResetStep DEF SoftwareReset, Causes
<1>6. CASE WatchdogReset
    BY <1>6, ResetStep DEF WatchdogReset, Causes
<1>7. CASE PowerOn
    BY <1>7, ResetStep DEF PowerOn, Causes
<1>8. CASE BrownOut
    BY <1>8, ResetStep DEF BrownOut, Causes
<1>9. CASE Button
    BY <1>9, ResetStep DEF Button, Causes
<1>10. CASE UNCHANGED vars
    BY <1>10 DEF vars, TypeOK, ReasonInv, ReasonTrue
<1> QED
    BY <1>1, <1>2, <1>3, <1>4, <1>5, <1>6, <1>7, <1>8, <1>9, <1>10 DEF Next

LEMMA ReasonInit == Init => TypeOK /\ ReasonInv
<1> SUFFICES ASSUME Init PROVE TypeOK /\ ReasonInv
    OBVIOUS
<1>1. csr = {"por", "bor", "pad"} /\ csr # {"pad"}
    BY ResetFlags DEF Init
<1>2. TypeOK
    BY <1>1 DEF Init, TypeOK, Causes
<1> QED BY <1>1, <1>2 DEF Init, ReasonInv, ReasonTrue

\* The recovery of the bus does not touch what the reset logic sees: a boot with
\* the recovery is a boot of FaultMarker.
LEMMA BusStepIsFaultMarkerStep == BusNext => [Next]_vars
BY DEF BusNext, Pulse, StopCondition, OwnReset, OutsideReset, PowerCycle, Next

-----------------------------------------------------------------------------
(* The bus.                                                                *)

\* The chip in one of its states, between two clock pulses.
ChipOK(c) ==
    \/ c = IdleChip
    \/ c = Acking
    \/ c.mode = "take" /\ c.n \in 0..Width /\ c = Taking(c.n)
    \/ /\ c.mode = "send" /\ c.left \in Seq({0, 1}) /\ c = Sending(c.left)
       /\ Len(c.left) \in 1..Width + 1

\* The loop goes on as long as the chip holds SDA: for the acknowledgement of a
\* byte that it had taken, or for the zeros of a byte that it was sending.
UnderWay ==
    \/ chip = Acking /\ found = Taking(Width)
    \/ /\ ChipOK(found) /\ chip.mode = "send" /\ found.mode = "send"
       /\ Len(chip.left) = Len(found.left) - pulses
       /\ \A i \in 1..Len(chip.left) : chip.left[i] = found.left[i + pulses]
       /\ \A j \in 1..pulses : found.left[j + 1] = 0

BusInv ==
    /\ stage \in {"pulse", "stop", "done"} /\ pulses \in 0..Width + 1
    /\ ChipOK(chip)
    /\ stage = "pulse" => pulses <= Width
    /\ stage = "pulse" /\ pulses > 0 => UnderWay
    /\ stage = "stop" => (Released(Rise(Fall(chip), 0)) = 1 <=> Freeable(found))
    /\ BusFreed /\ NinePulses

LEMMA NoBits ==
    ASSUME NEW bits \in Seq({0, 1})
    PROVE  bits = <<>> <=> Len(bits) = 0
OBVIOUS

\* What is left of a byte when its first bit has gone.
LEMMA TailBits ==
    ASSUME NEW bits \in Seq({0, 1}), NEW k \in Nat \ {0}, k = Len(bits)
    PROVE  /\ bits # <<>> /\ bits[1] \in {0, 1}
           /\ Tail(bits) \in Seq({0, 1}) /\ Len(Tail(bits)) = k - 1
           /\ \A i \in 1..k - 1 : Tail(bits)[i] = bits[i + 1]
           /\ Tail(bits) = <<>> <=> k = 1
<1>1. bits # <<>> /\ bits[1] \in {0, 1}
    OBVIOUS
<1>2. Tail(bits) \in Seq({0, 1}) /\ Len(Tail(bits)) = k - 1
    BY <1>1
<1>3. \A i \in 1..k - 1 : Tail(bits)[i] = bits[i + 1]
    BY <1>1
<1>4. Tail(bits) = <<>> <=> Len(Tail(bits)) = 0
    BY <1>2, NoBits, Zenon
<1>5. k - 1 = 0 <=> k = 1
    OBVIOUS
<1> QED BY <1>1, <1>2, <1>3, <1>4, <1>5, Zenon

\* The chip over one pulse of the loop, state by state.
LEMMA PulseTake ==
    ASSUME NEW n \in 0..Width, NEW c, c = Rise(Fall(Taking(n)), Released(Fall(Taking(n))))
    PROVE  /\ n = Width => c = Acking
           /\ n < Width => c = Taking(n + 1)
BY WidthAssumption DEF Rise, Fall, Released, Taking, Acking

LEMMA PulseAck ==
    Rise(Fall(Acking), Released(Fall(Acking))) = Taking(1)
BY DEF Rise, Fall, Released, Taking, Acking

LEMMA PulseIdle ==
    Rise(Fall(IdleChip), Released(Fall(IdleChip))) = IdleChip
BY DEF Rise, Fall, Released, IdleChip

LEMMA PulseSend ==
    ASSUME NEW left \in Seq({0, 1}), left # <<>>
    PROVE  LET c == Rise(Fall(Sending(left)), Released(Fall(Sending(left))))
           IN  c = IF Tail(left) = <<>> THEN IdleChip ELSE Sending(Tail(left))
<1>1. Fall(Sending(left)) = Sending(Tail(left))
    BY DEF Fall, Sending
<1>2. CASE Tail(left) = <<>>
  <2>1. Released(Sending(<<>>)) = 1
      BY DEF Released, Sending
  <2>2. Rise(Sending(<<>>), 1) = IdleChip
      BY DEF Rise, Sending
  <2> QED BY <1>1, <1>2, <2>1, <2>2
<1>3. CASE Tail(left) # <<>>
  <2>1. \A level : Rise(Sending(Tail(left)), level) = Sending(Tail(left))
      BY <1>3 DEF Rise, Sending
  <2> QED BY <1>1, <1>3, <2>1
<1> QED BY <1>2, <1>3

\* The level of SDA in each state.
LEMMA Levels ==
    /\ Released(IdleChip) = 1 /\ Released(Acking) = 0
    /\ \A n : Released(Taking(n)) = 1
    /\ \A left \in Seq({0, 1}) : left # <<>> => Released(Sending(left)) = left[1]
<1>1. Released(IdleChip) = 1 /\ Released(Acking) = 0
    BY DEF Released, IdleChip, Acking
<1>2. \A n : Released(Taking(n)) = 1
    BY DEF Released, Taking
<1>3. ASSUME NEW left \in Seq({0, 1}), left # <<>>
      PROVE  Released(Sending(left)) = left[1]
  <2>1. left # <<>> /\ left[1] \in {0, 1}
      BY <1>3
  <2>2. Sending(left).mode = "send" /\ Sending(left).left = left
      BY DEF Sending
  <2> QED BY <2>1, <2>2 DEF Released
<1> QED BY <1>1, <1>2, <1>3

\* The STOP, state by state.
LEMMA StopTake ==
    ASSUME NEW n \in 0..Width, NEW c, c = Rise(Fall(Taking(n)), 0)
    PROVE  /\ n = Width => c = Acking
           /\ n < Width => c = Taking(n + 1)
BY WidthAssumption DEF Rise, Fall, Taking, Acking

LEMMA StopAck == Rise(Fall(Acking), 0) = Taking(1)
BY DEF Rise, Fall, Taking, Acking

LEMMA StopIdle == Rise(Fall(IdleChip), 0) = IdleChip
BY DEF Rise, Fall, IdleChip

LEMMA StopSend ==
    ASSUME NEW left \in Seq({0, 1}), left # <<>>
    PROVE  Rise(Fall(Sending(left)), 0) = Sending(Tail(left))
<1>1. Sending(left).mode = "send" /\ Sending(left).left = left /\ left # <<>>
    BY DEF Sending
<1>2. Fall(Sending(left)) = Sending(Tail(left))
    BY <1>1 DEF Fall
<1> QED BY <1>2 DEF Rise, Sending

\* Freeable, in terms of the byte that the chip was sending.
LEMMA FreeableSend ==
    ASSUME NEW whole \in Seq({0, 1}), NEW len \in Nat \ {0}, len = Len(whole)
    PROVE  Freeable(Sending(whole)) <=>
               \A k \in 1..len - 1 :
                   whole[k + 1] = 1 /\ (\A j \in 1..k - 1 : whole[j + 1] = 0)
                       => k = len - 1 \/ whole[k + 2] = 1
<1> DEFINE rest == Tail(whole)
<1>1. whole # <<>>
    OBVIOUS
<1>2. rest \in Seq({0, 1}) /\ Len(rest) = len - 1 /\ DOMAIN rest = 1..len - 1
    BY <1>1
<1>3. \A k \in 1..len - 1 : rest[k] = whole[k + 1]
    BY <1>1
<1>4. Freeable(Sending(whole)) <=>
          \A k \in DOMAIN rest :
              rest[k] = 1 /\ (\A j \in 1..k - 1 : rest[j] = 0)
                  => k = Len(rest) \/ rest[k + 1] = 1
    BY DEF Freeable, Sending
<1> HIDE DEF rest
<1>5. ASSUME NEW k \in 1..len - 1
      PROVE  /\ rest[k] = whole[k + 1]
             /\ k # len - 1 => rest[k + 1] = whole[k + 2]
             /\ \A j \in 1..k - 1 : rest[j] = whole[j + 1]
  <2>1. k # len - 1 => k + 1 \in 1..len - 1 /\ k + 1 + 1 = k + 2
      OBVIOUS
  <2>2. \A j \in 1..k - 1 : j \in 1..len - 1
      OBVIOUS
  <2> QED BY <1>3, <2>1, <2>2
<1> DEFINE P(k) == rest[k] = 1 /\ (\A j \in 1..k - 1 : rest[j] = 0)
                       => k = Len(rest) \/ rest[k + 1] = 1
           Q(k) == whole[k + 1] = 1 /\ (\A j \in 1..k - 1 : whole[j + 1] = 0)
                       => k = len - 1 \/ whole[k + 2] = 1
<1>6. ASSUME NEW k \in 1..len - 1 PROVE P(k) <=> Q(k)
    BY <1>2, <1>5
<1> HIDE DEF P, Q
<1>7. (\A k \in DOMAIN rest : P(k)) <=> (\A k \in 1..len - 1 : Q(k))
    BY <1>2, <1>6
<1> QED BY <1>4, <1>7 DEF P, Q

\* A byte whose first bits were zeros up to here: at its end the loop has freed
\* the chip, and at a 1 the STOP does, if the bit behind it is no 0.
LEMMA FreeableAfter ==
    ASSUME NEW whole \in Seq({0, 1}), NEW len \in Nat \ {0}, len = Len(whole),
           NEW p \in 0..len - 1, \A j \in 1..p : whole[j + 1] = 0
    PROVE  /\ p = len - 1 => Freeable(Sending(whole))
           /\ p < len - 1 /\ whole[p + 2] = 1 =>
                 (Freeable(Sending(whole)) <=> p + 2 = len \/ whole[p + 3] = 1)
<1>1. CASE p = len - 1
  <2>1. \A k \in 1..len - 1 : whole[k + 1] # 1
      BY <1>1
  <2> QED BY <1>1, <2>1, FreeableSend
<1>2. CASE p < len - 1 /\ whole[p + 2] = 1
  <2> DEFINE Q(k) == whole[k + 1] = 1 /\ (\A j \in 1..k - 1 : whole[j + 1] = 0)
                         => k = len - 1 \/ whole[k + 2] = 1
  <2>1. p + 1 \in 1..len - 1 /\ p + 1 + 1 = p + 2 /\ p + 1 + 2 = p + 3 /\ p + 1 - 1 = p
      BY <1>2
  <2>2. Q(p + 1) <=> p + 2 = len \/ whole[p + 3] = 1
      BY <1>2, <2>1
  <2>3. ASSUME NEW k \in 1..len - 1, k # p + 1 PROVE Q(k)
    <3>1. CASE k < p + 1
      <4>1. k \in 1..p
          BY <3>1
      <4> QED BY <4>1
    <3>2. CASE k > p + 1
      <4>1. p + 1 \in 1..k - 1
          BY <3>2
      <4> QED BY <1>2, <2>1, <4>1
    <3> QED BY <2>3, <3>1, <3>2
  <2>4. Freeable(Sending(whole)) <=> \A k \in 1..len - 1 : Q(k)
      BY FreeableSend
  <2> HIDE DEF Q
  <2> QED BY <1>2, <2>1, <2>2, <2>3, <2>4
<1> QED BY <1>1, <1>2

\* A pulse while the chip is sending.  Before the first pulse the chip is itself
\* what the recovery finds.
LEMMA PulseStepSend ==
    ASSUME BusInv, Pulse, chip.mode = "send"
    PROVE  BusInv'
<1> USE WidthAssumption
<1> DEFINE left == chip.left
           whole == found'.left
<1>1. /\ stage = "pulse" /\ pulses \in Nat /\ pulses <= Width /\ pulses' = pulses + 1
      /\ chip' = Rise(Fall(chip), Released(Fall(chip)))
      /\ stage' = IF Released(chip') = 1 \/ pulses' = Width + 1 THEN "stop" ELSE "pulse"
      /\ found' = IF pulses = 0 THEN chip ELSE found
    BY DEF BusInv, Pulse
<1>2. left \in Seq({0, 1}) /\ Len(left) \in 1..Width + 1 /\ chip = Sending(left)
    BY DEF BusInv, ChipOK, IdleChip, Acking
<1>3. /\ whole \in Seq({0, 1}) /\ Len(whole) \in 1..Width + 1 /\ found' = Sending(whole)
      /\ Len(left) = Len(whole) - pulses
      /\ \A i \in 1..Len(left) : left[i] = whole[i + pulses]
      /\ \A j \in 1..pulses : whole[j + 1] = 0
  <2>1. CASE pulses = 0
      BY <1>1, <1>2, <2>1
  <2>2. CASE pulses # 0
    <3>1. UnderWay /\ found' = found
        BY <1>1, <2>2 DEF BusInv
    <3>2. ChipOK(found) /\ found.mode = "send"
        BY <3>1 DEF UnderWay, Acking
    <3>3. /\ whole \in Seq({0, 1}) /\ Len(whole) \in 1..Width + 1
          /\ found' = Sending(whole)
        BY <3>1, <3>2 DEF ChipOK, IdleChip, Acking
    <3> QED BY <3>1, <3>3 DEF UnderWay, Acking
  <2> QED BY <2>1, <2>2
<1> DEFINE t == Tail(left)
<1>4. PICK n \in Nat \ {0}, len \in Nat \ {0} :
          /\ n = Len(left) /\ len = Len(whole) /\ n = len - pulses /\ len <= Width + 1
    BY <1>2, <1>3
<1>5. left # <<>> /\ t \in Seq({0, 1}) /\ Len(t) = n - 1
    BY <1>2, <1>4, TailBits
<1>6. \A i \in 1..n - 1 : t[i] = whole[i + pulses + 1]
  <2>1. \A i \in 1..n - 1 : t[i] = left[i + 1]
      BY <1>2, <1>4, <1>5
  <2>2. \A i \in 1..n - 1 : i + 1 \in 1..n /\ i + 1 + pulses = i + pulses + 1
      BY <1>1
  <2> QED BY <1>3, <1>4, <2>1, <2>2
<1>7. chip' = IF t = <<>> THEN IdleChip ELSE Sending(t)
    BY <1>1, <1>2, <1>5, PulseSend
<1>8. pulses \in 0..len - 1
    BY <1>1, <1>4
<1> HIDE DEF left, whole, t
<1>9. CASE n = 1
  <2>1. t = <<>> /\ chip' = IdleChip
      BY <1>5, <1>7, <1>9
  <2>2. stage' = "stop" /\ pulses' \in 0..Width + 1
      BY <1>1, <2>1, Levels
  <2>3. Freeable(found')
    <3>1. pulses = len - 1
        BY <1>1, <1>4, <1>9
    <3> QED BY <1>3, <1>4, <1>8, <3>1, FreeableAfter
  <2>4. Released(Rise(Fall(chip'), 0)) = 1
      BY <2>1, StopIdle, Levels
  <2> QED BY <2>1, <2>2, <2>3, <2>4, Levels DEF BusInv, ChipOK, BusFreed, NinePulses
<1>10. CASE n > 1
  <2>1. t # <<>> /\ chip' = Sending(t) /\ Released(chip') = t[1] /\ t[1] \in {0, 1}
    <3>1. t # <<>> /\ t[1] \in {0, 1}
        BY <1>5, <1>10
    <3> QED BY <1>5, <1>7, <3>1, Levels
  <2>2. ChipOK(chip')
    <3>1. Len(t) \in 1..Width + 1
        BY <1>1, <1>4, <1>5, <1>10
    <3> QED BY <1>5, <2>1, <3>1 DEF ChipOK, Sending
  <2>3. t[1] = whole[pulses + 2]
    <3>1. 1 \in 1..n - 1 /\ 1 + pulses + 1 = pulses + 2
        BY <1>1, <1>10
    <3> QED BY <1>6, <3>1
  <2>4. pulses < len - 1 /\ pulses + 1 < Width + 1
      BY <1>1, <1>4, <1>10
  <2>5. CASE t[1] = 1
    <3>1. stage' = "stop" /\ pulses' \in 0..Width + 1
        BY <1>1, <2>1, <2>4, <2>5
    <3>2. Freeable(found') <=> pulses + 2 = len \/ whole[pulses + 3] = 1
        BY <1>3, <1>4, <1>8, <2>3, <2>4, <2>5, FreeableAfter
    <3>3. Rise(Fall(chip'), 0) = Sending(Tail(t))
        BY <1>5, <2>1, StopSend
    <3>4. CASE n = 2
      <4>1. Tail(t) = <<>> /\ pulses + 2 = len
          BY <1>1, <1>4, <1>5, <3>4
      <4>2. Released(Sending(<<>>)) = 1
          BY DEF Released, Sending
      <4> QED BY <2>1, <2>2, <2>5, <3>1, <3>2, <3>3, <4>1, <4>2 DEF BusInv, BusFreed, NinePulses
    <3>5. CASE n # 2
      <4>1. /\ Tail(t) \in Seq({0, 1}) /\ Tail(t) # <<>> /\ Tail(t)[1] = t[2]
        <5>1. n - 1 \in Nat \ {0} /\ n - 1 - 1 > 0 /\ n - 1 - 1 \in Nat /\ 1 \in 1..n - 1 - 1
            BY <1>10, <3>5
        <5>2. Tail(t) \in Seq({0, 1}) /\ Len(Tail(t)) = n - 1 - 1 /\ Tail(t)[1] = t[1 + 1]
            BY <1>5, <5>1, TailBits
        <5>3. Tail(t) # <<>>
            BY <1>5, <5>1, TailBits
        <5> QED BY <5>2, <5>3
      <4>2. t[2] = whole[pulses + 3] /\ pulses + 2 # len
        <5>1. 2 \in 1..n - 1 /\ 2 + pulses + 1 = pulses + 3 /\ pulses + 2 # len
            BY <1>1, <1>4, <1>10, <3>5
        <5> QED BY <1>6, <5>1
      <4>3. Released(Sending(Tail(t))) = whole[pulses + 3]
          BY <4>1, <4>2, Levels
      <4> QED BY <2>1, <2>2, <2>5, <3>1, <3>2, <3>3, <4>2, <4>3 DEF BusInv, BusFreed, NinePulses
    <3> QED BY <3>4, <3>5
  <2>6. CASE t[1] = 0
    <3>1. stage' = "pulse" /\ pulses' \in 0..Width + 1 /\ pulses' <= Width
        BY <1>1, <2>1, <2>4, <2>6
    <3>2. UnderWay'
      <4>1. ChipOK(found') /\ chip'.mode = "send" /\ found'.mode = "send"
            /\ chip'.left = t /\ found'.left = whole
          BY <1>3, <2>1 DEF ChipOK, Sending
      <4>2. Len(t) = Len(whole) - pulses'
          BY <1>1, <1>4, <1>5
      <4>3. \A i \in 1..Len(t) : t[i] = whole[i + pulses']
        <5>1. \A i \in 1..n - 1 : i + pulses + 1 = i + pulses'
            BY <1>1
        <5> QED BY <1>5, <1>6, <5>1
      <4>4. \A j \in 1..pulses' : whole[j + 1] = 0
        <5> TAKE j \in 1..pulses'
        <5>1. CASE j = pulses + 1
          <6>1. j + 1 = pulses + 2
              BY <1>1, <5>1
          <6> QED BY <2>3, <2>6, <6>1
        <5>2. CASE j # pulses + 1
          <6>1. j \in 1..pulses
              BY <1>1, <5>2
          <6> QED BY <1>3, <6>1
        <5> QED BY <5>1, <5>2
      <4> QED BY <4>1, <4>2, <4>3, <4>4 DEF UnderWay
    <3> QED BY <2>2, <3>1, <3>2 DEF BusInv, BusFreed, NinePulses
  <2> QED BY <2>1, <2>5, <2>6
<1> QED BY <1>9, <1>10

\* A pulse in any other state of the chip.
LEMMA PulseStep == BusInv /\ Pulse => BusInv'
<1> SUFFICES ASSUME BusInv, Pulse PROVE BusInv'
    OBVIOUS
<1> USE WidthAssumption
<1>1. /\ stage = "pulse" /\ pulses \in Nat /\ pulses <= Width /\ pulses' = pulses + 1
      /\ chip' = Rise(Fall(chip), Released(Fall(chip)))
      /\ stage' = IF Released(chip') = 1 \/ pulses' = Width + 1 THEN "stop" ELSE "pulse"
      /\ found' = IF pulses = 0 THEN chip ELSE found
      /\ pulses' \in 0..Width + 1
    BY DEF BusInv, Pulse
<1>2. CASE chip = IdleChip
  <2>1. found' = IdleChip
      BY <1>1, <1>2 DEF BusInv, UnderWay, IdleChip, Acking
  <2>2. chip' = IdleChip /\ stage' = "stop"
      BY <1>1, <1>2, PulseIdle, Levels
  <2>3. Released(Rise(Fall(chip'), 0)) = 1 /\ Freeable(found')
      BY <2>1, <2>2, StopIdle, Levels DEF Freeable, IdleChip
  <2> QED BY <1>1, <2>2, <2>3, Levels DEF BusInv, ChipOK, BusFreed, NinePulses
<1>3. CASE chip = Acking
  <2>1. found' = Acking \/ found' = Taking(Width)
      BY <1>1, <1>3 DEF BusInv, UnderWay, Acking
  <2>2. chip' = Taking(1) /\ stage' = "stop"
      BY <1>1, <1>3, PulseAck, Levels
  <2>3. Released(Rise(Fall(chip'), 0)) = 1
    <3>1. 1 \in 0..Width /\ 1 < Width
        OBVIOUS
    <3> QED BY <2>2, <3>1, StopTake, Levels
  <2>4. Freeable(found')
      BY <2>1 DEF Freeable, Acking, Taking
  <2>5. ChipOK(chip')
      BY <2>2 DEF ChipOK, Taking
  <2> QED BY <1>1, <2>2, <2>3, <2>4, <2>5, Levels DEF BusInv, BusFreed, NinePulses
<1>4. CASE chip.mode = "take"
  <2>1. PICK n \in 0..Width : chip = Taking(n)
      BY <1>4 DEF BusInv, ChipOK, IdleChip, Acking
  <2>2. found' = Taking(n)
      BY <1>1, <2>1 DEF BusInv, UnderWay, Acking, Taking
  <2>3. CASE n = Width
    <3>1. chip' = Acking
        BY <1>1, <2>1, <2>3, PulseTake
    <3>2. pulses = 0
        BY <1>1, <2>1 DEF BusInv, UnderWay, Acking, Taking
    <3>3. stage' = "pulse" /\ pulses' <= Width
        BY <1>1, <3>1, <3>2, Levels
    <3> QED BY <1>1, <2>2, <2>3, <3>1, <3>3 DEF BusInv, ChipOK, UnderWay, BusFreed, NinePulses
  <2>4. CASE n < Width
    <3>1. chip' = Taking(n + 1) /\ n + 1 \in 0..Width
        BY <1>1, <2>1, <2>4, PulseTake
    <3>2. stage' = "stop" /\ ChipOK(chip')
        BY <1>1, <3>1, Levels DEF ChipOK, Taking
    <3>3. Freeable(found') <=> n # Width - 1
        BY <2>2 DEF Freeable, Taking
    <3>4. CASE n + 1 = Width
      <4>1. Released(Rise(Fall(chip'), 0)) = 0
          BY <3>1, <3>4, StopTake, Levels
      <4> QED BY <1>1, <3>1, <3>2, <3>3, <3>4, <4>1, Levels DEF BusInv, BusFreed, NinePulses
    <3>5. CASE n + 1 < Width
      <4>1. Released(Rise(Fall(chip'), 0)) = 1
          BY <3>1, <3>5, StopTake, Levels
      <4> QED BY <1>1, <3>1, <3>2, <3>3, <3>5, <4>1, Levels DEF BusInv, BusFreed, NinePulses
    <3> QED BY <3>1, <3>4, <3>5
  <2> QED BY <2>3, <2>4
<1>5. CASE chip.mode = "send"
    BY <1>5, PulseStepSend
<1> QED BY <1>2, <1>3, <1>4, <1>5 DEF BusInv, ChipOK

\* The STOP frees the chip or leaves it in one of its states.
LEMMA StopStep == BusInv /\ StopCondition => BusInv'
<1> SUFFICES ASSUME BusInv, StopCondition PROVE BusInv'
    OBVIOUS
<1> USE WidthAssumption
<1> DEFINE c == Rise(Fall(chip), 0)
<1>1. /\ stage = "stop" /\ stage' = "done" /\ pulses' = pulses /\ found' = found
      /\ chip' = IF Released(c) = 1 THEN IdleChip ELSE c
    BY DEF StopCondition
<1>2. Released(c) = 1 <=> Freeable(found)
    BY <1>1 DEF BusInv
<1>3. CASE Released(c) = 1
    BY <1>1, <1>2, <1>3 DEF BusInv, ChipOK, BusFreed, NinePulses
<1>4. CASE Released(c) # 1
  <2>1. ChipOK(c) /\ c # IdleChip
    <3>1. c # IdleChip
        BY <1>4, Levels
    <3>2. CASE chip = IdleChip
        BY <1>4, <3>2, StopIdle, Levels
    <3>3. CASE chip = Acking
        BY <1>4, <3>3, StopAck, Levels
    <3>4. CASE chip.mode = "take"
      <4>1. PICK n \in 0..Width : chip = Taking(n)
          BY <3>4 DEF BusInv, ChipOK, IdleChip, Acking
      <4>2. c = Acking
          BY <1>4, <4>1, StopTake, Levels
      <4> QED BY <3>1, <4>2 DEF ChipOK
    <3>5. CASE chip.mode = "send"
      <4>1. PICK left \in Seq({0, 1}) : chip = Sending(left) /\ Len(left) \in 1..Width + 1
          BY <3>5 DEF BusInv, ChipOK, IdleChip, Acking
      <4>2. PICK k \in Nat \ {0} : k = Len(left) /\ k <= Width + 1
          BY <4>1
      <4>3. left # <<>> /\ Tail(left) \in Seq({0, 1}) /\ Len(Tail(left)) = k - 1
            /\ (Tail(left) = <<>> <=> k = 1)
          BY <4>2, TailBits
      <4>4. c = Sending(Tail(left))
          BY <4>1, <4>3, StopSend
      <4>5. k # 1
        <5>1. Released(Sending(<<>>)) = 1
            BY DEF Released, Sending
        <5> QED BY <1>4, <4>3, <4>4, <5>1
      <4>6. k - 1 \in 1..Width + 1
          BY <4>2, <4>5
      <4> HIDE DEF c
      <4>7. ChipOK(c)
          BY <4>3, <4>4, <4>6 DEF ChipOK, Sending
      <4> QED BY <3>1, <4>7
    <3> QED BY <3>2, <3>3, <3>4, <3>5 DEF BusInv, ChipOK
  <2> HIDE DEF c
  <2> QED BY <1>1, <1>2, <1>4, <2>1 DEF BusInv, BusFreed, NinePulses
<1> QED BY <1>3, <1>4

\* Where a reset can catch the chip is a state of the chip.
LEMMA CaughtOK == \A c \in Caught : ChipOK(c)
<1> USE WidthAssumption
<1>1. ASSUME NEW n \in 0..Width PROVE ChipOK(Taking(n))
    BY DEF ChipOK, Taking
<1>2. ASSUME NEW left \in Seq({0, 1}), Len(left) \in 1..Width + 1
      PROVE  ChipOK(Sending(left))
    BY <1>2 DEF ChipOK, Sending
<1>3. ASSUME NEW n \in 0..Width, NEW left \in Bits(n)
      PROVE  left \in Seq({0, 1}) /\ Len(left) = n
    BY DEF Bits
<1>4. ASSUME NEW n \in 1..Width, NEW left \in Bits(n) PROVE ChipOK(Sending(left))
  <2>1. left \in Seq({0, 1}) /\ Len(left) = n /\ n \in 1..Width + 1
      BY <1>3
  <2> QED BY <1>2, <2>1
<1>5. ASSUME NEW byte \in Bits(Width) PROVE ChipOK(Sending(<<1>> \o byte))
  <2>1. byte \in Seq({0, 1}) /\ Len(byte) = Width
      BY <1>3
  <2>2. <<1>> \in Seq({0, 1}) /\ Len(<<1>>) = 1
      OBVIOUS
  <2>3. <<1>> \o byte \in Seq({0, 1}) /\ Len(<<1>> \o byte) = 1 + Width
      BY <2>1, <2>2
  <2>4. 1 + Width \in 1..Width + 1
      OBVIOUS
  <2> QED BY <1>2, <2>3, <2>4
<1> QED BY <1>1, <1>4, <1>5 DEF Caught, ChipOK

LEMMA BusStep == BusInv /\ [BusNext]_bootVars => BusInv'
<1> SUFFICES ASSUME BusInv, [BusNext]_bootVars PROVE BusInv'
    OBVIOUS
<1>1. CASE UNCHANGED busVars
    BY <1>1 DEF busVars, BusInv, UnderWay, BusFreed, NinePulses
<1>2. CASE Pulse
    BY <1>2, PulseStep
<1>3. CASE StopCondition
    BY <1>3, StopStep
<1>4. ASSUME Restart, ChipOK(chip') PROVE BusInv'
    BY <1>4, WidthAssumption DEF Restart, BusInv, BusFreed, NinePulses
<1>5. CASE OwnReset
    BY <1>4, <1>5 DEF OwnReset, BusInv
<1>6. CASE OutsideReset
    BY <1>4, <1>6, CaughtOK DEF OutsideReset, BusInv
<1>7. CASE PowerCycle
    BY <1>4, <1>7 DEF PowerCycle, ChipOK
<1> QED
    BY <1>1, <1>2, <1>3, <1>5, <1>6, <1>7 DEF BusNext, bootVars

LEMMA BusInvInit == BusInit => BusInv
BY WidthAssumption DEF BusInit, BusInv, ChipOK, BusFreed, NinePulses

-----------------------------------------------------------------------------
(* Theorems.                                                               *)

LEMMA BootStepIsFaultMarkerStep == [BusNext]_bootVars => [Next]_vars
BY BusStepIsFaultMarkerStep DEF bootVars

LEMMA BootInit == BusInit => Init
BY DEF BusInit

\* read_and_clear and the resets: flags, marker, reason and histories stay within
\* their types over every boot.
THEOREM BootTypeOK == BusSpec => []TypeOK
BY BootInit, ReasonInit, ReasonStep, BootStepIsFaultMarkerStep, PTL DEF BusSpec

\* fault_marker.rs: the reason that the firmware publishes is the cause of a
\* reset that really happened since the reason before it was read.
THEOREM ReasonIsTrue == BusSpec => []ReasonTrue
<1>1. ReasonInv => ReasonTrue
    BY DEF ReasonInv
<1> QED
    BY <1>1, BootInit, ReasonInit, ReasonStep, BootStepIsFaultMarkerStep, PTL
    DEF BusSpec

\* main.rs, I2C1 bus recovery: after the pulses and the STOP a chip that the reset
\* caught in a Freeable state waits for a START, whatever resets interrupt the
\* recovery and for every width of a byte.
THEOREM RecoveryFreesBus == BusSpec => []BusFreed
<1>1. BusInv => BusFreed
    BY DEF BusInv
<1> QED BY <1>1, BusInvInit, BusStep, PTL DEF BusSpec

\* main.rs, I2C1 bus recovery: one pulse more than a byte has bits, nine in the
\* code, makes every chip let SDA go before the STOP begins.
THEOREM NinePulsesSuffice == BusSpec => []NinePulses
<1>1. BusInv => NinePulses
    BY DEF BusInv
<1> QED BY <1>1, BusInvInit, BusStep, PTL DEF BusSpec
=============================================================================
