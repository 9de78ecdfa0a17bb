---------------------------- MODULE BusRecovery -----------------------------
(***************************************************************************)
(* The boot sequence of src/main.rs between read_and_clear and the first   *)
(* await: the recovery of the I2C bus, on top of the resets of FaultMarker.*)
(*                                                                         *)
(* The AT24C02 is external.  It keeps its state over a reset of the core.  *)
(* It samples SDA when SCL rises, changes what it drives when SCL falls,   *)
(* and is freed by a STOP: SDA rising while SCL is high.  Between two      *)
(* actions both lines are released by the core.                            *)
(***************************************************************************)
EXTENDS FaultMarker, Sequences

CONSTANT Width  \* bits of a byte, 8

ASSUME WidthAssumption == Width \in Nat /\ Width >= 3

Bits(n) == [1..n -> {0, 1}]

\* The chip waits for a START, has taken n bits of a byte, acknowledges one, or
\* sends one: left begins with the bit on the line, and ends before the slot in
\* which the core acknowledges.
IdleChip == [mode |-> "idle"]
Taking(n) == [mode |-> "take", n |-> n]
Acking == [mode |-> "ack"]
Sending(left) == [mode |-> "send", left |-> left]

\* Where a reset can catch the chip, with SCL high: right behind a slot in which
\* the core acknowledged, another whole byte is still to come.
Caught ==
    {IdleChip, Acking} \union {Taking(n) : n \in 0..Width}
        \union {Sending(left) : left \in UNION {Bits(n) : n \in 1..Width}}
        \union {Sending(<<1>> \o byte) : byte \in Bits(Width)}

VARIABLES chip,    \* the AT24C02
          stage,   \* of the recovery: "pulse", "stop" or "done"
          pulses,  \* clock pulses of the loop so far
          found    \* history: the chip as the recovery found it

busVars == <<chip, stage, pulses, found>>

\* The level of SDA when the core leaves it alone.
Released(c) == IF c.mode = "ack" \/ (c.mode = "send" /\ c.left # <<>> /\ c.left[1] = 0)
               THEN 0 ELSE 1

\* The chip after SCL has fallen, and after it has risen on that level of SDA.
Fall(c) ==
    CASE c.mode = "take" /\ c.n = Width -> Acking
      [] c.mode = "ack" -> Taking(0)
      [] c.mode = "send" /\ c.left # <<>> -> Sending(Tail(c.left))
      [] OTHER -> c
Rise(c, level) ==
    CASE c.mode = "take" -> Taking(c.n + 1)
      [] c.mode = "send" /\ c.left = <<>> /\ level = 1 -> IdleChip  \* NACK
      [] OTHER -> c

BusInit == Init /\ chip = IdleChip /\ stage = "pulse" /\ pulses = 0 /\ found = IdleChip

-----------------------------------------------------------------------------
(* main, up to the first await.                                            *)

\* Mutant of Pulse: eight turns at most, one for each bit.
PulseEight ==
    /\ phase = "booting" /\ ~wedged /\ stage = "pulse"
    /\ chip' = Rise(Fall(chip), Released(Fall(chip)))
    /\ pulses' = pulses + 1
    /\ stage' = IF Released(chip') = 1 \/ pulses' = Width THEN "stop" ELSE "pulse"
    /\ found' = IF pulses = 0 THEN chip ELSE found
    /\ UNCHANGED vars

\* One turn of the loop: SCL low and high again, out if SDA is high then.
Pulse ==
    /\ phase = "booting" /\ ~wedged /\ stage = "pulse"
    /\ chip' = Rise(Fall(chip), Released(Fall(chip)))
    /\ pulses' = pulses + 1
    /\ stage' = IF Released(chip') = 1 \/ pulses' = Width + 1 THEN "stop" ELSE "pulse"
    /\ found' = IF pulses = 0 THEN chip ELSE found
    /\ UNCHANGED vars

\* Mutant of StopCondition: SDA is not pulled low before SCL rises.
StopWithoutEdge ==
    /\ phase = "booting" /\ ~wedged /\ stage = "stop"
    /\ chip' = Rise(Fall(chip), Released(Fall(chip)))
    /\ stage' = "done"
    /\ UNCHANGED <<vars, pulses, found>>

\* SCL low, SDA low, SCL high, SDA released: a STOP, unless the chip holds SDA.
StopCondition ==
    /\ phase = "booting" /\ ~wedged /\ stage = "stop"
    /\ LET c == Rise(Fall(chip), 0)
       IN  chip' = IF Released(c) = 1 THEN IdleChip ELSE c
    /\ stage' = "done"
    /\ UNCHANGED <<vars, pulses, found>>

\* The core starts again; the recovery has all to do.
Restart == stage' = "pulse" /\ pulses' = 0 /\ UNCHANGED found

\* Transactions are blocking, so the firmware resets itself between two.
OwnReset == (RemoteReboot \/ SoftwareReset) /\ Restart /\ UNCHANGED chip

\* Any other reset comes in the middle of one, if the bus is in use at all.
OutsideReset ==
    /\ WatchdogReset \/ BrownOut \/ Button
    /\ chip' \in IF stage = "done" THEN Caught ELSE {chip}
    /\ Restart

\* The chip loses power together with the core.
PowerCycle == PowerOn /\ chip' = IdleChip /\ Restart

BusNext ==
    \/ (ReadAndClear \/ Wedge) /\ UNCHANGED busVars
    \/ Pulse \/ StopCondition
    \/ stage = "done" /\ Arm /\ UNCHANGED busVars
    \/ OwnReset \/ OutsideReset \/ PowerCycle

bootVars == <<vars, busVars>>

BusSpec ==
    /\ BusInit /\ [][BusNext]_bootVars
    /\ WF_bootVars((ReadAndClear /\ UNCHANGED busVars) \/ Pulse \/ StopCondition
                     \/ (stage = "done" /\ Arm /\ UNCHANGED busVars))
    /\ WF_bootVars(WatchdogReset /\ OutsideReset)

-----------------------------------------------------------------------------
(* Properties.                                                             *)

\* The states of the chip in which the loop does not end one clock too early:
\* it must not leave at the last bit of a byte that the chip takes, nor at a 1
\* that the chip sends before a 0.
Freeable(c) ==
    CASE c.mode = "take" -> c.n # Width - 1
      [] c.mode = "send" ->
             LET rest == Tail(c.left) IN
             \A k \in DOMAIN rest :
                 rest[k] = 1 /\ (\A j \in 1..k - 1 : rest[j] = 0)
                     => k = Len(rest) \/ rest[k + 1] = 1
      [] OTHER -> TRUE

\* main.rs, I2C1 bus recovery.  A chip that the reset has caught in a Freeable
\* state waits for a START when the first read begins, at any number of resets
\* in a row, also within the recovery itself.
BusFreed == stage = "done" /\ Freeable(found) => chip = IdleChip

\* main.rs, I2C1 bus recovery: nine pulses are enough.  However the reset has
\* caught the chip, it lets SDA go before the STOP begins.
NinePulses == stage = "stop" => Released(chip) = 1

\* main.rs, I2C1 bus recovery: "9 SCL pulses + STOP unstick it before the I2C
\* peripheral is initialised".  No chip holds SDA when the first read begins.
BusUnstuck == stage = "done" => Released(chip) = 1
=============================================================================
