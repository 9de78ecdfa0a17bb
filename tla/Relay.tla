------------------------------- MODULE Relay --------------------------------
(***************************************************************************)
(* relay_task of src/outputs.rs with the two Signals it is wired to:       *)
(* RELAY_TRIGGER (commands in) and RELAY_CHANGE (report out).  A Signal    *)
(* of embassy-sync holds at most one value: signal() overwrites, wait()    *)
(* takes.                                                                  *)
(*                                                                         *)
(* The executor is cooperative, so the unit of interleaving is one poll of *)
(* the task: everything it does from one suspension to the next.  A poll   *)
(* that ends a pulse runs on to the top of the outer loop and takes a      *)
(* command that is already waiting there.                                  *)
(*                                                                         *)
(* Time is counted in ticks.  A task that is ready to run is polled within *)
(* MaxLag ticks: the other tasks of the executor yield at every await.     *)
(***************************************************************************)
EXTENDS Naturals

CONSTANTS PulseTicks,  \* RELAY_PULSE in ticks
          MaxLag       \* scheduling latency in ticks

ASSUME RelayAssumption == PulseTicks \in Nat \ {0} /\ MaxLag \in Nat

VARIABLES pc,       \* "idle": awaits RELAY_TRIGGER; "hold": awaits the select
          pin,      \* level of the relay pin, "high" energises it
          trigger,  \* RELAY_TRIGGER
          change,   \* RELAY_CHANGE
          left,     \* ticks left on the pulse timer, meaningful in "hold"
          lag,      \* ticks for which the task has been ready to run
          since     \* history: ticks since the last pulse_relay()

vars == <<pc, pin, trigger, change, left, lag, since>>

\* Bound of the history counter: any larger count is as good as this one.
SinceCap == PulseTicks + 2 * MaxLag + 1

TypeOK ==
    /\ pc \in {"idle", "hold"}
    /\ pin \in {"low", "high"}
    /\ trigger \in {"none", "pulse", "off"}
    /\ change \in {"none", "off"}
    /\ left \in 0..PulseTicks
    /\ lag \in 0..MaxLag
    /\ since \in 0..SinceCap

Init ==
    /\ pc = "idle" /\ pin = "low"
    /\ trigger = "none" /\ change = "none"
    /\ left = 0 /\ lag = 0 /\ since = SinceCap

\* pulse_relay() and relay_off(), called by the MQTT receive path.
Signal(cmd) ==
    /\ trigger' = cmd
    /\ since' = IF cmd = "pulse" THEN 0 ELSE since
    /\ UNCHANGED <<pc, pin, change, left, lag>>

\* RELAY_CHANGE.wait() in the MQTT task takes the report.
TakeChange ==
    /\ change # "none"
    /\ change' = "none"
    /\ UNCHANGED <<pc, pin, trigger, left, lag, since>>

-----------------------------------------------------------------------------
(* The polls of relay_task.                                                *)

Runnable == trigger # "none" \/ (pc = "hold" /\ left = 0)

\* Mutant of StartWindow: the window is one tick too long.
LongWindow ==
    /\ pc' = "hold" /\ pin' = "high"
    /\ left' = PulseTicks + 1

\* Top of the inner loop: set_relay(true), then a new timer.
StartWindow ==
    /\ pc' = "hold" /\ pin' = "high"
    /\ left' = PulseTicks

\* Mutant of Rest: the pulse ends without set_relay(false).
RestEnergised == pc' = "idle" /\ UNCHANGED pin /\ left' = 0

Rest == pc' = "idle" /\ pin' = "low" /\ left' = 0

\* Mutant of Wake: a pulse command that arrives at rest is swallowed.
WakeDeaf ==
    /\ pc = "idle" /\ trigger # "none"
    /\ trigger' = "none" /\ lag' = 0
    /\ UNCHANGED <<pc, pin, left, change, since>>

\* A command arrives at the outer wait: Off is ignored, Pulse opens a window.
Wake ==
    /\ pc = "idle" /\ trigger # "none"
    /\ IF trigger = "pulse" THEN StartWindow ELSE UNCHANGED <<pc, pin, left>>
    /\ trigger' = "none" /\ lag' = 0
    /\ UNCHANGED <<change, since>>

\* Mutant of Retrigger: the timer of the first command goes on.
RetriggerKeepsTimer ==
    /\ pc = "hold" /\ left > 0 /\ trigger = "pulse"
    /\ trigger' = "none" /\ lag' = 0
    /\ UNCHANGED <<pc, pin, left, change, since>>

\* Either::Second(Pulse): the window starts over.
Retrigger ==
    /\ pc = "hold" /\ left > 0 /\ trigger = "pulse"
    /\ StartWindow
    /\ trigger' = "none" /\ lag' = 0
    /\ UNCHANGED <<change, since>>

\* Either::Second(Off): the pulse is cut.
Cancel ==
    /\ pc = "hold" /\ left > 0 /\ trigger = "off"
    /\ Rest
    /\ change' = "off"
    /\ trigger' = "none" /\ lag' = 0
    /\ UNCHANGED since

\* Mutant of Expire: a command that waits when the timer expires is lost.
ExpireDropsCommand ==
    /\ pc = "hold" /\ left = 0
    /\ Rest
    /\ change' = "off"
    /\ trigger' = "none" /\ lag' = 0
    /\ UNCHANGED since

\* Mutant of Expire: the timer does not wake the task, only a command does.
ExpireUnnoticed ==
    /\ pc = "hold" /\ left = 0 /\ trigger # "none"
    /\ IF trigger = "pulse" THEN StartWindow ELSE Rest
    /\ change' = "off"
    /\ trigger' = "none" /\ lag' = 0
    /\ UNCHANGED since

\* Either::First: select polls the timer first, so an expired timer wins over
\* a waiting command; the command is then taken by the outer wait in the same
\* poll and may open the next window at once.
Expire ==
    /\ pc = "hold" /\ left = 0
    /\ IF trigger = "pulse" THEN StartWindow ELSE Rest
    /\ change' = "off"
    /\ trigger' = "none" /\ lag' = 0
    /\ UNCHANGED since

Poll == Wake \/ Retrigger \/ Cancel \/ Expire

\* A tick passes; a runnable task is not left waiting for more than MaxLag.
Tick ==
    /\ Runnable => lag < MaxLag
    /\ lag' = IF Runnable THEN lag + 1 ELSE 0
    /\ left' = IF left > 0 THEN left - 1 ELSE 0
    /\ since' = IF since < SinceCap THEN since + 1 ELSE since
    /\ UNCHANGED <<pc, pin, trigger, change>>

Next == Poll \/ Tick \/ TakeChange \/ \E cmd \in {"pulse", "off"} : Signal(cmd)

\* The executor polls a ready task; time passes when nothing forbids it.
Fairness == WF_vars(Poll) /\ WF_vars(Tick)

Spec == Init /\ [][Next]_vars /\ Fairness

-----------------------------------------------------------------------------
(* Properties.                                                             *)

\* The relay is energised only by relay_task inside a window, and never
\* longer than one pulse plus the latency of its start and of its end after
\* the last pulse command (outputs.rs, relay_task: "Owns relay pulse timing").
PulseBounded == pin = "high" => pc = "hold" /\ since <= PulseTicks + 2 * MaxLag

\* The pin falls on its own only when a whole pulse has gone by since the
\* last pulse command: a retrigger really restarts the window, also when it
\* races the expiry of the timer or a command still waiting in the signal.
NoEarlyDrop ==
    [][pin = "high" /\ pin' = "low" => trigger = "off" \/ since >= PulseTicks]_vars

\* The strengthening of PulseBounded and NoEarlyDrop that the polls preserve.
\* A waiting pulse command is no older than the latency counter, and an open
\* window accounts for the age of the command that opened it from both sides.
IInv ==
    /\ TypeOK
    /\ pin = "high" <=> pc = "hold"
    /\ trigger = "pulse" => since <= lag
    /\ pc = "hold" => since <= (PulseTicks - left) + MaxLag
                                + (IF left = 0 THEN lag ELSE 0)
    /\ pc = "hold" /\ trigger = "none" => since >= PulseTicks - left

\* The task implements the abstract monostable.
Mono == INSTANCE Monostable WITH
            Pulse <- PulseTicks, Slack <- 2 * MaxLag, Forever <- SinceCap,
            on <- pin = "high", req <- trigger, elapsed <- since

ImplementsMonostable == Mono!Spec

\* Once pulse commands stop, the relay is de-energised for good.
ComesToRest == <>[](trigger # "pulse" /\ since > 0) => <>[](pin = "low")
=============================================================================
