---------------------------- MODULE RelayProofs -----------------------------
(***************************************************************************)
(* Proofs about relay_task, for every pulse length and every latency:      *)
(* the inductive invariant, the two timing properties it implies, and the  *)
(* refinement of the abstract monostable.                                  *)
(***************************************************************************)
EXTENDS Relay, TLAPS

-----------------------------------------------------------------------------
\* The state the firmware boots into satisfies the inductive invariant.
LEMMA InitIInv == Init => IInv
BY RelayAssumption DEF Init, IInv, TypeOK, SinceCap

\* Every poll of relay_task, every command and every tick preserves it.
LEMMA NextIInv == IInv /\ [Next]_vars => IInv'
<1> SUFFICES ASSUME IInv, [Next]_vars PROVE IInv'
    OBVIOUS
<1> USE RelayAssumption
<1>1. ASSUME NEW cmd \in {"pulse", "off"}, Signal(cmd) PROVE IInv'
    BY <1>1 DEF IInv, TypeOK, Signal, SinceCap
<1>2. CASE TakeChange
    BY <1>2 DEF IInv, TypeOK, TakeChange, SinceCap
<1>3. CASE Wake
    BY <1>3 DEF IInv, TypeOK, Wake, StartWindow, SinceCap
<1>4. CASE Retrigger
    BY <1>4 DEF IInv, TypeOK, Retrigger, StartWindow, SinceCap
<1>5. CASE Cancel
    BY <1>5 DEF IInv, TypeOK, Cancel, Rest, SinceCap
<1>6. CASE Expire
    BY <1>6 DEF IInv, TypeOK, Expire, StartWindow, Rest, SinceCap
<1>7. CASE Tick
    <2>1. TypeOK'
        BY <1>7 DEF IInv, TypeOK, Tick, Runnable, SinceCap
    <2>2. (pin = "high" <=> pc = "hold")'
        BY <1>7 DEF IInv, Tick
    <2>3. (trigger = "pulse" => since <= lag)'
        BY <1>7 DEF IInv, TypeOK, Tick, Runnable, SinceCap
    <2>4. (pc = "hold" => since <= (PulseTicks - left) + MaxLag
                                + (IF left = 0 THEN lag ELSE 0))'
        BY <1>7 DEF IInv, TypeOK, Tick, Runnable, SinceCap
    <2>5. (pc = "hold" /\ trigger = "none" => since >= PulseTicks - left)'
        BY <1>7 DEF IInv, TypeOK, Tick, SinceCap
    <2> QED
        BY <2>1, <2>2, <2>3, <2>4, <2>5 DEF IInv
<1>8. CASE UNCHANGED vars
    BY <1>8 DEF IInv, TypeOK, vars
<1> QED
    BY <1>1, <1>2, <1>3, <1>4, <1>5, <1>6, <1>7, <1>8 DEF Next, Poll

\* relay_task and its two signals keep their types and the window accounting.
THEOREM RelayInvariant == Spec => []IInv
<1> QED BY InitIInv, NextIInv, PTL DEF Spec

\* outputs.rs, relay_task: the types of the state; the timer and the latency
\* stay within their bounds.
THEOREM RelayTypeOK == Spec => []TypeOK
<1>1. IInv => TypeOK
    BY DEF IInv
<1> QED BY <1>1, RelayInvariant, PTL

\* The accounting bounds the time for which the relay stays energised.
LEMMA IInvBounds == IInv => PulseBounded
BY RelayAssumption DEF IInv, TypeOK, PulseBounded, SinceCap

\* The relay pin is HIGH only inside a window of relay_task, and never for
\* longer than a pulse and the two latencies after the last pulse command.
THEOREM RelayPulseBounded == Spec => []PulseBounded
BY RelayInvariant, IInvBounds, PTL

\* No step drops the pin early.
LEMMA StepNoEarlyDrop ==
    IInv /\ [Next]_vars => (pin = "high" /\ pin' = "low" => trigger = "off" \/ since >= PulseTicks)
<1> SUFFICES ASSUME IInv, [Next]_vars, pin = "high", pin' = "low"
             PROVE  trigger = "off" \/ since >= PulseTicks
    OBVIOUS
<1>1. CASE Wake
    BY <1>1 DEF IInv, Wake, StartWindow
<1>2. CASE Cancel
    BY <1>2 DEF Cancel
<1>3. CASE Expire
    BY <1>3, RelayAssumption DEF IInv, TypeOK, Expire, StartWindow, SinceCap
<1>4. CASE Retrigger
    BY <1>4 DEF Retrigger, StartWindow
<1> QED
    BY <1>1, <1>2, <1>3, <1>4 DEF Next, Poll, Signal, TakeChange, Tick, vars

\* The pin falls on its own only when a whole pulse has gone by since the
\* last pulse command, whatever races with the expiry of the timer.
THEOREM RelayNoEarlyDrop == Spec => NoEarlyDrop
<1>1. IInv /\ [Next]_vars
        => [pin = "high" /\ pin' = "low" => trigger = "off" \/ since >= PulseTicks]_vars
    BY StepNoEarlyDrop
<1> QED
    BY <1>1, RelayInvariant, PTL DEF Spec, NoEarlyDrop

-----------------------------------------------------------------------------
(* Refinement.                                                             *)

\* The boot state is an initial state of the monostable.
LEMMA InitMono == Init => Mono!Init
BY DEF Init, Mono!Init

\* Each step of the task is a step of the monostable or leaves it alone.
LEMMA StepMono == IInv /\ [Next]_vars => [Mono!Next]_Mono!vars
<1> SUFFICES ASSUME IInv, [Next]_vars PROVE [Mono!Next]_Mono!vars
    OBVIOUS
<1> USE RelayAssumption
<1> USE DEF Mono!Next, Mono!vars
<1>1. ASSUME NEW cmd \in {"pulse", "off"}, Signal(cmd)
      PROVE  [Mono!Next]_Mono!vars
    <2>1. Mono!Command(cmd)
        BY <1>1 DEF Signal, Mono!Command
    <2> QED BY <2>1
<1>2. CASE TakeChange
    BY <1>2 DEF TakeChange
<1>3. CASE Wake
    <2>1. CASE trigger = "pulse"
        BY <1>3, <2>1 DEF Wake, StartWindow, Mono!Rise
    <2>2. CASE trigger # "pulse"
        BY <1>3, <2>2 DEF IInv, TypeOK, Wake, Mono!Ignore
    <2> QED BY <2>1, <2>2
<1>4. CASE Retrigger
    BY <1>4 DEF Retrigger, StartWindow, Mono!Rise
<1>5. CASE Cancel
    BY <1>5 DEF IInv, Cancel, Rest, Mono!Fall
<1>6. CASE Expire
    <2>1. CASE trigger = "pulse"
        BY <1>6, <2>1 DEF Expire, StartWindow, Mono!Rise
    <2>2. CASE trigger # "pulse"
        BY <1>6, <2>2 DEF IInv, TypeOK, Expire, Rest, Mono!Fall
    <2> QED BY <2>1, <2>2
<1>7. CASE Tick
    <2>1. pin = "high" => since < PulseTicks + 2 * MaxLag
        BY <1>7 DEF IInv, TypeOK, Tick, Runnable, SinceCap
    <2>2. Mono!Tick
        BY <1>7, <2>1 DEF Tick, Mono!Tick
    <2> QED BY <2>2
<1>8. CASE UNCHANGED vars
    BY <1>8 DEF vars
<1> QED
    BY <1>1, <1>2, <1>3, <1>4, <1>5, <1>6, <1>7, <1>8 DEF Next, Poll

\* relay_task, with its timer, its signals and its scheduling, implements the
\* monostable that the README promises.
THEOREM RelayImplementsMonostable == Spec => ImplementsMonostable
<1> QED
    BY InitMono, StepMono, RelayInvariant, PTL
    DEF Spec, ImplementsMonostable, Mono!Spec
=============================================================================
