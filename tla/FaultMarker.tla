---------------------------- MODULE FaultMarker -----------------------------
(***************************************************************************)
(* Reset causes and how the firmware reports them: the reset flags of      *)
(* RCC_CSR and the marker word in CCM RAM (src/fault_marker.rs), the boot  *)
(* sequence of src/main.rs as far as it touches them, the reboots of the   *)
(* MQTT and web handlers, and the watchdog (src/watchdog.rs).              *)
(*                                                                         *)
(* The hardware is external.  A reset adds its flag, and the pin flag, to  *)
(* those that are still set; power-on sets only its own, the brown-out and *)
(* the pin flag.  CCM RAM survives a reset but not the loss of power, and  *)
(* garbage is assumed not to equal a tag (fault_marker.rs:43-47).          *)
(***************************************************************************)
EXTENDS Naturals, FiniteSets

VARIABLES phase,   \* "starting": before read_and_clear; "booting"; "running"
          csr,     \* reset flags that are set
          marker,  \* the marker word
          reason,  \* what read_and_clear returned
          armed,   \* the independent watchdog runs
          wedged,  \* the executor no longer polls any task
          causes,  \* history: causes of the resets since the last read
          told     \* history: the causes that the reason was read for

vars == <<phase, csr, marker, reason, armed, wedged, causes, told>>

\* A remote reboot is a software reset that was marked.
Causes == {"power", "brownout", "watchdog", "software", "pin", "remote"}

Flags(cause) ==
    CASE cause = "power" -> {"por", "bor", "pad"}
      [] cause = "brownout" -> {"bor", "pad"}
      [] cause = "watchdog" -> {"wdg", "pad"}
      [] cause \in {"software", "remote"} -> {"sft", "pad"}
      [] cause = "pin" -> {"pad"}

TypeOK ==
    /\ phase \in {"starting", "booting", "running"}
    /\ csr \subseteq {"por", "bor", "wdg", "sft", "pad"}
    /\ marker \in {"clear", "garbage", "remote"}
    /\ reason \in {"power_on", "brown_out", "iwdg_timeout", "software",
                   "nrst_pin", "remote_reboot", "unknown"}
    /\ armed \in BOOLEAN /\ wedged \in BOOLEAN
    /\ causes \subseteq Causes /\ told \subseteq Causes

Init ==
    /\ phase = "starting" /\ csr = Flags("power") /\ marker = "garbage"
    /\ reason = "unknown" /\ armed = FALSE /\ wedged = FALSE
    /\ causes = {"power"} /\ told = {}

\* The core starts again, with the marker that the reset leaves behind.
Reset(cause, mark) ==
    /\ phase' = "starting" /\ armed' = FALSE /\ wedged' = FALSE
    /\ csr' = IF cause = "power" THEN Flags(cause) ELSE csr \union Flags(cause)
    /\ marker' = mark
    /\ causes' = causes \union {cause}
    /\ UNCHANGED <<reason, told>>

-----------------------------------------------------------------------------
(* The firmware.                                                           *)

\* The flags in the order in which read_and_clear asks for them: a cause comes
\* before the flags that accompany it.
Ranked == <<"por", "bor", "wdg", "sft", "pad">>

FlagReason == [por |-> "power_on", bor |-> "brown_out", wdg |-> "iwdg_timeout",
               sft |-> "software", pad |-> "nrst_pin"]

FirstFlag ==
    CHOOSE i \in DOMAIN Ranked :
        Ranked[i] \in csr /\ \A j \in 1..i - 1 : Ranked[j] \notin csr

\* Mutant of Reason: the flag in place of its meaning.
RawReason ==
    IF marker = "remote" THEN "remote_reboot"
    ELSE IF csr = {} THEN "unknown"
    ELSE Ranked[FirstFlag]

\* The marker outranks the flags.  Nothing writes the tags of a stack overflow or
\* of a failed allocation, so only the one of a remote reboot is modelled.
Reason ==
    IF marker = "remote" THEN "remote_reboot"
    ELSE IF csr = {} THEN "unknown"
    ELSE FlagReason[Ranked[FirstFlag]]

\* Mutant of ReadAndClear: RMVF is not set, so the flags stay.
ReadOnly ==
    /\ phase = "starting" /\ ~wedged
    /\ reason' = Reason
    /\ marker' = "clear"
    /\ phase' = "booting"
    /\ causes' = {} /\ told' = causes
    /\ UNCHANGED <<csr, armed, wedged>>

\* read_and_clear, after the first 100 ms of main.
ReadAndClear ==
    /\ phase = "starting" /\ ~wedged
    /\ reason' = Reason
    /\ marker' = "clear" /\ csr' = {}
    /\ phase' = "booting"
    /\ causes' = {} /\ told' = causes
    /\ UNCHANGED <<armed, wedged>>

\* Mutant of Arm: the watchdog is configured but not unleashed.
ArmNothing ==
    /\ phase = "booting" /\ ~wedged
    /\ phase' = "running"
    /\ UNCHANGED <<armed, csr, marker, reason, wedged, causes, told>>

\* main reaches the 3 s wait; only now are the tasks it spawned polled, and
\* watchdog_task unleashes the watchdog.
Arm ==
    /\ phase = "booting" /\ ~wedged
    /\ armed' = TRUE /\ phase' = "running"
    /\ UNCHANGED <<csr, marker, reason, wedged, causes, told>>

\* stm32/cmd/reboot: mark_remote_reboot() and safe_reboot().
RemoteReboot ==
    /\ phase = "running" /\ ~wedged
    /\ Reset("remote", "remote")

\* /save and /reboot: safe_reboot() alone.  A panic resets in the same way: the
\* handler of panic-persist (external) stores the message and calls sys_reset at
\* once, so it is reported as "software", not after 20 s as "iwdg_timeout".
SoftwareReset ==
    /\ ~wedged /\ phase \in {"booting", "running"}
    /\ Reset("software", marker)

\* A task blocks without an await.
Wedge ==
    /\ ~wedged /\ phase \in {"booting", "running"}
    /\ wedged' = TRUE
    /\ UNCHANGED <<phase, csr, marker, reason, armed, causes, told>>

-----------------------------------------------------------------------------
(* The world (external).                                                   *)

WatchdogReset == armed /\ wedged /\ Reset("watchdog", marker)
PowerOn == Reset("power", "garbage")
BrownOut == \E mark \in {marker, "garbage"} : Reset("brownout", mark)
Button == Reset("pin", marker)

Next ==
    \/ ReadAndClear \/ Arm \/ RemoteReboot \/ SoftwareReset \/ Wedge
    \/ WatchdogReset \/ PowerOn \/ BrownOut \/ Button

\* The executor runs main, and the watchdog counts down.
Fairness == WF_vars(ReadAndClear \/ Arm) /\ WF_vars(WatchdogReset)

Spec == Init /\ [][Next]_vars /\ Fairness

-----------------------------------------------------------------------------
(* Properties.                                                             *)

\* README, reset-reason reporting: the table of values and their meanings.
Meaning == [power |-> "power_on", brownout |-> "brown_out",
            watchdog |-> "iwdg_timeout", software |-> "software",
            pin |-> "nrst_pin", remote |-> "remote_reboot"]

\* The reason that the firmware publishes is the cause of a reset that really
\* happened since the reason before it was read: no flag or marker of an
\* earlier boot is reported again, and a cause is not taken for the flags that
\* come with it, also when resets follow each other before main reads them.
ReasonTrue ==
    phase # "starting" => reason \in {Meaning[c] : c \in told}

\* watchdog.rs: once main waits for the first time, an executor that no longer
\* polls its tasks is reset; before that nothing watches over it.
WedgeEnds == phase = "running" /\ wedged ~> ~wedged

=============================================================================
