----------------------------- MODULE Monostable -----------------------------
(***************************************************************************)
(* What the relay output promises, whatever the task, the timer and the    *)
(* signals behind it do (README, "Relay control flow"; outputs.rs, doc     *)
(* comment of relay_task): a pulse command turns the output on, every      *)
(* further pulse command restarts the window, and the output falls only    *)
(* because it was told to or because a whole pulse has gone by since the   *)
(* last pulse command; it never stays on for longer than a pulse plus the  *)
(* scheduling slack.                                                       *)
(***************************************************************************)
EXTENDS Naturals

CONSTANTS Pulse,   \* nominal length of a pulse, in ticks
          Slack,   \* how late the implementation may be, in ticks
          Forever  \* a count of ticks that stands for "long ago"

VARIABLES on,      \* the output
          req,     \* the newest command not yet acted upon
          elapsed  \* ticks since the last pulse command

vars == <<on, req, elapsed>>

Init == on = FALSE /\ req = "none" /\ elapsed = Forever

Command(c) ==
    /\ req' = c
    /\ elapsed' = IF c = "pulse" THEN 0 ELSE elapsed
    /\ UNCHANGED on

Rise ==
    /\ req = "pulse"
    /\ on' = TRUE
    /\ req' = "none"
    /\ UNCHANGED elapsed

\* The output falls on demand, or when the pulse it was asked for is over.
Fall ==
    /\ on
    /\ req = "off" \/ (req = "none" /\ elapsed >= Pulse)
    /\ on' = FALSE
    /\ req' = "none"
    /\ UNCHANGED elapsed

Ignore ==
    /\ ~on /\ req = "off"
    /\ req' = "none"
    /\ UNCHANGED <<on, elapsed>>

\* Time does not pass while the output is overdue to fall.
Tick ==
    /\ on => elapsed < Pulse + Slack
    /\ elapsed' = IF elapsed < Forever THEN elapsed + 1 ELSE elapsed
    /\ UNCHANGED <<on, req>>

Next == Rise \/ Fall \/ Ignore \/ Tick \/ \E c \in {"pulse", "off"} : Command(c)

Spec == Init /\ [][Next]_vars
=============================================================================
