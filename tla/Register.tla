------------------------------ MODULE Register ------------------------------
(***************************************************************************)
(* What the stored configuration promises, whatever bytes, locks and tasks *)
(* are behind it (README, "Network configuration"; config.rs, save_config  *)
(* and load_config): a register with one writer at a time.  A value takes  *)
(* effect as a whole when its writer is done, and stays for as many        *)
(* restarts as come, each of which runs on it or, where the register       *)
(* cannot be read, on the fallback.  From the time a write begins until a  *)
(* write completes there is no such promise: the old value may be gone.    *)
(***************************************************************************)
CONSTANTS Values,   \* what can be written
          Fallback  \* what a restart uses when the register cannot be read

VARIABLES val,      \* the value that is in effect, as a set; empty if unsure
          pending,  \* the value that is being written, as a set
          running   \* the value that the last restart has read

vars == <<val, pending, running>>

Init == val = {} /\ pending = {} /\ running = Fallback

Begin(v) ==
    /\ pending = {}
    /\ pending' = {v}
    /\ val' = {}
    /\ UNCHANGED running

Abort ==
    /\ pending # {}
    /\ pending' = {}
    /\ UNCHANGED <<val, running>>

Commit ==
    /\ pending # {}
    /\ val' = pending
    /\ pending' = {}
    /\ UNCHANGED running

\* A restart abandons the write.
Restart ==
    /\ val # {} => running' \in val \union {Fallback}
    /\ pending' = {}
    /\ UNCHANGED val

Next == (\E v \in Values : Begin(v)) \/ Abort \/ Commit \/ Restart

Spec == Init /\ [][Next]_vars
=============================================================================
