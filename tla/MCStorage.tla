----------------------------- MODULE MCStorage ------------------------------
(***************************************************************************)
(* Small instances of Storage.  Every field of the two configurations      *)
(* differs; their ports share no byte and a torn one is 0, the client id   *)
(* of the second is one character of two bytes, so a torn one is no UTF-8. *)
(***************************************************************************)
EXTENDS Storage, TLC

ConfigA ==
    [ip |-> <<7>>, prefix |-> 8, gateway |-> <<1>>, broker |-> <<1>>,
     port |-> 256, id |-> <<97>>,
     mqtt_user |-> <<117>>, mqtt_pass |-> <<>>, web_user |-> <<>>, web_pass |-> <<>>]

ConfigB ==
    [ip |-> <<9>>, prefix |-> 30, gateway |-> <<2>>, broker |-> <<3>>,
     port |-> 1, id |-> <<195, 169>>,
     mqtt_user |-> <<>>, mqtt_pass |-> <<112>>, web_user |-> <<98>>, web_pass |-> <<99>>]

OneConfig == {ConfigB}
TwoConfigs == {ConfigA, ConfigB}

\* The web tasks run the same code.  Used where no liveness is checked.
Symmetry == Permutations(Web)
=============================================================================
