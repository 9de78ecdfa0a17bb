------------------------------- MODULE MCMqtt -------------------------------
(***************************************************************************)
(* Small instances of Mqtt.  The pulse lasts one tick and a ready task is  *)
(* polled before the clock moves; RelayProofs has the other lengths.       *)
(***************************************************************************)
EXTENDS Mqtt

\* One input for every branch of handle_event, with a payload that
\* parse_bool rejects on a topic that needs one and on one that does not.
AllInputs == {<<"relay", "1">>, <<"relay", "0">>, <<"relay", "junk">>,
              <<"led", "1">>, <<"ping", "junk">>, <<"reboot", "1">>}

\* Users who never cancel a pulse.
PulseInputs == {<<"relay", "1">>}
=============================================================================
