-------------------------------- MODULE Mqtt --------------------------------
(***************************************************************************)
(* mqtt_task of src/mqtt.rs composed with relay_task (module Relay), the   *)
(* broker and the link between them.                                       *)
(*                                                                         *)
(* The device subscribes to the control topics, stm32/relay among them,    *)
(* and publishes the end of every pulse to that same topic, so the broker  *)
(* sends the device its own report back.  The broker is external: it       *)
(* keeps FIFO order per connection, stores retained messages and replays   *)
(* them with the retain flag on a subscription, forwards live ones without *)
(* the flag, and publishes the will of a session that it loses.            *)
(*                                                                         *)
(* Each action of the task is what it does between two awaits that may     *)
(* suspend it.  Pings, heartbeats and the diag message change nothing here *)
(* but the time the task is away from its select, which is arbitrary.      *)
(***************************************************************************)
EXTENDS Naturals, Sequences

CONSTANTS PulseTicks, MaxLag,  \* see Relay
          Inputs,              \* <<topic, payload>> pairs that users publish
          MaxCmds,             \* bound: user publications
          MaxLoss              \* bound: losses of the connection

ASSUME MqttAssumption ==
    PulseTicks \in Nat \ {0} /\ {MaxLag, MaxCmds, MaxLoss} \subseteq Nat

VARIABLES pc, pin, trigger, change, left, lag, since  \* relay_task
VARIABLES mpc,       \* where mqtt_task is suspended
          online,    \* MQTT_ONLINE
          conn,      \* the TCP connection: "none", "up" or "dead"
          up,        \* packets from the device to the broker
          down,      \* packets from the broker to the device
          session,   \* broker: "none", "live", or "stale" once it lost its link
          subbed,    \* broker: the live session is subscribed
          status,    \* broker: retained message of stm32/status
          retained   \* broker: retained user message of each control topic
VARIABLES sent,      \* history: commands that users published, by command
          ran,       \* history: commands that handle_event executed
          reports,   \* history: reports taken from RELAY_CHANGE
          offBy,     \* history: who published the last Off that was executed
          losses     \* history: connection losses

relayVars == <<pc, pin, trigger, change, left, lag, since>>
deviceVars == <<mpc, online>>
brokerVars == <<session, subbed, status, retained>>
linkVars == <<conn, up, down>>
historyVars == <<sent, ran, reports, offBy, losses>>
vars == <<relayVars, deviceVars, brokerVars, linkVars, historyVars>>

R == INSTANCE Relay

Topics == {"relay", "led", "ping", "reboot"}
Commands == {"pulse", "off", "led", "ping", "reboot", "unknown"}

\* dispatch(), then dispatch_special() for the topics without a payload.
Dispatch(topic, payload) ==
    CASE topic = "relay" /\ payload = "1" -> "pulse"
      [] topic = "relay" /\ payload = "0" -> "off"
      [] topic = "led" /\ payload \in {"0", "1"} -> "led"
      [] topic \in {"ping", "reboot"} -> topic
      [] OTHER -> "unknown"

\* A packet: its kind, and for a publication what was published and by whom.
Packet(kind) ==
    [kind |-> kind, topic |-> "-", payload |-> "-", retain |-> FALSE, by |-> "-"]
Publication(topic, payload, retain, by) ==
    [kind |-> "publish", topic |-> topic, payload |-> payload,
     retain |-> retain, by |-> by]

Nothing == "-"

TypeOK ==
    /\ R!TypeOK
    /\ mpc \in {"connecting", "handshake", "announce", "subscribe", "loop",
                "publish", "pong", "saving", "backoff"}
    /\ online \in BOOLEAN
    /\ conn \in {"none", "up", "dead"}
    /\ session \in {"none", "live", "stale"}
    /\ subbed \in BOOLEAN
    /\ status \in {Nothing, "online", "offline"}
    /\ DOMAIN retained = Topics
    /\ sent \in [Commands -> Nat] /\ ran \in [Commands -> Nat]
    /\ reports \in Nat /\ losses \in 0..MaxLoss

Init ==
    /\ R!Init
    /\ mpc = "connecting" /\ online = FALSE
    /\ conn = "none" /\ up = <<>> /\ down = <<>>
    /\ session = "none" /\ subbed = FALSE /\ status = Nothing
    /\ retained = [t \in Topics |-> Nothing]
    /\ sent = [c \in Commands |-> 0] /\ ran = [c \in Commands |-> 0]
    /\ reports = 0 /\ offBy = Nothing /\ losses = 0

-----------------------------------------------------------------------------
(* mqtt_task: connecting.                                                  *)

\* build_connect_options: a clean start with the will "offline", retained, on
\* stm32/status; the broker below keeps the will.  Credentials are left out: a
\* broker that refuses them is GiveUp.
ConnectPacket == Packet("connect")

\* Mutant of TcpConnect: MQTT_ONLINE is set before the broker has answered.
TcpConnectOnline ==
    /\ mpc = "connecting"
    /\ conn' = "up" /\ up' = <<ConnectPacket>> /\ down' = <<>>
    /\ mpc' = "handshake" /\ online' = TRUE
    /\ UNCHANGED <<relayVars, brokerVars, historyVars>>

TcpConnect ==
    /\ mpc = "connecting"
    /\ conn' = "up" /\ up' = <<ConnectPacket>> /\ down' = <<>>
    /\ mpc' = "handshake"
    /\ UNCHANGED <<relayVars, online, brokerVars, historyVars>>

TcpFail ==
    /\ mpc = "connecting"
    /\ mpc' = "backoff"
    /\ UNCHANGED <<relayVars, online, brokerVars, linkVars, historyVars>>

\* client.connect() returns Ok.
Connack ==
    /\ mpc = "handshake" /\ conn = "up"
    /\ down # <<>> /\ Head(down).kind = "connack"
    /\ down' = Tail(down)
    /\ online' = TRUE
    /\ mpc' = "announce"
    /\ UNCHANGED <<relayVars, conn, up, brokerVars, historyVars>>

\* client.connect() returns an error although the link is up: the broker is
\* too late or refuses.  The socket is dropped with what is in flight.
GiveUp ==
    /\ mpc = "handshake" /\ conn = "up"
    /\ conn' = "none" /\ up' = <<>> /\ down' = <<>>
    /\ session' = IF session = "live" THEN "stale" ELSE session
    /\ mpc' = "backoff"
    /\ UNCHANGED <<relayVars, online, subbed, status, retained, historyVars>>

\* A packet leaves the device if the connection still carries it.
Send(packet) == up' = IF conn = "up" THEN Append(up, packet) ELSE up

\* Mutant of Announce: nothing is published after a connection.
AnnounceNothing ==
    /\ mpc = "announce"
    /\ mpc' = "subscribe"
    /\ UNCHANGED <<relayVars, online, linkVars, brokerVars, historyVars>>

\* Mutant of Announce: the reset reason goes to the status topic.
AnnounceDiag ==
    /\ mpc = "announce"
    /\ Send(Publication("status", "software", TRUE, "device"))
    /\ mpc' = "subscribe"
    /\ UNCHANGED <<relayVars, online, conn, down, brokerVars, historyVars>>

\* status=online is published retained; a failure is ignored.
Announce ==
    /\ mpc = "announce"
    /\ Send(Publication("status", "online", TRUE, "device"))
    /\ mpc' = "subscribe"
    /\ UNCHANGED <<relayVars, online, conn, down, brokerVars, historyVars>>

\* subscribe_all: the SUBSCRIBE packets of all control topics, one after the
\* other, are one step; a failure of any of them is LinkError.
Subscribe ==
    /\ mpc = "subscribe" /\ conn = "up"
    /\ Send(Packet("subscribe"))
    /\ mpc' = "loop"
    /\ UNCHANGED <<relayVars, online, conn, down, brokerVars, historyVars>>

\* Mutant of LinkError: a failed poll in the loop is ignored.
LinkErrorIgnored ==
    /\ mpc \in {"handshake", "subscribe", "publish"} /\ conn = "dead"
    /\ online' = FALSE
    /\ mpc' = "backoff"
    /\ UNCHANGED <<relayVars, brokerVars, linkVars, historyVars>>

\* An await on the connection fails: connect and subscribe errors, a failed
\* poll or ping in the loop, a failed publication of a report.
LinkError ==
    /\ mpc \in {"handshake", "subscribe", "loop", "publish"} /\ conn = "dead"
    /\ online' = FALSE
    /\ mpc' = "backoff"
    /\ UNCHANGED <<relayVars, brokerVars, linkVars, historyVars>>

Retry ==
    /\ mpc = "backoff"
    /\ mpc' = "connecting" /\ online' = FALSE
    /\ UNCHANGED <<relayVars, brokerVars, linkVars, historyVars>>

-----------------------------------------------------------------------------
(* mqtt_task: run_connected_loop and handle_event.                         *)

\* Mutant of CommandOf: retained messages are executed too.
CommandOfAny(packet) ==
    IF packet.kind # "publish" THEN "unknown"
    ELSE Dispatch(packet.topic, packet.payload)

\* The command that handle_event executes for a packet: none for a packet
\* that is no publication and none for a retained one.
CommandOf(packet) ==
    IF packet.kind # "publish" \/ packet.retain THEN "unknown"
    ELSE Dispatch(packet.topic, packet.payload)

\* Either3::First: a header has arrived, and its packet is one of these.
Arrived(commands) ==
    /\ mpc = "loop" /\ conn = "up" /\ down # <<>>
    /\ CommandOf(Head(down)) \in commands

\* finish_polled_packet() consumes the packet and executes its command.
Execute(command) ==
    /\ down' = Tail(down)
    /\ ran' = [ran EXCEPT ![command] = @ + 1]
    /\ UNCHANGED <<online, conn, up, brokerVars, sent, reports, losses>>

\* Mutant of ReceiveRelay: the handler reports a change of its own.
ReceiveRelayReports ==
    /\ Arrived({"pulse", "off"})
    /\ Execute(CommandOf(Head(down)))
    /\ trigger' = CommandOf(Head(down)) /\ change' = "off"
    /\ since' = IF CommandOf(Head(down)) = "pulse" THEN 0 ELSE since
    /\ offBy' = IF CommandOf(Head(down)) = "off" THEN Head(down).by ELSE offBy
    /\ UNCHANGED <<mpc, pc, pin, left, lag>>

ReceiveRelay ==
    /\ Arrived({"pulse", "off"})
    /\ Execute(CommandOf(Head(down)))
    /\ R!Signal(CommandOf(Head(down)))
    /\ offBy' = IF CommandOf(Head(down)) = "off" THEN Head(down).by ELSE offBy
    /\ UNCHANGED mpc

\* OUTPUTS.set() and save_led*().await; module Storage has the details.
ReceiveLed ==
    /\ Arrived({"led"})
    /\ Execute("led")
    /\ mpc' = "saving"
    /\ UNCHANGED <<relayVars, offBy>>

ReceivePing ==
    /\ Arrived({"ping"})
    /\ Execute("ping")
    /\ mpc' = "pong"
    /\ UNCHANGED <<relayVars, offBy>>

\* Mutant of ReceiveOther: the body of the packet is left in the stream.
ReceiveOtherStuck == Arrived({"unknown"}) /\ UNCHANGED vars

ReceiveOther ==
    /\ Arrived({"unknown"})
    /\ Execute("unknown")
    /\ UNCHANGED <<relayVars, mpc, offBy>>

\* The two tasks start again and their signals are empty.
Restart ==
    /\ pc' = "idle" /\ pin' = "low" /\ trigger' = "none" /\ change' = "none"
    /\ left' = 0 /\ lag' = 0 /\ since' = R!SinceCap
    /\ mpc' = "connecting" /\ online' = FALSE

\* mark_remote_reboot() and safe_reboot(): RAM is lost, and so is the
\* connection, without a DISCONNECT packet.
ReceiveReboot ==
    /\ Arrived({"reboot"})
    /\ ran' = [ran EXCEPT !["reboot"] = @ + 1]
    /\ Restart
    /\ conn' = "none" /\ up' = <<>> /\ down' = <<>>
    /\ session' = IF session = "live" THEN "stale" ELSE session
    /\ UNCHANGED <<subbed, status, retained, sent, reports, offBy, losses>>

SaveDone ==
    /\ mpc = "saving"
    /\ mpc' = "loop"
    /\ UNCHANGED <<relayVars, online, brokerVars, linkVars, historyVars>>

\* A failure to publish the pong is ignored; the next poll will see it.
Pong ==
    /\ mpc = "pong"
    /\ Send(Publication("pong", "1", FALSE, "device"))
    /\ mpc' = "loop"
    /\ UNCHANGED <<relayVars, online, conn, down, brokerVars, historyVars>>

\* Either3::Second: RELAY_CHANGE is taken and its publication begins.
TakeReport ==
    /\ mpc = "loop"
    /\ R!TakeChange
    /\ mpc' = "publish"
    /\ reports' = reports + 1
    /\ UNCHANGED <<online, brokerVars, linkVars, sent, ran, offBy, losses>>

PublishReport ==
    /\ mpc = "publish" /\ conn = "up"
    /\ Send(Publication("relay", "0", FALSE, "device"))
    /\ mpc' = "loop"
    /\ UNCHANGED <<relayVars, online, conn, down, brokerVars, historyVars>>

MqttStep ==
    \/ TcpConnect \/ TcpFail \/ Connack \/ GiveUp \/ Announce \/ Subscribe
    \/ LinkError \/ Retry
    \/ ReceiveRelay \/ ReceiveLed \/ ReceivePing \/ ReceiveReboot
    \/ ReceiveOther \/ SaveDone \/ Pong \/ TakeReport \/ PublishReport

-----------------------------------------------------------------------------
(* The broker, the link and the users (external).                          *)

\* What the broker sends to the device for a publication on a control topic.
Forward(packet) ==
    IF subbed /\ session = "live" /\ conn = "up" /\ packet.topic \in Topics
    THEN Append(down, Publication(packet.topic, packet.payload, FALSE, packet.by))
    ELSE down

BrokerTakes(kind) ==
    /\ conn = "up" /\ up # <<>> /\ Head(up).kind = kind
    /\ up' = Tail(up)
    /\ UNCHANGED <<relayVars, deviceVars, conn, retained, historyVars>>

\* CONNECT with the client id of a stale session takes that session over and
\* publishes its will first.  The device has one client id, which does not change.
BrokerConnect ==
    /\ BrokerTakes("connect")
    /\ status' = IF session = "stale" THEN "offline" ELSE status
    /\ session' = "live" /\ subbed' = FALSE
    /\ down' = Append(down, Packet("connack"))

\* The stored messages are replayed with the retain flag.
Stored(topic) ==
    IF retained[topic] = Nothing THEN <<>>
    ELSE <<Publication(topic, retained[topic], TRUE, "user")>>
Replay == Stored("relay") \o Stored("led") \o Stored("ping") \o Stored("reboot")

BrokerSubscribe ==
    /\ BrokerTakes("subscribe")
    /\ subbed' = TRUE
    /\ down' = down \o <<Packet("suback")>> \o Replay
    /\ UNCHANGED <<session, status>>

BrokerPublish ==
    /\ BrokerTakes("publish")
    /\ status' = IF Head(up).topic = "status" THEN Head(up).payload ELSE status
    /\ down' = Forward(Head(up))
    /\ UNCHANGED <<session, subbed>>

\* The broker gives up on a session without a link and publishes its will.
BrokerTimeout ==
    /\ session = "stale"
    /\ session' = "none" /\ status' = "offline"
    /\ UNCHANGED <<relayVars, deviceVars, linkVars, subbed, retained, historyVars>>

BrokerStep == BrokerConnect \/ BrokerSubscribe \/ BrokerPublish \/ BrokerTimeout

\* The link dies with everything that is in flight.
Lose ==
    /\ conn = "up" /\ losses < MaxLoss
    /\ conn' = "dead" /\ up' = <<>> /\ down' = <<>>
    /\ session' = IF session = "live" THEN "stale" ELSE session
    /\ losses' = losses + 1
    /\ UNCHANGED <<relayVars, deviceVars, subbed, status, retained,
                   sent, ran, reports, offBy>>

\* Commands published so far.
Published == sent["pulse"] + sent["off"] + sent["led"]
             + sent["ping"] + sent["reboot"] + sent["unknown"]

UserPublish(topic, payload, retain) ==
    /\ Published < MaxCmds
    /\ sent' = [sent EXCEPT ![Dispatch(topic, payload)] = @ + 1]
    /\ retained' = IF retain THEN [retained EXCEPT ![topic] = payload] ELSE retained
    /\ down' = Forward(Publication(topic, payload, retain, "user"))
    /\ UNCHANGED <<relayVars, deviceVars, conn, up, session, subbed, status,
                   ran, reports, offBy, losses>>

RelayStep == R!Poll /\ UNCHANGED <<deviceVars, brokerVars, linkVars, historyVars>>
TimeStep == R!Tick /\ UNCHANGED <<deviceVars, brokerVars, linkVars, historyVars>>

Next ==
    \/ MqttStep \/ RelayStep \/ TimeStep \/ BrokerStep \/ Lose
    \/ \E input \in Inputs, retain \in BOOLEAN :
           UserPublish(input[1], input[2], retain)

\* The executor polls both tasks, time passes, the broker works.  Nothing is
\* assumed of the users, and nothing makes a connection attempt succeed.
Fairness ==
    /\ WF_vars(MqttStep) /\ WF_vars(RelayStep)
    /\ WF_vars(TimeStep) /\ WF_vars(BrokerStep)

Spec == Init /\ [][Next]_vars /\ Fairness

-----------------------------------------------------------------------------
(* Properties.                                                             *)

\* mqtt.rs:304-310, "loop forever": every report that the device publishes to
\* stm32/relay, is publishing or has yet to publish is paid for by a pulse
\* command that was executed, although the device hears its own reports.
EchoAccounting ==
    reports + (IF change # "none" THEN 1 ELSE 0)
            + (IF pc = "hold" THEN 1 ELSE 0)
            + (IF trigger = "pulse" THEN 1 ELSE 0) <= ran["pulse"]

\* mqtt.rs:276-280: a command is executed at most once for each time that a
\* user published it, across reconnects, reboots and the replay of retained
\* messages; an Off may also be the echo of a report.
AtMostOnce ==
    \A c \in Commands \ {"unknown"} :
        ran[c] <= sent[c] + (IF c = "off" THEN reports ELSE 0)

\* MQTT_ONLINE is the truth as far as the device can know it: while it is set
\* the link is dead or the broker has a live session for the device, and a
\* task that has entered its loop has asked for its subscription.
OnlineTruthful ==
    online /\ conn = "up" =>
        /\ session = "live"
        /\ mpc \in {"loop", "publish", "pong", "saving"} =>
               subbed \/ \E i \in DOMAIN up : up[i].kind = "subscribe"

\* A dead link does not leave the device showing "online" for ever.
DeadLinkNoticed == conn = "dead" ~> ~online

RelayPacketIn(queue) == \E i \in DOMAIN queue : queue[i].topic = "relay"

\* mqtt.rs, RELAY_CHANGE, "would loop forever": once users are silent the echoes
\* die out; the relay rests and no relay message is left in flight in either
\* direction, whatever the connection does.
EchoesDieOut ==
    <>[](pin = "low" /\ trigger = "none" /\ ~RelayPacketIn(up) /\ ~RelayPacketIn(down))

\* A connection that holds ends with the retained status "online": the will
\* of an earlier session never has the last word.
StatusConverges == <>[](conn = "up") => <>[](status = "online")

\* README, MQTT interface: "`1` fires a 2 s pulse (retrigger restarts), `0`
\* cancels".  A pulse that is cut short was cut by somebody's `0`, and not by
\* the device's own report of the end of the pulse before it.
CancelledByUser ==
    [][pin = "high" /\ pin' = "low" /\ left > 0 /\ trigger = "off"
         => offBy = "user"]_vars
=============================================================================
