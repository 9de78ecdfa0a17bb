----------------------------- MODULE MqttProofs -----------------------------
(***************************************************************************)
(* The echo of the device's own reports cannot feed itself; the connection *)
(* of mqtt_task to its broker, and what comes of a command on it: for      *)
(* every pulse length, every set of inputs and any number of publications, *)
(* losses of the connection and reboots.                                   *)
(***************************************************************************)
EXTENDS Mqtt, TLAPS, FiniteSetTheorems

\* EchoAccounting with the types of the state that it counts.
EchoInv ==
    /\ pc \in {"idle", "hold"}
    /\ trigger \in {"none", "pulse", "off"}
    /\ change \in {"none", "off"}
    /\ reports \in Nat
    /\ ran \in [Commands -> Nat]
    /\ EchoAccounting

\* A command that handle_event executes is one of the commands.
LEMMA CommandType == \A packet : CommandOf(packet) \in Commands
<1> SUFFICES ASSUME NEW packet PROVE CommandOf(packet) \in Commands
    OBVIOUS
<1>1. ASSUME NEW topic, NEW payload PROVE Dispatch(topic, payload) \in Commands
    BY DEF Dispatch, Commands
<1> QED BY <1>1 DEF CommandOf, Commands

\* Executing a command only adds to what the pulses have paid for.
LEMMA ExecuteCounts ==
    ASSUME EchoInv, NEW c \in Commands, Execute(c)
    PROVE  /\ ran' \in [Commands -> Nat] /\ ran'["pulse"] >= ran["pulse"]
           /\ c = "pulse" => ran'["pulse"] = ran["pulse"] + 1
           /\ UNCHANGED reports
<1>1. ran' = [ran EXCEPT ![c] = ran[c] + 1] /\ UNCHANGED reports
    BY DEF Execute
<1>2. ran \in [Commands -> Nat] /\ "pulse" \in Commands
    BY DEF EchoInv, Commands
<1> QED BY <1>1, <1>2

\* A step that leaves the relay's control state alone keeps the account.
LEMMA EchoFrame ==
    ASSUME EchoInv, UNCHANGED <<pc, trigger, change, reports>>,
           ran' \in [Commands -> Nat], ran'["pulse"] >= ran["pulse"]
    PROVE  EchoInv'
<1>1. ran["pulse"] \in Nat /\ ran'["pulse"] \in Nat
    BY DEF EchoInv, Commands
<1> QED BY <1>1 DEF EchoInv, EchoAccounting

\* Every poll of relay_task turns what it takes into at most as much.
LEMMA PollKeepsEcho ==
    ASSUME EchoInv, R!Poll, UNCHANGED <<ran, reports>>
    PROVE  EchoInv'
<1>1. ran["pulse"] \in Nat
    BY DEF EchoInv, Commands
<1>2. CASE R!Wake
    BY <1>1, <1>2 DEF R!Wake, R!StartWindow, EchoInv, EchoAccounting
<1>3. CASE R!Retrigger
    BY <1>1, <1>3 DEF R!Retrigger, R!StartWindow, EchoInv, EchoAccounting
<1>4. CASE R!Cancel
    BY <1>1, <1>4 DEF R!Cancel, R!Rest, EchoInv, EchoAccounting
<1>5. CASE R!Expire
    BY <1>1, <1>5 DEF R!Expire, R!StartWindow, R!Rest, EchoInv, EchoAccounting
<1> QED BY <1>2, <1>3, <1>4, <1>5 DEF R!Poll

\* The steps of mqtt_task.
LEMMA MqttStepKeepsEcho ==
    ASSUME EchoInv, MqttStep
    PROVE  EchoInv'
<1>1. ran["pulse"] \in Nat /\ ran \in [Commands -> Nat]
    BY DEF EchoInv, Commands
<1>2. CASE \/ TcpConnect \/ TcpFail \/ Connack \/ GiveUp \/ Announce \/ Subscribe
           \/ LinkError \/ Retry \/ SaveDone \/ Pong \/ PublishReport
  <2>1. UNCHANGED <<pc, trigger, change, reports, ran>>
      BY <1>2 DEF TcpConnect, ConnectPacket, TcpFail, Connack, GiveUp, Announce, Subscribe,
                  LinkError, Retry, SaveDone, Pong, PublishReport, relayVars, historyVars
  <2> QED BY <1>1, <2>1, EchoFrame
<1>3. CASE ReceiveRelay
  <2> DEFINE c == CommandOf(Head(down))
  <2>1. c \in {"pulse", "off"} /\ Execute(c) /\ R!Signal(c)
      BY <1>3 DEF ReceiveRelay, Arrived
  <2>2. UNCHANGED <<pc, change>> /\ trigger' = c
      BY <2>1 DEF R!Signal
  <2> HIDE DEF c
  <2>3. c \in Commands
      BY <2>1 DEF Commands
  <2>4. /\ ran' \in [Commands -> Nat] /\ ran'["pulse"] >= ran["pulse"]
        /\ c = "pulse" => ran'["pulse"] = ran["pulse"] + 1
        /\ UNCHANGED reports
      BY <2>1, <2>3, ExecuteCounts
  <2>5. ran'["pulse"] \in Nat
      BY <2>4 DEF Commands
  <2> QED BY <1>1, <2>1, <2>2, <2>4, <2>5 DEF EchoInv, EchoAccounting
<1>4. CASE ReceiveLed \/ ReceivePing \/ ReceiveOther
  <2>1. /\ UNCHANGED <<pc, trigger, change>>
        /\ \E c \in Commands : Execute(c)
      BY <1>4 DEF ReceiveLed, ReceivePing, ReceiveOther, relayVars, Commands
  <2> QED BY <2>1, ExecuteCounts, EchoFrame
<1>5. CASE ReceiveReboot
  <2>1. /\ pc' = "idle" /\ trigger' = "none" /\ change' = "none"
        /\ reports' = reports /\ ran' = [ran EXCEPT !["reboot"] = ran["reboot"] + 1]
      BY <1>5 DEF ReceiveReboot, Restart
  <2>2. ran' \in [Commands -> Nat] /\ ran'["pulse"] = ran["pulse"]
      BY <1>1, <2>1 DEF Commands
  <2> QED BY <1>1, <2>1, <2>2 DEF EchoInv, EchoAccounting
<1>6. CASE TakeReport
  <2>1. /\ change # "none" /\ change' = "none" /\ reports' = reports + 1
        /\ UNCHANGED <<pc, trigger, ran>>
      BY <1>6 DEF TakeReport, R!TakeChange
  <2> QED BY <1>1, <2>1 DEF EchoInv, EchoAccounting
<1> QED BY <1>2, <1>3, <1>4, <1>5, <1>6 DEF MqttStep

\* mqtt.rs, handle_event, "loop forever": the reports that the device puts on
\* the topic it listens to never outnumber the pulses it was told to make.
THEOREM MqttEchoAccounting == Spec => []EchoAccounting
<1>1. Init => EchoInv
    BY DEF Init, R!Init, EchoInv, EchoAccounting, Commands
<1>2. EchoInv /\ [Next]_vars => EchoInv'
  <2> SUFFICES ASSUME EchoInv, [Next]_vars PROVE EchoInv'
      OBVIOUS
  <2>1. ran \in [Commands -> Nat] /\ ran["pulse"] \in Nat
      BY DEF EchoInv, Commands
  <2>2. CASE MqttStep
      BY <2>2, MqttStepKeepsEcho
  <2>3. CASE RelayStep
      BY <2>3, PollKeepsEcho DEF RelayStep, historyVars
  <2>4. CASE TimeStep \/ BrokerStep \/ Lose \/ UNCHANGED vars
    <3>1. UNCHANGED <<pc, trigger, change, reports, ran>>
        BY <2>4 DEF TimeStep, R!Tick, BrokerStep, BrokerConnect, BrokerSubscribe,
                    BrokerPublish, BrokerTimeout, BrokerTakes, Lose, vars,
                    relayVars, historyVars
    <3> QED BY <2>1, <3>1, EchoFrame
  <2>5. ASSUME NEW input \in Inputs, NEW retain \in BOOLEAN,
               UserPublish(input[1], input[2], retain)
        PROVE  EchoInv'
    <3>1. UNCHANGED <<pc, trigger, change, reports, ran>>
        BY <2>5 DEF UserPublish, relayVars
    <3> QED BY <2>1, <3>1, EchoFrame
  <2> QED BY <2>2, <2>3, <2>4, <2>5 DEF Next
<1>3. EchoInv => EchoAccounting
    BY DEF EchoInv
<1> QED BY <1>1, <1>2, <1>3, PTL DEF Spec

-----------------------------------------------------------------------------
(* The packets in flight.                                                  *)

Announcement == Publication("status", "online", TRUE, "device")
PongPacket == Publication("pong", "1", FALSE, "device")
Report == Publication("relay", "0", FALSE, "device")

FromDevice == {Packet("connect"), Packet("subscribe"), Announcement, PongPacket, Report}

Payloads == {input[2] : input \in Inputs} \union {"0"}
Publications ==
    [kind : {"publish"}, topic : Topics, payload : Payloads, retain : BOOLEAN,
     by : {"user", "device"}]
ToDevice == {Packet("connack"), Packet("suback")} \union Publications

QueueType ==
    /\ up \in Seq(FromDevice) /\ down \in Seq(ToDevice)
    /\ retained \in [Topics -> Payloads \union {Nothing}]

\* A packet of this kind is on its way.
Has(queue, kind) == \E i \in DOMAIN queue : queue[i].kind = kind

LEMMA HasAppend ==
    ASSUME NEW S, NEW q \in Seq(S), NEW p \in S, NEW kind
    PROVE  Has(Append(q, p), kind) <=> Has(q, kind) \/ p.kind = kind
<1>1. PICK n \in Nat : n = Len(q) /\ DOMAIN q = 1..n
    OBVIOUS
<1> DEFINE r == Append(q, p)
<1>2. DOMAIN r = 1..(n + 1) /\ r[n + 1] = p /\ \A i \in 1..n : r[i] = q[i]
    BY <1>1
<1> HIDE DEF r
<1>3. 1..(n + 1) = 1..n \union {n + 1}
    OBVIOUS
<1>4. Has(r, kind) <=> Has(q, kind) \/ p.kind = kind
    BY <1>1, <1>2, <1>3 DEF Has
<1> QED BY <1>4 DEF r

LEMMA HasTail ==
    ASSUME NEW S, NEW q \in Seq(S), q # <<>>, NEW kind
    PROVE  /\ Has(Tail(q), kind) => Has(q, kind)
           /\ Has(q, kind) => Head(q).kind = kind \/ Has(Tail(q), kind)
<1>1. PICK n \in Nat : n = Len(q) /\ DOMAIN q = 1..n /\ n > 0
    OBVIOUS
<1> DEFINE r == Tail(q)
<1>2. DOMAIN r = 1..(n - 1) /\ Head(q) = q[1] /\ \A i \in 1..(n - 1) : r[i] = q[i + 1]
    BY <1>1
<1> HIDE DEF r
<1>3. \A i \in 1..(n - 1) : i + 1 \in 1..n
    BY <1>1
<1>4. Has(r, kind) => Has(q, kind)
    BY <1>1, <1>2, <1>3 DEF Has
<1>5. ASSUME NEW i \in 1..n, q[i].kind = kind
      PROVE  Head(q).kind = kind \/ Has(r, kind)
  <2>1. CASE i = 1
      BY <1>2, <1>5, <2>1
  <2>2. CASE i # 1
    <3>1. i - 1 \in 1..(n - 1) /\ (i - 1) + 1 = i
        BY <1>1, <2>2
    <3> QED BY <1>2, <1>5, <3>1 DEF Has
  <2> QED BY <2>1, <2>2
<1>6. Has(q, kind) => Head(q).kind = kind \/ Has(r, kind)
    BY <1>1, <1>5 DEF Has
<1> QED BY <1>4, <1>6 DEF r

\* What the device sends, by its kind.
LEMMA DevicePackets ==
    /\ \A kind : Packet(kind).kind = kind
    /\ \A t, p, r, b : Publication(t, p, r, b).kind = "publish"
    /\ {Announcement, PongPacket, Report} \subseteq FromDevice
    /\ {Packet("connect"), Packet("subscribe")} \subseteq FromDevice
    /\ \A p \in FromDevice : p.kind = "publish" =>
           p \in {Announcement, PongPacket, Report}
    /\ \A p \in FromDevice : p.kind = "publish" /\ p.topic \in Topics => p = Report
<1>1. /\ \A kind : Packet(kind).kind = kind
      /\ \A t, p, r, b : /\ Publication(t, p, r, b).kind = "publish"
                         /\ Publication(t, p, r, b).topic = t
    BY DEF Packet, Publication
<1>2. Announcement.topic \notin Topics /\ PongPacket.topic \notin Topics
    BY <1>1 DEF Announcement, PongPacket, Topics
<1>3. \A p \in FromDevice : p.kind = "publish" =>
           p \in {Announcement, PongPacket, Report}
    BY <1>1 DEF FromDevice
<1> QED BY <1>1, <1>2, <1>3 DEF FromDevice

\* The broker forwards a publication without its retain flag.
LEMMA ForwardType ==
    ASSUME down \in Seq(ToDevice), NEW t, NEW p, NEW r \in BOOLEAN,
           NEW b \in {"user", "device"}, t \in Topics => p \in Payloads
    PROVE  /\ Forward(Publication(t, p, r, b)) \in Seq(ToDevice)
           /\ \/ Forward(Publication(t, p, r, b)) = down
              \/ /\ t \in Topics /\ subbed /\ session = "live"
                 /\ Publication(t, p, FALSE, b) \in ToDevice
                 /\ Forward(Publication(t, p, r, b))
                      = Append(down, Publication(t, p, FALSE, b))
<1> DEFINE packet == Publication(t, p, r, b)
<1>1. packet.topic = t /\ packet.payload = p /\ packet.by = b
    BY DEF Publication
<1>2. t \in Topics => Publication(t, p, FALSE, b) \in Publications
    BY DEF Publication, Publications
<1> DEFINE q == Publication(t, p, FALSE, b)
<1> HIDE DEF packet
<1>3. Forward(packet)
        = IF subbed /\ session = "live" /\ conn = "up" /\ t \in Topics
          THEN Append(down, q) ELSE down
    BY <1>1 DEF Forward
<1> HIDE DEF q
<1>4. t \in Topics => q \in ToDevice
    BY <1>2 DEF q, ToDevice
<1>5. t \in Topics => Append(down, q) \in Seq(ToDevice)
    BY <1>4
<1> QED BY <1>3, <1>4, <1>5 DEF q, packet

\* A replayed message is a publication with its retain flag.
LEMMA ReplayType ==
    ASSUME QueueType
    PROVE  Replay \in Seq({p \in Publications : p.retain})
<1> DEFINE Kept == {p \in Publications : p.retain}
<1>1. ASSUME NEW t \in Topics PROVE Stored(t) \in Seq(Kept)
  <2>1. CASE retained[t] = Nothing
      BY <2>1 DEF Stored
  <2>2. CASE retained[t] # Nothing
    <3>1. retained[t] \in Payloads
        BY <2>2 DEF QueueType
    <3>2. PICK p : p = Publication(t, retained[t], TRUE, "user")
        OBVIOUS
    <3>3. p \in Publications
        BY <3>1, <3>2 DEF Publications, Publication
    <3>4. p.retain
        BY <3>2 DEF Publication
    <3>5. Stored(t) = <<p>> /\ p \in Kept
        BY <2>2, <3>2, <3>3, <3>4 DEF Stored
    <3> HIDE DEF Kept
    <3> QED BY <3>5
  <2> QED BY <2>1, <2>2
<1>2. "relay" \in Topics /\ "led" \in Topics /\ "ping" \in Topics /\ "reboot" \in Topics
    BY DEF Topics
<1> HIDE DEF Kept
<1>3. PICK a, b, c, d : /\ a = Stored("relay") /\ b = Stored("led")
                        /\ c = Stored("ping") /\ d = Stored("reboot")
    OBVIOUS
<1>4. a \in Seq(Kept) /\ b \in Seq(Kept) /\ c \in Seq(Kept) /\ d \in Seq(Kept)
    BY <1>1, <1>2, <1>3
<1>5. a \o b \o c \o d \in Seq(Kept)
    BY <1>4
<1> QED BY <1>3, <1>5 DEF Replay, Kept

\* What each step does to the queues.
LEMMA QueueStep == QueueType /\ [Next]_vars => QueueType'
<1> SUFFICES ASSUME QueueType, [Next]_vars PROVE QueueType'
    OBVIOUS
<1>1. /\ up \in Seq(FromDevice) /\ down \in Seq(ToDevice)
      /\ retained \in [Topics -> Payloads \union {Nothing}]
    BY DEF QueueType
<1>2. CASE \/ TcpFail \/ LinkError \/ Retry \/ SaveDone \/ TakeReport \/ RelayStep
           \/ TimeStep \/ BrokerTimeout \/ UNCHANGED vars
  <2>1. UNCHANGED <<up, down, retained>>
      BY <1>2 DEF TcpFail, LinkError, Retry, SaveDone, TakeReport, RelayStep, TimeStep,
                  BrokerTimeout, vars, linkVars, brokerVars
  <2> QED BY <1>1, <2>1 DEF QueueType
<1>3. CASE TcpConnect
  <2>1. up' = <<Packet("connect")>> /\ down' = <<>> /\ retained' = retained
      BY <1>3 DEF TcpConnect, ConnectPacket, brokerVars
  <2>2. PICK c \in FromDevice : c = Packet("connect")
      BY DevicePackets
  <2> QED BY <1>1, <2>1, <2>2 DEF QueueType
<1>4. CASE GiveUp \/ ReceiveReboot \/ Lose
  <2>1. up' = <<>> /\ down' = <<>> /\ retained' = retained
      BY <1>4 DEF GiveUp, ReceiveReboot, Lose
  <2> QED BY <1>1, <2>1 DEF QueueType
<1>5. CASE Announce \/ Subscribe \/ Pong \/ PublishReport
  <2>1. /\ UNCHANGED <<down, retained>>
        /\ \E p \in {Announcement, Packet("subscribe"), PongPacket, Report} : Send(p)
      BY <1>5 DEF Announce, Subscribe, Pong, PublishReport, brokerVars,
                  Announcement, PongPacket, Report
  <2>2. PICK p \in FromDevice : Send(p)
      BY <2>1, DevicePackets
  <2>3. up' \in Seq(FromDevice)
      BY <1>1, <2>2 DEF Send
  <2> QED BY <1>1, <2>1, <2>3 DEF QueueType
<1>6. CASE Connack \/ ReceiveRelay \/ ReceiveLed \/ ReceivePing \/ ReceiveOther
  <2>1. UNCHANGED <<up, retained>> /\ down # <<>> /\ down' = Tail(down)
      BY <1>6 DEF Connack, ReceiveRelay, ReceiveLed, ReceivePing, ReceiveOther,
                  Arrived, Execute, brokerVars
  <2>2. down' \in Seq(ToDevice)
      BY <1>1, <2>1
  <2> QED BY <1>1, <2>1, <2>2 DEF QueueType
<1>7. ASSUME NEW kind, BrokerTakes(kind)
      PROVE  /\ up' \in Seq(FromDevice) /\ retained' = retained
             /\ Head(up) \in FromDevice /\ Head(up).kind = kind
  <2>1. up # <<>> /\ Head(up).kind = kind /\ up' = Tail(up) /\ retained' = retained
      BY <1>7 DEF BrokerTakes
  <2>2. Head(up) \in FromDevice /\ Tail(up) \in Seq(FromDevice)
      BY <1>1, <2>1
  <2> QED BY <2>1, <2>2
<1>8. CASE BrokerConnect
  <2>1. BrokerTakes("connect") /\ down' = Append(down, Packet("connack"))
      BY <1>8 DEF BrokerConnect
  <2>2. PICK c \in ToDevice : c = Packet("connack")
      BY DEF ToDevice
  <2>3. down' \in Seq(ToDevice)
      BY <1>1, <2>1, <2>2
  <2> QED BY <1>1, <1>7, <2>1, <2>3 DEF QueueType
<1>9. CASE BrokerSubscribe
  <2>1. BrokerTakes("subscribe") /\ down' = down \o <<Packet("suback")>> \o Replay
      BY <1>9 DEF BrokerSubscribe
  <2>2. PICK c \in ToDevice : c = Packet("suback")
      BY DEF ToDevice
  <2>3. PICK r \in Seq(ToDevice) : r = Replay
    <3>1. {p \in Publications : p.retain} \subseteq ToDevice
        BY DEF ToDevice
    <3>2. PICK K : K = {p \in Publications : p.retain}
        OBVIOUS
    <3>3. Replay \in Seq(K) /\ K \subseteq ToDevice
        BY <3>1, <3>2, ReplayType
    <3> QED BY <3>3
  <2>4. down' \in Seq(ToDevice)
      BY <1>1, <2>1, <2>2, <2>3
  <2> QED BY <1>1, <1>7, <2>1, <2>4 DEF QueueType
<1>10. CASE BrokerPublish
  <2>1. BrokerTakes("publish") /\ down' = Forward(Head(up))
      BY <1>10 DEF BrokerPublish
  <2>2. Head(up) \in {Announcement, PongPacket, Report}
      BY <1>7, <2>1, DevicePackets
  <2>3. "status" \notin Topics /\ "pong" \notin Topics /\ "0" \in Payloads
      BY DEF Topics, Payloads
  <2>4. down' \in Seq(ToDevice)
      BY <1>1, <2>1, <2>2, <2>3, ForwardType DEF Announcement, PongPacket, Report
  <2> QED BY <1>1, <1>7, <2>1, <2>4 DEF QueueType
<1>11. ASSUME NEW input \in Inputs, NEW retain \in BOOLEAN,
              UserPublish(input[1], input[2], retain)
       PROVE  QueueType'
  <2>1. /\ up' = up /\ input[2] \in Payloads
        /\ down' = Forward(Publication(input[1], input[2], retain, "user"))
        /\ retained' = IF retain THEN [retained EXCEPT ![input[1]] = input[2]]
                                 ELSE retained
      BY <1>11 DEF UserPublish, Payloads
  <2>2. down' \in Seq(ToDevice)
      BY <1>1, <2>1, ForwardType
  <2>3. retained' \in [Topics -> Payloads \union {Nothing}]
      BY <1>1, <2>1
  <2> QED BY <1>1, <2>1, <2>2, <2>3 DEF QueueType
<1> QED
    BY <1>2, <1>3, <1>4, <1>5, <1>6, <1>8, <1>9, <1>10, <1>11
    DEF Next, MqttStep, BrokerStep

-----------------------------------------------------------------------------
(* MQTT_ONLINE.                                                            *)

InLoop == {"loop", "publish", "pong", "saving"}
Connected == {"announce", "subscribe"} \union InLoop

\* Until the broker has taken the CONNECT it sends nothing; its first packet
\* is the CONNACK, and no other follows before a subscription.
Handshake ==
    \/ up = <<Packet("connect")>> /\ down = <<>> /\ session # "live"
    \/ up = <<>> /\ down = <<Packet("connack")>> /\ session = "live" /\ ~subbed

\* MQTT_ONLINE is set only after the handshake; a session is live only while
\* its link is up; on a link that is up the task is in the handshake, or the
\* broker has its session and the subscription is on its way.
LinkInv ==
    /\ mpc \in {"connecting", "handshake", "backoff"} \union Connected
    /\ online => mpc \in Connected
    /\ session = "live" => conn = "up"
    /\ conn = "up" => mpc \in {"handshake"} \union Connected
    /\ conn = "up" /\ mpc = "handshake" => Handshake
    /\ conn = "up" /\ mpc \in Connected => session = "live" /\ ~Has(up, "connect")
    /\ conn = "up" /\ mpc \in InLoop => subbed \/ Has(up, "subscribe")

\* A step that leaves the link, the session and its subscription alone.
LEMMA LinkFrame ==
    ASSUME LinkInv, UNCHANGED <<conn, up, down, session, subbed>>,
           \/ mpc' = mpc
           \/ mpc \in InLoop /\ mpc' \in InLoop
           \/ conn # "up" /\ mpc' \in {"connecting", "backoff"},
           online' => online /\ mpc' \in Connected
    PROVE  LinkInv'
BY DEF LinkInv, Connected, InLoop, Handshake, Has

LEMMA BrokerStepLink ==
    ASSUME QueueType, LinkInv, BrokerConnect \/ BrokerSubscribe \/ BrokerPublish
    PROVE  LinkInv'
<1>1. PICK kind \in {"connect", "subscribe", "publish"} :
          /\ BrokerTakes(kind)
          /\ kind = "connect" => BrokerConnect
          /\ kind = "subscribe" => BrokerSubscribe
          /\ kind = "publish" => BrokerPublish
    BY DEF BrokerConnect, BrokerSubscribe, BrokerPublish
<1>2. /\ conn = "up" /\ up # <<>> /\ Head(up).kind = kind /\ up' = Tail(up)
      /\ UNCHANGED <<mpc, online, conn>>
    BY <1>1 DEF BrokerTakes, deviceVars
<1>3. up \in Seq(FromDevice)
    BY DEF QueueType
<1>4. Has(up, kind)
  <2>1. PICK n \in Nat : n = Len(up) /\ DOMAIN up = 1..n /\ n > 0 /\ Head(up) = up[1]
      BY <1>2, <1>3
  <2>2. 1 \in DOMAIN up /\ up[1].kind = kind
      BY <1>2, <2>1
  <2> QED BY <2>2 DEF Has
<1>5. CASE kind = "connect"
  <2>1. /\ session' = "live" /\ subbed' = FALSE
        /\ down' = Append(down, Packet("connack"))
      BY <1>1, <1>5 DEF BrokerConnect
  <2>2. mpc = "handshake"
      BY <1>2, <1>4, <1>5 DEF LinkInv
  <2>3. up = <<Packet("connect")>> /\ down = <<>>
      BY <1>2, <2>2 DEF LinkInv, Handshake
  <2>4. up' = <<>>
      BY <1>2, <2>3
  <2>5. down' = <<Packet("connack")>>
      BY <2>1, <2>3
  <2>6. Handshake'
      BY <2>1, <2>4, <2>5 DEF Handshake, Packet
  <2> QED BY <1>2, <2>1, <2>2, <2>6 DEF LinkInv, Connected, InLoop
<1>6. CASE kind # "connect"
  <2>1. session' = session /\ (kind = "subscribe" => subbed' = TRUE)
        /\ (kind # "subscribe" => subbed' = subbed)
      BY <1>1, <1>6 DEF BrokerSubscribe, BrokerPublish
  <2>2. mpc # "handshake"
    <3> SUFFICES ASSUME up = <<Packet("connect")>> PROVE FALSE
        BY <1>2 DEF LinkInv, Handshake
    <3>1. Head(up) = Packet("connect")
        OBVIOUS
    <3> QED BY <1>2, <1>6, <3>1, DevicePackets
  <2>3. /\ Has(up', "connect") => Has(up, "connect")
        /\ Has(up, "subscribe") => kind = "subscribe" \/ Has(up', "subscribe")
      BY <1>2, <1>3, HasTail
  <2> QED BY <1>2, <2>1, <2>2, <2>3 DEF LinkInv, Has
<1> QED BY <1>5, <1>6

LEMMA LinkStep == QueueType /\ LinkInv /\ [Next]_vars => LinkInv'
<1> SUFFICES ASSUME QueueType, LinkInv, [Next]_vars PROVE LinkInv'
    OBVIOUS
<1>1. CASE TcpConnect
  <2>1. /\ mpc = "connecting" /\ mpc' = "handshake" /\ conn' = "up"
        /\ up' = <<Packet("connect")>> /\ down' = <<>> /\ UNCHANGED <<online, session>>
      BY <1>1 DEF TcpConnect, ConnectPacket, brokerVars
  <2>2. ~online /\ session # "live"
      BY <2>1 DEF LinkInv, Connected, InLoop
  <2>3. Handshake'
      BY <2>1, <2>2 DEF Handshake, Packet
  <2> QED BY <2>1, <2>2, <2>3 DEF LinkInv, Connected, InLoop
<1>2. CASE TcpFail \/ LinkError \/ Retry
  <2>1. UNCHANGED <<conn, up, down, session, subbed>>
      BY <1>2 DEF TcpFail, LinkError, Retry, linkVars, brokerVars
  <2>2. conn # "up" /\ mpc' \in {"connecting", "backoff"} /\ ~online'
      BY <1>2 DEF TcpFail, LinkError, Retry, LinkInv, Connected, InLoop
  <2> QED BY <2>1, <2>2, LinkFrame
<1>3. CASE Connack
  <2>1. /\ mpc = "handshake" /\ mpc' = "announce" /\ conn = "up" /\ down # <<>>
        /\ UNCHANGED <<conn, up, session, subbed>>
      BY <1>3 DEF Connack, brokerVars
  <2>2. session = "live" /\ up = <<>>
      BY <2>1 DEF LinkInv, Handshake
  <2>3. ~Has(up', "connect")
      BY <2>1, <2>2 DEF Has
  <2> QED BY <2>1, <2>2, <2>3 DEF LinkInv, Connected, InLoop
<1>4. CASE GiveUp \/ ReceiveReboot \/ Lose
  <2>1. /\ conn' # "up" /\ session' # "live"
        /\ \/ mpc' \in {"backoff", "connecting"} /\ ~online'
           \/ UNCHANGED <<mpc, online>>
      BY <1>4 DEF GiveUp, ReceiveReboot, Lose, Restart, deviceVars, LinkInv,
                  Connected, InLoop
  <2> QED BY <2>1 DEF LinkInv
<1>5. CASE Announce \/ Subscribe \/ Pong \/ PublishReport
  <2>1. PICK p \in FromDevice :
          /\ Send(p) /\ p.kind # "connect"
          /\ p.kind = "subscribe" \/ mpc \in InLoop \/ mpc' = "subscribe"
      BY <1>5, DevicePackets
      DEF Announce, Subscribe, Pong, PublishReport, Announcement, PongPacket,
          Report, InLoop
  <2>2. /\ UNCHANGED <<online, conn, down, session, subbed>>
        /\ mpc \in Connected /\ mpc' \in Connected \ {"announce"}
      BY <1>5 DEF Announce, Subscribe, Pong, PublishReport, brokerVars, Connected, InLoop
  <2>3. CASE conn = "up"
    <3>1. up' = Append(up, p) /\ up \in Seq(FromDevice)
        BY <2>1, <2>3 DEF Send, QueueType
    <3>2. /\ ~Has(up', "connect")
          /\ Has(up, "subscribe") \/ p.kind = "subscribe" => Has(up', "subscribe")
        BY <2>1, <2>2, <2>3, <3>1, HasAppend DEF LinkInv
    <3> QED BY <2>1, <2>2, <2>3, <3>2 DEF LinkInv, Connected, InLoop
  <2>4. CASE conn # "up"
      BY <2>2, <2>4 DEF LinkInv, Connected, InLoop
  <2> QED BY <2>3, <2>4
<1>6. CASE ReceiveRelay \/ ReceiveLed \/ ReceivePing \/ ReceiveOther
  <2>1. /\ mpc \in InLoop /\ mpc' \in InLoop
        /\ UNCHANGED <<online, conn, up, session, subbed>>
      BY <1>6 DEF ReceiveRelay, ReceiveLed, ReceivePing, ReceiveOther, Arrived, Execute,
                  brokerVars, InLoop
  <2> QED BY <2>1 DEF LinkInv, Connected, InLoop, Has
<1>7. CASE SaveDone \/ TakeReport
  <2>1. /\ mpc \in InLoop /\ mpc' \in InLoop /\ online' = online
        /\ UNCHANGED <<conn, up, down, session, subbed>>
      BY <1>7 DEF SaveDone, TakeReport, linkVars, brokerVars, InLoop
  <2> QED BY <2>1, LinkFrame DEF Connected
<1>8. CASE RelayStep \/ TimeStep \/ UNCHANGED vars
  <2>1. UNCHANGED <<mpc, online, conn, up, down, session, subbed>>
      BY <1>8 DEF RelayStep, TimeStep, vars, deviceVars, linkVars, brokerVars
  <2> QED BY <2>1, LinkFrame DEF LinkInv
<1>9. CASE BrokerConnect \/ BrokerSubscribe \/ BrokerPublish
    BY <1>9, BrokerStepLink
<1>10. CASE BrokerTimeout
  <2>1. /\ session = "stale" /\ session' = "none"
        /\ UNCHANGED <<mpc, online, conn, up, down, subbed>>
      BY <1>10 DEF BrokerTimeout, deviceVars, linkVars
  <2> QED BY <2>1 DEF LinkInv, Handshake, Has
<1>11. ASSUME NEW input \in Inputs, NEW retain \in BOOLEAN,
              UserPublish(input[1], input[2], retain)
       PROVE  LinkInv'
  <2>1. /\ down' = Forward(Publication(input[1], input[2], retain, "user"))
        /\ UNCHANGED <<mpc, online, conn, up, session, subbed>>
      BY <1>11 DEF UserPublish, deviceVars
  <2>2. ~(subbed /\ session = "live") => down' = down
      BY <2>1 DEF Forward
  <2>3. conn = "up" /\ mpc = "handshake" => down' = down
      BY <2>2 DEF LinkInv, Handshake
  <2> QED BY <2>1, <2>3 DEF LinkInv, Handshake, Has
<1> QED
    BY <1>1, <1>2, <1>3, <1>4, <1>5, <1>6, <1>7, <1>8, <1>9, <1>10, <1>11
    DEF Next, MqttStep, BrokerStep

LEMMA InitLink == Init => QueueType /\ LinkInv
BY DEF Init, QueueType, LinkInv, Connected, InLoop

LEMMA QueueInvariant == Spec => []QueueType
BY InitLink, QueueStep, PTL DEF Spec

\* mqtt.rs, MQTT_ONLINE: while it is set, and as far as the device can know,
\* the broker has a live session for the device, and the subscription of a
\* task in its loop is made or on its way; across losses and reboots.
THEOREM OnlineIsTrue == Spec => []OnlineTruthful
<1>1. LinkInv => OnlineTruthful
    BY DEF LinkInv, Connected, InLoop, Has, OnlineTruthful
<1> QED BY <1>1, InitLink, LinkStep, QueueInvariant, PTL DEF Spec

-----------------------------------------------------------------------------
(* Counting the commands in flight.                                        *)

\* Packets in a queue that handle_event would execute as command c.
InFlight(queue, c) == Cardinality({i \in DOMAIN queue : CommandOf(queue[i]) = c})
One(b) == IF b THEN 1 ELSE 0

LEMMA InFlightType ==
    ASSUME NEW S, NEW q \in Seq(S), NEW c
    PROVE  /\ InFlight(q, c) \in Nat
           /\ IsFiniteSet({i \in DOMAIN q : CommandOf(q[i]) = c})
<1>1. PICK n \in Nat : DOMAIN q = 1..n
    OBVIOUS
<1>2. IsFiniteSet(1..n)
    BY FS_Interval
<1> DEFINE T == {i \in 1..n : CommandOf(q[i]) = c}
<1>3. T \in SUBSET (1..n)
    OBVIOUS
<1> HIDE DEF T
<1>4. IsFiniteSet(T)
    BY <1>2, <1>3, FS_Subset
<1>5. Cardinality(T) \in Nat
    BY <1>4, FS_CardinalityType
<1> QED BY <1>1, <1>4, <1>5 DEF InFlight, T

LEMMA InFlightNone ==
    ASSUME NEW q, NEW c, \A i \in DOMAIN q : CommandOf(q[i]) # c
    PROVE  InFlight(q, c) = 0
<1>1. {i \in DOMAIN q : CommandOf(q[i]) = c} = {}
    OBVIOUS
<1> QED BY <1>1, FS_EmptySet DEF InFlight

LEMMA InFlightAppend ==
    ASSUME NEW S, NEW q \in Seq(S), NEW p \in S, NEW c
    PROVE  InFlight(Append(q, p), c) = InFlight(q, c) + One(CommandOf(p) = c)
<1>1. PICK n \in Nat : n = Len(q) /\ DOMAIN q = 1..n
    OBVIOUS
<1> DEFINE r == Append(q, p)
<1>2. DOMAIN r = 1..(n + 1) /\ r[n + 1] = p /\ \A i \in 1..n : r[i] = q[i]
    BY <1>1
<1> HIDE DEF r
<1> DEFINE A == {i \in DOMAIN q : CommandOf(q[i]) = c}
           B == {i \in DOMAIN r : CommandOf(r[i]) = c}
<1>3. IsFiniteSet(A) /\ Cardinality(A) \in Nat
    BY InFlightType DEF InFlight
<1>4. n + 1 \notin A /\ 1..(n + 1) = 1..n \union {n + 1}
    BY <1>1
<1>5. CASE CommandOf(p) = c
  <2>1. B = A \union {n + 1}
      BY <1>1, <1>2, <1>4, <1>5
  <2> HIDE DEF A, B
  <2>2. Cardinality(B) = Cardinality(A) + 1
      BY <1>3, <1>4, <2>1, FS_AddElement
  <2> QED BY <1>5, <2>2 DEF InFlight, One, A, B, r
<1>6. CASE CommandOf(p) # c
  <2>1. B = A
      BY <1>1, <1>2, <1>4, <1>6
  <2> HIDE DEF A, B
  <2>2. Cardinality(B) = Cardinality(A) + 0
      BY <1>3, <2>1
  <2> QED BY <1>6, <2>2 DEF InFlight, One, A, B, r
<1> QED BY <1>5, <1>6

LEMMA InFlightTail ==
    ASSUME NEW S, NEW q \in Seq(S), q # <<>>, NEW c
    PROVE  InFlight(q, c) = InFlight(Tail(q), c) + One(CommandOf(Head(q)) = c)
<1>1. PICK n \in Nat : n = Len(q) /\ DOMAIN q = 1..n /\ n > 0
    OBVIOUS
<1> DEFINE r == Tail(q)
<1>2. /\ r \in Seq(S) /\ DOMAIN r = 1..(n - 1) /\ Head(q) = q[1]
      /\ \A i \in 1..(n - 1) : r[i] = q[i + 1]
    BY <1>1
<1> HIDE DEF r
<1> DEFINE A == {i \in DOMAIN q : CommandOf(q[i]) = c}
           B == {i \in DOMAIN r : CommandOf(r[i]) = c}
           f == [i \in B |-> i + 1]
<1>3. /\ IsFiniteSet(A) /\ Cardinality(A) \in Nat
      /\ IsFiniteSet(B) /\ Cardinality(B) \in Nat
    BY <1>2, InFlightType DEF InFlight
<1>4. \A i \in B : i + 1 \in A \ {1}
    BY <1>1, <1>2
<1>5. \A j \in A \ {1} : j - 1 \in B /\ (j - 1) + 1 = j
  <2> SUFFICES ASSUME NEW j \in A \ {1} PROVE j - 1 \in B /\ (j - 1) + 1 = j
      OBVIOUS
  <2>1. j - 1 \in 1..(n - 1) /\ (j - 1) + 1 = j /\ CommandOf(q[j]) = c
      BY <1>1
  <2> QED BY <1>2, <2>1
<1>6. B \subseteq Nat
    BY <1>2
<1>7. 1 \in A <=> CommandOf(Head(q)) = c
    BY <1>1, <1>2
<1> HIDE DEF A, B
<1>8. f \in Bijection(B, A \ {1})
  <2>1. f \in [B -> A \ {1}]
      BY <1>4
  <2>2. IsInjective(f)
      BY <1>6 DEF IsInjective
  <2>3. \A j \in A \ {1} : \E i \in B : f[i] = j
      BY <1>5
  <2> QED BY <2>1, <2>2, <2>3 DEF Bijection, Injection, Surjection
<1>9. Cardinality(A \ {1}) = Cardinality(B)
    BY <1>3, <1>8, FS_Bijection DEF ExistsBijection
<1>10. Cardinality(A \ {1}) = IF 1 \in A THEN Cardinality(A) - 1 ELSE Cardinality(A)
    BY <1>3, FS_RemoveElement
<1>11. Cardinality(A) = Cardinality(B) + One(CommandOf(Head(q)) = c)
    BY <1>3, <1>7, <1>9, <1>10 DEF One
<1> QED BY <1>11 DEF InFlight, A, B, r

\* Appended packets that are no commands do not count.
LEMMA InFlightConcat ==
    ASSUME NEW S, NEW q \in Seq(S), NEW r \in Seq(S), NEW c,
           \A i \in DOMAIN r : CommandOf(r[i]) # c
    PROVE  InFlight(q \o r, c) = InFlight(q, c)
<1>1. PICK m \in Nat, n \in Nat :
          m = Len(q) /\ DOMAIN q = 1..m /\ n = Len(r) /\ DOMAIN r = 1..n
    OBVIOUS
<1> DEFINE s == q \o r
<1>2. /\ DOMAIN s = 1..(m + n) /\ \A i \in 1..m : s[i] = q[i]
      /\ \A i \in 1..(m + n) : i > m => i - m \in 1..n /\ s[i] = r[i - m]
    BY <1>1
<1> HIDE DEF s
<1>3. \A i \in 1..(m + n) : CommandOf(s[i]) = c => i \in 1..m
  <2> SUFFICES ASSUME NEW i \in 1..(m + n), i > m PROVE CommandOf(s[i]) # c
      OBVIOUS
  <2>1. i - m \in DOMAIN r /\ s[i] = r[i - m]
      BY <1>1, <1>2
  <2> QED BY <2>1
<1>4. 1..m \subseteq 1..(m + n)
    OBVIOUS
<1>5. {i \in DOMAIN s : CommandOf(s[i]) = c} = {i \in DOMAIN q : CommandOf(q[i]) = c}
    BY <1>1, <1>2, <1>3, <1>4
<1> QED BY <1>5 DEF InFlight, s

-----------------------------------------------------------------------------
(* Every execution is paid for by a publication.                           *)

Executable == Commands \ {"unknown"}

\* Executed or in flight, a command was published by a user.  An Off may also
\* be a report of the device, from the moment at which it is taken.
Account(c) ==
    ran[c] + InFlight(down, c)
           + (IF c = "off" THEN InFlight(up, "off") + One(mpc = "publish") ELSE 0)
        <= sent[c] + (IF c = "off" THEN reports ELSE 0)

CountType == sent \in [Commands -> Nat] /\ ran \in [Commands -> Nat] /\ reports \in Nat

AccountInv == CountType /\ \A c \in Executable : Account(c)

LEMMA PacketCommands ==
    /\ \A kind \in {"connect", "connack", "subscribe", "suback"} :
           CommandOf(Packet(kind)) = "unknown"
    /\ CommandOf(Announcement) = "unknown" /\ CommandOf(PongPacket) = "unknown"
    /\ CommandOf(Report) = "off"
    /\ \A p \in Publications : p.retain => CommandOf(p) = "unknown"
    /\ \A t, p, b : CommandOf(Publication(t, p, FALSE, b)) = Dispatch(t, p)
    /\ \A t, p : Dispatch(t, p) \in Commands
<1>1. \A kind \in {"connect", "connack", "subscribe", "suback"} :
           CommandOf(Packet(kind)) = "unknown"
    BY DEF CommandOf, Packet
<1>2. \A t, p, b : CommandOf(Publication(t, p, TRUE, b)) = "unknown"
    BY DEF CommandOf, Publication
<1>3. \A t, p, b : CommandOf(Publication(t, p, FALSE, b)) = Dispatch(t, p)
    BY DEF CommandOf, Publication
<1>4. Dispatch("pong", "1") = "unknown" /\ Dispatch("relay", "0") = "off"
    BY DEF Dispatch
<1>5. \A t, p : Dispatch(t, p) \in Commands
    BY DEF Dispatch, Commands
<1>6. \A p \in Publications : p.retain => CommandOf(p) = "unknown"
    BY DEF CommandOf
<1> QED
    BY <1>1, <1>2, <1>3, <1>4, <1>5, <1>6 DEF Announcement, PongPacket, Report

LEMMA QueueCounts ==
    ASSUME NEW u \in Seq(FromDevice), NEW d \in Seq(ToDevice), NEW c
    PROVE  InFlight(u, c) \in Nat /\ InFlight(d, c) \in Nat
BY InFlightType

\* A step that executes and publishes nothing, and adds nothing to the queues.
LEMMA AccountFrame ==
    ASSUME QueueType, QueueType', AccountInv, UNCHANGED <<sent, ran, reports>>,
           \A c \in Executable : InFlight(down', c) <= InFlight(down, c),
           InFlight(up', "off") + One(mpc' = "publish")
               <= InFlight(up, "off") + One(mpc = "publish")
    PROVE  AccountInv'
<1>1. CountType /\ CountType'
    BY DEF AccountInv, CountType
<1>2. ASSUME NEW c \in Executable PROVE Account(c)'
  <2>1. PICK x \in Nat, y \in Nat, s \in Nat :
            x = InFlight(down, c) /\ y = InFlight(down', c)
            /\ s = ran[c]
      BY <1>1, InFlightType DEF QueueType, CountType, Executable
  <2>2. PICK u \in Nat, v \in Nat : u = InFlight(up, "off") /\ v = InFlight(up', "off")
      BY InFlightType DEF QueueType
  <2>3. PICK k \in {0, 1}, m \in {0, 1} : k = One(mpc = "publish") /\ m = One(mpc' = "publish")
      BY DEF One
  <2>4. y <= x /\ v + m <= u + k
      BY <2>1, <2>2, <2>3
  <2>5. sent[c] \in Nat /\ reports \in Nat
      BY <1>1 DEF CountType, Executable
  <2>6. s + x + (IF c = "off" THEN u + k ELSE 0)
          <= sent[c] + (IF c = "off" THEN reports ELSE 0)
      BY <2>1, <2>2, <2>3 DEF AccountInv, Account
  <2>7. s + y + (IF c = "off" THEN v + m ELSE 0)
          <= sent[c] + (IF c = "off" THEN reports ELSE 0)
      BY <2>4, <2>5, <2>6
  <2> QED BY <2>1, <2>2, <2>3, <2>7 DEF Account
<1> QED BY <1>1, <1>2 DEF AccountInv

\* handle_event executes the packet at the head of the queue.
LEMMA ExecuteAccount ==
    ASSUME QueueType, AccountInv, down # <<>>, Execute(CommandOf(Head(down))),
           mpc # "publish", mpc' # "publish"
    PROVE  AccountInv'
<1> DEFINE e == CommandOf(Head(down))
<1>1. /\ down' = Tail(down) /\ ran' = [ran EXCEPT ![e] = ran[e] + 1]
      /\ UNCHANGED <<up, sent, reports>>
    BY DEF Execute
<1>2. e \in Commands
    BY CommandType
<1>3. CountType /\ CountType' /\ \A c \in Commands : ran'[c] = ran[c] + One(e = c)
    BY <1>1, <1>2 DEF AccountInv, CountType, One
<1>4. ASSUME NEW c \in Executable PROVE Account(c)'
  <2>1. /\ InFlight(down, c) = InFlight(down', c) + One(e = c)
        /\ InFlight(down', c) \in Nat
    <3>1. down' \in Seq(ToDevice) /\ down \in Seq(ToDevice)
        BY <1>1 DEF QueueType
    <3> QED BY <1>1, <3>1, InFlightTail, InFlightType
  <2> HIDE DEF e
  <2>2. PICK k \in {0, 1}, x \in Nat : k = One(e = c) /\ x = InFlight(down', c)
      BY <2>1 DEF One
  <2>3. PICK r \in Nat, u \in Nat : r = ran[c] /\ u = InFlight(up, "off")
      BY <1>3, InFlightType DEF QueueType, CountType, Executable
  <2>4. One(mpc = "publish") = 0 /\ One(mpc' = "publish") = 0
      BY DEF One
  <2>5. r + (x + k) + (IF c = "off" THEN u + 0 ELSE 0)
          <= sent[c] + (IF c = "off" THEN reports ELSE 0)
      BY <2>1, <2>2, <2>3, <2>4 DEF AccountInv, Account
  <2>6. sent[c] \in Nat /\ reports \in Nat /\ ran'[c] = r + k
      BY <1>3, <2>2, <2>3 DEF CountType, Executable
  <2>7. (r + k) + x + (IF c = "off" THEN u + 0 ELSE 0)
          <= sent[c] + (IF c = "off" THEN reports ELSE 0)
      BY <2>5, <2>6
  <2> QED BY <1>1, <2>2, <2>3, <2>4, <2>6, <2>7 DEF Account
<1> QED BY <1>3, <1>4 DEF AccountInv

\* A publication is sent: the report that was taken, or no command.
LEMMA SendAccount ==
    ASSUME QueueType, QueueType', AccountInv,
           Announce \/ Subscribe \/ Pong \/ PublishReport
    PROVE  AccountInv'
<1>1. UNCHANGED <<down, sent, ran, reports>> /\ mpc' # "publish"
    BY DEF Announce, Subscribe, Pong, PublishReport, historyVars
<1>2. ASSUME NEW c \in Executable PROVE InFlight(down', c) <= InFlight(down, c)
  <2>1. PICK x \in Nat : x = InFlight(down, c)
      BY InFlightType DEF QueueType
  <2> QED BY <1>1, <2>1
<1>3. PICK p \in FromDevice : Send(p) /\ One(CommandOf(p) = "off") <= One(mpc = "publish")
  <2>1. CASE PublishReport
    <3>1. Send(Report) /\ mpc = "publish"
        BY <2>1 DEF PublishReport, Report
    <3>2. One(CommandOf(Report) = "off") = 1 /\ One(mpc = "publish") = 1
        BY <3>1, PacketCommands DEF One
    <3> QED BY <3>1, <3>2, DevicePackets
  <2>2. CASE Announce \/ Subscribe \/ Pong
    <3>1. \E p \in {Announcement, Packet("subscribe"), PongPacket} : Send(p)
        BY <2>2 DEF Announce, Subscribe, Pong, Announcement, PongPacket
    <3> QED BY <3>1, DevicePackets, PacketCommands DEF One
  <2> QED BY <2>1, <2>2
<1>4. InFlight(up', "off") <= InFlight(up, "off") + One(CommandOf(p) = "off")
  <2>1. up \in Seq(FromDevice) /\ InFlight(up, "off") \in Nat
      BY InFlightType DEF QueueType
  <2>2. CASE conn = "up"
    <3>1. InFlight(up', "off") = InFlight(up, "off") + One(CommandOf(p) = "off")
        BY <1>3, <2>1, <2>2, InFlightAppend DEF Send
    <3> QED BY <2>1, <3>1 DEF One
  <2>3. CASE conn # "up"
      BY <1>3, <2>1, <2>3 DEF Send, One
  <2> QED BY <2>2, <2>3
<1>5. InFlight(up', "off") + One(mpc' = "publish") <= InFlight(up, "off") + One(mpc = "publish")
  <2>1. PICK u \in Nat, v \in Nat : u = InFlight(up, "off") /\ v = InFlight(up', "off")
      BY InFlightType DEF QueueType
  <2>2. One(mpc' = "publish") = 0
      BY <1>1 DEF One
  <2>3. PICK k \in {0, 1}, m \in {0, 1} :
            k = One(CommandOf(p) = "off") /\ m = One(mpc = "publish")
      BY DEF One
  <2> QED BY <1>3, <1>4, <2>1, <2>2, <2>3
<1> QED BY <1>1, <1>2, <1>5, AccountFrame

\* The broker moves a report from one queue to the other; what it adds of its
\* own and what it replays are no commands.
LEMMA BrokerAccount ==
    ASSUME QueueType, QueueType', AccountInv,
           BrokerConnect \/ BrokerSubscribe \/ BrokerPublish
    PROVE  AccountInv'
<1>1. /\ up # <<>> /\ up' = Tail(up) /\ UNCHANGED <<mpc, sent, ran, reports>>
    BY DEF BrokerConnect, BrokerSubscribe, BrokerPublish, BrokerTakes, deviceVars,
           historyVars
<1>2. PICK u \in Nat, k \in {0, 1} :
          /\ InFlight(up', "off") = u /\ InFlight(up, "off") = u + k
          /\ k = One(CommandOf(Head(up)) = "off")
  <2>1. InFlight(up, "off") = InFlight(up', "off") + One(CommandOf(Head(up)) = "off")
      BY <1>1, InFlightTail DEF QueueType
  <2>2. InFlight(up', "off") \in Nat
      BY InFlightType DEF QueueType
  <2> QED BY <2>1, <2>2 DEF One
<1>3. PICK m \in {0, 1} : m = One(mpc = "publish") /\ m = One(mpc' = "publish")
    BY <1>1 DEF One
<1>4. ASSUME \A c \in Executable : InFlight(down', c) = InFlight(down, c)
      PROVE  AccountInv'
  <2>1. \A c \in Executable : InFlight(down, c) \in Nat
      BY InFlightType DEF QueueType
  <2>2. \A c \in Executable : InFlight(down', c) <= InFlight(down, c)
      BY <1>4, <2>1
  <2>3. InFlight(up', "off") + One(mpc' = "publish")
            <= InFlight(up, "off") + One(mpc = "publish")
      BY <1>2, <1>3
  <2> QED BY <1>1, <2>2, <2>3, AccountFrame
<1>5. CASE BrokerConnect
  <2>1. down' = Append(down, Packet("connack"))
      BY <1>5 DEF BrokerConnect
  <2>2. PICK p \in ToDevice : p = Packet("connack") /\ CommandOf(p) = "unknown"
      BY PacketCommands DEF ToDevice
  <2>3. ASSUME NEW c \in Executable PROVE InFlight(down', c) = InFlight(down, c)
    <3>1. InFlight(down', c) = InFlight(down, c) + One(CommandOf(p) = c)
        BY <2>1, <2>2, InFlightAppend DEF QueueType
    <3>2. One(CommandOf(p) = c) = 0 /\ InFlight(down, c) \in Nat
        BY <2>2, InFlightType DEF One, Executable, QueueType
    <3> QED BY <3>1, <3>2
  <2> QED BY <1>4, <2>3
<1>6. CASE BrokerSubscribe
  <2>1. down' = (down \o <<Packet("suback")>>) \o Replay
      BY <1>6 DEF BrokerSubscribe
  <2>2. PICK a \in ToDevice : a = Packet("suback") /\ CommandOf(a) = "unknown"
      BY PacketCommands DEF ToDevice
  <2>3. PICK r \in Seq(ToDevice) : r = Replay /\ \A i \in DOMAIN r : CommandOf(r[i]) = "unknown"
    <3>1. PICK K : K = {p \in Publications : p.retain}
        OBVIOUS
    <3>2. K \subseteq ToDevice /\ \A p \in K : CommandOf(p) = "unknown"
        BY <3>1, PacketCommands DEF ToDevice
    <3>3. Replay \in Seq(K)
        BY <3>1, ReplayType
    <3>4. PICK r : r = Replay
        OBVIOUS
    <3>5. r \in Seq(ToDevice) /\ \A i \in DOMAIN r : r[i] \in K
        BY <3>2, <3>3, <3>4
    <3> QED BY <3>2, <3>4, <3>5
  <2>4. ASSUME NEW c \in Executable PROVE InFlight(down', c) = InFlight(down, c)
    <3>1. down \in Seq(ToDevice) /\ c # "unknown"
        BY DEF QueueType, Executable
    <3>2. PICK b : b = <<a>>
        OBVIOUS
    <3>3. b \in Seq(ToDevice) /\ \A i \in DOMAIN b : CommandOf(b[i]) # c
      <4>1. b \in Seq(ToDevice)
          BY <3>2
      <4>2. Len(b) = 1 /\ b[1] = a
          BY <3>2
      <4>3. DOMAIN b = 1..1
          BY <4>1, <4>2
      <4>4. \A i \in DOMAIN b : i = 1
          BY <4>3
      <4> QED BY <2>2, <3>1, <4>1, <4>2, <4>4
    <3>4. PICK s : s = down \o b
        OBVIOUS
    <3>5. s \in Seq(ToDevice)
        BY <3>1, <3>3, <3>4
    <3>6. InFlight(s, c) = InFlight(down, c)
        BY <3>1, <3>3, <3>4, InFlightConcat
    <3>7. InFlight(s \o r, c) = InFlight(s, c)
        BY <2>3, <3>1, <3>5, InFlightConcat
    <3> QED BY <2>1, <2>2, <2>3, <3>2, <3>4, <3>6, <3>7
  <2> QED BY <1>4, <2>4
<1>7. CASE BrokerPublish
  <2>1. down' = Forward(Head(up)) /\ Head(up).kind = "publish"
      BY <1>7 DEF BrokerPublish, BrokerTakes
  <2>2. Head(up) \in {Announcement, PongPacket, Report}
    <3>1. Head(up) \in FromDevice
        BY <1>1 DEF QueueType
    <3> QED BY <2>1, <3>1, DevicePackets
  <2>3. CASE down' = down
      BY <1>4, <2>3
  <2>4. CASE down' # down
    <3>1. "status" \notin Topics /\ "pong" \notin Topics /\ "0" \in Payloads
        BY DEF Topics, Payloads
    <3>2. Head(up) = Report /\ Report \in ToDevice /\ down' = Append(down, Report)
        BY <2>1, <2>2, <2>4, <3>1, ForwardType
        DEF Announcement, PongPacket, Report, QueueType
    <3>3. k = 1
        BY <1>2, <3>2, PacketCommands DEF One
    <3>4. ASSUME NEW c \in Executable PROVE Account(c)'
      <4>1. InFlight(down', c) = InFlight(down, c) + One(CommandOf(Report) = c)
          BY <3>2, InFlightAppend DEF QueueType
      <4>2. PICK x \in Nat, s \in Nat : x = InFlight(down, c) /\ s = ran[c]
          BY InFlightType DEF QueueType, AccountInv, CountType, Executable
      <4>3. PICK j \in {0, 1} : j = One(CommandOf(Report) = c) /\ (c # "off" => j = 0)
          BY PacketCommands DEF One
      <4>4. sent[c] \in Nat /\ reports \in Nat
          BY DEF AccountInv, CountType, Executable
      <4>5. s + x + (IF c = "off" THEN (u + k) + m ELSE 0)
              <= sent[c] + (IF c = "off" THEN reports ELSE 0)
          BY <1>2, <1>3, <4>2 DEF AccountInv, Account
      <4>6. s + (x + j) + (IF c = "off" THEN u + m ELSE 0)
              <= sent[c] + (IF c = "off" THEN reports ELSE 0)
          BY <3>3, <4>3, <4>4, <4>5
      <4> QED BY <1>1, <1>2, <1>3, <4>1, <4>2, <4>3, <4>6 DEF Account
    <3> QED BY <1>1, <3>4 DEF AccountInv, CountType
  <2> QED BY <2>3, <2>4
<1> QED BY <1>5, <1>6, <1>7

\* A user publishes a command, and the broker forwards it at most once.
LEMMA UserAccount ==
    ASSUME QueueType, QueueType', AccountInv, NEW input \in Inputs, NEW retain \in BOOLEAN,
           UserPublish(input[1], input[2], retain)
    PROVE  AccountInv'
<1> DEFINE d == Dispatch(input[1], input[2])
           p == Publication(input[1], input[2], FALSE, "user")
<1>1. /\ sent' = [sent EXCEPT ![d] = sent[d] + 1] /\ UNCHANGED <<mpc, up, ran, reports>>
      /\ down' = Forward(Publication(input[1], input[2], retain, "user"))
      /\ input[2] \in Payloads
    BY DEF UserPublish, deviceVars, Payloads
<1>2. d \in Commands /\ CommandOf(p) = d
    BY PacketCommands
<1>3. CountType /\ CountType' /\ \A c \in Commands : sent'[c] = sent[c] + One(d = c)
    BY <1>1, <1>2 DEF AccountInv, CountType, One
<1>4. down' = down \/ (p \in ToDevice /\ down' = Append(down, p))
    BY <1>1, ForwardType DEF QueueType
<1> HIDE DEF d, p
<1>5. ASSUME NEW c \in Executable PROVE Account(c)'
  <2>1. PICK x \in Nat, s \in Nat, j \in {0, 1} :
            x = InFlight(down, c) /\ s = ran[c] /\ j = One(d = c)
      BY <1>3, InFlightType DEF QueueType, CountType, Executable, One
  <2>2. PICK y \in Nat : y = InFlight(down', c) /\ y <= x + j
    <3>1. CASE down' = down
        BY <2>1, <3>1
    <3>2. CASE p \in ToDevice /\ down' = Append(down, p)
      <4>1. InFlight(down', c) = InFlight(down, c) + One(CommandOf(p) = c)
          BY <3>2, InFlightAppend DEF QueueType
      <4> QED BY <1>2, <2>1, <4>1
    <3> QED BY <1>4, <3>1, <3>2
  <2>3. PICK z \in Nat :
            z = (IF c = "off" THEN InFlight(up, "off") + One(mpc = "publish") ELSE 0)
    <3>1. PICK u \in Nat, m \in {0, 1} :
              u = InFlight(up, "off") /\ m = One(mpc = "publish")
        BY InFlightType DEF QueueType, One
    <3>2. (IF c = "off" THEN u + m ELSE 0) \in Nat
        OBVIOUS
    <3> QED BY <3>1, <3>2
  <2>4. z = (IF c = "off" THEN InFlight(up', "off") + One(mpc' = "publish") ELSE 0)
      BY <1>1, <2>3
  <2>5. PICK w \in Nat : w = sent[c] /\ sent'[c] = w + j
      BY <1>3, <2>1 DEF CountType, Executable
  <2>6. s + x + z <= w + (IF c = "off" THEN reports ELSE 0)
      BY <2>1, <2>3, <2>5 DEF AccountInv, Account
  <2>7. s + y + z <= (w + j) + (IF c = "off" THEN reports ELSE 0)
      BY <1>3, <2>2, <2>6 DEF CountType
  <2> QED BY <1>1, <2>1, <2>2, <2>4, <2>5, <2>7 DEF Account
<1> QED BY <1>3, <1>5 DEF AccountInv

LEMMA AccountStep == QueueType /\ AccountInv /\ [Next]_vars => AccountInv'
<1> SUFFICES ASSUME QueueType, AccountInv, [Next]_vars PROVE AccountInv'
    OBVIOUS
<1>1. QueueType'
    BY QueueStep
<1>2. InFlight(up, "off") \in Nat /\ InFlight(<<>>, "off") = 0
      /\ \A c : InFlight(down, c) \in Nat /\ InFlight(<<>>, c) = 0
  <2>1. \A c : InFlight(<<>>, c) = 0
      BY InFlightNone
  <2> QED BY <2>1, InFlightType DEF QueueType
<1>3. CASE \/ TcpFail \/ LinkError \/ Retry \/ SaveDone \/ RelayStep \/ TimeStep
           \/ BrokerTimeout \/ UNCHANGED vars
  <2>1. /\ UNCHANGED <<up, down, sent, ran, reports>>
        /\ mpc' = mpc \/ mpc' # "publish"
      BY <1>3 DEF TcpFail, LinkError, Retry, SaveDone, RelayStep, TimeStep, BrokerTimeout,
                  vars, linkVars, deviceVars, historyVars
  <2>2. \A c \in Executable : InFlight(down', c) <= InFlight(down, c)
      BY <1>2, <2>1
  <2>3. InFlight(up', "off") + One(mpc' = "publish")
            <= InFlight(up, "off") + One(mpc = "publish")
      BY <1>2, <2>1 DEF One
  <2> QED BY <1>1, <2>1, <2>2, <2>3, AccountFrame
<1>4. CASE TcpConnect \/ GiveUp \/ Lose
  <2>1. /\ up' \in {<<Packet("connect")>>, <<>>} /\ down' = <<>>
        /\ UNCHANGED <<sent, ran, reports>> /\ (mpc' = mpc \/ mpc' # "publish")
      BY <1>4 DEF TcpConnect, ConnectPacket, GiveUp, Lose, deviceVars, historyVars
  <2>2. InFlight(up', "off") = 0
    <3>1. CASE up' = <<>>
        BY <1>2, <3>1
    <3>2. CASE up' = <<Packet("connect")>>
      <4>1. PICK u : u = up'
          OBVIOUS
      <4>2. DOMAIN u = 1..1 /\ u[1] = Packet("connect")
          BY <3>2, <4>1
      <4>3. \A i \in DOMAIN u : CommandOf(u[i]) # "off"
          BY <4>2, PacketCommands
      <4> QED BY <4>1, <4>3, InFlightNone
    <3> QED BY <2>1, <3>1, <3>2
  <2>3. \A c \in Executable : InFlight(down', c) <= InFlight(down, c)
      BY <1>2, <2>1
  <2>4. InFlight(up', "off") + One(mpc' = "publish")
            <= InFlight(up, "off") + One(mpc = "publish")
      BY <1>2, <2>1, <2>2 DEF One
  <2> QED BY <1>1, <2>1, <2>3, <2>4, AccountFrame
<1>5. CASE Announce \/ Subscribe \/ Pong \/ PublishReport
    BY <1>1, <1>5, SendAccount
<1>6. CASE Connack
  <2>1. /\ down # <<>> /\ down' = Tail(down) /\ mpc' = "announce"
        /\ UNCHANGED <<up, sent, ran, reports>>
      BY <1>6 DEF Connack, historyVars
  <2>2. ASSUME NEW c \in Executable PROVE InFlight(down', c) <= InFlight(down, c)
    <3>1. InFlight(down, c) = InFlight(down', c) + One(CommandOf(Head(down)) = c)
        BY <2>1, InFlightTail DEF QueueType
    <3>2. InFlight(down', c) \in Nat
        BY <1>1, InFlightType DEF QueueType
    <3> QED BY <3>1, <3>2 DEF One
  <2>3. InFlight(up', "off") + One(mpc' = "publish")
            <= InFlight(up, "off") + One(mpc = "publish")
      BY <1>2, <2>1 DEF One
  <2> QED BY <1>1, <2>1, <2>2, <2>3, AccountFrame
<1>7. CASE ReceiveRelay \/ ReceiveLed \/ ReceivePing \/ ReceiveOther
  <2>1. /\ down # <<>> /\ Execute(CommandOf(Head(down)))
        /\ mpc # "publish" /\ mpc' # "publish"
      BY <1>7 DEF ReceiveRelay, ReceiveLed, ReceivePing, ReceiveOther, Arrived
  <2> QED BY <2>1, ExecuteAccount
<1>8. CASE ReceiveReboot
  <2>1. /\ down # <<>> /\ CommandOf(Head(down)) = "reboot"
        /\ ran' = [ran EXCEPT !["reboot"] = ran["reboot"] + 1]
        /\ up' = <<>> /\ down' = <<>> /\ mpc' = "connecting"
        /\ UNCHANGED <<sent, reports>>
      BY <1>8 DEF ReceiveReboot, Arrived, Restart
  <2>2. CountType' /\ \A c \in Commands : ran'[c] = ran[c] + One(c = "reboot")
      BY <2>1 DEF AccountInv, CountType, Commands, One
  <2>3. InFlight(down, "reboot") >= 1
    <3>1. InFlight(down, "reboot") = InFlight(Tail(down), "reboot") + 1
        BY <2>1, InFlightTail DEF QueueType, One
    <3>2. Tail(down) \in Seq(ToDevice)
        BY <2>1 DEF QueueType
    <3>3. InFlight(Tail(down), "reboot") \in Nat
        BY <3>2, InFlightType
    <3> QED BY <3>1, <3>3
  <2>4. ASSUME NEW c \in Executable PROVE Account(c)'
    <3>1. PICK x \in Nat, s \in Nat, j \in {0, 1} :
              /\ x = InFlight(down, c) /\ s = ran[c] /\ j = One(c = "reboot")
              /\ j <= x /\ ran'[c] = s + j
      <4>1. InFlight(down, c) \in Nat /\ ran[c] \in Nat /\ c \in Commands
          BY <1>2 DEF AccountInv, CountType, Executable
      <4>2. CASE c = "reboot"
        <5>1. One(c = "reboot") = 1
            BY <4>2 DEF One
        <5>2. One(c = "reboot") <= InFlight(down, c) /\ ran'[c] = ran[c] + One(c = "reboot")
            BY <2>2, <2>3, <4>1, <4>2, <5>1
        <5> QED BY <4>1, <5>1, <5>2
      <4>3. CASE c # "reboot"
        <5>1. One(c = "reboot") = 0
            BY <4>3 DEF One
        <5>2. One(c = "reboot") <= InFlight(down, c) /\ ran'[c] = ran[c] + One(c = "reboot")
            BY <2>2, <4>1, <5>1
        <5> QED BY <4>1, <5>1, <5>2
      <4> QED BY <4>2, <4>3
    <3>2. PICK z \in Nat :
              z = (IF c = "off" THEN InFlight(up, "off") + One(mpc = "publish") ELSE 0)
        BY <1>2 DEF One
    <3>3. s + x + z <= sent[c] + (IF c = "off" THEN reports ELSE 0)
        BY <3>1, <3>2 DEF AccountInv, Account
    <3>4. sent[c] \in Nat /\ reports \in Nat
        BY DEF AccountInv, CountType, Executable
    <3>5. (s + j) + 0 + 0 <= sent[c] + (IF c = "off" THEN reports ELSE 0)
        BY <3>1, <3>3, <3>4
    <3>6. InFlight(down', c) = 0 /\ InFlight(up', "off") = 0 /\ One(mpc' = "publish") = 0
        BY <1>2, <2>1 DEF One
    <3> QED BY <2>1, <3>1, <3>4, <3>5, <3>6 DEF Account
  <2> QED BY <2>2, <2>4 DEF AccountInv
<1>9. CASE TakeReport
  <2>1. /\ mpc = "loop" /\ mpc' = "publish" /\ reports' = reports + 1
        /\ UNCHANGED <<up, down, sent, ran>>
      BY <1>9 DEF TakeReport, linkVars
  <2>2. CountType'
      BY <2>1 DEF AccountInv, CountType
  <2>3. ASSUME NEW c \in Executable PROVE Account(c)'
    <3>1. PICK x \in Nat, s \in Nat, w \in Nat :
              x = InFlight(down, c) /\ s = ran[c] /\ w = sent[c]
        BY <1>2 DEF AccountInv, CountType, Executable
    <3>2. PICK u \in Nat, n \in Nat : u = InFlight(up, "off") /\ n = reports
        BY <1>2 DEF AccountInv, CountType
    <3>3. One(mpc = "publish") = 0 /\ One(mpc' = "publish") = 1
        BY <2>1 DEF One
    <3>4. s + x + (IF c = "off" THEN u + 0 ELSE 0) <= w + (IF c = "off" THEN n ELSE 0)
        BY <3>1, <3>2, <3>3 DEF AccountInv, Account
    <3>5. s + x + (IF c = "off" THEN u + 1 ELSE 0) <= w + (IF c = "off" THEN n + 1 ELSE 0)
        BY <3>4
    <3> QED BY <2>1, <3>1, <3>2, <3>3, <3>5 DEF Account
  <2> QED BY <2>2, <2>3 DEF AccountInv
<1>10. CASE BrokerConnect \/ BrokerSubscribe \/ BrokerPublish
    BY <1>1, <1>10, BrokerAccount
<1>11. ASSUME NEW input \in Inputs, NEW retain \in BOOLEAN,
              UserPublish(input[1], input[2], retain)
       PROVE  AccountInv'
    BY <1>1, <1>11, UserAccount
<1> QED
    BY <1>3, <1>4, <1>5, <1>6, <1>7, <1>8, <1>9, <1>10, <1>11
    DEF Next, MqttStep, BrokerStep

LEMMA InitAccount == Init => AccountInv
<1> SUFFICES ASSUME Init PROVE AccountInv
    OBVIOUS
<1>1. /\ up = <<>> /\ down = <<>> /\ mpc = "connecting" /\ reports = 0
      /\ sent = [c \in Commands |-> 0] /\ ran = [c \in Commands |-> 0]
    BY DEF Init
<1>2. \A c : InFlight(<<>>, c) = 0
    BY InFlightNone
<1>3. CountType
    BY <1>1 DEF CountType
<1>4. \A c \in Executable : Account(c)
    BY <1>1, <1>2 DEF Account, One, Executable
<1> QED BY <1>3, <1>4 DEF AccountInv

\* mqtt.rs, handle_event: a command is executed at most once for each time
\* that a user published it, across reconnects, reboots and the replay of
\* retained messages; an Off may also be the echo of a report.
THEOREM ExecutedAtMostOnce == Spec => []AtMostOnce
<1>1. QueueType /\ AccountInv => AtMostOnce
  <2> SUFFICES ASSUME QueueType, AccountInv, NEW c \in Executable
               PROVE  ran[c] <= sent[c] + (IF c = "off" THEN reports ELSE 0)
      BY DEF AtMostOnce, Executable
  <2>1. PICK x \in Nat, s \in Nat, w \in Nat, n \in Nat :
            x = InFlight(down, c) /\ s = ran[c] /\ w = sent[c] /\ n = reports
      BY InFlightType DEF QueueType, AccountInv, CountType, Executable
  <2>2. PICK u \in Nat, m \in {0, 1} : u = InFlight(up, "off") /\ m = One(mpc = "publish")
      BY InFlightType DEF QueueType, One
  <2>3. s + x + (IF c = "off" THEN u + m ELSE 0) <= w + (IF c = "off" THEN n ELSE 0)
      BY <2>1, <2>2 DEF AccountInv, Account
  <2>4. s <= w + (IF c = "off" THEN n ELSE 0)
      BY <2>3
  <2> QED BY <2>1, <2>4
<1> QED BY <1>1, InitAccount, AccountStep, QueueInvariant, PTL DEF Spec

-----------------------------------------------------------------------------
(* The relay behind the MQTT client, and the types of the state.           *)

\* relay_task keeps its invariant under the commands that mqtt_task gives it.
LEMMA RelayStepIInv ==
    ASSUME R!IInv, R!Poll \/ R!Tick \/ R!TakeChange
                   \/ \E cmd \in {"pulse", "off"} : R!Signal(cmd)
    PROVE  R!IInv'
<1> USE MqttAssumption
<1>1. ASSUME NEW cmd \in {"pulse", "off"}, R!Signal(cmd) PROVE R!IInv'
    BY <1>1 DEF R!IInv, R!TypeOK, R!Signal, R!SinceCap
<1>2. CASE R!TakeChange
    BY <1>2 DEF R!IInv, R!TypeOK, R!TakeChange, R!SinceCap
<1>3. CASE R!Wake
    BY <1>3 DEF R!IInv, R!TypeOK, R!Wake, R!StartWindow, R!SinceCap
<1>4. CASE R!Retrigger
    BY <1>4 DEF R!IInv, R!TypeOK, R!Retrigger, R!StartWindow, R!SinceCap
<1>5. CASE R!Cancel
    BY <1>5 DEF R!IInv, R!TypeOK, R!Cancel, R!Rest, R!SinceCap
<1>6. CASE R!Expire
    BY <1>6 DEF R!IInv, R!TypeOK, R!Expire, R!StartWindow, R!Rest, R!SinceCap
<1>7. CASE R!Tick
  <2>1. R!TypeOK'
      BY <1>7 DEF R!IInv, R!TypeOK, R!Tick, R!Runnable, R!SinceCap
  <2>2. (pin = "high" <=> pc = "hold")'
      BY <1>7 DEF R!IInv, R!Tick
  <2>3. (trigger = "pulse" => since <= lag)'
      BY <1>7 DEF R!IInv, R!TypeOK, R!Tick, R!Runnable, R!SinceCap
  <2>4. (pc = "hold" => since <= (PulseTicks - left) + MaxLag
                                  + (IF left = 0 THEN lag ELSE 0))'
      BY <1>7 DEF R!IInv, R!TypeOK, R!Tick, R!Runnable, R!SinceCap
  <2>5. (pc = "hold" /\ trigger = "none" => since >= PulseTicks - left)'
      BY <1>7 DEF R!IInv, R!TypeOK, R!Tick, R!SinceCap
  <2> QED BY <2>1, <2>2, <2>3, <2>4, <2>5 DEF R!IInv
<1> QED BY <1>1, <1>2, <1>3, <1>4, <1>5, <1>6, <1>7 DEF R!Poll

LEMMA RelayInit ==
    ASSUME pc = "idle", pin = "low", trigger = "none", change = "none",
           left = 0, lag = 0, since = R!SinceCap
    PROVE  R!IInv
BY MqttAssumption DEF R!IInv, R!TypeOK, R!SinceCap

LEMMA RelayStepOfMqtt == R!IInv /\ [Next]_vars => R!IInv'
<1> SUFFICES ASSUME R!IInv, [Next]_vars PROVE R!IInv'
    OBVIOUS
<1>1. CASE RelayStep \/ TimeStep \/ TakeReport
    BY <1>1, RelayStepIInv DEF RelayStep, TimeStep, TakeReport
<1>2. CASE ReceiveRelay
  <2>1. \E cmd \in {"pulse", "off"} : R!Signal(cmd)
      BY <1>2 DEF ReceiveRelay, Arrived
  <2> QED BY <2>1, RelayStepIInv
<1>3. CASE ReceiveReboot
  <2>1. /\ pc' = "idle" /\ pin' = "low" /\ trigger' = "none" /\ change' = "none"
        /\ left' = 0 /\ lag' = 0 /\ since' = R!SinceCap
      BY <1>3 DEF ReceiveReboot, Restart
  <2> QED BY <2>1, MqttAssumption DEF R!IInv, R!TypeOK, R!SinceCap
<1>4. CASE \/ TcpConnect \/ TcpFail \/ Connack \/ GiveUp \/ Announce \/ Subscribe
           \/ LinkError \/ Retry \/ ReceiveLed \/ ReceivePing \/ ReceiveOther \/ SaveDone
           \/ Pong \/ PublishReport \/ BrokerStep \/ Lose \/ UNCHANGED vars
           \/ \E input \in Inputs, retain \in BOOLEAN :
                  UserPublish(input[1], input[2], retain)
  <2>1. UNCHANGED <<pc, pin, trigger, change, left, lag, since>>
      BY <1>4 DEF TcpConnect, ConnectPacket, TcpFail, Connack, GiveUp, Announce, Subscribe, LinkError,
                  Retry, ReceiveLed, ReceivePing, ReceiveOther, SaveDone, Pong,
                  PublishReport, BrokerStep, BrokerConnect, BrokerSubscribe,
                  BrokerPublish, BrokerTimeout, BrokerTakes, Lose, UserPublish, vars,
                  relayVars
  <2> QED BY <2>1 DEF R!IInv, R!TypeOK
<1> QED BY <1>1, <1>2, <1>3, <1>4 DEF Next, MqttStep

LEMMA MqttRelayInvariant == Spec => []R!IInv
<1>1. Init => R!IInv
    BY RelayInit DEF Init, R!Init
<1> QED BY <1>1, RelayStepOfMqtt, PTL DEF Spec

\* outputs.rs, relay_task behind mqtt.rs: whatever users publish, whatever the
\* broker replays or echoes, and across reboots, the relay is energised only
\* inside a window of relay_task, and never longer than one pulse and the two
\* latencies after the last pulse command.
THEOREM MqttPulseBounded == Spec => []R!PulseBounded
<1>1. R!IInv => R!PulseBounded
    BY MqttAssumption DEF R!IInv, R!TypeOK, R!PulseBounded, R!SinceCap
<1> QED BY <1>1, MqttRelayInvariant, PTL

\* The types that no other invariant has.
RestType ==
    /\ online \in BOOLEAN /\ conn \in {"none", "up", "dead"}
    /\ session \in {"none", "live", "stale"} /\ subbed \in BOOLEAN
    /\ status \in {Nothing, "online", "offline"} /\ losses \in 0..MaxLoss

LEMMA RestStep == QueueType /\ RestType /\ [Next]_vars => RestType'
<1> SUFFICES ASSUME QueueType, RestType, [Next]_vars PROVE RestType'
    OBVIOUS
<1>1. CASE \/ TcpConnect \/ TcpFail \/ Connack \/ GiveUp \/ Announce \/ Subscribe
           \/ LinkError \/ Retry \/ ReceiveReboot \/ SaveDone \/ Pong \/ TakeReport
           \/ PublishReport
    BY <1>1 DEF TcpConnect, ConnectPacket, TcpFail, Connack, GiveUp, Announce, Subscribe, LinkError,
                Retry, ReceiveReboot, Restart, SaveDone, Pong, TakeReport, PublishReport,
                RestType, brokerVars, linkVars, historyVars
<1>2. CASE \/ ReceiveRelay \/ ReceiveLed \/ ReceivePing \/ ReceiveOther
    BY <1>2 DEF ReceiveRelay, ReceiveLed, ReceivePing, ReceiveOther, Execute, RestType,
                brokerVars
<1>3. CASE RelayStep \/ TimeStep \/ BrokerTimeout \/ UNCHANGED vars
    BY <1>3 DEF RelayStep, TimeStep, BrokerTimeout, RestType, vars, deviceVars,
                brokerVars, linkVars, historyVars
<1>4. CASE BrokerConnect \/ BrokerSubscribe
    BY <1>4 DEF BrokerConnect, BrokerSubscribe, BrokerTakes, RestType, deviceVars,
                historyVars
<1>5. CASE BrokerPublish
  <2>1. /\ up # <<>> /\ Head(up).kind = "publish"
        /\ status' = IF Head(up).topic = "status" THEN Head(up).payload ELSE status
        /\ UNCHANGED <<online, conn, session, subbed, losses>>
      BY <1>5 DEF BrokerPublish, BrokerTakes, deviceVars, historyVars
  <2>2. Head(up) \in FromDevice
      BY <2>1 DEF QueueType
  <2>3. Head(up) \in {Announcement, PongPacket, Report}
      BY <2>1, <2>2, DevicePackets
  <2>4. /\ Announcement.payload = "online" /\ PongPacket.topic # "status"
        /\ Report.topic # "status"
      BY DEF Announcement, PongPacket, Report, Publication
  <2>5. Head(up).topic = "status" => Head(up).payload = "online"
      BY <2>3, <2>4
  <2> QED BY <2>1, <2>5 DEF RestType
<1>6. CASE Lose
    BY <1>6, MqttAssumption DEF Lose, RestType, deviceVars
<1>7. ASSUME NEW input \in Inputs, NEW retain \in BOOLEAN,
             UserPublish(input[1], input[2], retain)
      PROVE  RestType'
    BY <1>7 DEF UserPublish, RestType, deviceVars
<1> QED
    BY <1>1, <1>2, <1>3, <1>4, <1>5, <1>6, <1>7 DEF Next, MqttStep, BrokerStep

\* mqtt.rs, outputs.rs: the types of the state of the client, of the relay
\* task behind it and of the broker.
THEOREM MqttTypeOK == Spec => []TypeOK
<1>1. Init => RestType
  <2>1. 0 \in 0..MaxLoss
      BY MqttAssumption
  <2> QED BY <2>1 DEF Init, RestType
<1>2. R!IInv /\ QueueType /\ LinkInv /\ AccountInv /\ RestType => TypeOK
    BY DEF R!IInv, QueueType, LinkInv, Connected, InLoop, AccountInv, CountType,
           RestType, TypeOK
<1> QED
    BY <1>1, <1>2, RestStep, InitLink, LinkStep, InitAccount, AccountStep,
       QueueInvariant, MqttRelayInvariant, PTL
    DEF Spec
=============================================================================
