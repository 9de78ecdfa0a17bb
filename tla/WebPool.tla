------------------------------ MODULE WebPool -------------------------------
(***************************************************************************)
(* The two-socket HTTP pool of src/web.rs (serve_pool, serve_connection)   *)
(* with the event streams of src/sse.rs.  A socket serves one connection   *)
(* at a time: a short request ends by itself or by the socket timeout, an  *)
(* event stream holds the socket until a write to it fails.                *)
(*                                                                         *)
(* The TCP stack is external.  A tab that is closed resets its connection, *)
(* so the next write fails; a host that vanishes acknowledges nothing: a   *)
(* socket with a timeout fails then, one without waits in flush().         *)
(***************************************************************************)
EXTENDS Naturals, FiniteSets

CONSTANTS Sockets,  \* the sockets of the pool, one per web task
          Tabs,     \* browser tabs, each on a host of its own
          Free,     \* no connection
          States    \* values of a Snapshot: relay, LEDs, link and broker

ASSUME PoolAssumption == Free \notin Tabs

VARIABLES state,    \* of each socket: "accept"; "request"; "stream", between two
                    \* writes; "flush" and "beat", in flush() after an event and
                    \* after a keep-alive
          peer,     \* of each socket: the tab that it is connected to, or Free
          host,     \* of each tab: "alive", "closed" or "gone"
          asks,     \* tabs whose SYN for a request is on its way
          opens,    \* tabs that try to open an event stream
          served,   \* tabs whose last request was answered
          dev,      \* what Snapshot::sample() returns now
          last,     \* of each socket: the snapshot that its stream sent last
          told      \* of each tab: the last event of its stream, or Free

liveVars == <<dev, last, told>>
vars == <<state, peer, host, asks, opens, served, liveVars>>

TypeOK ==
    /\ state \in [Sockets -> {"accept", "request", "stream", "flush", "beat"}]
    /\ peer \in [Sockets -> Tabs \union {Free}]
    /\ host \in [Tabs -> {"alive", "closed", "gone"}]
    /\ asks \subseteq Tabs /\ opens \subseteq Tabs /\ served \subseteq Tabs
    /\ \A s \in Sockets : state[s] = "accept" <=> peer[s] = Free
    /\ dev \in States /\ last \in [Sockets -> States]
    /\ told \in [Tabs -> States \union {Free}]

Init ==
    /\ state = [s \in Sockets |-> "accept"] /\ peer = [s \in Sockets |-> Free]
    /\ host = [t \in Tabs |-> "closed"]
    /\ asks = {} /\ opens = {} /\ served = {}
    /\ dev \in States /\ last = [s \in Sockets |-> dev] /\ told = [t \in Tabs |-> Free]

-----------------------------------------------------------------------------
(* The web tasks.                                                          *)

\* socket.accept() returns with a request of the tab; smoltcp decides which
\* listening socket gets which connection.
AcceptRequest(s, t) ==
    /\ state[s] = "accept" /\ t \in asks
    /\ state' = [state EXCEPT ![s] = "request"]
    /\ peer' = [peer EXCEPT ![s] = t]
    /\ asks' = asks \ {t}
    /\ UNCHANGED <<host, opens, served, liveVars>>

\* No socket listens: the stack answers the SYN with a reset, for there is no
\* backlog, and the request is lost.  The page ignores that and polls again a
\* second later; a user may click again.
RefuseRequest(t) ==
    /\ t \in asks /\ \A s \in Sockets : state[s] # "accept"
    /\ asks' = asks \ {t}
    /\ UNCHANGED <<state, peer, host, opens, served, liveVars>>

\* GET /events: serve_events takes the timeout off, samples the state and sends
\* it.  A stream that is refused is tried again 3 s later, so its tab stays in opens.
AcceptStream(s, t) ==
    /\ state[s] = "accept" /\ t \in opens
    /\ state' = [state EXCEPT ![s] = "flush"]
    /\ peer' = [peer EXCEPT ![s] = t]
    /\ opens' = opens \ {t}
    /\ last' = [last EXCEPT ![s] = dev]
    /\ UNCHANGED <<host, asks, served, dev, told>>

\* Mutant of Recycle: the socket listens again without being closed.
RecycleOpen(s) ==
    /\ state' = [state EXCEPT ![s] = "accept"]
    /\ UNCHANGED peer

\* close(), a bounded flush, and back to accept().
Recycle(s) ==
    /\ state' = [state EXCEPT ![s] = "accept"]
    /\ peer' = [peer EXCEPT ![s] = Free]

\* Mutant of EndRequest: without the timeout a host that has gone is waited for.
EndRequestUntimed(s) ==
    /\ state[s] = "request" /\ host[peer[s]] # "gone"
    /\ Recycle(s)
    /\ served' = IF host[peer[s]] = "alive" THEN served \union {peer[s]} ELSE served
    /\ UNCHANGED <<host, asks, opens, liveVars>>

\* A short request is over: answered, or failed with the connection, at the
\* latest when the timeout of 10 s finds a host that has gone.
EndRequest(s) ==
    /\ state[s] = "request"
    /\ Recycle(s)
    /\ served' = IF host[peer[s]] = "alive" THEN served \union {peer[s]} ELSE served
    /\ UNCHANGED <<host, asks, opens, liveVars>>

\* The timer has fired: a sample that differs is remembered and sent.
Push(s) ==
    /\ state[s] = "stream" /\ dev # last[s]
    /\ state' = [state EXCEPT ![s] = "flush"]
    /\ last' = [last EXCEPT ![s] = dev]
    /\ UNCHANGED <<peer, host, asks, opens, served, dev, told>>

\* Nothing differs and 15 s have gone by: a comment that tells nothing is sent.
KeepAlive(s) ==
    /\ state[s] = "stream" /\ dev = last[s]
    /\ state' = [state EXCEPT ![s] = "beat"]
    /\ UNCHANGED <<peer, host, asks, opens, served, liveVars>>

Waits(s) == state[s] \in {"flush", "beat"}

Heard(s) == IF state[s] = "flush" THEN [told EXCEPT ![peer[s]] = last[s]] ELSE told

\* Mutant of Flushed: the sample to compare with is taken after the flush.
FlushedSamples(s) ==
    /\ Waits(s) /\ host[peer[s]] = "alive"
    /\ state' = [state EXCEPT ![s] = "stream"]
    /\ told' = Heard(s)
    /\ last' = [last EXCEPT ![s] = dev]
    /\ UNCHANGED <<peer, host, asks, opens, served, dev>>

\* flush() returns once the peer has acknowledged, and so has got, the event.
Flushed(s) ==
    /\ Waits(s) /\ host[peer[s]] = "alive"
    /\ state' = [state EXCEPT ![s] = "stream"]
    /\ told' = Heard(s)
    /\ UNCHANGED <<peer, host, asks, opens, served, dev, last>>

\* Mutant of EndStream: a failed write is ignored.
EndStreamIgnored(s) ==
    /\ Waits(s) /\ host[peer[s]] = "closed"
    /\ state' = [state EXCEPT ![s] = "stream"]
    /\ UNCHANGED <<peer, host, asks, opens, served, liveVars>>

\* The connection was reset: the write fails and serve_events returns.
EndStream(s) ==
    /\ state[s] = "stream" \/ Waits(s)
    /\ host[peer[s]] = "closed"
    /\ Recycle(s)
    /\ UNCHANGED <<host, asks, opens, served, liveVars>>

SocketStep(s) ==
    EndRequest(s) \/ Push(s) \/ KeepAlive(s) \/ Flushed(s) \/ EndStream(s)

-----------------------------------------------------------------------------
(* The browsers (external).                                                *)

\* No socket still believes in an earlier connection of the tab.
Unknown(t) == \A s \in Sockets : peer[s] # t

\* The page is loaded by a first request and opens its event stream.
OpenTab(t) ==
    /\ host[t] = "closed" /\ Unknown(t)
    /\ host' = [host EXCEPT ![t] = "alive"]
    /\ opens' = opens \union {t}
    /\ served' = served \ {t}
    /\ told' = [told EXCEPT ![t] = Free]
    /\ UNCHANGED <<state, peer, asks, dev, last>>

\* The user navigates, saves, or the page polls.
Ask(t) ==
    /\ host[t] = "alive"
    /\ asks' = asks \union {t}
    /\ served' = served \ {t}
    /\ UNCHANGED <<state, peer, host, opens, liveVars>>

Leave(t, how) ==
    /\ host[t] = "alive"
    /\ host' = [host EXCEPT ![t] = how]
    /\ asks' = asks \ {t} /\ opens' = opens \ {t}
    /\ UNCHANGED <<state, peer, served, liveVars>>

\* A host that comes back answers what it does not know with a reset.
ComeBack(t) ==
    /\ host[t] = "gone"
    /\ host' = [host EXCEPT ![t] = "closed"]
    /\ UNCHANGED <<state, peer, asks, opens, served, liveVars>>

\* The other tasks: a relay, an LED, the link or the broker changes.
Change(v) ==
    /\ dev # v
    /\ dev' = v
    /\ UNCHANGED <<state, peer, host, asks, opens, served, last, told>>

Next ==
    \/ \E v \in States : Change(v)
    \/ \E s \in Sockets : SocketStep(s)
    \/ \E s \in Sockets, t \in Tabs : AcceptRequest(s, t) \/ AcceptStream(s, t)
    \/ \E t \in Tabs : \/ OpenTab(t) \/ Ask(t) \/ RefuseRequest(t) \/ ComeBack(t)
                       \/ Leave(t, "closed") \/ Leave(t, "gone")

\* A SYN that is on its way reaches the device, and is accepted or refused.
Arrive(t) == (\E s \in Sockets : AcceptRequest(s, t)) \/ RefuseRequest(t)

\* Every web task is polled and what a tab sends arrives.  Nothing is assumed of
\* when it arrives, nor of what tabs and hosts do.
Fairness ==
    /\ \A s \in Sockets : WF_vars(SocketStep(s))
    /\ \A t \in Tabs : WF_vars(Arrive(t))

Spec == Init /\ [][Next]_vars /\ Fairness

-----------------------------------------------------------------------------
(* Properties.                                                             *)

Streams == {s \in Sockets : state[s] = "stream" \/ Waits(s)}

\* sse.rs, serve_events: the snapshot that the next sample is compared with is
\* the one that the tab was told last, whenever no event is being flushed: no
\* change is taken for known that the tab has not seen.
StreamInSync ==
    \A s \in Sockets : state[s] \in {"stream", "beat"} => told[peer[s]] = last[s]

\* The strengthening of StreamInSync that every step preserves: no two sockets
\* stream to one tab, and none streams to a tab that still waits for a stream.
OneStream ==
    /\ \A s, r \in Streams : peer[s] = peer[r] => s = r
    /\ \A s \in Streams : peer[s] \notin opens
SyncInv == TypeOK /\ OneStream /\ StreamInSync

\* web.rs, doc comment of the pool: "One socket can be parked in an SSE stream
\* while the other keeps serving".  As long as streams leave a socket over, a
\* tab that asks again and again is answered once the others are quiet, also
\* behind requests of hosts that have gone.  Nothing better holds: with a stream
\* up, a request that meets another one is refused, however often it is unlucky.
RequestsServed ==
    \A t \in Tabs :
        /\ <>[](host[t] = "alive" /\ asks \subseteq {t}
                  /\ Cardinality(Streams) < Cardinality(Sockets))
        /\ []<>(t \in asks)
        => []<>(t \in served)

\* A stream whose tab was closed gives its socket back.
ClosedStreamEnds ==
    \A s \in Sockets :
        (s \in Streams /\ host[peer[s]] = "closed") ~> state[s] = "accept"

\* README, Live updates: "The device pushes a JSON diff every 150 ms when any
\* state changes".  A state that lasts is told to every live stream, also one
\* that came while an earlier event was being flushed.
LiveView ==
    \A s \in Sockets, t \in Tabs, v \in States :
        (s \in Streams /\ peer[s] = t /\ dev = v)
            ~> (told[t] = v \/ dev # v \/ peer[s] # t \/ host[t] # "alive")

\* sse.rs, serve_events: "a dead peer is detected by a failing keep-alive write
\* instead".  A stream to a host that has gone for good gives its socket back.
DeadPeerDetected ==
    \A s \in Sockets : \A t \in Tabs :
        [](s \in Streams /\ peer[s] = t /\ [](host[t] = "gone")
             => <>(peer[s] # t))
=============================================================================
