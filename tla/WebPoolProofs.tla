--------------------------- MODULE WebPoolProofs ----------------------------
(***************************************************************************)
(* The event streams of the HTTP pool, for any number of sockets, of tabs  *)
(* and of states of the device.                                            *)
(***************************************************************************)
EXTENDS WebPool, TLAPS

\* A socket streams in these states.
Streaming == {"stream", "flush", "beat"}

\* SyncInv with the set of streaming sockets spelled out.
LEMMA SyncInvIs ==
    SyncInv <=>
        /\ TypeOK /\ StreamInSync
        /\ \A s, r \in Sockets :
               state[s] \in Streaming /\ state[r] \in Streaming /\ peer[s] = peer[r] => s = r
        /\ \A s \in Sockets : state[s] \in Streaming => peer[s] \notin opens
BY DEF SyncInv, OneStream, Streams, Waits, Streaming

\* No socket streams at first.
LEMMA SyncInit == Init => SyncInv
BY PoolAssumption DEF Init, SyncInv, TypeOK, OneStream, StreamInSync, Streams, Waits

\* What is left to show of a step: the four parts of SyncInv after it.
LEMMA SyncNext ==
    ASSUME TypeOK', StreamInSync',
           \A s, r \in Sockets :
               state'[s] \in Streaming /\ state'[r] \in Streaming /\ peer'[s] = peer'[r] => s = r,
           \A s \in Sockets : state'[s] \in Streaming => peer'[s] \notin opens'
    PROVE  SyncInv'
BY DEF SyncInv, OneStream, Streams, Waits, Streaming

\* Every step of a web task, of a browser and of the device keeps a stream's
\* snapshot equal to what its tab was told last.
LEMMA SyncStep == SyncInv /\ [Next]_vars => SyncInv'
<1> SUFFICES ASSUME SyncInv, [Next]_vars PROVE SyncInv'
  OBVIOUS
<1>s. /\ TypeOK /\ StreamInSync
      /\ \A s, r \in Sockets :
             state[s] \in Streaming /\ state[r] \in Streaming /\ peer[s] = peer[r] => s = r
      /\ \A s \in Sockets : state[s] \in Streaming => peer[s] \notin opens
  BY SyncInvIs
<1>t. \A s \in Sockets : state[s] # "accept" => peer[s] \in Tabs
  BY <1>s DEF TypeOK
<1> USE DEF Streaming
<1>1. ASSUME NEW v \in States, Change(v) PROVE SyncInv'
  <2>1. TypeOK'
    BY <1>s, <1>1 DEF Change, TypeOK
  <2>2. StreamInSync'
    BY <1>s, <1>1 DEF Change, StreamInSync
  <2> QED
    BY <1>s, <1>1, <2>1, <2>2, SyncNext DEF Change
<1>2. ASSUME NEW s \in Sockets, EndRequest(s) PROVE SyncInv'
  <2>1. TypeOK'
    BY <1>s, <1>t, <1>2 DEF EndRequest, Recycle, liveVars, TypeOK
  <2>2. StreamInSync'
    BY <1>s, <1>2 DEF EndRequest, Recycle, liveVars, StreamInSync, TypeOK
  <2> QED
    BY <1>s, <1>2, <2>1, <2>2, SyncNext DEF EndRequest, Recycle, TypeOK
<1>3. ASSUME NEW s \in Sockets, Push(s) PROVE SyncInv'
  <2>1. TypeOK'
    BY <1>s, <1>3 DEF Push, TypeOK
  <2>2. StreamInSync'
    BY <1>s, <1>3 DEF Push, StreamInSync, TypeOK
  <2> QED
    BY <1>s, <1>3, <2>1, <2>2, SyncNext DEF Push, TypeOK
<1>4. ASSUME NEW s \in Sockets, KeepAlive(s) PROVE SyncInv'
  <2>1. TypeOK'
    BY <1>s, <1>4 DEF KeepAlive, liveVars, TypeOK
  <2>2. StreamInSync'
    BY <1>s, <1>4 DEF KeepAlive, liveVars, StreamInSync, TypeOK
  <2> QED
    BY <1>s, <1>4, <2>1, <2>2, SyncNext DEF KeepAlive, TypeOK
<1>5. ASSUME NEW s \in Sockets, Flushed(s) PROVE SyncInv'
  \* The event reaches the tab of this stream only: no other socket streams to it.
  <2>0. state[s] \in Streaming /\ peer[s] \in Tabs
    BY <1>5, <1>t DEF Flushed, Waits
  <2>1. TypeOK'
    BY <1>s, <1>5, <2>0 DEF Flushed, Heard, TypeOK
  <2>2. StreamInSync'
    <3> SUFFICES ASSUME NEW r \in Sockets, state'[r] \in {"stream", "beat"}
                 PROVE  told'[peer'[r]] = last'[r]
      BY DEF StreamInSync
    <3>1. CASE r = s
      BY <1>s, <1>5, <2>0, <3>1 DEF Flushed, Waits, Heard, StreamInSync, TypeOK
    <3>2. CASE r # s
      <4>1. state[r] \in {"stream", "beat"} /\ peer[r] # peer[s]
        BY <1>s, <1>5, <2>0, <3>2 DEF Flushed, TypeOK
      <4>2. told'[peer[r]] = told[peer[r]]
        BY <1>s, <1>t, <1>5, <2>0, <4>1 DEF Flushed, Heard, TypeOK
      <4> QED
        BY <1>s, <1>5, <4>1, <4>2 DEF Flushed, StreamInSync
    <3> QED
      BY <3>1, <3>2
  <2> QED
    BY <1>s, <1>5, <2>0, <2>1, <2>2, SyncNext DEF Flushed, TypeOK
<1>6. ASSUME NEW s \in Sockets, EndStream(s) PROVE SyncInv'
  <2>1. TypeOK'
    BY <1>s, <1>t, <1>6 DEF EndStream, Recycle, liveVars, TypeOK
  <2>2. StreamInSync'
    BY <1>s, <1>6 DEF EndStream, Recycle, liveVars, StreamInSync, TypeOK
  <2> QED
    BY <1>s, <1>6, <2>1, <2>2, SyncNext DEF EndStream, Recycle, TypeOK
<1>7. ASSUME NEW s \in Sockets, NEW t \in Tabs, AcceptRequest(s, t) PROVE SyncInv'
  <2>1. TypeOK'
    BY <1>s, <1>7, PoolAssumption DEF AcceptRequest, liveVars, TypeOK
  <2>2. StreamInSync'
    BY <1>s, <1>7 DEF AcceptRequest, liveVars, StreamInSync, TypeOK
  <2> QED
    BY <1>s, <1>7, <2>1, <2>2, SyncNext DEF AcceptRequest, TypeOK
<1>8. ASSUME NEW s \in Sockets, NEW t \in Tabs, AcceptStream(s, t) PROVE SyncInv'
  \* The tab waited for this stream, so no socket streams to it yet.
  <2>1. TypeOK'
    BY <1>s, <1>8, PoolAssumption DEF AcceptStream, TypeOK
  <2>2. StreamInSync'
    BY <1>s, <1>8 DEF AcceptStream, StreamInSync, TypeOK
  <2> QED
    BY <1>s, <1>8, <2>1, <2>2, SyncNext DEF AcceptStream, TypeOK
<1>9. ASSUME NEW t \in Tabs, OpenTab(t) PROVE SyncInv'
  \* The page is new: what was told before is forgotten, and no socket knows it.
  <2>1. TypeOK'
    BY <1>s, <1>9 DEF OpenTab, TypeOK
  <2>2. StreamInSync'
    BY <1>s, <1>t, <1>9 DEF OpenTab, Unknown, StreamInSync, TypeOK
  <2> QED
    BY <1>s, <1>9, <2>1, <2>2, SyncNext DEF OpenTab, Unknown, TypeOK
<1>10. ASSUME NEW t \in Tabs, Ask(t) PROVE SyncInv'
  <2>1. TypeOK'
    BY <1>s, <1>10 DEF Ask, liveVars, TypeOK
  <2>2. StreamInSync'
    BY <1>s, <1>10 DEF Ask, liveVars, StreamInSync
  <2> QED
    BY <1>s, <1>10, <2>1, <2>2, SyncNext DEF Ask
<1>11. ASSUME NEW t \in Tabs, ComeBack(t) PROVE SyncInv'
  <2>1. TypeOK'
    BY <1>s, <1>11 DEF ComeBack, liveVars, TypeOK
  <2>2. StreamInSync'
    BY <1>s, <1>11 DEF ComeBack, liveVars, StreamInSync
  <2> QED
    BY <1>s, <1>11, <2>1, <2>2, SyncNext DEF ComeBack
<1>12. ASSUME NEW t \in Tabs, NEW how \in {"closed", "gone"}, Leave(t, how) PROVE SyncInv'
  <2>1. TypeOK'
    BY <1>s, <1>12 DEF Leave, liveVars, TypeOK
  <2>2. StreamInSync'
    BY <1>s, <1>12 DEF Leave, liveVars, StreamInSync
  <2> QED
    BY <1>s, <1>12, <2>1, <2>2, SyncNext DEF Leave
<1>13. ASSUME NEW t \in Tabs, RefuseRequest(t) PROVE SyncInv'
  <2>1. TypeOK'
    BY <1>s, <1>13 DEF RefuseRequest, liveVars, TypeOK
  <2>2. StreamInSync'
    BY <1>s, <1>13 DEF RefuseRequest, liveVars, StreamInSync
  <2> QED
    BY <1>s, <1>13, <2>1, <2>2, SyncNext DEF RefuseRequest
<1>14. CASE UNCHANGED vars
  <2>1. TypeOK'
    BY <1>s, <1>14 DEF vars, liveVars, TypeOK
  <2>2. StreamInSync'
    BY <1>s, <1>14 DEF vars, liveVars, StreamInSync
  <2> QED
    BY <1>s, <1>14, <2>1, <2>2, SyncNext DEF vars
<1> QED
  BY <1>1, <1>2, <1>3, <1>4, <1>5, <1>6, <1>7, <1>8, <1>9, <1>10, <1>11, <1>12, <1>13, <1>14
  DEF Next, SocketStep

-----------------------------------------------------------------------------

\* The inductive invariant of the event streams holds in every reachable state.
THEOREM PoolInvariant == Spec => []SyncInv
BY SyncInit, SyncStep, PTL DEF Spec

\* serve_pool: a socket has a peer exactly while it serves a connection, and
\* every variable keeps its type.
THEOREM PoolTypeOK == Spec => []TypeOK
<1>1. SyncInv => TypeOK
  BY DEF SyncInv
<1> QED
  BY <1>1, PoolInvariant, PTL

\* serve_events: between two events a stream compares the next sample with what
\* its tab was really told, so no change is ever taken for known that the tab has
\* not seen, however changes, flushes, closed tabs and new pages interleave.
THEOREM StreamsInSync == Spec => []StreamInSync
<1>1. SyncInv => StreamInSync
  BY DEF SyncInv
<1> QED
  BY <1>1, PoolInvariant, PTL
=============================================================================
