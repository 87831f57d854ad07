--------------------------- MODULE ProxyTcpProofs ---------------------------
(***************************************************************************)
(* What holds of the proxied TCP streams for every number of streams and   *)
(* of frames in flight, whoever dials and whatever is lost or reordered:   *)
(* a dialer pipes into a stream the host has accepted, Close leaves no     *)
(* connection open, ended streams leave the map, and streams do not mix as *)
(* long as one peer of the channel dials.                                  *)
(***************************************************************************)
EXTENDS ProxyTcp, TLAPS

\* No two streams have the same ID.
OneDialer == \A p, q \in Dialers : p = q

\* A frame carries the ID of its stream, and goes where its type goes.
WellAddressed ==
  \A f \in net :
    /\ f.id = Id(f.of)
    /\ f.type = "OPEN" => f.to = Host(f.of)
    /\ f.type = "OPEN_OK" => f.to = Dialer(f.of)

Asked == {"waiting", "piping", "gone"}
Live == {"reading", "ended"}

\* A stream is opened once: its OPEN is sent by SendOpen alone, and the host
\* starts on it when it takes that frame.
OpenedOnce ==
  /\ \A f \in net : f.type = "OPEN" => dialPc[f.of] \in Asked /\ hostPc[f.of] = "none"
  /\ \A s \in Stream : hostPc[s] # "none" => dialPc[s] \in Asked

\* OPEN_OK, on its way or received, speaks of a stream that is connected.
OKIsLive ==
  /\ \A f \in net : f.type = "OPEN_OK" => hostPc[f.of] \in Live
  /\ \A s \in Stream : openCh[s] = "ok" => hostPc[s] \in Live

\* An open connection is in its map, and a closed forwarder has no maps.
OpenIsMapped ==
  \A s \in Stream :
    /\ target[s] = "open" => s \in hostMap
    /\ local[s] = "open" /\ dialPc[s] \notin {"none", "accepted"} => s \in dialMap

ClosedHasNoMaps ==
  /\ \A s \in hostMap : Host(s) \notin closed
  /\ \A s \in dialMap : Dialer(s) \notin closed

NoStrays == OneDialer => StreamsIndependent

IInv ==
  /\ TypeOK /\ WellAddressed /\ OpenedOnce /\ OKIsLive /\ PipesIntoTarget
  /\ OpenIsMapped /\ ClosedHasNoMaps /\ EndedLeavesMap /\ NoStrays

-----------------------------------------------------------------------------
LEMMA PeerType ==
  ASSUME NEW s \in Stream
  PROVE  Dialer(s) \in Peer /\ Host(s) \in Peer /\ Id(s) \in 1..MaxStreams
  <1>1. PICK p \in Peer, q \in Peer : p # q /\ Peer = {p, q}
    BY ProxyTcpAssumption
  <1>2. Dialer(s) \in Peer /\ Id(s) \in 1..MaxStreams
    BY ProxyTcpAssumption DEF Stream, Dialer, Id
  <1>3. \E r \in Peer : r # Dialer(s)
    BY <1>1, <1>2
  <1>4. Other(Dialer(s)) \in Peer
    BY <1>3 DEF Other
  <1> QED BY <1>2, <1>4 DEF Host, Dialer

\* A stream is its dialer and its ID.
LEMMA SameStream ==
  ASSUME NEW s \in Stream, NEW t \in Stream, Dialer(s) = Dialer(t), Id(s) = Id(t)
  PROVE  s = t
  BY DEF Stream, Dialer, Id

LEMMA FrameType ==
  ASSUME NEW s \in Stream, NEW to \in Peer,
         NEW type \in {"OPEN", "OPEN_OK", "OPEN_ERR", "DATA", "CLOSE"}
  PROVE  /\ F(type, to, s) \in Frame
         /\ F(type, to, s).type = type /\ F(type, to, s).to = to
         /\ F(type, to, s).of = s /\ F(type, to, s).id = Id(s)
  BY PeerType DEF F, Frame

\* What the channel carries after a step that may send one frame.
LEMMA SendsOne ==
  ASSUME NEW frames, NEW type, NEW to, NEW s,
         Sends(frames, F(type, to, s)) \/ SendIfLinked(frames, type, to, s)
  PROVE  net' = frames \/ net' = frames \union {F(type, to, s)}
  BY DEF Sends, SendIfLinked

\* The frames stay well typed and addressed.
LEMMA NetType ==
  ASSUME TypeOK, WellAddressed, NEW s \in Stream, NEW to \in Peer,
         NEW type \in {"OPEN", "OPEN_OK", "OPEN_ERR", "DATA", "CLOSE"},
         type = "OPEN" => to = Host(s), type = "OPEN_OK" => to = Dialer(s),
         net' \subseteq net \union {F(type, to, s)}
  PROVE  /\ net' \subseteq Frame /\ WellAddressed'
         /\ \A f \in net' : f.of \in Stream /\ (f \in net \/ (f.type = type /\ f.of = s))
  <1>1. net' \subseteq Frame
    BY FrameType DEF TypeOK
  <1>2. \A f \in net' : f \in net \/ (f.type = type /\ f.to = to /\ f.of = s /\ f.id = Id(s))
    BY FrameType
  <1>3. \A f \in net' : f.of \in Stream
    BY <1>1 DEF Frame
  <1> QED BY <1>1, <1>2, <1>3 DEF WellAddressed, Id, Host, Dialer

LEMMA NetStreams ==
  ASSUME TypeOK PROVE \A f \in net : f.of \in Stream
  BY DEF TypeOK, Frame

\* What a step may do to the two ends of an open that it is not about.
Progresses ==
  \A s \in Stream :
    /\ dialPc[s] \in Asked => dialPc'[s] \in Asked
    /\ hostPc'[s] = hostPc[s] \/ hostPc[s] # "none"
    /\ hostPc[s] \in Live => hostPc'[s] \in Live
    /\ openCh'[s] = openCh[s]

LEMMA ProgressKeeps ==
  ASSUME OpenedOnce, OKIsLive, Progresses,
         \A f \in net' :
           /\ f.of \in Stream
           /\ f.type = "OPEN" => f \in net \/ (dialPc'[f.of] \in Asked /\ hostPc'[f.of] =
              "none")
           /\ f.type = "OPEN_OK" => f \in net \/ hostPc'[f.of] \in Live
  PROVE  OpenedOnce' /\ OKIsLive'
  <1>1. OpenedOnce'
    BY DEF OpenedOnce, Progresses
  <1>2. OKIsLive'
    BY DEF OKIsLive, Progresses
  <1> QED BY <1>1, <1>2

\* There is one OPEN per stream.
LEMMA OneOpen ==
  ASSUME TypeOK, WellAddressed, NEW f \in net, NEW g \in net,
         f.type = "OPEN", g.type = "OPEN", f.of = g.of
  PROVE  f = g
  <1>1. f \in Frame /\ g \in Frame
    BY DEF TypeOK
  <1>2. f.to = g.to /\ f.id = g.id
    BY DEF WellAddressed
  <1> QED BY <1>1, <1>2 DEF Frame

-----------------------------------------------------------------------------
LEMMA InitIInv == Init => IInv
  <1> SUFFICES ASSUME Init PROVE IInv
    OBVIOUS
  <1>1. TypeOK
    BY DEF Init, TypeOK
  <1> QED BY <1>1 DEF Init, IInv, WellAddressed, OpenedOnce, OKIsLive, PipesIntoTarget,
             OpenIsMapped, ClosedHasNoMaps, EndedLeavesMap, NoStrays, StreamsIndependent

LEMMA NextIInv == IInv /\ [Next]_vars => IInv'
  <1> SUFFICES ASSUME IInv, [Next]_vars PROVE IInv'
    OBVIOUS
  <1> USE DEF channel, peers, dialing, hosting
  <1>1. ASSUME NEW s \in Stream, Accept(s) PROVE IInv'
    <2>1. TypeOK'
      BY <1>1 DEF IInv, TypeOK, Accept
    <2>2. Progresses
      BY <1>1 DEF Progresses, IInv, TypeOK, OpenedOnce, Asked, Live, Accept
    <2>3. net' = net
      BY <1>1 DEF Accept
    <2>4. OpenedOnce' /\ OKIsLive'
      BY <2>2, <2>3, NetStreams, ProgressKeeps DEF IInv
    <2>5. PipesIntoTarget'
      BY <1>1 DEF IInv, TypeOK, PipesIntoTarget, OKIsLive, Live, Accept
    <2>6. OpenIsMapped'
      BY <1>1 DEF IInv, TypeOK, OpenIsMapped, Accept
    <2>7. WellAddressed' /\ ClosedHasNoMaps' /\ EndedLeavesMap' /\ NoStrays'
      BY <1>1 DEF IInv, WellAddressed, ClosedHasNoMaps, EndedLeavesMap, NoStrays,
         StreamsIndependent, OneDialer, Accept
    <2> QED BY <2>1, <2>4, <2>5, <2>6, <2>7 DEF IInv
  <1>2. ASSUME NEW s \in Stream, Register(s) PROVE IInv'
    <2>1. TypeOK'
      BY <1>2 DEF IInv, TypeOK, Register
    <2>2. Progresses
      BY <1>2 DEF Progresses, IInv, TypeOK, OpenedOnce, Asked, Live, Register
    <2>3. net' = net
      BY <1>2 DEF Register
    <2>4. OpenedOnce' /\ OKIsLive'
      BY <2>2, <2>3, NetStreams, ProgressKeeps DEF IInv
    <2>5. PipesIntoTarget'
      BY <1>2 DEF IInv, TypeOK, PipesIntoTarget, OKIsLive, Live, Register
    <2>6. OpenIsMapped'
      BY <1>2 DEF IInv, TypeOK, OpenIsMapped, Register
    <2>7. ClosedHasNoMaps'
      BY <1>2 DEF IInv, TypeOK, ClosedHasNoMaps, Register
    <2>8. WellAddressed' /\ EndedLeavesMap' /\ NoStrays'
      BY <1>2 DEF IInv, WellAddressed, EndedLeavesMap, NoStrays, StreamsIndependent,
         OneDialer, Register
    <2> QED BY <2>1, <2>4, <2>5, <2>6, <2>7, <2>8 DEF IInv
  <1>3. ASSUME NEW s \in Stream, SendOpen(s) PROVE IInv'
    <2>1. net' \subseteq net \union {F("OPEN", Host(s), s)}
      BY <1>3, SendsOne DEF SendOpen, Return, Send
    <2>2. /\ net' \subseteq Frame /\ WellAddressed'
          /\ \A g \in net' : g.of \in Stream /\ (g \in net \/ (g.type = "OPEN" /\ g.of = s))
      BY <1>3, <2>1, NetType, PeerType DEF IInv
    <2>3. TypeOK'
      BY <1>3, <2>1, <2>2 DEF IInv, TypeOK, SendOpen, Return, Send
    <2>4. Progresses
      BY <1>3 DEF Progresses, IInv, TypeOK, OpenedOnce, Asked, Live, SendOpen, Return
    <2>5. dialPc'[s] \in Asked /\ hostPc'[s] = "none"
      BY <1>3 DEF SendOpen, Return, IInv, TypeOK, OpenedOnce, Asked
    <2>6. OpenedOnce' /\ OKIsLive'
      BY <2>4, <2>5, <2>2, NetStreams, ProgressKeeps DEF IInv
    <2>7. PipesIntoTarget'
      BY <1>3 DEF IInv, TypeOK, PipesIntoTarget, OKIsLive, Live, SendOpen, Return, Send
    <2>8. OpenIsMapped'
      BY <1>3 DEF IInv, TypeOK, OpenIsMapped, SendOpen, Return, Send
    <2>9. ClosedHasNoMaps'
      BY <1>3 DEF IInv, TypeOK, ClosedHasNoMaps, SendOpen, Return, Send
    <2>10. EndedLeavesMap' /\ NoStrays'
      BY <1>3 DEF IInv, EndedLeavesMap, NoStrays, StreamsIndependent, OneDialer, SendOpen,
         Return, Send
    <2> QED BY <2>3, <2>2, <2>6, <2>7, <2>8, <2>9, <2>10 DEF IInv
  <1>4. ASSUME NEW s \in Stream, Opened(s) PROVE IInv'
    <2>1. TypeOK'
      BY <1>4 DEF IInv, TypeOK, Opened
    <2>2. Progresses
      BY <1>4 DEF Progresses, IInv, TypeOK, OpenedOnce, Asked, Live, Opened
    <2>3. net' = net
      BY <1>4 DEF Opened
    <2>4. OpenedOnce' /\ OKIsLive'
      BY <2>2, <2>3, NetStreams, ProgressKeeps DEF IInv
    <2>5. PipesIntoTarget'
      BY <1>4 DEF IInv, TypeOK, PipesIntoTarget, OKIsLive, Live, Opened
    <2>6. OpenIsMapped'
      BY <1>4 DEF IInv, TypeOK, OpenIsMapped, Opened
    <2>7. WellAddressed' /\ ClosedHasNoMaps' /\ EndedLeavesMap' /\ NoStrays'
      BY <1>4 DEF IInv, WellAddressed, ClosedHasNoMaps, EndedLeavesMap, NoStrays,
         StreamsIndependent, OneDialer, Opened
    <2> QED BY <2>1, <2>4, <2>5, <2>6, <2>7 DEF IInv
  <1>5. ASSUME NEW s \in Stream, NotOpened(s) PROVE IInv'
    <2>1. TypeOK'
      BY <1>5 DEF IInv, TypeOK, NotOpened, Return
    <2>2. Progresses
      BY <1>5 DEF Progresses, IInv, TypeOK, OpenedOnce, Asked, Live, NotOpened, Return
    <2>3. net' = net
      BY <1>5 DEF NotOpened, Return
    <2>4. OpenedOnce' /\ OKIsLive'
      BY <2>2, <2>3, NetStreams, ProgressKeeps DEF IInv
    <2>5. PipesIntoTarget'
      BY <1>5 DEF IInv, TypeOK, PipesIntoTarget, OKIsLive, Live, NotOpened, Return
    <2>6. OpenIsMapped'
      BY <1>5 DEF IInv, TypeOK, OpenIsMapped, NotOpened, Return
    <2>7. ClosedHasNoMaps'
      BY <1>5 DEF IInv, TypeOK, ClosedHasNoMaps, NotOpened, Return
    <2>8. WellAddressed' /\ EndedLeavesMap' /\ NoStrays'
      BY <1>5 DEF IInv, WellAddressed, EndedLeavesMap, NoStrays, StreamsIndependent,
         OneDialer, NotOpened, Return
    <2> QED BY <2>1, <2>4, <2>5, <2>6, <2>7, <2>8 DEF IInv
  <1>6. ASSUME NEW s \in Stream, Finish(s) PROVE IInv'
    <2>1. TypeOK'
      BY <1>6 DEF IInv, TypeOK, Finish, Return
    <2>2. Progresses
      BY <1>6 DEF Progresses, IInv, TypeOK, OpenedOnce, Asked, Live, Finish, Return
    <2>3. net' = net
      BY <1>6 DEF Finish, Return
    <2>4. OpenedOnce' /\ OKIsLive'
      BY <2>2, <2>3, NetStreams, ProgressKeeps DEF IInv
    <2>5. PipesIntoTarget'
      BY <1>6 DEF IInv, TypeOK, PipesIntoTarget, OKIsLive, Live, Finish, Return
    <2>6. OpenIsMapped'
      BY <1>6 DEF IInv, TypeOK, OpenIsMapped, Finish, Return
    <2>7. ClosedHasNoMaps'
      BY <1>6 DEF IInv, TypeOK, ClosedHasNoMaps, Finish, Return
    <2>8. WellAddressed' /\ EndedLeavesMap' /\ NoStrays'
      BY <1>6 DEF IInv, WellAddressed, EndedLeavesMap, NoStrays, StreamsIndependent,
         OneDialer, Finish, Return
    <2> QED BY <2>1, <2>4, <2>5, <2>6, <2>7, <2>8 DEF IInv
  <1>7. ASSUME NEW s \in Stream, PumpSends(s) PROVE IInv'
    <2>1. net' \subseteq net \union {F("DATA", Host(s), s)}
      BY <1>7, SendsOne DEF PumpSends, Send
    <2>2. /\ net' \subseteq Frame /\ WellAddressed'
          /\ \A g \in net' : g.of \in Stream /\ (g \in net \/ (g.type = "DATA" /\ g.of = s))
      BY <1>7, <2>1, NetType, PeerType DEF IInv
    <2>3. TypeOK'
      BY <1>7, <2>1, <2>2 DEF IInv, TypeOK, PumpSends, Send
    <2>4. Progresses
      BY <1>7 DEF Progresses, IInv, TypeOK, OpenedOnce, Asked, Live, PumpSends
    <2>5. OpenedOnce' /\ OKIsLive'
      BY <2>4, <2>2, NetStreams, ProgressKeeps DEF IInv
    <2>6. PipesIntoTarget' /\ OpenIsMapped' /\ ClosedHasNoMaps' /\ EndedLeavesMap' /\ NoStrays'
      BY <1>7 DEF IInv, PipesIntoTarget, OKIsLive, Live, OpenIsMapped, ClosedHasNoMaps,
         EndedLeavesMap, NoStrays, StreamsIndependent, OneDialer, PumpSends, Send
    <2> QED BY <2>3, <2>2, <2>5, <2>6 DEF IInv
  <1>8. ASSUME NEW s \in Stream, PumpEnds(s) PROVE IInv'
    <2>1. net' \subseteq net \union {F("CLOSE", Host(s), s)}
      BY <1>8, SendsOne DEF PumpEnds
    <2>2. /\ net' \subseteq Frame /\ WellAddressed'
          /\ \A g \in net' : g.of \in Stream /\ (g \in net \/ (g.type = "CLOSE" /\ g.of = s))
      BY <1>8, <2>1, NetType, PeerType DEF IInv
    <2>3. TypeOK'
      BY <1>8, <2>1, <2>2 DEF IInv, TypeOK, PumpEnds
    <2>4. Progresses
      BY <1>8 DEF Progresses, IInv, TypeOK, OpenedOnce, Asked, Live, PumpEnds
    <2>5. OpenedOnce' /\ OKIsLive'
      BY <2>4, <2>2, NetStreams, ProgressKeeps DEF IInv
    <2>6. PipesIntoTarget' /\ OpenIsMapped' /\ ClosedHasNoMaps' /\ EndedLeavesMap' /\ NoStrays'
      BY <1>8 DEF IInv, PipesIntoTarget, OKIsLive, Live, OpenIsMapped, ClosedHasNoMaps,
         EndedLeavesMap, NoStrays, StreamsIndependent, OneDialer, PumpEnds
    <2> QED BY <2>3, <2>2, <2>5, <2>6 DEF IInv
  <1>9. ASSUME NEW s \in Stream, Approve(s) PROVE IInv'
    <2>1. net' \subseteq net \union {F("OPEN_ERR", Dialer(s), s)}
      BY <1>9, SendsOne DEF Approve, AtOpen, Refuse
    <2>2. /\ net' \subseteq Frame /\ WellAddressed'
          /\ \A g \in net' : g.of \in Stream /\ (g \in net \/ (g.type = "OPEN_ERR" /\ g.of
             = s))
      BY <1>9, <2>1, NetType, PeerType DEF IInv
    <2>3. TypeOK'
      BY <1>9, <2>1, <2>2, PeerType DEF IInv, TypeOK, Approve, AtOpen, Refuse
    <2>4. Progresses
      BY <1>9 DEF Progresses, IInv, TypeOK, OpenedOnce, Asked, Live, Approve, AtOpen, Refuse
    <2>5. OpenedOnce' /\ OKIsLive'
      BY <2>4, <2>2, NetStreams, ProgressKeeps DEF IInv
    <2>6. PipesIntoTarget'
      BY <1>9 DEF IInv, TypeOK, PipesIntoTarget, OKIsLive, Live, Approve, AtOpen, Refuse
    <2>7. EndedLeavesMap'
      BY <1>9 DEF IInv, TypeOK, EndedLeavesMap, Approve, AtOpen, Refuse
    <2>8. OpenIsMapped' /\ ClosedHasNoMaps' /\ NoStrays'
      BY <1>9 DEF IInv, OpenIsMapped, ClosedHasNoMaps, NoStrays, StreamsIndependent,
         OneDialer, Approve, AtOpen, Refuse
    <2> QED BY <2>3, <2>2, <2>5, <2>6, <2>7, <2>8 DEF IInv
  <1>10. ASSUME NEW s \in Stream, DialTarget(s) PROVE IInv'
    <2>1. net' \subseteq net \union {F("OPEN_ERR", Dialer(s), s)}
      BY <1>10, SendsOne DEF DialTarget, AtOpen, Refuse
    <2>2. /\ net' \subseteq Frame /\ WellAddressed'
          /\ \A g \in net' : g.of \in Stream /\ (g \in net \/ (g.type = "OPEN_ERR" /\ g.of
             = s))
      BY <1>10, <2>1, NetType, PeerType DEF IInv
    <2>3. TypeOK'
      BY <1>10, <2>1, <2>2, PeerType DEF IInv, TypeOK, DialTarget, AtOpen, Refuse
    <2>4. Progresses
      BY <1>10 DEF Progresses, IInv, TypeOK, OpenedOnce, Asked, Live, DialTarget, AtOpen,
         Refuse
    <2>5. OpenedOnce' /\ OKIsLive'
      BY <2>4, <2>2, NetStreams, ProgressKeeps DEF IInv
    <2>6. PipesIntoTarget'
      BY <1>10 DEF IInv, TypeOK, PipesIntoTarget, OKIsLive, Live, DialTarget, AtOpen, Refuse
    <2>7. OpenIsMapped'
      BY <1>10 DEF IInv, TypeOK, OpenIsMapped, DialTarget, AtOpen, Refuse
    <2>8. ClosedHasNoMaps'
      BY <1>10 DEF IInv, TypeOK, ClosedHasNoMaps, DialTarget, AtOpen, Refuse
    <2>9. EndedLeavesMap'
      BY <1>10 DEF IInv, TypeOK, EndedLeavesMap, DialTarget, AtOpen, Refuse
    <2>10. NoStrays'
      BY <1>10 DEF IInv, NoStrays, StreamsIndependent, OneDialer, DialTarget, AtOpen, Refuse
    <2> QED BY <2>3, <2>2, <2>5, <2>6, <2>7, <2>8, <2>9, <2>10 DEF IInv
  <1>11. ASSUME NEW s \in Stream, SendOpenOK(s) PROVE IInv'
    <2>1. net' \subseteq net \union {F("OPEN_OK", Dialer(s), s)}
      BY <1>11, SendsOne DEF SendOpenOK, AtOpen, Send
    <2>2. /\ net' \subseteq Frame /\ WellAddressed'
          /\ \A g \in net' : g.of \in Stream /\ (g \in net \/ (g.type = "OPEN_OK" /\ g.of = s))
      BY <1>11, <2>1, NetType, PeerType DEF IInv
    <2>3. TypeOK'
      BY <1>11, <2>1, <2>2, PeerType DEF IInv, TypeOK, SendOpenOK, AtOpen, Send
    <2>4. Progresses
      BY <1>11 DEF Progresses, IInv, TypeOK, OpenedOnce, Asked, Live, SendOpenOK, AtOpen
    <2>5. hostPc'[s] \in Live
      BY <1>11 DEF SendOpenOK, IInv, TypeOK, Live
    <2>6. OpenedOnce' /\ OKIsLive'
      BY <2>4, <2>5, <2>2, NetStreams, ProgressKeeps DEF IInv
    <2>7. PipesIntoTarget'
      BY <1>11 DEF IInv, TypeOK, PipesIntoTarget, OKIsLive, Live, SendOpenOK, AtOpen, Send
    <2>8. OpenIsMapped'
      BY <1>11 DEF IInv, TypeOK, OpenIsMapped, SendOpenOK, AtOpen, Send
    <2>9. EndedLeavesMap'
      BY <1>11 DEF IInv, TypeOK, EndedLeavesMap, SendOpenOK, AtOpen, Send
    <2>10. ClosedHasNoMaps' /\ NoStrays'
      BY <1>11 DEF IInv, ClosedHasNoMaps, NoStrays, StreamsIndependent, OneDialer,
         SendOpenOK, AtOpen, Send
    <2> QED BY <2>3, <2>2, <2>6, <2>7, <2>8, <2>9, <2>10 DEF IInv
  <1>12. ASSUME NEW s \in Stream, HostSends(s) PROVE IInv'
    <2>1. net' \subseteq net \union {F("DATA", Dialer(s), s)}
      BY <1>12, SendsOne DEF HostSends, ReaderEnds, Send
    <2>2. /\ net' \subseteq Frame /\ WellAddressed'
          /\ \A g \in net' : g.of \in Stream /\ (g \in net \/ (g.type = "DATA" /\ g.of = s))
      BY <1>12, <2>1, NetType, PeerType DEF IInv
    <2>3. TypeOK'
      BY <1>12, <2>1, <2>2 DEF IInv, TypeOK, HostSends, ReaderEnds, Send
    <2>4. Progresses
      BY <1>12 DEF Progresses, IInv, TypeOK, OpenedOnce, Asked, Live, HostSends, ReaderEnds
    <2>5. OpenedOnce' /\ OKIsLive'
      BY <2>4, <2>2, NetStreams, ProgressKeeps DEF IInv
    <2>6. PipesIntoTarget'
      BY <1>12 DEF IInv, TypeOK, PipesIntoTarget, OKIsLive, Live, HostSends, ReaderEnds, Send
    <2>7. OpenIsMapped'
      BY <1>12 DEF IInv, TypeOK, OpenIsMapped, HostSends, ReaderEnds, Send
    <2>8. ClosedHasNoMaps'
      BY <1>12 DEF IInv, TypeOK, ClosedHasNoMaps, HostSends, ReaderEnds, Send
    <2>9. EndedLeavesMap'
      BY <1>12 DEF IInv, TypeOK, EndedLeavesMap, HostSends, ReaderEnds, Send
    <2>10. NoStrays'
      BY <1>12 DEF IInv, NoStrays, StreamsIndependent, OneDialer, HostSends, ReaderEnds, Send
    <2> QED BY <2>3, <2>2, <2>5, <2>6, <2>7, <2>8, <2>9, <2>10 DEF IInv
  <1>13. ASSUME NEW s \in Stream, HostReadFails(s) PROVE IInv'
    <2>1. net' \subseteq net \union {F("CLOSE", Dialer(s), s)}
      BY <1>13, SendsOne DEF HostReadFails, ReaderEnds
    <2>2. /\ net' \subseteq Frame /\ WellAddressed'
          /\ \A g \in net' : g.of \in Stream /\ (g \in net \/ (g.type = "CLOSE" /\ g.of = s))
      BY <1>13, <2>1, NetType, PeerType DEF IInv
    <2>3. TypeOK'
      BY <1>13, <2>1, <2>2 DEF IInv, TypeOK, HostReadFails, ReaderEnds
    <2>4. Progresses
      BY <1>13 DEF Progresses, IInv, TypeOK, OpenedOnce, Asked, Live, HostReadFails, ReaderEnds
    <2>5. OpenedOnce' /\ OKIsLive'
      BY <2>4, <2>2, NetStreams, ProgressKeeps DEF IInv
    <2>6. PipesIntoTarget'
      BY <1>13 DEF IInv, TypeOK, PipesIntoTarget, OKIsLive, Live, HostReadFails, ReaderEnds
    <2>7. OpenIsMapped'
      BY <1>13 DEF IInv, TypeOK, OpenIsMapped, HostReadFails, ReaderEnds
    <2>8. ClosedHasNoMaps'
      BY <1>13 DEF IInv, TypeOK, ClosedHasNoMaps, HostReadFails, ReaderEnds
    <2>9. EndedLeavesMap'
      BY <1>13 DEF IInv, TypeOK, EndedLeavesMap, HostReadFails, ReaderEnds
    <2>10. NoStrays'
      BY <1>13 DEF IInv, NoStrays, StreamsIndependent, OneDialer, HostReadFails, ReaderEnds
    <2> QED BY <2>3, <2>2, <2>5, <2>6, <2>7, <2>8, <2>9, <2>10 DEF IInv
  <1>14. ASSUME NEW p \in Peer, Close(p) PROVE IInv'
    <2>1. TypeOK'
      BY <1>14 DEF IInv, TypeOK, Close, CloseAll
    <2>2. OpenIsMapped'
      BY <1>14 DEF IInv, TypeOK, OpenIsMapped, Close, CloseAll
    <2>3. ClosedHasNoMaps'
      BY <1>14 DEF IInv, TypeOK, ClosedHasNoMaps, Close, CloseAll
    <2>4. EndedLeavesMap'
      BY <1>14 DEF IInv, TypeOK, EndedLeavesMap, Close, CloseAll
    <2>5. WellAddressed' /\ OpenedOnce' /\ OKIsLive' /\ PipesIntoTarget' /\ NoStrays'
      BY <1>14 DEF IInv, WellAddressed, OpenedOnce, Asked, OKIsLive, Live, PipesIntoTarget,
         NoStrays, StreamsIndependent, OneDialer, Close, CloseAll
    <2> QED BY <2>1, <2>2, <2>3, <2>4, <2>5 DEF IInv
  <1>15. ASSUME NEW p \in Peer, NEW f \in net, onOpen(p, f) PROVE IInv'
    <2>1. f \in Frame /\ f.of \in Stream
      BY DEF IInv, TypeOK, Frame
    <2>2. net' \subseteq net \union {F("OPEN_ERR", Dialer(f.of), f.of)}
      BY <1>15, <2>1, SendsOne DEF onOpen, Hears
    <2>3. /\ net' \subseteq Frame /\ WellAddressed'
          /\ \A g \in net' : g.of \in Stream /\ (g \in net \/ (g.type = "OPEN_ERR" /\ g.of
             = f.of))
      BY <1>15, <2>1, <2>2, NetType, PeerType DEF IInv
    <2>4. TypeOK'
      BY <1>15, <2>1, <2>2, <2>3, PeerType DEF IInv, TypeOK, onOpen, Hears
    <2>5. \A s \in Stream : s # f.of => hostPc'[s] = hostPc[s]
      BY <1>15, <2>1 DEF onOpen, IInv, TypeOK
    <2>6. dialPc' = dialPc /\ openCh' = openCh /\ f.type = "OPEN"
      BY <1>15 DEF onOpen, Hears
    <2>7. dialPc[f.of] \in Asked /\ hostPc[f.of] = "none"
      BY <2>6 DEF IInv, OpenedOnce
    <2>8. \A g \in net' : g.type = "OPEN" => g \in net /\ g.of # f.of
      <3> SUFFICES ASSUME NEW g \in net', g.type = "OPEN", g.of = f.of PROVE FALSE
        BY <2>3
      <3>1. g \in net
        BY <2>3
      <3>2. g = f
        BY <2>6, <3>1, OneOpen DEF IInv
      <3>3. net' = net \ {f} \/ net' = (net \ {f}) \union {F("OPEN_ERR", Dialer(f.of), f.of)}
        BY <1>15, SendsOne DEF onOpen
      <3>4. F("OPEN_ERR", Dialer(f.of), f.of).type = "OPEN_ERR"
        BY DEF F
      <3> QED BY <2>6, <3>2, <3>3, <3>4
    <2>9. OpenedOnce'
      BY <2>3, <2>5, <2>6, <2>7, <2>8 DEF IInv, OpenedOnce
    <2>10. OKIsLive'
      BY <2>3, <2>5, <2>6, <2>7 DEF IInv, OKIsLive, Live
    <2>11. PipesIntoTarget'
      BY <2>5, <2>6, <2>7 DEF IInv, PipesIntoTarget
    <2>12. EndedLeavesMap'
      BY <1>15, <2>1 DEF IInv, TypeOK, EndedLeavesMap, onOpen, Hears
    <2>13. OpenIsMapped' /\ ClosedHasNoMaps' /\ NoStrays'
      BY <1>15 DEF IInv, OpenIsMapped, ClosedHasNoMaps, NoStrays, StreamsIndependent,
         OneDialer, onOpen, Hears
    <2> QED BY <2>3, <2>4, <2>9, <2>10, <2>11, <2>12, <2>13 DEF IInv
  <1>16. ASSUME NEW p \in Peer, NEW f \in net, onOpenAnswer(p, f) PROVE IInv'
    <2>1. f \in Frame /\ f.of \in Stream
      BY DEF IInv, TypeOK, Frame
    <2>2. net' \subseteq net
      BY <1>16, <2>1 DEF onOpenAnswer, Hears, Answered
    <2>3. net' \subseteq Frame /\ WellAddressed'
      BY <1>16, <2>1, <2>2 DEF IInv, TypeOK, WellAddressed, Id, Host, Dialer
    <2>4. TypeOK'
      BY <1>16, <2>1, <2>2, <2>3 DEF IInv, TypeOK, onOpenAnswer, Hears, Answered
    <2>5. OpenedOnce'
      BY <1>16, <2>1, <2>2, NetStreams, <2>3 DEF IInv, TypeOK, OpenedOnce, Asked,
         onOpenAnswer, Hears, Answered
    <2>6. OKIsLive'
      <3>1. hostPc' = hostPc
        BY <1>16 DEF onOpenAnswer
      <3>2. \A g \in net' : g.type = "OPEN_OK" => hostPc'[g.of] \in Live
        BY <2>2, <3>1 DEF IInv, OKIsLive
      <3> SUFFICES ASSUME NEW s \in Stream, openCh'[s] = "ok", openCh[s] # "ok"
                   PROVE  hostPc[s] \in Live
        BY <3>1, <3>2 DEF IInv, OKIsLive
      <3>3. f.type = "OPEN_OK" /\ f.to = p /\ s \in DialedAs(p, f.id)
        BY <1>16 DEF onOpenAnswer, Hears, Answered
      <3>4. Dialer(s) = Dialer(f.of) /\ Id(s) = Id(f.of)
        BY <3>3 DEF DialedAs, IInv, WellAddressed
      <3>5. s = f.of
        BY <2>1, <3>4, SameStream
      <3> QED BY <3>3, <3>5 DEF IInv, OKIsLive
    <2>7. PipesIntoTarget'
      BY <1>16, <2>1, <2>2 DEF IInv, TypeOK, PipesIntoTarget, OKIsLive, Live, onOpenAnswer,
         Hears, Answered
    <2>8. OpenIsMapped' /\ ClosedHasNoMaps' /\ EndedLeavesMap' /\ NoStrays'
      BY <1>16 DEF IInv, OpenIsMapped, ClosedHasNoMaps, EndedLeavesMap, NoStrays,
         StreamsIndependent, OneDialer, onOpenAnswer, Hears, Answered
    <2> QED BY <2>4, <2>3, <2>5, <2>6, <2>7, <2>8 DEF IInv
  <1>17. ASSUME NEW p \in Peer, NEW f \in net, onData(p, f) PROVE IInv'
    <2>1. f \in Frame /\ f.of \in Stream
      BY DEF IInv, TypeOK, Frame
    <2>2. net' \subseteq net
      BY <1>17, <2>1 DEF onData, Hears
    <2>3. net' \subseteq Frame /\ WellAddressed'
      BY <1>17, <2>1, <2>2 DEF IInv, TypeOK, WellAddressed, Id, Host, Dialer
    <2>4. TypeOK'
      <3>1. HostedAs(p, f.id) \subseteq Stream /\ DialedAs(p, f.id) \subseteq Stream
        BY DEF HostedAs, DialedAs, IInv, TypeOK
      <3>2. strays' \subseteq Stream \X Stream
        BY <1>17, <2>1, <3>1 DEF onData, IInv, TypeOK
      <3> QED BY <1>17, <2>3, <3>2 DEF IInv, TypeOK, onData
    <2>5. Progresses
      BY <1>17 DEF Progresses, IInv, TypeOK, OpenedOnce, Asked, Live, onData, Hears
    <2>6. OpenedOnce' /\ OKIsLive'
      BY <2>2, <2>3, <2>5, NetStreams, ProgressKeeps DEF IInv
    <2>7. NoStrays'
      <3> SUFFICES ASSUME OneDialer, NEW x \in strays' PROVE FALSE
        BY DEF NoStrays, StreamsIndependent
      <3>1. strays = {}
        BY DEF IInv, NoStrays, StreamsIndependent
      <3>2. PICK s \in HostedAs(p, f.id) \union DialedAs(p, f.id) : x = <<s, f.of>> /\ x #
         <<f.of, f.of>>
        BY <1>17, <3>1 DEF onData
      <3>3. s \in Stream /\ Id(s) = Id(f.of)
        BY <3>2 DEF HostedAs, DialedAs, IInv, TypeOK, WellAddressed
      <3>4. Dialer(s) = Dialer(f.of)
        BY <2>1, <3>3 DEF OneDialer, Stream, Dialer
      <3> QED BY <2>1, <3>2, <3>3, <3>4, SameStream
    <2>8. PipesIntoTarget' /\ OpenIsMapped' /\ ClosedHasNoMaps' /\ EndedLeavesMap'
      BY <1>17 DEF IInv, PipesIntoTarget, OKIsLive, Live, OpenIsMapped, ClosedHasNoMaps,
         EndedLeavesMap, onData, Hears
    <2> QED BY <2>4, <2>3, <2>6, <2>7, <2>8 DEF IInv
  <1>18. ASSUME NEW p \in Peer, NEW f \in net, onClose(p, f) PROVE IInv'
    <2>1. f \in Frame /\ f.of \in Stream
      BY DEF IInv, TypeOK, Frame
    <2>2. net' \subseteq net
      BY <1>18, <2>1 DEF onClose, Hears, Answered, CloseAll
    <2>3. net' \subseteq Frame /\ WellAddressed'
      BY <1>18, <2>1, <2>2 DEF IInv, TypeOK, WellAddressed, Id, Host, Dialer
    <2>4. TypeOK'
      BY <1>18, <2>1, <2>2, <2>3 DEF IInv, TypeOK, onClose, Hears, Answered, CloseAll
    <2>5. OpenedOnce'
      BY <1>18, <2>1, <2>2, NetStreams, <2>3 DEF IInv, TypeOK, OpenedOnce, Asked, onClose,
         Hears, Answered, CloseAll
    <2>6. OKIsLive'
      BY <1>18, <2>1, <2>2, NetStreams, <2>3 DEF IInv, TypeOK, OKIsLive, Live, onClose,
         Hears, Answered, CloseAll
    <2>7. PipesIntoTarget'
      BY <1>18, <2>1, <2>2 DEF IInv, TypeOK, PipesIntoTarget, OKIsLive, Live, onClose,
         Hears, Answered, CloseAll
    <2>8. OpenIsMapped'
      BY <1>18, <2>1, <2>2 DEF IInv, TypeOK, OpenIsMapped, onClose, Hears, Answered, CloseAll
    <2>9. ClosedHasNoMaps'
      BY <1>18, <2>1, <2>2 DEF IInv, TypeOK, ClosedHasNoMaps, onClose, Hears, Answered,
         CloseAll
    <2>10. EndedLeavesMap'
      BY <1>18, <2>1, <2>2 DEF IInv, TypeOK, EndedLeavesMap, onClose, Hears, Answered, CloseAll
    <2>11. NoStrays'
      BY <1>18 DEF IInv, NoStrays, StreamsIndependent, OneDialer, onClose, Hears, Answered,
         CloseAll
    <2> QED BY <2>4, <2>3, <2>5, <2>6, <2>7, <2>8, <2>9, <2>10, <2>11 DEF IInv
  <1>19. ASSUME LinkGoesDown PROVE IInv'
    <2>1. TypeOK'
      BY <1>19 DEF IInv, TypeOK, LinkGoesDown
    <2>2. EndedLeavesMap'
      BY <1>19 DEF IInv, TypeOK, EndedLeavesMap, LinkGoesDown
    <2>3. WellAddressed' /\ OpenedOnce' /\ OKIsLive' /\ PipesIntoTarget'
          /\ OpenIsMapped' /\ ClosedHasNoMaps' /\ NoStrays'
      BY <1>19 DEF IInv, WellAddressed, OpenedOnce, Asked, OKIsLive, Live, PipesIntoTarget,
         OpenIsMapped, ClosedHasNoMaps, NoStrays, StreamsIndependent, OneDialer,
         LinkGoesDown
    <2> QED BY <2>1, <2>2, <2>3 DEF IInv
  <1>20. CASE UNCHANGED vars
    BY <1>20 DEF vars, IInv, TypeOK, WellAddressed, OpenedOnce, OKIsLive, PipesIntoTarget,
       OpenIsMapped, ClosedHasNoMaps, EndedLeavesMap, NoStrays, StreamsIndependent
  <1> QED BY <1>1, <1>2, <1>3, <1>4, <1>5, <1>6, <1>7, <1>8, <1>9, <1>10, <1>11, <1>12,
     <1>13, <1>14, <1>15, <1>16, <1>17, <1>18, <1>19, <1>20
          DEF Next, Handler, Hosting, HandleFrame

-----------------------------------------------------------------------------
(***************************************************************************)
(* Every reachable state of the two forwarders is well typed.              *)
(***************************************************************************)
THEOREM TypeCorrect == Spec => []TypeOK
  <1>1. IInv => TypeOK
    BY DEF IInv
  <1> QED BY InitIInv, NextIInv, <1>1, PTL DEF Spec

(***************************************************************************)
(* handleLocalConn never pumps a local connection into a stream the host   *)
(* has refused, not answered or not opened, however the unordered channel  *)
(* treats OPEN, OPEN_OK and OPEN_ERR.                                      *)
(***************************************************************************)
THEOREM PipesIntoTargetHolds == Spec => []PipesIntoTarget
  <1>1. IInv => PipesIntoTarget
    BY DEF IInv
  <1> QED BY InitIInv, NextIInv, <1>1, PTL DEF Spec

(***************************************************************************)
(* Forwarder.Close leaves no connection open, and the opens it overtakes   *)
(* on either side do not leave one either.                                 *)
(***************************************************************************)
THEOREM ClosedIsClosedHolds == Spec => []ClosedIsClosed
  <1>1. IInv => ClosedIsClosed
    <2> SUFFICES ASSUME IInv, NEW p \in closed, NEW s \in Stream
                 PROVE  /\ Host(s) = p => target[s] # "open"
                        /\ Dialer(s) = p /\ dialPc[s] \in {"registered", "waiting",
                           "piping", "gone"}
                             => local[s] = "closed"
      BY DEF ClosedIsClosed, NoneOpen
    <2>1. local[s] \in {"open", "closed"}
      BY DEF IInv, TypeOK
    <2> QED BY <2>1 DEF IInv, OpenIsMapped, ClosedHasNoMaps
  <1> QED BY InitIInv, NextIInv, <1>1, PTL DEF Spec

(***************************************************************************)
(* While the peers are linked the host's map holds no stream whose reader  *)
(* has ended.                                                              *)
(***************************************************************************)
THEOREM EndedLeavesMapHolds == Spec => []EndedLeavesMap
  <1>1. IInv => EndedLeavesMap
    BY DEF IInv
  <1> QED BY InitIInv, NextIInv, <1>1, PTL DEF Spec

(***************************************************************************)
(* Streams of a channel on which one peer dials are independent: bytes     *)
(* reach the stream they were sent for, or nobody.                         *)
(***************************************************************************)
THEOREM StreamsIndependentHolds ==
  ASSUME OneDialer PROVE Spec => []StreamsIndependent
  <1>1. IInv => StreamsIndependent
    BY OneDialer DEF IInv, NoStrays
  <1> QED BY InitIInv, NextIInv, <1>1, PTL DEF Spec

=============================================================================
