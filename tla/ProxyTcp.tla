------------------------------ MODULE ProxyTcp ------------------------------
(***************************************************************************)
(* TCP streams between the proxy.Forwarders of two peers                   *)
(* (client/proxy/proxy.go).                                                *)
(*                                                                         *)
(* A stream <<d, i>> is the i-th one dialed by peer d.  Its dialing half   *)
(* is a handleLocalConn goroutine of d with a pump that reads the local    *)
(* connection; its host half is opened by the message goroutine of the     *)
(* other peer, which handles one frame at a time, and then read by a       *)
(* goroutine of its own.  Frames carry the ID only; here they also name    *)
(* the stream they were sent for, and no action looks at that.             *)
(*                                                                         *)
(* The proxy channel is unordered and never retransmits (peer.channelDefs): *)
(* frames in flight are a set, each of them may be lost.                   *)
(***************************************************************************)
EXTENDS Naturals, FiniteSets

CONSTANTS Peer,        \* the two ends of the channel
          Dialers,     \* those of them whose user dials
          MaxStreams,  \* bound on the streams a peer dials
          MaxInFlight  \* bound on the frames in flight

ASSUME ProxyTcpAssumption ==
  /\ \E p, q \in Peer : p # q /\ Peer = {p, q}
  /\ Dialers \subseteq Peer
  /\ MaxStreams \in Nat /\ MaxInFlight \in Nat

Other(p) == CHOOSE q \in Peer : q # p

Stream == Dialers \X (1..MaxStreams)
Dialer(s) == s[1]
Host(s) == Other(s[1])
Id(s) == s[2]

Frame == [type: {"OPEN", "OPEN_OK", "OPEN_ERR", "DATA", "CLOSE"},
          to: Peer, id: 1..MaxStreams, of: Stream]

VARIABLES
  net, linked,                        \* the proxy channel
  closed, crashed,                    \* the peers that are: by Close, a panic
  dialMap, dialPc, openCh, local, pump,   \* dialing halves
  hostMap, hostPc, target,            \* host halves
  opening,                            \* what a peer's message goroutine opens
  strays                              \* <<s, t>>: bytes of t were written to s

channel == <<net, linked>>
peers == <<closed, crashed>>
dialing == <<dialMap, dialPc, openCh, local, pump>>
hosting == <<hostMap, hostPc, target, opening>>
vars == <<channel, peers, dialing, hosting, strays>>

NoStream == <<>>

Init ==
  /\ net = {} /\ linked = TRUE
  /\ closed = {} /\ crashed = {}
  /\ dialMap = {}
  /\ dialPc = [s \in Stream |-> "none"]
  /\ openCh = [s \in Stream |-> "empty"]
  /\ local = [s \in Stream |-> "open"]
  /\ pump = [s \in Stream |-> "off"]
  /\ hostMap = {}
  /\ hostPc = [s \in Stream |-> "none"]
  /\ target = [s \in Stream |-> "none"]
  /\ opening = [p \in Peer |-> NoStream]
  /\ strays = {}

-----------------------------------------------------------------------------
(* The channel.                                                            *)

F(type, to, s) == [type |-> type, to |-> to, id |-> Id(s), of |-> s]

\* f is sent when the frames are under way: it may be lost at once, or stay
\* under way for ever.
Sends(frames, f) ==
  net' \in {g \in {frames, frames \union {f}} : g = frames \/ Cardinality(g) <= MaxInFlight}

Send(type, to, s) == Sends(net, F(type, to, s))

\* f.send with its error, that the peer is gone, ignored.
SendIfLinked(frames, type, to, s) ==
  IF linked THEN Sends(frames, F(type, to, s)) ELSE net' = frames

LinkGoesDown ==
  /\ linked
  /\ linked' = FALSE
  /\ UNCHANGED <<net, peers, dialing, hosting, strays>>

-----------------------------------------------------------------------------
(* The dialing half: handleLocalConn.                                      *)

Runs(p) == p \notin crashed

\* acceptLoop hands over a connection; its ID is the next one.
Accept(s) ==
  /\ Runs(Dialer(s)) /\ Dialer(s) \notin closed
  /\ dialPc[s] = "none"
  /\ \A t \in Stream : Dialer(t) = Dialer(s) /\ Id(t) < Id(s) => dialPc[t] # "none"
  /\ dialPc' = [dialPc EXCEPT ![s] = "accepted"]
  /\ UNCHANGED <<channel, peers, dialMap, openCh, local, pump, hosting, strays>>

\* Writing to the map that Close has set to nil panics.
Register(s) ==
  /\ Runs(Dialer(s)) /\ dialPc[s] = "accepted"
  /\ IF Dialer(s) \in closed
     THEN /\ crashed' = crashed \union {Dialer(s)}
          /\ UNCHANGED <<dialMap, dialPc>>
     ELSE /\ dialMap' = dialMap \union {s}
          /\ dialPc' = [dialPc EXCEPT ![s] = "registered"]
          /\ UNCHANGED crashed
  /\ UNCHANGED <<channel, closed, openCh, local, pump, hosting, strays>>

\* The deferred end of handleLocalConn: ds.close, and out of the map.
Return(s) ==
  /\ dialPc' = [dialPc EXCEPT ![s] = "gone"]
  /\ local' = [local EXCEPT ![s] = "closed"]
  /\ dialMap' = dialMap \ {s}

SendOpen(s) ==
  /\ Runs(Dialer(s)) /\ dialPc[s] = "registered"
  /\ IF linked
     THEN /\ Send("OPEN", Host(s), s)
          /\ dialPc' = [dialPc EXCEPT ![s] = "waiting"]
          /\ UNCHANGED <<local, dialMap>>
     ELSE Return(s) /\ UNCHANGED net
  /\ UNCHANGED <<linked, peers, openCh, pump, hosting, strays>>

Opened(s) ==
  /\ Runs(Dialer(s)) /\ dialPc[s] = "waiting" /\ openCh[s] = "ok"
  /\ dialPc' = [dialPc EXCEPT ![s] = "piping"]
  /\ pump' = [pump EXCEPT ![s] = "reading"]
  /\ UNCHANGED <<channel, peers, dialMap, openCh, local, hosting, strays>>

\* OPEN_ERR, the 15 seconds, or the context.  The mutant has no deadline.
WaitsForever(s) ==
  /\ Runs(Dialer(s)) /\ dialPc[s] = "waiting"
  /\ openCh[s] = "err" \/ Dialer(s) \in closed
  /\ Return(s)
  /\ UNCHANGED <<channel, peers, openCh, pump, hosting, strays>>

NotOpened(s) ==
  /\ Runs(Dialer(s)) /\ dialPc[s] = "waiting"
  /\ Return(s)
  /\ UNCHANGED <<channel, peers, openCh, pump, hosting, strays>>

\* ds.done or the context ends the handler.
Finish(s) ==
  /\ Runs(Dialer(s)) /\ dialPc[s] = "piping"
  /\ local[s] = "closed" \/ pump[s] = "ended" \/ Dialer(s) \in closed
  /\ Return(s)
  /\ UNCHANGED <<channel, peers, openCh, pump, hosting, strays>>

\* The pump: one read of the local connection that brings bytes.
PumpSends(s) ==
  /\ Runs(Dialer(s)) /\ pump[s] = "reading"
  /\ local[s] = "open"
  /\ IF linked THEN Send("DATA", Host(s), s) /\ UNCHANGED pump
               ELSE pump' = [pump EXCEPT ![s] = "ended"] /\ UNCHANGED net
  /\ UNCHANGED <<linked, peers, dialMap, dialPc, openCh, local, hosting, strays>>

\* A read that fails: the forwarder has closed the connection, or the local
\* program has, at any time.
PumpEnds(s) ==
  /\ Runs(Dialer(s)) /\ pump[s] = "reading"
  /\ pump' = [pump EXCEPT ![s] = "ended"]
  /\ SendIfLinked(net, "CLOSE", Host(s), s)
  /\ UNCHANGED <<linked, peers, dialMap, dialPc, openCh, local, hosting, strays>>

-----------------------------------------------------------------------------
(* The host half: onOpenTCP and its reader.                                *)

\* The message goroutine of the host is at step pc of onOpenTCP for s.
AtOpen(s, pc) == Runs(Host(s)) /\ opening[Host(s)] = s /\ hostPc[s] = pc

\* The three ways out of the open without a stream: OPEN_ERR.
Refuse(s) ==
  /\ hostPc' = [hostPc EXCEPT ![s] = "refused"]
  /\ opening' = [opening EXCEPT ![Host(s)] = NoStream]
  /\ SendIfLinked(net, "OPEN_ERR", Dialer(s), s)

\* The approver says yes; or no, also after its 5 seconds.  The mutants wait
\* for ever, and promise the stream before the target has answered.
EagerOK(s) ==
  /\ AtOpen(s, "approving")
  /\ hostPc' = [hostPc EXCEPT ![s] = "dialing"]
  /\ SendIfLinked(net, "OPEN_OK", Dialer(s), s)
  /\ UNCHANGED <<linked, peers, dialing, hostMap, target, opening, strays>>

NeverAnswered(s) == FALSE

Approve(s) ==
  /\ AtOpen(s, "approving")
  /\ \/ /\ hostPc' = [hostPc EXCEPT ![s] = "dialing"]
        /\ UNCHANGED <<opening, net>>
     \/ Refuse(s)
  /\ UNCHANGED <<linked, peers, dialing, hostMap, target, strays>>

\* net.DialTimeout, and the stream enters the map, nil after Close.
DialTarget(s) ==
  /\ AtOpen(s, "dialing")
  /\ \/ /\ Host(s) \notin closed
        /\ hostMap' = hostMap \union {s}
        /\ hostPc' = [hostPc EXCEPT ![s] = "registered"]
        /\ target' = [target EXCEPT ![s] = "open"]
        /\ UNCHANGED <<crashed, opening, net>>
     \/ /\ Host(s) \in closed
        /\ crashed' = crashed \union {Host(s)}
        /\ UNCHANGED <<hostMap, hostPc, target, opening, net>>
     \/ Refuse(s) /\ UNCHANGED <<crashed, hostMap, target>>
  /\ UNCHANGED <<linked, closed, dialing, strays>>

\* hs.close alone when the answer cannot be sent: the entry stays.
SendOpenOK(s) ==
  /\ AtOpen(s, "registered")
  /\ opening' = [opening EXCEPT ![Host(s)] = NoStream]
  /\ IF linked
     THEN /\ Send("OPEN_OK", Dialer(s), s)
          /\ hostPc' = [hostPc EXCEPT ![s] = "reading"]
          /\ UNCHANGED target
     ELSE /\ target' = [target EXCEPT ![s] = "closed"]
          /\ hostPc' = [hostPc EXCEPT ![s] = "ended"]
          /\ UNCHANGED net
  /\ UNCHANGED <<linked, peers, dialing, hostMap, strays>>

\* The end of the reader.
ReaderEnds(s) ==
  /\ hostPc' = [hostPc EXCEPT ![s] = "ended"]
  /\ target' = [target EXCEPT ![s] = "closed"]
  /\ hostMap' = hostMap \ {s}

HostSends(s) ==
  /\ Runs(Host(s)) /\ hostPc[s] = "reading"
  /\ target[s] = "open"
  /\ IF linked THEN Send("DATA", Dialer(s), s) /\ UNCHANGED <<hostPc, target, hostMap>>
               ELSE ReaderEnds(s) /\ UNCHANGED net
  /\ UNCHANGED <<linked, peers, dialing, opening, strays>>

HostReadFails(s) ==
  /\ Runs(Host(s)) /\ hostPc[s] = "reading"
  /\ ReaderEnds(s)
  /\ SendIfLinked(net, "CLOSE", Dialer(s), s)
  /\ UNCHANGED <<linked, peers, dialing, opening, strays>>

-----------------------------------------------------------------------------
(* HandleFrame, on the message goroutine of peer p.                        *)

Hears(p, f, type) ==
  /\ f \in net /\ f.to = p /\ f.type = type
  /\ Runs(p) /\ opening[p] = NoStream

\* The streams an ID stands for at p: one it dialed, one it hosts.  The
\* mutant looks at the peer alone.
DialedAs(p, id) == {s \in dialMap : Dialer(s) = p /\ Id(s) = id}
AnyHosted(p, id) == {s \in hostMap : Host(s) = p}

HostedAs(p, id) == {s \in hostMap : Host(s) = p /\ Id(s) = id}

\* The port is exposed at this moment, or it is not.
onOpen(p, f) ==
  /\ Hears(p, f, "OPEN")
  /\ \/ /\ opening' = [opening EXCEPT ![p] = f.of]
        /\ hostPc' = [hostPc EXCEPT ![f.of] = "approving"]
        /\ net' = net \ {f}
     \/ /\ hostPc' = [hostPc EXCEPT ![f.of] = "refused"]
        /\ SendIfLinked(net \ {f}, "OPEN_ERR", Dialer(f.of), f.of)
        /\ UNCHANGED opening
  /\ UNCHANGED <<linked, peers, dialing, hostMap, target, strays>>

\* openOnce: the first answer counts.
Answered(S, answer) ==
  openCh' = [s \in Stream |-> IF s \in S /\ openCh[s] = "empty" THEN answer ELSE openCh[s]]

onOpenAnswer(p, f) ==
  /\ \/ Hears(p, f, "OPEN_OK") /\ Answered(DialedAs(p, f.id), "ok")
     \/ Hears(p, f, "OPEN_ERR") /\ Answered(DialedAs(p, f.id), "err")
  /\ net' = net \ {f}
  /\ UNCHANGED <<linked, peers, dialMap, dialPc, local, pump, hosting, strays>>

\* The bytes are written to every open connection the ID stands for.
onData(p, f) ==
  /\ Hears(p, f, "DATA")
  /\ LET written == {s \in HostedAs(p, f.id) : target[s] = "open"}
                     \union {s \in DialedAs(p, f.id) : local[s] = "open"} IN
     strays' = strays \union ({<<s, f.of>> : s \in written} \ {<<f.of, f.of>>})
  /\ net' = net \ {f}
  /\ UNCHANGED <<linked, peers, dialing, hosting>>

\* hs.close and ds.close
CloseAll(conn, S) == [s \in Stream |-> IF s \in S THEN "closed" ELSE conn[s]]

onClose(p, f) ==
  /\ Hears(p, f, "CLOSE")
  /\ LET H == HostedAs(p, f.id)
         D == DialedAs(p, f.id) IN
     /\ hostMap' = hostMap \ H
     /\ dialMap' = dialMap \ D
     /\ target' = CloseAll(target, H)
     /\ local' = CloseAll(local, D)
     /\ Answered(D, "err")
  /\ net' = net \ {f}
  /\ UNCHANGED <<linked, peers, dialPc, pump, hostPc, opening, strays>>

-----------------------------------------------------------------------------
(* The user of peer p.                                                     *)

\* Forwarder.Close, the first thing closeSession does.  The mutant drops the
\* host streams without closing them.
CloseKeepsHosts(p) ==
  /\ Runs(p) /\ p \notin closed
  /\ closed' = closed \union {p}
  /\ LET D == {s \in dialMap : Dialer(s) = p} IN
     /\ hostMap' = {s \in hostMap : Host(s) # p}
     /\ dialMap' = dialMap \ D
     /\ local' = CloseAll(local, D)
  /\ UNCHANGED <<channel, crashed, dialPc, openCh, pump,
                 target, hostPc, opening, strays>>

Close(p) ==
  /\ Runs(p) /\ p \notin closed
  /\ closed' = closed \union {p}
  /\ LET H == {s \in hostMap : Host(s) = p}
         D == {s \in dialMap : Dialer(s) = p} IN
     /\ hostMap' = hostMap \ H
     /\ dialMap' = dialMap \ D
     /\ target' = CloseAll(target, H)
     /\ local' = CloseAll(local, D)
  /\ UNCHANGED <<channel, crashed, dialPc, openCh, pump,
                 hostPc, opening, strays>>

-----------------------------------------------------------------------------
Handler(s) ==
  \/ Accept(s) \/ Register(s) \/ SendOpen(s) \/ Opened(s) \/ NotOpened(s) \/ Finish(s)
  \/ PumpSends(s) \/ PumpEnds(s)

Hosting(s) ==
  Approve(s) \/ DialTarget(s) \/ SendOpenOK(s) \/ HostSends(s) \/ HostReadFails(s)

HandleFrame(p, f) == onOpen(p, f) \/ onOpenAnswer(p, f) \/ onData(p, f) \/ onClose(p, f)

Next ==
  \/ \E s \in Stream : Handler(s) \/ Hosting(s)
  \/ \E p \in Peer : Close(p) \/ (\E f \in net : HandleFrame(p, f))
  \/ LinkGoesDown

\* Goroutines that are not blocked run, and timers fire.  No frame need ever
\* arrive.
Fairness ==
  \A s \in Stream :
    /\ WF_vars(Register(s) \/ SendOpen(s) \/ Opened(s) \/ NotOpened(s))
    /\ WF_vars(Finish(s)) /\ WF_vars(local[s] = "closed" /\ PumpEnds(s))
    /\ WF_vars(Approve(s) \/ DialTarget(s) \/ SendOpenOK(s))
    /\ WF_vars(target[s] = "closed" /\ HostReadFails(s))

Spec == Init /\ [][Next]_vars
FairSpec == Spec /\ Fairness

-----------------------------------------------------------------------------
TypeOK ==
  /\ net \subseteq Frame /\ linked \in BOOLEAN
  /\ closed \subseteq Peer /\ crashed \subseteq Peer
  /\ dialMap \subseteq Stream /\ hostMap \subseteq Stream
  /\ dialPc \in [Stream -> {"none", "accepted", "registered", "waiting", "piping", "gone"}]
  /\ openCh \in [Stream -> {"empty", "ok", "err"}]
  /\ local \in [Stream -> {"open", "closed"}]
  /\ pump \in [Stream -> {"off", "reading", "ended"}]
  /\ hostPc \in [Stream -> {"none", "approving", "dialing", "registered", "reading",
                            "refused", "ended"}]
  /\ target \in [Stream -> {"none", "open", "closed"}]
  /\ opening \in [Peer -> Stream \union {NoStream}]
  /\ strays \subseteq Stream \X Stream

(***************************************************************************)
(* proxy.go:24-25: "Concurrent streams over a single proxy channel are     *)
(* independent".  Whatever a program at one end reads was written by the   *)
(* program at the other end of the same stream.  True when one peer of the *)
(* channel dials; IDs of two dialers collide.                              *)
(***************************************************************************)
StreamsIndependent == strays = {}

(***************************************************************************)
(* The dialer hands a local connection to its pump only when the host has  *)
(* the stream connected to the target, or had it: no refused, unanswered   *)
(* or foreign open is taken for an accepted one, however frames are        *)
(* reordered or lost.                                                      *)
(***************************************************************************)
PipesIntoTarget ==
  \A s \in Stream : dialPc[s] = "piping" => hostPc[s] \in {"reading", "ended"}

(***************************************************************************)
(* After Forwarder.Close no connection of the forwarder is open: neither   *)
(* one it held, nor one that an open under way still makes.                *)
(***************************************************************************)
NoneOpen(p) ==
  \A s \in Stream :
    /\ Host(s) = p => target[s] # "open"
    /\ Dialer(s) = p /\ dialPc[s] \in {"registered", "waiting", "piping", "gone"}
         => local[s] = "closed"

ClosedIsClosed == \A p \in closed : NoneOpen(p)

(***************************************************************************)
(* A local connection is never left waiting: it is piped or closed, though *)
(* the open, its answer or everything may be lost; and once the program or *)
(* the peer has hung up the handler returns.                               *)
(***************************************************************************)
HandlerReturns ==
  \A s \in Stream :
    /\ dialPc[s] = "accepted" ~> dialPc[s] \in {"piping", "gone"} \/ Dialer(s) \in crashed
    /\ pump[s] = "ended" \/ (pump[s] = "reading" /\ local[s] = "closed")
         ~> dialPc[s] = "gone" \/ Dialer(s) \in crashed

(***************************************************************************)
(* No stream whose reader has ended stays in the host's map, where later   *)
(* frames would be written to a connection long closed.  SendOpenOK breaks *)
(* it when the peer is gone at that moment; then no frame can come either. *)
(***************************************************************************)
EndedLeavesMap ==
  linked => \A s \in hostMap : hostPc[s] # "ended"

(***************************************************************************)
(* An open that waits for the approver or the target holds up everything   *)
(* else that peer sends, but not for ever.                                 *)
(***************************************************************************)
PeerHeardAgain ==
  \A p \in Peer : opening[p] # NoStream ~> opening[p] = NoStream \/ p \in crashed

=============================================================================
