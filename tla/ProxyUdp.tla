------------------------------ MODULE ProxyUdp ------------------------------
(***************************************************************************)
(* UDP flows through the proxy.Forwarders of two peers                     *)
(* (client/proxy/proxy.go).                                                *)
(*                                                                         *)
(* The dialing side is one loop that reads the datagrams of all the local  *)
(* sources (udpListenLoop), a reaper, and the message goroutine that       *)
(* handles the host's frames.  The host side is a message goroutine that   *)
(* opens one flow at a time, asking its user if the port is gated          *)
(* (Approval), and a reader for each flow.  The proxy channel is unordered *)
(* and lossy: frames in flight are a set, each of them may be lost.  A      *)
(* datagram for the host's target changes no state there, and is not kept. *)
(***************************************************************************)
EXTENDS Approval, FiniteSets

CONSTANTS Src,         \* addresses of local sources
          MaxId,       \* bound on the flows
          MaxInFlight, \* bound on the frames in flight
          Dialer       \* the peer that dials

ASSUME ProxyUdpAssumption == MaxId \in Nat /\ MaxInFlight \in Nat /\ Asker = {Dialer}

VARIABLES
  net, linked,     \* the proxy channel
  nextID, bySrc,   \* ID counter; the flow of a source, or 0
  udpDialStreams,  \* the flows whose frames the dialer takes
  opened,          \* udpStream.opened of the flow the loop waits for
  seen,            \* udpStream.lastSeen of a source's flow: never, recent, or a minute old
  closed,          \* udpStream.closed: reaped flows
  loop,            \* the loop: reading, or waiting for an answer
  opening,         \* the flow the host's message goroutine opens
  hostStreams,     \* flows of the host
  reader           \* those whose reader runs

channel == <<net, linked>>
dialing == <<nextID, bySrc, udpDialStreams, opened, seen, closed, loop>>
hosting == <<opening, hostStreams, reader>>
vars == <<channel, dialing, hosting, gate>>

Id == 1..MaxId
Frame == [type : {"OPEN", "OPEN_OK", "OPEN_ERR", "DATA", "CLOSE"}, id : Id, to : {"dialer", "host"}]
Reading == [pc |-> "read", id |-> 0]
Free == [pc |-> "idle", id |-> 0]

Init ==
  /\ net = {} /\ linked = TRUE
  /\ nextID = 0 /\ bySrc = [s \in Src |-> 0]
  /\ udpDialStreams = {} /\ closed = {}
  /\ opened = "empty"
  /\ seen = [s \in Src |-> "never"]
  /\ loop = Reading
  /\ opening = Free
  /\ hostStreams = {} /\ reader = {}
  /\ GateInit

Send(frames, type, id, to) ==
  LET f == [type |-> type, id |-> id, to |-> to] IN
  net' \in IF linked
           THEN {g \in {frames, frames \union {f}} : g = frames \/ Cardinality(g) <= MaxInFlight}
           ELSE {frames}

-----------------------------------------------------------------------------
(* The dialing side.                                                       *)

FirstDatagram(s) ==
  /\ loop.pc = "read" /\ bySrc[s] = 0 /\ nextID < MaxId
  /\ nextID' = nextID + 1
  /\ bySrc' = [bySrc EXCEPT ![s] = nextID']
  /\ udpDialStreams' = udpDialStreams \union {nextID'}
  /\ loop' = [pc |-> "wait", id |-> nextID']
  /\ opened' = "empty"
  /\ Send(net, "OPEN", nextID', "host")
  /\ UNCHANGED <<linked, seen, closed, hosting, gate>>

\* Nothing asks whether the flow is still in udpDialStreams.
NextDatagram(s) ==
  /\ loop.pc = "read" /\ bySrc[s] # 0
  /\ seen' = [seen EXCEPT ![s] = "recent"]
  /\ UNCHANGED <<channel, nextID, bySrc, udpDialStreams, opened, closed, loop, hosting, gate>>

\* The datagram that was held back goes out.
Proceed ==
  /\ seen' = [s \in Src |-> IF bySrc[s] = loop.id THEN "recent" ELSE seen[s]]
  /\ loop' = Reading
  /\ UNCHANGED <<channel, nextID, bySrc, udpDialStreams, opened, closed, hosting, gate>>

OpenAnswered == loop.pc = "wait" /\ opened = "ok" /\ Proceed

OpenRefused ==
  /\ loop.pc = "wait" /\ opened = "err"
  /\ bySrc' = [s \in Src |-> IF bySrc[s] = loop.id THEN 0 ELSE bySrc[s]]
  /\ seen' = [s \in Src |-> IF bySrc[s] = loop.id THEN "never" ELSE seen[s]]
  /\ udpDialStreams' = udpDialStreams \ {loop.id}
  /\ loop' = Reading
  /\ UNCHANGED <<channel, nextID, opened, closed, hosting, gate>>

OpenTimesOut == loop.pc = "wait" /\ Proceed

\* A minute without a datagram.
Minute(s) ==
  /\ seen[s] = "recent"
  /\ seen' = [seen EXCEPT ![s] = "old"]
  /\ UNCHANGED <<channel, nextID, bySrc, udpDialStreams, opened, closed, loop, hosting, gate>>

\* Mutant: only flows that are still registered are reaped.
ReapRegistered(s) ==
  /\ bySrc[s] \in udpDialStreams /\ seen[s] # "recent"
  /\ closed' = closed \union {bySrc[s]}
  /\ Send(net, "CLOSE", bySrc[s], "host")
  /\ bySrc' = [bySrc EXCEPT ![s] = 0] /\ seen' = [seen EXCEPT ![s] = "never"]
  /\ UNCHANGED <<linked, nextID, udpDialStreams, opened, loop, hosting, gate>>

\* A flow whose first datagram is held back has never been seen: it is reaped
\* as well.  udpDialStreams is left alone.
Reap(s) ==
  /\ bySrc[s] # 0 /\ seen[s] # "recent"
  /\ closed' = closed \union {bySrc[s]}
  /\ Send(net, "CLOSE", bySrc[s], "host")
  /\ bySrc' = [bySrc EXCEPT ![s] = 0] /\ seen' = [seen EXCEPT ![s] = "never"]
  /\ UNCHANGED <<linked, nextID, udpDialStreams, opened, loop, hosting, gate>>

\* onOpenOK and onOpenErr: the first answer counts.
OnAnswer(f) ==
  /\ f \in net /\ f.type \in {"OPEN_OK", "OPEN_ERR"}
  /\ net' = net \ {f}
  /\ opened' = IF f.id \in udpDialStreams /\ f.id = loop.id /\ opened = "empty"
               THEN IF f.type = "OPEN_OK" THEN "ok" ELSE "err"
               ELSE opened
  /\ UNCHANGED <<linked, nextID, bySrc, udpDialStreams, seen, closed, loop, hosting, gate>>

OnReply(f) ==
  /\ f \in net /\ f.type = "DATA" /\ f.to = "dialer"
  /\ net' = net \ {f}
  /\ seen' = [s \in Src |-> IF bySrc[s] = f.id /\ f.id \in udpDialStreams THEN "recent" ELSE seen[s]]
  /\ UNCHANGED <<linked, nextID, bySrc, udpDialStreams, opened, closed, loop, hosting, gate>>

\* The source of the flow goes on being mapped to it.
OnHostClose(f) ==
  /\ f \in net /\ f.type = "CLOSE" /\ f.to = "dialer"
  /\ net' = net \ {f}
  /\ udpDialStreams' = udpDialStreams \ {f.id}
  /\ opened' = IF f.id \in udpDialStreams /\ f.id = loop.id /\ opened = "empty"
               THEN "err" ELSE opened
  /\ UNCHANGED <<linked, nextID, bySrc, seen, closed, loop, hosting, gate>>

-----------------------------------------------------------------------------
(* The host.  While it opens a flow no other frame of the peer is handled. *)

Refuse(frames, i) ==
  /\ opening' = Free
  /\ Send(frames, "OPEN_ERR", i, "dialer")

\* onOpenUDP as far as the gate; whether the port is exposed is Exposes' matter.
OnOpen(f) ==
  /\ f \in net /\ f.type = "OPEN" /\ opening = Free
  /\ \E exposed, readable \in BOOLEAN :
     LET verdict == Verdict(Dialer, readable) IN
     \/ /\ ~exposed \/ verdict = "deny"
        /\ Refuse(net \ {f}, f.id) /\ UNCHANGED gate
     \/ /\ exposed /\ verdict = "allow"
        /\ opening' = [pc |-> IF require /\ readable THEN "dial" ELSE "free", id |-> f.id]
        /\ net' = net \ {f} /\ UNCHANGED gate
     \/ /\ exposed /\ verdict = "none"
        /\ Prompt(Dialer)
        /\ opening' = [pc |-> "ask", id |-> f.id]
        /\ net' = net \ {f}
  /\ UNCHANGED <<linked, dialing, hostStreams, reader>>

UserDecides ==
  /\ opening.pc = "ask" /\ Decided(Dialer)
  /\ IF decided'[Dialer] = "allow"
     THEN opening' = [opening EXCEPT !.pc = "dial"] /\ UNCHANGED net
     ELSE Refuse(net, opening.id)
  /\ UNCHANGED <<linked, dialing, hostStreams, reader>>

UserIsAway ==
  /\ opening.pc = "ask" /\ PromptTimesOut(Dialer)
  /\ Refuse(net, opening.id)
  /\ UNCHANGED <<linked, dialing, hostStreams, reader>>

\* The entry of a flow whose OPEN_OK cannot be sent is left behind.
DialTarget ==
  /\ opening.pc \in {"dial", "free"}
  /\ hostStreams' = hostStreams \union {opening.id}
  /\ reader' = IF linked THEN reader \union {opening.id} ELSE reader
  /\ Send(net, "OPEN_OK", opening.id, "dialer")
  /\ opening' = Free
  /\ UNCHANGED <<linked, dialing, gate>>

DialFails ==
  /\ opening.pc \in {"dial", "free"}
  /\ Refuse(net, opening.id)
  /\ UNCHANGED <<linked, dialing, hostStreams, reader, gate>>

OnClose(f) ==
  /\ f \in net /\ f.type = "CLOSE" /\ f.to = "host" /\ opening = Free
  /\ net' = net \ {f}
  /\ hostStreams' = hostStreams \ {f.id} /\ reader' = reader \ {f.id}
  /\ UNCHANGED <<linked, dialing, opening, gate>>

Reply(i) ==
  /\ i \in reader
  /\ Send(net, "DATA", i, "dialer")
  /\ reader' = IF linked THEN reader ELSE reader \ {i}
  /\ hostStreams' = IF linked THEN hostStreams ELSE hostStreams \ {i}
  /\ UNCHANGED <<linked, dialing, opening, gate>>

\* Mutant: the reader returns without cleaning up.
ReaderReturns(i) ==
  /\ i \in reader
  /\ Send(net, "CLOSE", i, "dialer")
  /\ reader' = reader \ {i}
  /\ UNCHANGED <<linked, dialing, opening, hostStreams, gate>>

\* A read error, or no reply for a minute, however much the source sends.
ReaderEnds(i) ==
  /\ i \in reader
  /\ Send(net, "CLOSE", i, "dialer")
  /\ reader' = reader \ {i} /\ hostStreams' = hostStreams \ {i}
  /\ UNCHANGED <<linked, dialing, opening, gate>>

GateStep ==
  /\ \/ \E r \in screen : Dismiss(r) \/ \E answer \in {"allow", "deny"} : resolveApproval(r, answer)
     \/ ResetApprovalCache({a \in Asker : opening.pc = "ask"})
     \/ \E on \in BOOLEAN : SetServiceApproval(on)
  /\ UNCHANGED <<channel, dialing, hosting>>

LinkGoesDown ==
  /\ linked
  /\ linked' = FALSE /\ net' = {}
  /\ UNCHANGED <<dialing, hosting, gate>>

-----------------------------------------------------------------------------
Next ==
  \/ \E s \in Src : FirstDatagram(s) \/ NextDatagram(s) \/ Minute(s) \/ Reap(s)
  \/ \E i \in Id : Reply(i) \/ ReaderEnds(i)
  \/ OpenAnswered \/ OpenRefused \/ OpenTimesOut
  \/ \E f \in net :
       OnAnswer(f) \/ OnReply(f) \/ OnHostClose(f) \/ OnOpen(f) \/ OnClose(f)
  \/ UserDecides \/ UserIsAway \/ DialTarget \/ DialFails
  \/ GateStep \/ LinkGoesDown

Spec == Init /\ [][Next]_vars

\* The tickers and timeouts of the dialing side fire.
FairSpec ==
  Spec /\ WF_vars(OpenTimesOut) /\ \A s \in Src : WF_vars(Reap(s))

-----------------------------------------------------------------------------
TypeOK ==
  /\ net \subseteq Frame /\ linked \in BOOLEAN
  /\ nextID \in 0..MaxId /\ bySrc \in [Src -> 0..MaxId]
  /\ udpDialStreams \subseteq Id /\ closed \subseteq Id
  /\ opened \in {"empty", "ok", "err"}
  /\ seen \in [Src -> {"never", "recent", "old"}]
  /\ loop \in [pc : {"read", "wait"}, id : 0..MaxId]
  /\ opening \in [pc : {"idle", "ask", "dial", "free"}, id : 0..MaxId]
  /\ hostStreams \subseteq Id /\ reader \subseteq Id
  /\ GateTypeOK

\* What is left in udpDialStreams belongs to a source, or was reaped: the
\* reaper is the one way a flow outlives its source (proxy.go:488-504).
LeaksAreReaped ==
  \A i \in udpDialStreams : i \in closed \/ \E s \in Src : bySrc[s] = i

\* The host keeps no flow without a reader, which ends it after a minute of
\* silence: a CLOSE that is lost, or that overtakes its OPEN, leaks nothing;
\* only a link that fails at OPEN_OK does (proxy.go:841-880).
HostFlowsAreRead == linked => hostStreams = reader

\* The invariant of the flows: the types, and that neither side of the
\* forwarder keeps a flow that nothing will end, but for what LeaksAreReaped
\* and HostFlowsAreRead name (proxy.go:488-504, 841-880).
ProxyUdpInv == TypeOK /\ LeaksAreReaped /\ HostFlowsAreRead

\* A gated port is dialed for a peer only after the user has allowed it, since
\* the last reset or by an answer given before it and not yet taken: neither a
\* timeout nor a click on a request of the past is an answer (app.go:2681-2739).
DialsWithLeave == [][opening.pc # "dial" /\ opening'.pc = "dial" => Dialer \in leave]_vars

\* The one loop that reads all sources comes back from every OPEN it waits for,
\* lost, refused or overtaken as its answer may be (proxy.go:557-579).  A source
\* whose flow the host has closed is sent nowhere for as long as it keeps
\* sending; once it is silent for a minute its next datagram opens a new flow
\* (proxy.go:488-504, 939-960).
SilentSourceRecovers ==
  /\ []<>(loop.pc = "read")
  /\ \A s \in Src : []<>(bySrc[s] = 0 \/ bySrc[s] \in udpDialStreams \/ seen[s] = "recent")
=============================================================================
