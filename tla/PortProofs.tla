----------------------------- MODULE PortProofs ----------------------------
(***************************************************************************)
(* What holds of a port that the user shares.                              *)
(*                                                                         *)
(* The flows of a UDP listener and the gate in front of them, for any      *)
(* number of sources, flows, frames and requests.  The invariant has one   *)
(* part for the channel, one for each side of the forwarder, and one that  *)
(* ties the gate to the open that waits at it: an answer can only be on    *)
(* its way while the host waits for it, so no answer is left over for a    *)
(* later open.                                                             *)
(*                                                                         *)
(* The calls that share it, for every number of sessions, protocols and    *)
(* calls: a peer believes of the port what the mesh says, and what is      *)
(* saved is what every session shares.                                     *)
(***************************************************************************)
EXTENDS ProxyUdp, Exposes, SequenceTheorems, TLAPS

NetOK == net \subseteq Frame /\ linked \in BOOLEAN

DialingOK ==
  /\ nextID \in 0..MaxId /\ bySrc \in [Src -> 0..MaxId]
  /\ udpDialStreams \subseteq Id /\ closed \subseteq Id
  /\ opened \in {"empty", "ok", "err"}
  /\ seen \in [Src -> {"never", "recent", "old"}]
  /\ loop \in [pc : {"read", "wait"}, id : 0..MaxId]

DialingInv == DialingOK /\ LeaksAreReaped

\* The flow the host opens has an ID.
HostingInv ==
  /\ opening \in [pc : {"idle", "ask", "dial", "free"}, id : 0..MaxId]
  /\ opening.pc # "idle" => opening.id \in Id
  /\ hostStreams \subseteq Id /\ reader \subseteq Id
  /\ HostFlowsAreRead

\* The request that is out is the last one, and nobody but the open that waits
\* for it gets its answer; what was allowed was allowed by the user.
GateInv ==
  /\ GateTypeOK
  /\ wait[Dialer] # "none" => opening.pc = "ask"
  /\ pending # {} => pending = {Last(Dialer)} /\ opening.pc = "ask" /\ wait[Dialer] = "none"
  /\ Last(Dialer) \in screen => wait[Dialer] = "none" /\ decided[Dialer] # "allow"
  /\ decided[Dialer] = "allow" \/ wait[Dialer] = "allow" => Dialer \in leave

IInv == NetOK /\ DialingInv /\ HostingInv /\ GateInv

-----------------------------------------------------------------------------
(* Lemmas about the channel and the sides of the forwarder.                *)

\* What is sent is a frame.
LEMMA SendFrames ==
  ASSUME NEW frames \in SUBSET Frame, NEW type \in {"OPEN", "OPEN_OK", "OPEN_ERR", "DATA", "CLOSE"},
         NEW id \in Id, NEW to \in {"dialer", "host"}, Send(frames, type, id, to)
  PROVE  net' \subseteq Frame
<1> DEFINE f == [type |-> type, id |-> id, to |-> to]
<1>1. f \in Frame
  BY DEF Frame
<1>2. net' = frames \/ net' = frames \union {f}
  BY DEF Send
<1> QED
  BY <1>1, <1>2

\* A frame in flight has an ID.
LEMMA FrameID == ASSUME NetOK, NEW f \in net PROVE f.id \in Id /\ net \ {f} \subseteq Frame
  BY DEF NetOK, Frame

\* What neither side nor the gate depends on.
LEMMA HostingFrame == HostingInv /\ UNCHANGED <<linked, hosting>> => HostingInv'
  BY DEF HostingInv, hosting, HostFlowsAreRead

LEMMA DialingFrame == DialingInv /\ UNCHANGED dialing => DialingInv'
  BY DEF DialingInv, DialingOK, dialing, LeaksAreReaped

LEMMA GateFrame == GateInv /\ UNCHANGED gate /\ opening.pc = opening'.pc => GateInv'
  BY DEF GateInv, GateTypeOK, gate, Last

\* An open that does not wait at the gate ends or begins without it.
LEMMA GateOfOthers ==
  ASSUME GateInv, UNCHANGED gate, opening.pc # "ask"
  PROVE  GateInv'
  BY DEF GateInv, GateTypeOK, gate, Last

LEMMA InitInv == Init => IInv
<1> SUFFICES ASSUME Init PROVE IInv
  OBVIOUS
<1> USE ProxyUdpAssumption, ApprovalAssumption DEF Init, GateInit, Reading, Free
<1>1. NetOK
  BY DEF NetOK
<1>2. DialingInv
  BY DEF DialingInv, DialingOK, LeaksAreReaped
<1>3. HostingInv
  BY DEF HostingInv, HostFlowsAreRead
<1>4. GateInv
  BY DEF GateInv, GateTypeOK, Answer, Last
<1> QED
  BY <1>1, <1>2, <1>3, <1>4 DEF IInv

-----------------------------------------------------------------------------
(* The dialing side.                                                       *)

LEMMA FirstDatagramInv ==
  ASSUME IInv, NEW s \in Src, FirstDatagram(s)
  PROVE  IInv'
<1> USE DEF IInv
<1>1. nextID + 1 \in Id /\ nextID' = nextID + 1
  BY ProxyUdpAssumption DEF FirstDatagram, DialingInv, DialingOK, Id
<1>2. net' \subseteq Frame
  BY <1>1, SendFrames DEF FirstDatagram, NetOK
<1>3. UNCHANGED <<linked, hosting, gate>>
  BY DEF FirstDatagram, channel
<1>4. DialingInv'
  BY <1>1, ProxyUdpAssumption DEF FirstDatagram, DialingInv, DialingOK, LeaksAreReaped, Id, Reading
<1>5. HostingInv' /\ GateInv'
  BY <1>3, HostingFrame, GateFrame DEF hosting
<1> QED
  BY <1>2, <1>3, <1>4, <1>5 DEF NetOK

LEMMA NextDatagramInv ==
  ASSUME IInv, NEW s \in Src, NextDatagram(s)
  PROVE  IInv'
<1> USE DEF IInv
<1>1. net' = net
  BY DEF NextDatagram, channel
<1>2. net' \subseteq Frame
  BY <1>1 DEF NetOK
<1>3. UNCHANGED <<linked, hosting, gate>>
  BY DEF NextDatagram, channel
<1>4. DialingInv'
  BY <1>1, ProxyUdpAssumption DEF NextDatagram, DialingInv, DialingOK, LeaksAreReaped, Id, Reading
<1>5. HostingInv' /\ GateInv'
  BY <1>3, HostingFrame, GateFrame DEF hosting
<1> QED
  BY <1>2, <1>3, <1>4, <1>5 DEF NetOK

LEMMA OpenAnsweredInv ==
  ASSUME IInv, OpenAnswered
  PROVE  IInv'
<1> USE DEF IInv
<1>1. net' = net
  BY DEF OpenAnswered, Proceed, channel
<1>2. net' \subseteq Frame
  BY <1>1 DEF NetOK
<1>3. UNCHANGED <<linked, hosting, gate>>
  BY DEF OpenAnswered, Proceed, channel
<1>4. DialingInv'
  BY <1>1, ProxyUdpAssumption DEF OpenAnswered, Proceed, DialingInv, DialingOK, LeaksAreReaped, Id, Reading
<1>5. HostingInv' /\ GateInv'
  BY <1>3, HostingFrame, GateFrame DEF hosting
<1> QED
  BY <1>2, <1>3, <1>4, <1>5 DEF NetOK

LEMMA OpenTimesOutInv ==
  ASSUME IInv, OpenTimesOut
  PROVE  IInv'
<1> USE DEF IInv
<1>1. net' = net
  BY DEF OpenTimesOut, Proceed, channel
<1>2. net' \subseteq Frame
  BY <1>1 DEF NetOK
<1>3. UNCHANGED <<linked, hosting, gate>>
  BY DEF OpenTimesOut, Proceed, channel
<1>4. DialingInv'
  BY <1>1, ProxyUdpAssumption DEF OpenTimesOut, Proceed, DialingInv, DialingOK, LeaksAreReaped, Id, Reading
<1>5. HostingInv' /\ GateInv'
  BY <1>3, HostingFrame, GateFrame DEF hosting
<1> QED
  BY <1>2, <1>3, <1>4, <1>5 DEF NetOK

LEMMA OpenRefusedInv ==
  ASSUME IInv, OpenRefused
  PROVE  IInv'
<1> USE DEF IInv
<1>1. net' = net
  BY DEF OpenRefused, channel
<1>2. net' \subseteq Frame
  BY <1>1 DEF NetOK
<1>3. UNCHANGED <<linked, hosting, gate>>
  BY DEF OpenRefused, channel
<1>4. DialingInv'
  <2>1. DialingOK'
    BY ProxyUdpAssumption DEF OpenRefused, DialingInv, DialingOK, Reading
  <2>2. ASSUME NEW i \in udpDialStreams' PROVE i \in closed' \/ \E q \in Src : bySrc'[q] = i
    <3>1. i \in udpDialStreams /\ i # loop.id
      BY DEF OpenRefused
    <3>2. ASSUME NEW q \in Src, bySrc[q] = i PROVE bySrc'[q] = i
      BY <3>1, <3>2 DEF OpenRefused
    <3> QED
      BY <3>1, <3>2 DEF OpenRefused, DialingInv, LeaksAreReaped
  <2> QED
    BY <2>1, <2>2 DEF DialingInv, LeaksAreReaped
<1>5. HostingInv' /\ GateInv'
  BY <1>3, HostingFrame, GateFrame DEF hosting
<1> QED
  BY <1>2, <1>3, <1>4, <1>5 DEF NetOK

LEMMA MinuteInv ==
  ASSUME IInv, NEW s \in Src, Minute(s)
  PROVE  IInv'
<1> USE DEF IInv
<1>1. net' = net
  BY DEF Minute, channel
<1>2. net' \subseteq Frame
  BY <1>1 DEF NetOK
<1>3. UNCHANGED <<linked, hosting, gate>>
  BY DEF Minute, channel
<1>4. DialingInv'
  BY <1>1, ProxyUdpAssumption DEF Minute, DialingInv, DialingOK, LeaksAreReaped, Id, Reading
<1>5. HostingInv' /\ GateInv'
  BY <1>3, HostingFrame, GateFrame DEF hosting
<1> QED
  BY <1>2, <1>3, <1>4, <1>5 DEF NetOK

LEMMA ReapInv ==
  ASSUME IInv, NEW s \in Src, Reap(s)
  PROVE  IInv'
<1> USE DEF IInv
<1>1. bySrc[s] \in Id
  BY DEF Reap, DialingInv, DialingOK, Id
<1>2. net' \subseteq Frame
  BY <1>1, SendFrames DEF Reap, NetOK
<1>3. UNCHANGED <<linked, hosting, gate>>
  BY DEF Reap, channel
<1>4. DialingInv'
  <2>1. DialingOK'
    BY <1>1, ProxyUdpAssumption DEF Reap, DialingInv, DialingOK
  <2>2. ASSUME NEW i \in udpDialStreams' PROVE i \in closed' \/ \E q \in Src : bySrc'[q] = i
    <3>1. CASE i \in closed
      BY <3>1 DEF Reap
    <3>2. ASSUME NEW q \in Src, bySrc[q] = i PROVE i \in closed' \/ bySrc'[q] = i
      BY <3>2 DEF Reap, DialingInv, DialingOK
    <3> QED
      BY <2>2, <3>1, <3>2 DEF Reap, DialingInv, LeaksAreReaped
  <2> QED
    BY <2>1, <2>2 DEF DialingInv, LeaksAreReaped
<1>5. HostingInv' /\ GateInv'
  BY <1>3, HostingFrame, GateFrame DEF hosting
<1> QED
  BY <1>2, <1>3, <1>4, <1>5 DEF NetOK

LEMMA OnAnswerInv ==
  ASSUME IInv, NEW f \in net, OnAnswer(f)
  PROVE  IInv'
<1> USE DEF IInv
<1>1. f.id \in Id /\ net \ {f} \subseteq Frame
  BY FrameID
<1>2. net' \subseteq Frame
  BY <1>1 DEF OnAnswer
<1>3. UNCHANGED <<linked, hosting, gate>>
  BY DEF OnAnswer, channel
<1>4. DialingInv'
  BY <1>1, ProxyUdpAssumption DEF OnAnswer, DialingInv, DialingOK, LeaksAreReaped, Id, Reading
<1>5. HostingInv' /\ GateInv'
  BY <1>3, HostingFrame, GateFrame DEF hosting
<1> QED
  BY <1>2, <1>3, <1>4, <1>5 DEF NetOK

LEMMA OnReplyInv ==
  ASSUME IInv, NEW f \in net, OnReply(f)
  PROVE  IInv'
<1> USE DEF IInv
<1>1. f.id \in Id /\ net \ {f} \subseteq Frame
  BY FrameID
<1>2. net' \subseteq Frame
  BY <1>1 DEF OnReply
<1>3. UNCHANGED <<linked, hosting, gate>>
  BY DEF OnReply, channel
<1>4. DialingInv'
  BY <1>1, ProxyUdpAssumption DEF OnReply, DialingInv, DialingOK, LeaksAreReaped, Id, Reading
<1>5. HostingInv' /\ GateInv'
  BY <1>3, HostingFrame, GateFrame DEF hosting
<1> QED
  BY <1>2, <1>3, <1>4, <1>5 DEF NetOK

LEMMA OnHostCloseInv ==
  ASSUME IInv, NEW f \in net, OnHostClose(f)
  PROVE  IInv'
<1> USE DEF IInv
<1>1. f.id \in Id /\ net \ {f} \subseteq Frame
  BY FrameID
<1>2. net' \subseteq Frame
  BY <1>1 DEF OnHostClose
<1>3. UNCHANGED <<linked, hosting, gate>>
  BY DEF OnHostClose, channel
<1>4. DialingInv'
  BY <1>1, ProxyUdpAssumption DEF OnHostClose, DialingInv, DialingOK, LeaksAreReaped, Id, Reading
<1>5. HostingInv' /\ GateInv'
  BY <1>3, HostingFrame, GateFrame DEF hosting
<1> QED
  BY <1>2, <1>3, <1>4, <1>5 DEF NetOK

-----------------------------------------------------------------------------
(* The host, away from the gate.                                           *)

LEMMA DialTargetInv ==
  ASSUME IInv, DialTarget
  PROVE  IInv'
<1> USE DEF IInv
<1>1. opening.id \in Id
  BY DEF DialTarget, HostingInv
<1>2. net' \subseteq Frame
  BY <1>1, SendFrames DEF DialTarget, Refuse, NetOK
<1>3. UNCHANGED <<linked, dialing, gate>>
  BY DEF DialTarget
<1>4. HostingInv'
  BY <1>1, ProxyUdpAssumption DEF DialTarget, HostingInv, HostFlowsAreRead, NetOK, Free, Refuse
<1>5. DialingInv'
  BY <1>3, DialingFrame
<1>6. GateInv'
  BY <1>3, GateOfOthers DEF DialTarget, HostingInv
<1> QED
  BY <1>2, <1>3, <1>4, <1>5, <1>6 DEF NetOK

LEMMA DialFailsInv ==
  ASSUME IInv, DialFails
  PROVE  IInv'
<1> USE DEF IInv
<1>1. opening.id \in Id
  BY DEF DialFails, HostingInv
<1>2. net' \subseteq Frame
  BY <1>1, SendFrames DEF DialFails, Refuse, NetOK
<1>3. UNCHANGED <<linked, dialing, gate>>
  BY DEF DialFails
<1>4. HostingInv'
  BY <1>1, ProxyUdpAssumption DEF DialFails, HostingInv, HostFlowsAreRead, NetOK, Free, Refuse
<1>5. DialingInv'
  BY <1>3, DialingFrame
<1>6. GateInv'
  BY <1>3, GateOfOthers DEF DialFails, HostingInv
<1> QED
  BY <1>2, <1>3, <1>4, <1>5, <1>6 DEF NetOK

LEMMA ReplyInv ==
  ASSUME IInv, NEW i, Reply(i)
  PROVE  IInv'
<1> USE DEF IInv
<1>1. i \in Id
  BY DEF Reply, HostingInv
<1>2. net' \subseteq Frame
  BY <1>1, SendFrames DEF Reply, NetOK
<1>3. UNCHANGED <<linked, dialing, gate>>
  BY DEF Reply
<1>4. HostingInv'
  BY <1>1, ProxyUdpAssumption DEF Reply, HostingInv, HostFlowsAreRead, NetOK, Free, Refuse
<1>5. DialingInv'
  BY <1>3, DialingFrame
<1>6. GateInv'
  BY <1>3, GateFrame DEF Reply, HostingInv
<1> QED
  BY <1>2, <1>3, <1>4, <1>5, <1>6 DEF NetOK

LEMMA ReaderEndsInv ==
  ASSUME IInv, NEW i, ReaderEnds(i)
  PROVE  IInv'
<1> USE DEF IInv
<1>1. i \in Id
  BY DEF ReaderEnds, HostingInv
<1>2. net' \subseteq Frame
  BY <1>1, SendFrames DEF ReaderEnds, NetOK
<1>3. UNCHANGED <<linked, dialing, gate>>
  BY DEF ReaderEnds
<1>4. HostingInv'
  BY <1>1, ProxyUdpAssumption DEF ReaderEnds, HostingInv, HostFlowsAreRead, NetOK, Free, Refuse
<1>5. DialingInv'
  BY <1>3, DialingFrame
<1>6. GateInv'
  BY <1>3, GateFrame DEF ReaderEnds, HostingInv
<1> QED
  BY <1>2, <1>3, <1>4, <1>5, <1>6 DEF NetOK

LEMMA OnCloseInv ==
  ASSUME IInv, NEW f \in net, OnClose(f)
  PROVE  IInv'
<1> USE DEF IInv
<1>1. f.id \in Id /\ net \ {f} \subseteq Frame
  BY FrameID
<1>2. net' \subseteq Frame
  BY <1>1 DEF OnClose
<1>3. UNCHANGED <<linked, dialing, gate>>
  BY DEF OnClose
<1>4. HostingInv'
  BY <1>1, ProxyUdpAssumption DEF OnClose, HostingInv, HostFlowsAreRead, NetOK, Free, Refuse
<1>5. DialingInv'
  BY <1>3, DialingFrame
<1>6. GateInv'
  BY <1>3, GateFrame DEF OnClose, HostingInv
<1> QED
  BY <1>2, <1>3, <1>4, <1>5, <1>6 DEF NetOK

-----------------------------------------------------------------------------
(* The host, at the gate.                                                  *)

LEMMA OnOpenInv ==
  ASSUME IInv, NEW f \in net, OnOpen(f)
  PROVE  IInv'
<1> USE ProxyUdpAssumption, ApprovalAssumption DEF IInv
<1>1. f.id \in Id /\ net \ {f} \subseteq Frame /\ Dialer \in Asker
  BY FrameID
<1>2. UNCHANGED <<linked, dialing, hostStreams, reader>> /\ opening.pc = "idle"
  BY DEF OnOpen, Free
<1>3. DialingInv'
  BY <1>2, DialingFrame
<1>4. \/ Refuse(net \ {f}, f.id) /\ UNCHANGED gate
      \/ /\ opening' \in [pc : {"dial", "free"}, id : {f.id}]
         /\ net' = net \ {f} /\ UNCHANGED gate
      \/ /\ Prompt(Dialer) /\ decided[Dialer] = "none"
         /\ opening' = [pc |-> "ask", id |-> f.id] /\ net' = net \ {f}
  BY DEF OnOpen, Verdict
<1>5. net' \subseteq Frame
  BY <1>1, <1>4, SendFrames DEF Refuse
<1>6. HostingInv'
  BY <1>1, <1>2, <1>4 DEF HostingInv, HostFlowsAreRead, Refuse, Free, Id
<1>7. GateInv'
  <2>1. CASE UNCHANGED gate
    BY <1>2, <2>1, GateOfOthers
  <2>2. CASE Prompt(Dialer) /\ decided[Dialer] = "none" /\ opening' = [pc |-> "ask", id |-> f.id]
    <3>1. asked[Dialer] + 1 \in 1..MaxPrompts /\ asked'[Dialer] = asked[Dialer] + 1
      BY <1>1, <2>2 DEF GateInv, GateTypeOK, Prompt
    <3>2. GateTypeOK'
      BY <1>1, <2>2, <3>1 DEF GateInv, GateTypeOK, Prompt, Request
    <3>3. pending = {} /\ pending' = {Last(Dialer)'} /\ wait[Dialer] = "none" /\ wait' = wait
      BY <1>2, <2>2, <3>1 DEF GateInv, Prompt, Last
    <3> QED
      BY <2>2, <3>2, <3>3 DEF GateInv, Prompt
  <2> QED
    BY <1>4, <2>1, <2>2
<1> QED
  BY <1>2, <1>3, <1>5, <1>6, <1>7 DEF NetOK

LEMMA UserDecidesInv ==
  ASSUME IInv, UserDecides
  PROVE  IInv'
<1> USE ProxyUdpAssumption DEF IInv
<1>1. opening.id \in Id /\ opening.pc = "ask"
  BY DEF UserDecides, HostingInv
<1>2. UNCHANGED <<linked, dialing, hostStreams, reader>>
  BY DEF UserDecides
<1>3. DialingInv'
  BY <1>2, DialingFrame
<1>4. net' \subseteq Frame
  BY <1>1, SendFrames DEF UserDecides, Refuse, NetOK
<1>5. HostingInv'
  BY <1>1, <1>2 DEF UserDecides, Refuse, Free, HostingInv, HostFlowsAreRead
<1>6. pending = {} /\ Last(Dialer) \notin screen
  BY DEF UserDecides, Decided, GateInv
<1>7. GateInv'
  <2>0. Decided(Dialer)
    BY DEF UserDecides
  <2>1. GateTypeOK'
    BY <2>0 DEF Decided, GateInv, GateTypeOK, Answer
  <2>2. wait'[Dialer] = "none" /\ decided'[Dialer] = wait[Dialer]
    BY DEF UserDecides, Decided, GateInv, GateTypeOK
  <2>3. UNCHANGED <<asked, pending, screen, leave>>
    BY DEF UserDecides, Decided
  <2>4. Last(Dialer)' = Last(Dialer)
    BY <2>3 DEF Last
  <2> QED
    BY <1>6, <2>1, <2>2, <2>3, <2>4 DEF GateInv
<1> QED
  BY <1>2, <1>3, <1>4, <1>5, <1>7 DEF NetOK

LEMMA UserIsAwayInv ==
  ASSUME IInv, UserIsAway
  PROVE  IInv'
<1> USE ProxyUdpAssumption DEF IInv
<1>1. opening.id \in Id /\ opening.pc = "ask"
  BY DEF UserIsAway, HostingInv
<1>2. UNCHANGED <<linked, dialing, hostStreams, reader>>
  BY DEF UserIsAway
<1>3. DialingInv'
  BY <1>2, DialingFrame
<1>4. net' \subseteq Frame
  BY <1>1, SendFrames DEF UserIsAway, Refuse, NetOK
<1>5. HostingInv'
  BY <1>1, <1>2 DEF UserIsAway, Refuse, Free, HostingInv, HostFlowsAreRead
<1>6. pending' = {} /\ wait'[Dialer] = "none"
  BY DEF UserIsAway, PromptTimesOut, GateInv, GateTypeOK
<1>7. GateInv'
  BY <1>6 DEF UserIsAway, PromptTimesOut, GateInv, GateTypeOK, Last, Answer
<1> QED
  BY <1>2, <1>3, <1>4, <1>5, <1>7 DEF NetOK

LEMMA GateStepInv ==
  ASSUME IInv, GateStep
  PROVE  IInv'
<1> USE ProxyUdpAssumption DEF IInv
<1>1. UNCHANGED <<net, linked, dialing, hosting, opening>>
  BY DEF GateStep, channel, hosting
<1>2. NetOK' /\ DialingInv' /\ HostingInv'
  BY <1>1, DialingFrame, HostingFrame DEF NetOK
<1>3. ASSUME NEW r \in screen, Dismiss(r) PROVE GateInv'
  BY <1>1, <1>3 DEF Dismiss, GateInv, GateTypeOK, Last
<1>4. ASSUME NEW r \in screen, NEW answer \in {"allow", "deny"}, resolveApproval(r, answer) PROVE GateInv'
  <2>1. r[1] = Dialer
    BY DEF GateInv, GateTypeOK, Request
  <2>2. GateTypeOK'
    BY <1>4, <2>1 DEF resolveApproval, GateInv, GateTypeOK, Answer
  <2>3. CASE r = Last(Dialer)
    BY <1>1, <1>4, <2>1, <2>2, <2>3 DEF resolveApproval, GateInv, GateTypeOK, Last
  <2>4. CASE r # Last(Dialer)
    <3>1. r \notin pending
      BY <2>4 DEF GateInv
    <3>2. UNCHANGED <<asked, pending, wait, leave, decided>> /\ screen' \subseteq screen
      BY <1>4, <2>1, <2>4, <3>1 DEF resolveApproval
    <3> QED
      BY <1>1, <2>2, <3>2 DEF GateInv, Last
  <2> QED
    BY <2>3, <2>4
<1>5. CASE ResetApprovalCache({a \in Asker : opening.pc = "ask"})
  <2>1. GateTypeOK'
    BY <1>5 DEF ResetApprovalCache, GateInv, GateTypeOK, Answer
  <2>2. wait[Dialer] = "allow" => Dialer \in leave'
    BY <1>5 DEF ResetApprovalCache, GateInv
  <2>3. UNCHANGED <<asked, pending, wait, screen>> /\ decided'[Dialer] = "none"
    BY <1>5 DEF ResetApprovalCache
  <2>4. Last(Dialer)' = Last(Dialer) /\ opening' = opening
    BY <1>1, <2>3 DEF Last
  <2> QED
    BY <1>2, <2>1, <2>2, <2>3, <2>4 DEF GateInv
<1>6. ASSUME NEW on \in BOOLEAN, SetServiceApproval(on) PROVE GateInv'
  BY <1>1, <1>6 DEF SetServiceApproval, GateInv, GateTypeOK, Last
<1>7. GateInv'
  BY <1>3, <1>4, <1>5, <1>6 DEF GateStep
<1> QED
  BY <1>2, <1>7

LEMMA LinkGoesDownInv ==
  ASSUME IInv, LinkGoesDown
  PROVE  IInv'
<1> USE DEF IInv
<1>1. NetOK'
  BY DEF LinkGoesDown, NetOK
<1>2. HostingInv'
  BY DEF LinkGoesDown, hosting, HostingInv, HostFlowsAreRead
<1>3. DialingInv' /\ GateInv'
  BY DialingFrame, GateFrame DEF LinkGoesDown, hosting
<1> QED
  BY <1>1, <1>2, <1>3

-----------------------------------------------------------------------------
LEMMA StepInv == IInv /\ [Next]_vars => IInv'
<1> SUFFICES ASSUME IInv, [Next]_vars PROVE IInv'
  OBVIOUS
<1>1. ASSUME NEW s \in Src, FirstDatagram(s) \/ NextDatagram(s) \/ Minute(s) \/ Reap(s) PROVE IInv'
  BY <1>1, FirstDatagramInv, NextDatagramInv, MinuteInv, ReapInv
<1>2. ASSUME NEW i \in Id, Reply(i) \/ ReaderEnds(i) PROVE IInv'
  BY <1>2, ReplyInv, ReaderEndsInv
<1>3. CASE OpenAnswered \/ OpenRefused \/ OpenTimesOut
  BY <1>3, OpenAnsweredInv, OpenRefusedInv, OpenTimesOutInv
<1>4. ASSUME NEW f \in net, OnAnswer(f) \/ OnReply(f) \/ OnHostClose(f) PROVE IInv'
  BY <1>4, OnAnswerInv, OnReplyInv, OnHostCloseInv
<1>5. ASSUME NEW f \in net, OnOpen(f) \/ OnClose(f) PROVE IInv'
  BY <1>5, OnOpenInv, OnCloseInv
<1>6. CASE UserDecides \/ UserIsAway \/ DialTarget \/ DialFails
  BY <1>6, UserDecidesInv, UserIsAwayInv, DialTargetInv, DialFailsInv
<1>7. CASE GateStep \/ LinkGoesDown
  BY <1>7, GateStepInv, LinkGoesDownInv
<1>8. CASE UNCHANGED vars
  <2>1. UNCHANGED <<net, linked, dialing, hosting, gate, opening>>
    BY <1>8 DEF vars, channel, hosting
  <2> QED
    BY <2>1, DialingFrame, HostingFrame, GateFrame DEF IInv, NetOK
<1> QED
  BY <1>1, <1>2, <1>3, <1>4, <1>5, <1>6, <1>7, <1>8 DEF Next

LEMMA Invariance == Spec => []IInv
<1>1. IInv /\ [Next]_vars => IInv'
  BY StepInv
<1> QED
  BY InitInv, <1>1, PTL DEF Spec

-----------------------------------------------------------------------------
\* Neither side of the forwarder keeps a flow that nothing will end, but for
\* what the reaper leaves and a link that fails (proxy.go:488-504, 841-880):
\* for any number of sources, flows and frames in flight.
THEOREM ProxyUdpInvHolds == Spec => []ProxyUdpInv
<1>1. IInv => ProxyUdpInv
  BY DEF IInv, NetOK, DialingInv, DialingOK, HostingInv, GateInv, ProxyUdpInv, TypeOK
<1> QED
  BY <1>1, Invariance, PTL

\* A gated port is dialed only with the leave of the user, however late or
\* early the answers, the timeouts and the resets come (app.go:2681-2739).
THEOREM DialsWithLeaveHolds == Spec => DialsWithLeave
<1>1. ASSUME IInv, [Next]_vars, opening.pc # "dial", opening'.pc = "dial"
      PROVE  Dialer \in leave
  <2>1. CASE UserDecides
    BY <1>1, <2>1, ProxyUdpAssumption DEF IInv, GateInv, GateTypeOK, UserDecides, Decided, Refuse, Free
  <2>2. ASSUME NEW f \in net, OnOpen(f) PROVE Dialer \in leave
    BY <1>1, <2>2 DEF IInv, GateInv, OnOpen, Verdict, Refuse, Free
  <2>3. opening' = opening \/ opening' = Free \/ UserDecides \/ \E f \in net : OnOpen(f)
    BY <1>1 DEF Next, vars, hosting, FirstDatagram, NextDatagram, Minute, Reap, Reply, ReaderEnds,
       OpenAnswered, OpenRefused, OpenTimesOut, Proceed, OnAnswer, OnReply, OnHostClose, OnClose,
       UserIsAway, DialTarget, DialFails, Refuse, GateStep, LinkGoesDown
  <2> QED
    BY <1>1, <2>1, <2>2, <2>3 DEF Free
<1>2. IInv /\ [Next]_vars => [opening.pc # "dial" /\ opening'.pc = "dial" => Dialer \in leave]_vars
  BY <1>1
<1> QED
  BY <1>2, Invariance, PTL DEF Spec, DialsWithLeave

-----------------------------------------------------------------------------
(***************************************************************************)
(* The calls that share a port.                                            *)
(***************************************************************************)

\* What the peer of s believes once every frame under way has arrived.
LastOf(q, v) == IF q = <<>> THEN v ELSE q[Len(q)]
Final(s) == LastOf(ctl[s], view[s])

\* a has edited localServices of s and has not told the peer yet.
Announces(a, s) == actor[a].pc = "send" /\ actor[a].at[1] = s

\* A restore is run under the name of its session, a call is not; what a call
\* or restore is about fits what it is at.
Rules(a) ==
  /\ actor[a].pc \in {"local", "send"} =>
       /\ actor[a].at \in Session \X Service /\ actor[a].at \notin actor[a].todo
  /\ actor[a].pc = "rows" => actor[a].op = "restore"
  /\ actor[a].pc = "save" => actor[a].op \in {"pause", "resume"}
  /\ actor[a].pc = "list" => actor[a].op \in {"expose", "unexpose", "pause", "resume"}
  /\ Runs(a) => actor[a].op # "none"
  /\ Runs(a) => (a \in Session <=> actor[a].op = "restore")
  /\ Runs(a) /\ actor[a].op \in {"expose", "pause", "resume"} => actor[a].proto \in Proto

ActorRules == \A a \in Actor : Rules(a)

\* Nothing is sent before the channel opens, and a session that is left comes up
\* no more.  Unless two announcements of the session overlapped, whoever still
\* has to tell the peer tells it what localServices says; a peer that is not
\* ready yet has been told nothing or that, and a ready one has been told that.
Told(s) ==
  /\ peer[s] = "absent" => view[s] = None /\ ctl[s] = <<>>
  /\ peer[s] = "left" => s \notin live /\ actor[s].pc # "idle"
  /\ s \notin unsure /\ peer[s] # "left" =>
       /\ \A a \in Actor : Announces(a, s) => actor[a].at[2] = local[s]
       /\ peer[s] = "replaying" => replay[s] = local[s]
       /\ peer[s] \in {"open", "replaying"} =>
            Final(s) \in {None, local[s]} \/ \E a \in Actor : Announces(a, s)
       /\ peer[s] = "ready" => Final(s) = local[s] \/ \E a \in Actor : Announces(a, s)

PeerRules == \A s \in Session : Told(s)

\* The protocols with an enabled row.
Enabled == ListExposedServices({"on"})

\* The forwarder and the mesh of s agree.
Tidy(s) == s \in exposed <=> local[s] # None

\* The only row of the port is enabled: s shares it for that protocol.
AsSaved(s) ==
  \A p \in Proto : rows[p] = "on" /\ (\A q \in Proto \ {p} : rows[q] = "none") => local[s] = p

\* What session s shares is what is saved; a session whose restore has not ended
\* may share nothing yet.
Agrees(s) ==
  /\ Tidy(s)
  /\ Enabled = {} => s \notin exposed
  /\ actor[s].pc = "done" => AsSaved(s)

\* What the call of a wants every session to share, and the row that it wrote.
Wanted(a) == IF actor[a].op \in {"expose", "resume"} THEN actor[a].proto ELSE None

RowFits(a) ==
  /\ actor[a].op \in {"expose", "resume"} => rows[actor[a].proto] = "on"
  /\ actor[a].op = "pause" => rows[actor[a].proto] = "off"

\* A session that came up behind the back of a call.
Untouched(s) == actor[s].pc = "idle" /\ s \notin exposed /\ local[s] = None

\* How far the call of a is with session s.
Walked(a, s) ==
  IF <<s, Wanted(a)>> \in actor[a].todo THEN Tidy(s)
  ELSE IF actor[a].pc = "local" /\ actor[a].at[1] = s
       THEN s \in exposed <=> Wanted(a) # None
       ELSE (local[s] = Wanted(a) /\ Tidy(s)) \/ Untouched(s)

\* A call that runs alone.
CallGoesOn(a) ==
  /\ actor[a].pc = "save" => \A s \in live : Agrees(s)
  /\ actor[a].pc = "list" => RowFits(a) /\ \A s \in live : Tidy(s)
  /\ actor[a].pc \in {"edit", "local", "send"} =>
       /\ RowFits(a)
       /\ actor[a].todo \subseteq Session \X {Wanted(a)}
       /\ actor[a].pc # "edit" => actor[a].at[2] = Wanted(a)
       /\ \A s \in live : Walked(a, s)

\* A restore that runs alone: the other sessions are as they should be.
RestoreGoesOn(a) ==
  /\ \A s \in live \ {a} : Agrees(s)
  /\ actor[a].pc = "rows" /\ a \in live => Agrees(a)
  /\ actor[a].pc \in {"edit", "local", "send"} => actor[a].todo \subseteq {a} \X Enabled
  /\ actor[a].pc = "edit" /\ a \in live =>
       \/ actor[a].todo = {a} \X Enabled /\ Tidy(a) /\ (Enabled = {} => a \notin exposed)
       \/ a \in exposed /\ local[a] \in Enabled
  /\ actor[a].pc \in {"local", "send"} =>
       /\ actor[a].at[1] = a /\ actor[a].at[2] \in Enabled
       /\ a \in live => a \in exposed
  /\ actor[a].pc = "send" /\ a \in live => local[a] \in Enabled

\* One call or restore at a time.
Alone == \A a, b \in Actor : Runs(a) /\ Runs(b) => a = b

\* Nobody shares anything in a session that is not up yet.
Unreached ==
  \A s \in Session : s \notin live /\ actor[s].pc = "idle" =>
    /\ s \notin exposed /\ local[s] = None
    /\ \A a \in Actor :
         /\ \A e \in actor[a].todo : e[1] # s
         /\ actor[a].pc \in {"local", "send"} => actor[a].at[1] # s

\* When nobody runs, every session shares what is saved.
AtRest == (\A a \in Actor : ~Runs(a)) => \A s \in live : Agrees(s)

GoesOn ==
  \A a \in Actor :
    /\ Runs(a) /\ a \in Session => RestoreGoesOn(a)
    /\ Runs(a) /\ a \notin Session => CallGoesOn(a)

AloneRules == ~overlap => Alone /\ Unreached /\ AtRest /\ GoesOn

\* The inductive invariant of the calls on a port.
PortInv == PortTypeOK /\ ActorRules /\ PeerRules /\ AloneRules


\* What an actor is at.
Place == [pc : {"idle", "save", "rows", "list", "edit", "local", "send", "done"},
          op : {"none", "expose", "unexpose", "pause", "resume", "restore"},
          proto : Service, todo : SUBSET (Session \X Service),
          at : (Session \X Service) \union {<<>>}]

-----------------------------------------------------------------------------
(* Types, and what an actor is at after a step.                              *)

\* A step of a that moves it to R moves nobody else.
LEMMA MovesFacts ==
  ASSUME PortTypeOK, NEW a \in Actor, NEW R \in Place, actor' = [actor EXCEPT ![a] = R]
  PROVE  /\ actor' \in [Actor -> Place]
         /\ actor'[a] = R
         /\ \A b \in Actor \ {a} : actor'[b] = actor[b]
  BY DEF PortTypeOK, Place

\* A call or a restore that starts.
LEMMA StartsFacts ==
  ASSUME PortTypeOK, NEW a \in Actor, NEW proto \in Service,
         NEW pc \in {"list", "save", "rows"},
         NEW op \in {"expose", "unexpose", "pause", "resume", "restore"},
         Starts(a, pc, op, proto)
  PROVE  /\ actor' \in [Actor -> Place]
         /\ \A b \in Actor \ {a} : actor'[b] = actor[b]
         /\ actor[a].pc = "idle" /\ actor'[a].pc = pc /\ actor'[a].op = op
         /\ actor'[a].proto = proto /\ actor'[a].todo = {}
         /\ overlap' \in BOOLEAN
         /\ ~overlap' => ~overlap /\ \A b \in Actor : ~Runs(b)
  <1> DEFINE R == [Idle EXCEPT !.pc = pc, !.op = op, !.proto = proto]
  <1>1. actor' = [actor EXCEPT ![a] = R]
    BY DEF Starts
  <1>2. /\ R \in Place
        /\ R.pc = pc /\ R.op = op /\ R.proto = proto /\ R.todo = {}
    BY DEF Idle, Place
  <1>3. /\ actor[a].pc = "idle"
        /\ overlap' = (overlap \/ \E b \in Actor : Runs(b))
    BY DEF Starts
  <1> HIDE DEF R
  <1>4. /\ actor' \in [Actor -> Place] /\ actor'[a] = R
        /\ \A b \in Actor \ {a} : actor'[b] = actor[b]
    BY <1>1, <1>2, MovesFacts
  <1>5. overlap' \in BOOLEAN /\ (~overlap' => ~overlap /\ \A b \in Actor : ~Runs(b))
    BY <1>3 DEF PortTypeOK
  <1> QED BY <1>2, <1>3, <1>4, <1>5

LEMMA EndsFacts ==
  ASSUME PortTypeOK, NEW a \in Actor, Ends(a)
  PROVE  /\ actor' \in [Actor -> Place]
         /\ \A b \in Actor \ {a} : actor'[b] = actor[b]
         /\ actor'[a].pc = "done" /\ actor'[a].todo = {}
  <1> DEFINE R == [Idle EXCEPT !.pc = "done"]
  <1>1. actor' = [actor EXCEPT ![a] = R]
    BY DEF Ends
  <1>2. R \in Place /\ R.pc = "done" /\ R.todo = {}
    BY DEF Idle, Place, Service
  <1> HIDE DEF R
  <1> QED BY <1>1, <1>2, MovesFacts

LEMMA GoesFacts ==
  ASSUME PortTypeOK, NEW a \in Actor,
         NEW pc \in {"idle", "save", "rows", "list", "edit", "local", "send", "done"}, Goes(a, pc)
  PROVE  /\ actor' \in [Actor -> Place]
         /\ \A b \in Actor \ {a} : actor'[b] = actor[b]
         /\ actor'[a].pc = pc /\ actor'[a].op = actor[a].op /\ actor'[a].proto = actor[a].proto
         /\ actor'[a].todo = actor[a].todo /\ actor'[a].at = actor[a].at
  <1> DEFINE R == [actor[a] EXCEPT !.pc = pc]
  <1>1. actor' = [actor EXCEPT ![a] = R]
    BY DEF Goes
  <1>2. /\ R \in Place /\ R.pc = pc /\ R.op = actor[a].op /\ R.proto = actor[a].proto
        /\ R.todo = actor[a].todo /\ R.at = actor[a].at
    <2>1. actor[a] \in Place
      BY DEF PortTypeOK, Place
    <2>2. R \in Place
      BY <2>1 DEF Place
    <2>3. /\ R.pc = pc /\ R.op = actor[a].op /\ R.proto = actor[a].proto
          /\ R.todo = actor[a].todo /\ R.at = actor[a].at
      BY <2>1 DEF Place
    <2> QED BY <2>2, <2>3
  <1> HIDE DEF R
  <1> QED BY <1>1, <1>2, MovesFacts

LEMMA ListSessionsFacts ==
  ASSUME PortTypeOK, NEW a \in Actor, ListSessions(a)
  PROVE  /\ actor' \in [Actor -> Place]
         /\ \A b \in Actor \ {a} : actor'[b] = actor[b]
         /\ actor[a].pc = "list" /\ actor'[a].pc = "edit"
         /\ actor'[a].op = actor[a].op /\ actor'[a].proto = actor[a].proto
         /\ actor'[a].todo = live \X {Wanted(a)}
         /\ Wanted(a) \in Service
  <1>1. actor[a] \in Place
    BY DEF PortTypeOK, Place
  <1>2. Wanted(a) \in Service
    BY <1>1 DEF Place, Wanted, Service
  <1>3. live \X {Wanted(a)} \in SUBSET (Session \X Service)
    BY <1>2 DEF PortTypeOK
  <1> DEFINE R == [actor[a] EXCEPT !.pc = "edit", !.todo = live \X {Wanted(a)}]
  <1>4. actor' = [actor EXCEPT ![a] = R] /\ actor[a].pc = "list"
    BY DEF ListSessions, Wanted
  <1>5. /\ R \in Place /\ R.pc = "edit" /\ R.op = actor[a].op /\ R.proto = actor[a].proto
        /\ R.todo = live \X {Wanted(a)}
    BY <1>1, <1>3 DEF Place
  <1> HIDE DEF R
  <1>6. actor' \in [Actor -> Place] /\ actor'[a] = R /\ \A b \in Actor \ {a} : actor'[b] = actor[b]
    BY <1>4, <1>5, MovesFacts
  <1> QED BY <1>2, <1>4, <1>5, <1>6

LEMMA ListRowsFacts ==
  ASSUME PortTypeOK, NEW s \in Session, ListRows(s)
  PROVE  /\ actor' \in [Actor -> Place]
         /\ \A b \in Actor \ {s} : actor'[b] = actor[b]
         /\ actor[s].pc = "rows" /\ actor'[s].pc = "edit"
         /\ actor'[s].op = actor[s].op /\ actor'[s].proto = actor[s].proto
         /\ actor'[s].todo = {s} \X Enabled
  <1>1. s \in Actor
    BY DEF Actor
  <1>2. actor[s] \in Place
    BY <1>1 DEF PortTypeOK, Place
  <1>3. {<<s, p>> : p \in Enabled} = {s} \X Enabled
    OBVIOUS
  <1>4. {s} \X Enabled \in SUBSET (Session \X Service)
    BY DEF Enabled, ListExposedServices, Service
  <1> DEFINE R == [actor[s] EXCEPT !.pc = "edit", !.todo = {<<s, p>> : p \in Enabled}]
  <1>5. actor' = [actor EXCEPT ![s] = R] /\ actor[s].pc = "rows"
    BY DEF ListRows, Enabled
  <1>6. /\ R \in Place /\ R.pc = "edit" /\ R.op = actor[s].op /\ R.proto = actor[s].proto
        /\ R.todo = {s} \X Enabled
    BY <1>2, <1>3, <1>4 DEF Place
  <1> HIDE DEF R
  <1>7. actor' \in [Actor -> Place] /\ actor'[s] = R /\ \A b \in Actor \ {s} : actor'[b] = actor[b]
    BY <1>1, <1>5, <1>6, MovesFacts
  <1> QED BY <1>5, <1>6, <1>7

LEMMA EditForwarderFacts ==
  ASSUME PortTypeOK, NEW a \in Actor, EditForwarder(a)
  PROVE  /\ actor' \in [Actor -> Place]
         /\ \A b \in Actor \ {a} : actor'[b] = actor[b]
         /\ actor[a].pc = "edit" /\ actor'[a].pc = "local"
         /\ actor'[a].op = actor[a].op /\ actor'[a].proto = actor[a].proto
         /\ actor'[a].at \in actor[a].todo
         /\ actor'[a].at \in Session \X Service
         /\ actor'[a].todo = actor[a].todo \ {actor'[a].at}
         /\ exposed' = IF actor'[a].at[2] = None THEN exposed \ {actor'[a].at[1]}
                       ELSE exposed \union {actor'[a].at[1]}
  <1>1. PICK e \in actor[a].todo :
          /\ actor[a].pc = "edit"
          /\ exposed' = IF e[2] = None THEN exposed \ {e[1]} ELSE exposed \union {e[1]}
          /\ actor' = [actor EXCEPT ![a].pc = "local", ![a].at = e, ![a].todo = @ \ {e}]
    BY DEF EditForwarder
  <1>2. actor[a] \in Place
    BY DEF PortTypeOK, Place
  <1>3. e \in Session \X Service /\ actor[a].todo \ {e} \in SUBSET (Session \X Service)
    BY <1>2 DEF Place
  <1> DEFINE R == [actor[a] EXCEPT !.pc = "local", !.at = e, !.todo = @ \ {e}]
  <1>4. actor' = [actor EXCEPT ![a] = R]
    BY <1>1
  <1>5. /\ R \in Place /\ R.pc = "local" /\ R.op = actor[a].op /\ R.proto = actor[a].proto
        /\ R.todo = actor[a].todo \ {e} /\ R.at = e
    BY <1>2, <1>3 DEF Place
  <1> HIDE DEF R
  <1>6. actor' \in [Actor -> Place] /\ actor'[a] = R /\ \A b \in Actor \ {a} : actor'[b] = actor[b]
    BY <1>4, <1>5, MovesFacts
  <1> QED BY <1>1, <1>3, <1>5, <1>6

LEMMA BroadcastFacts ==
  ASSUME PortTypeOK, NEW a \in Actor, Broadcast(a)
  PROVE  /\ actor' \in [Actor -> Place]
         /\ \A b \in Actor \ {a} : actor'[b] = actor[b]
         /\ actor[a].pc = "send" /\ actor'[a].pc = "edit"
         /\ actor'[a].op = actor[a].op /\ actor'[a].proto = actor[a].proto
         /\ actor'[a].todo = actor[a].todo
  <1>1. actor[a] \in Place
    BY DEF PortTypeOK, Place
  <1> DEFINE R == [actor[a] EXCEPT !.pc = "edit", !.at = <<>>]
  <1>2. actor' = [actor EXCEPT ![a] = R] /\ actor[a].pc = "send"
    BY DEF Broadcast
  <1>3. /\ R \in Place /\ R.pc = "edit" /\ R.op = actor[a].op /\ R.proto = actor[a].proto
        /\ R.todo = actor[a].todo
    BY <1>1 DEF Place
  <1> HIDE DEF R
  <1>4. actor' \in [Actor -> Place] /\ actor'[a] = R /\ \A b \in Actor \ {a} : actor'[b] = actor[b]
    BY <1>2, <1>3, MovesFacts
  <1> QED BY <1>2, <1>3, <1>4

\* A session that is left is restored no more.
LEMMA CloseFacts ==
  ASSUME PortTypeOK, NEW s \in Session, closeSession(s)
  PROVE  /\ actor' \in [Actor -> Place]
         /\ \A b \in Actor \ {s} : actor'[b] = actor[b]
         /\ actor'[s].pc = IF Runs(s) THEN actor[s].pc ELSE "done"
         /\ actor'[s].op = actor[s].op /\ actor'[s].proto = actor[s].proto
         /\ actor'[s].todo = actor[s].todo /\ actor'[s].at = actor[s].at
  <1>1. s \in Actor /\ actor[s].pc \in {"idle", "save", "rows", "list", "edit", "local", "send", "done"}
    BY DEF PortTypeOK, Actor
  <1> DEFINE pc == IF Runs(s) THEN actor[s].pc ELSE "done"
  <1>2. actor' = [actor EXCEPT ![s].pc = pc]
    BY <1>1 DEF closeSession
  <1>3. pc \in {"idle", "save", "rows", "list", "edit", "local", "send", "done"}
    BY <1>1
  <1> HIDE DEF pc
  <1>4. Goes(s, pc)
    BY <1>2 DEF Goes
  <1>5. /\ actor' \in [Actor -> Place]
        /\ \A b \in Actor \ {s} : actor'[b] = actor[b]
        /\ actor'[s].pc = pc /\ actor'[s].op = actor[s].op /\ actor'[s].proto = actor[s].proto
        /\ actor'[s].todo = actor[s].todo /\ actor'[s].at = actor[s].at
    BY <1>1, <1>3, <1>4, GoesFacts
  <1> QED BY <1>5 DEF pc


-----------------------------------------------------------------------------
(* Types.                                                                    *)

LEMMA CallsType ==
  ASSUME PortTypeOK, None \notin Proto, NEW c \in Call,
         \/ UnexposeService(c)
         \/ \E p \in Proto : ExposeService(c, p)
                             \/ \E op \in {"pause", "resume"} : SetExposeEnabled(c, p, op)
  PROVE  PortTypeOK'
  <1> USE DEF Place
  <1>1. c \in Actor /\ Proto \subseteq Service /\ None \in Service
    BY DEF Actor, Service
  <1>2. CASE UnexposeService(c)
    <2>1. Starts(c, "list", "unexpose", None)
      BY <1>2 DEF UnexposeService
    <2>2. actor' \in [Actor -> Place] /\ overlap' \in BOOLEAN
      BY <1>1, <2>1, StartsFacts
    <2> QED BY <1>2, <2>2 DEF UnexposeService, PortTypeOK, mesh
  <1>3. ASSUME NEW p \in Proto, ExposeService(c, p) PROVE PortTypeOK'
    <2>1. Starts(c, "list", "expose", p)
      BY <1>3 DEF ExposeService
    <2>2. actor' \in [Actor -> Place] /\ overlap' \in BOOLEAN
      BY <1>1, <2>1, StartsFacts
    <2>3. rows' \in [Proto -> {"none", "off", "on"}]
      BY <1>3 DEF ExposeService, SaveExposedService, PortTypeOK
    <2> QED BY <1>3, <2>2, <2>3 DEF ExposeService, PortTypeOK, mesh
  <1>4. ASSUME NEW p \in Proto, NEW op \in {"pause", "resume"}, SetExposeEnabled(c, p, op)
        PROVE  PortTypeOK'
    <2>1. Starts(c, "save", op, p)
      BY <1>4 DEF SetExposeEnabled
    <2>2. actor' \in [Actor -> Place] /\ overlap' \in BOOLEAN
      BY <1>1, <2>1, StartsFacts
    <2> QED BY <1>4, <2>2 DEF SetExposeEnabled, PortTypeOK, mesh
  <1> QED BY <1>2, <1>3, <1>4

LEMMA StepType ==
  ASSUME PortTypeOK, ActorRules, NEW a \in Actor, Step(a)
  PROVE  PortTypeOK'
  <1>1. CASE SaveRow(a)
    <2>1. actor' \in [Actor -> Place]
      BY <1>1, GoesFacts DEF SaveRow
    <2>2. rows' \in [Proto -> {"none", "off", "on"}]
      BY <1>1 DEF SaveRow, SaveExposedService, PortTypeOK
    <2> QED BY <1>1, <2>1, <2>2 DEF SaveRow, PortTypeOK, Place, mesh
  <1>2. CASE ListSessions(a)
    <2>1. actor' \in [Actor -> Place]
      BY <1>2, ListSessionsFacts
    <2> QED BY <1>2, <2>1 DEF ListSessions, PortTypeOK, Place, mesh
  <1>3. CASE EditForwarder(a)
    <2>1. /\ actor' \in [Actor -> Place] /\ actor'[a].at \in Session \X Service
          /\ exposed' = IF actor'[a].at[2] = None THEN exposed \ {actor'[a].at[1]}
                        ELSE exposed \union {actor'[a].at[1]}
      BY <1>3, EditForwarderFacts
    <2>2. exposed' \subseteq Session
      BY <2>1 DEF PortTypeOK
    <2> QED BY <1>3, <2>1, <2>2 DEF EditForwarder, PortTypeOK, Place, mesh
  <1>4. CASE EditLocal(a)
    <2>1. actor' \in [Actor -> Place]
      BY <1>4, GoesFacts DEF EditLocal
    <2>2. actor[a].at[1] \in Session /\ actor[a].at[2] \in Service
      BY <1>4 DEF EditLocal, ActorRules, Rules
    <2>3. local' \in [Session -> Service] /\ unsure' \subseteq Session
      BY <1>4, <2>2 DEF EditLocal, PortTypeOK
    <2> QED BY <1>4, <2>1, <2>3 DEF EditLocal, PortTypeOK, Place, mesh
  <1>5. CASE Broadcast(a)
    <2>1. actor' \in [Actor -> Place]
      BY <1>5, BroadcastFacts
    <2>2. actor[a].at[1] \in Session /\ actor[a].at[2] \in Service
      BY <1>5 DEF Broadcast, ActorRules, Rules
    <2>3. ctl' \in [Session -> Seq(Service)]
      BY <1>5, <2>2 DEF Broadcast, PortTypeOK
    <2> QED BY <1>5, <2>1, <2>3 DEF Broadcast, PortTypeOK, Place
  <1>6. CASE Finish(a)
    <2>1. actor' \in [Actor -> Place]
      BY <1>6, EndsFacts DEF Finish
    <2>2. rows' \in [Proto -> {"none", "off", "on"}]
      BY <1>6 DEF Finish, DeleteExposedService, PortTypeOK
    <2> QED BY <1>6, <2>1, <2>2 DEF Finish, PortTypeOK, Place, mesh
  <1> QED BY <1>1, <1>2, <1>3, <1>4, <1>5, <1>6 DEF Step

LEMMA SessionType ==
  ASSUME PortTypeOK, NEW s \in Session,
         \/ Restore(s) \/ ListRows(s) \/ PeerStep(s)
         \/ bringUpSession(s) \/ closeSession(s) \/ ChannelOpens(s) \/ DropControl(s)
  PROVE  PortTypeOK'
  <1>0. s \in Actor /\ None \in Service
    BY DEF Actor, Service
  <1>1. CASE Restore(s)
    <2>1. Starts(s, "rows", "restore", None)
      BY <1>1 DEF Restore
    <2>2. actor' \in [Actor -> Place] /\ overlap' \in BOOLEAN
      BY <1>0, <2>1, StartsFacts
    <2> QED BY <1>1, <2>2 DEF Restore, PortTypeOK, Place, mesh
  <1>2. CASE ListRows(s)
    <2>1. actor' \in [Actor -> Place]
      BY <1>2, ListRowsFacts
    <2> QED BY <1>2, <2>1 DEF ListRows, PortTypeOK, Place, mesh
  <1>3. CASE TakeSnapshot(s)
    BY <1>3 DEF TakeSnapshot, PortTypeOK
  <1>4. CASE Replay(s)
    <2>1. ctl' \in [Session -> Seq(Service)]
      BY <1>4 DEF Replay, PortTypeOK
    <2> QED BY <1>4, <2>1 DEF Replay, PortTypeOK
  <1>5. CASE handleControl(s)
    <2>1. ctl[s] \in Seq(Service) /\ ctl[s] # <<>>
      BY <1>5 DEF handleControl, PortTypeOK
    <2>2. Head(ctl[s]) \in Service /\ Tail(ctl[s]) \in Seq(Service)
      BY <2>1
    <2> QED BY <1>5, <2>2 DEF handleControl, PortTypeOK
  <1>6. CASE bringUpSession(s)
    BY <1>6 DEF bringUpSession, PortTypeOK, mesh
  <1>7. CASE closeSession(s)
    <2>1. actor' \in [Actor -> Place]
      BY <1>7, CloseFacts
    <2>2. /\ peer' \in [Session -> {"absent", "open", "replaying", "ready", "left"}]
          /\ ctl' \in [Session -> Seq(Service)] /\ live' \subseteq Session
      BY <1>7 DEF closeSession, PortTypeOK
    <2> QED BY <1>7, <2>1, <2>2 DEF closeSession, PortTypeOK, Place
  <1>8. CASE ChannelOpens(s)
    BY <1>8 DEF ChannelOpens, PortTypeOK
  <1>9. CASE DropControl(s)
    <2>1. Tail(ctl[s]) \in Seq(Service)
      BY <1>9 DEF DropControl, PortTypeOK
    <2> QED BY <1>9, <2>1 DEF DropControl, PortTypeOK
  <1> QED BY <1>1, <1>2, <1>3, <1>4, <1>5, <1>6, <1>7, <1>8, <1>9 DEF PeerStep

-----------------------------------------------------------------------------
(* What every call and restore is at.                                        *)

LEMMA OneMoves ==
  ASSUME ActorRules, NEW a \in Actor, \A b \in Actor \ {a} : actor'[b] = actor[b], Rules(a)'
  PROVE  ActorRules'
  <1> SUFFICES ASSUME NEW b \in Actor PROVE Rules(b)'
    BY DEF ActorRules
  <1>1. CASE b = a
    BY <1>1
  <1>2. CASE b # a
    <2>1. actor'[b] = actor[b]
      BY <1>2
    <2> QED BY <2>1 DEF ActorRules, Rules, Runs
  <1> QED BY <1>1, <1>2

LEMMA CallsRules ==
  ASSUME PortTypeOK, ActorRules, Call \intersect Session = {}, NEW c \in Call,
         \/ UnexposeService(c)
         \/ \E p \in Proto : ExposeService(c, p)
                             \/ \E op \in {"pause", "resume"} : SetExposeEnabled(c, p, op)
  PROVE  ActorRules'
  <1>1. c \in Actor /\ c \notin Session /\ Proto \subseteq Service /\ None \in Service
    BY DEF Actor, Service
  <1>2. ASSUME NEW pc \in {"list", "save"}, NEW op \in {"expose", "unexpose", "pause", "resume"},
               NEW proto \in Service, Starts(c, pc, op, proto),
               op # "unexpose" => proto \in Proto,
               pc = "save" => op \in {"pause", "resume"}
        PROVE  ActorRules'
    <2>1. /\ \A b \in Actor \ {c} : actor'[b] = actor[b]
          /\ actor'[c].pc = pc /\ actor'[c].op = op /\ actor'[c].proto = proto
      BY <1>1, <1>2, StartsFacts
    <2>2. Rules(c)'
      BY <1>1, <1>2, <2>1 DEF Rules, Runs
    <2> QED BY <1>1, <2>1, <2>2, OneMoves
  <1>3. CASE UnexposeService(c)
    BY <1>1, <1>2, <1>3 DEF UnexposeService
  <1>4. ASSUME NEW p \in Proto, ExposeService(c, p) PROVE ActorRules'
    BY <1>1, <1>2, <1>4 DEF ExposeService
  <1>5. ASSUME NEW p \in Proto, NEW op \in {"pause", "resume"}, SetExposeEnabled(c, p, op)
        PROVE  ActorRules'
    BY <1>1, <1>2, <1>5 DEF SetExposeEnabled
  <1> QED BY <1>3, <1>4, <1>5

LEMMA StepRules ==
  ASSUME PortTypeOK, ActorRules, NEW a \in Actor, Step(a)
  PROVE  ActorRules'
  <1>0. Rules(a)
    BY DEF ActorRules
  <1> SUFFICES (\A b \in Actor \ {a} : actor'[b] = actor[b]) /\ Rules(a)'
    BY OneMoves
  <1>1. CASE SaveRow(a)
    <2>1. actor[a].pc = "save" /\ Goes(a, "list")
      BY <1>1 DEF SaveRow
    <2> QED BY <1>0, <2>1, GoesFacts DEF Rules, Runs
  <1>2. CASE ListSessions(a)
    BY <1>0, <1>2, ListSessionsFacts DEF Rules, Runs
  <1>3. CASE EditForwarder(a)
    <2>1. /\ \A b \in Actor \ {a} : actor'[b] = actor[b]
          /\ actor[a].pc = "edit" /\ actor'[a].pc = "local"
          /\ actor'[a].op = actor[a].op /\ actor'[a].proto = actor[a].proto
          /\ actor'[a].at \in Session \X Service
          /\ actor'[a].at \notin actor'[a].todo
      BY <1>3, EditForwarderFacts
    <2> QED BY <1>0, <2>1 DEF Rules, Runs
  <1>4. CASE EditLocal(a)
    <2>1. actor[a].pc = "local" /\ Goes(a, "send")
      BY <1>4 DEF EditLocal
    <2> QED BY <1>0, <2>1, GoesFacts DEF Rules, Runs
  <1>5. CASE Broadcast(a)
    BY <1>0, <1>5, BroadcastFacts DEF Rules, Runs
  <1>6. CASE Finish(a)
    <2>1. Ends(a)
      BY <1>6 DEF Finish
    <2> QED BY <2>1, EndsFacts DEF Rules, Runs
  <1> QED BY <1>1, <1>2, <1>3, <1>4, <1>5, <1>6 DEF Step

LEMMA SessionRules ==
  ASSUME PortTypeOK, ActorRules, NEW s \in Session,
         \/ Restore(s) \/ ListRows(s) \/ PeerStep(s)
         \/ bringUpSession(s) \/ closeSession(s) \/ ChannelOpens(s) \/ DropControl(s)
  PROVE  ActorRules'
  <1>0. s \in Actor /\ None \in Service /\ Rules(s)
    BY DEF Actor, Service, ActorRules
  <1>1. CASE Restore(s)
    <2>1. Starts(s, "rows", "restore", None)
      BY <1>1 DEF Restore
    <2>2. /\ \A b \in Actor \ {s} : actor'[b] = actor[b]
          /\ actor'[s].pc = "rows" /\ actor'[s].op = "restore"
      BY <1>0, <2>1, StartsFacts
    <2>3. Rules(s)'
      BY <2>2 DEF Rules, Runs
    <2> QED BY <1>0, <2>2, <2>3, OneMoves
  <1>2. CASE ListRows(s)
    <2>1. /\ \A b \in Actor \ {s} : actor'[b] = actor[b]
          /\ actor[s].pc = "rows" /\ actor'[s].pc = "edit"
          /\ actor'[s].op = actor[s].op /\ actor'[s].proto = actor[s].proto
      BY <1>2, ListRowsFacts
    <2>2. Rules(s)'
      BY <1>0, <2>1 DEF Rules, Runs
    <2> QED BY <1>0, <2>1, <2>2, OneMoves
  <1>3. CASE closeSession(s)
    <2>1. /\ \A b \in Actor \ {s} : actor'[b] = actor[b]
          /\ actor'[s].pc = IF Runs(s) THEN actor[s].pc ELSE "done"
          /\ actor'[s].op = actor[s].op /\ actor'[s].proto = actor[s].proto
          /\ actor'[s].todo = actor[s].todo /\ actor'[s].at = actor[s].at
      BY <1>3, CloseFacts
    <2>2. Rules(s)'
      BY <1>0, <2>1 DEF Rules, Runs
    <2> QED BY <1>0, <2>1, <2>2, OneMoves
  <1>4. CASE PeerStep(s) \/ bringUpSession(s) \/ ChannelOpens(s) \/ DropControl(s)
    <2>1. actor' = actor
      BY <1>4 DEF PeerStep, TakeSnapshot, Replay, handleControl, bringUpSession, ChannelOpens, DropControl
    <2> QED BY <2>1 DEF ActorRules, Rules, Runs
  <1> QED BY <1>1, <1>2, <1>3, <1>4


-----------------------------------------------------------------------------
(* What the peers are told.                                                  *)

\* A frame that is written is the last to arrive, ...
LEMMA LastWritten ==
  ASSUME NEW q \in Seq(Service), NEW v \in Service, NEW w
  PROVE  LastOf(Append(q, v), w) = v
  <1>1. Append(q, v) # <<>> /\ Append(q, v)[Len(q) + 1] = v /\ Len(Append(q, v)) = Len(q) + 1
    BY AppendProperties
  <1> QED BY <1>1 DEF LastOf

\* ... and taking the first one off changes nothing about the last.
LEMMA LastStays ==
  ASSUME NEW q \in Seq(Service), NEW w, q # <<>>
  PROVE  LastOf(Tail(q), Head(q)) = LastOf(q, w)
  <1>1. /\ Tail(q) \in Seq(Service) /\ Len(Tail(q)) = Len(q) - 1 /\ Len(q) \in Nat \ {0}
        /\ \A i \in 1..Len(Tail(q)) : Tail(q)[i] = q[i + 1]
    BY HeadTailProperties, EmptySeq
  <1>2. Head(q) = q[1]
    OBVIOUS
  <1>3. CASE Tail(q) = <<>>
    <2>1. Len(q) = 1
      BY <1>1, <1>3
    <2> QED BY <1>2, <1>3, <2>1 DEF LastOf
  <1>4. CASE Tail(q) # <<>>
    <2>1. Len(Tail(q)) \in 1..Len(Tail(q)) /\ Len(Tail(q)) + 1 = Len(q)
      BY <1>1, <1>4, EmptySeq
    <2>2. Tail(q)[Len(Tail(q))] = q[Len(q)]
      BY <1>1, <2>1
    <2> QED BY <1>4, <2>2 DEF LastOf
  <1> QED BY <1>3, <1>4

\* A step that announces nothing, and leaves the channels as they are.
LEMMA NothingTold ==
  ASSUME PeerRules, UNCHANGED <<local, mesh, unsure>>,
         \A s \in live' : s \in live \/ actor[s].pc = "idle",
         \A b \in Actor : actor'[b] = actor[b] \/ (actor[b].pc # "send" /\ actor'[b].pc # "send"),
         \A s \in Session : actor[s].pc # "idle" => actor'[s].pc # "idle"
  PROVE  PeerRules'
  <1> SUFFICES ASSUME NEW s \in Session PROVE Told(s)'
    BY DEF PeerRules
  <1>1. Told(s)
    BY DEF PeerRules
  <1>2. \A b \in Actor : /\ Announces(b, s)' <=> Announces(b, s)
                         /\ Announces(b, s) => actor'[b] = actor[b]
    BY DEF Announces
  <1>3. Final(s)' = Final(s)
    BY DEF Final, mesh
  <1> QED BY <1>1, <1>2, <1>3 DEF Told, mesh

LEMMA CallsTold ==
  ASSUME PortTypeOK, PeerRules, None \notin Proto, NEW c \in Call,
         \/ UnexposeService(c)
         \/ \E p \in Proto : ExposeService(c, p)
                             \/ \E op \in {"pause", "resume"} : SetExposeEnabled(c, p, op)
  PROVE  PeerRules'
  <1>1. c \in Actor /\ Proto \subseteq Service /\ None \in Service
    BY DEF Actor, Service
  <1>2. /\ UNCHANGED <<live, local, mesh, unsure>>
        /\ \E pc \in {"list", "save"}, op \in {"expose", "unexpose", "pause", "resume"},
              proto \in Service : Starts(c, pc, op, proto)
    BY <1>1 DEF UnexposeService, ExposeService, SetExposeEnabled
  <1>3. /\ \A b \in Actor \ {c} : actor'[b] = actor[b]
        /\ actor[c].pc = "idle" /\ actor'[c].pc \in {"list", "save"}
    BY <1>1, <1>2, StartsFacts
  <1>4. \A b \in Actor : actor'[b] = actor[b] \/ (actor[b].pc # "send" /\ actor'[b].pc # "send")
    BY <1>3
  <1>5. \A s \in Session : actor[s].pc # "idle" => actor'[s].pc # "idle"
    BY <1>3 DEF Actor
  <1> QED BY <1>2, <1>4, <1>5, NothingTold

LEMMA EditLocalTold ==
  ASSUME PortTypeOK, ActorRules, PeerRules, NEW a \in Actor, EditLocal(a)
  PROVE  PeerRules'
  <1>2. actor[a].at[1] \in Session /\ actor[a].at[2] \in Service
    BY DEF EditLocal, ActorRules, Rules
  <1>8. PICK t \in Session : t = actor[a].at[1]
    BY <1>2
  <1>1. /\ actor[a].pc = "local" /\ Goes(a, "send")
        /\ local' = [local EXCEPT ![t] = actor[a].at[2]]
        /\ unsure' = IF peer[t] = "replaying"
                          \/ \E b \in Actor \ {a} : actor[b].pc = "send" /\ actor[b].at[1] = t
                     THEN unsure \union {t} ELSE unsure
        /\ UNCHANGED <<live, mesh>>
    BY <1>8 DEF EditLocal
  <1>3. /\ \A b \in Actor \ {a} : actor'[b] = actor[b]
        /\ actor'[a].pc = "send" /\ actor'[a].at = actor[a].at
    BY <1>1, GoesFacts
  <1>4. /\ local'[t] = actor[a].at[2]
        /\ \A s \in Session \ {t} : local'[s] = local[s]
    BY <1>1, <1>2 DEF PortTypeOK
  <1> SUFFICES ASSUME NEW s \in Session PROVE Told(s)'
    BY DEF PeerRules
  <1>5. Told(s) /\ s \in Actor
    BY DEF PeerRules, Actor
  <1>6. Final(s)' = Final(s) /\ UNCHANGED <<peer, ctl, view, replay, live>>
    BY <1>1 DEF Final, mesh
  <1>7. actor[s].pc # "idle" => actor'[s].pc # "idle"
    BY <1>3, <1>5
  <1>9. CASE s # t
    <2>1. \A b \in Actor : /\ Announces(b, s)' <=> Announces(b, s)
                           /\ Announces(b, s) => actor'[b] = actor[b]
      BY <1>1, <1>3, <1>8, <1>9 DEF Announces
    <2>2. local'[s] = local[s] /\ (s \in unsure' <=> s \in unsure)
      BY <1>1, <1>4, <1>9
    <2> QED BY <1>5, <1>6, <1>7, <2>1, <2>2 DEF Told
  <1>10. CASE s = t
    <2>1. Announces(a, s)'
      BY <1>3, <1>8, <1>10 DEF Announces
    <2>2. ASSUME s \notin unsure'
          PROVE  /\ peer[s] # "replaying"
                 /\ \A b \in Actor : Announces(b, s)' => b = a
      BY <1>1, <1>3, <1>10, <2>2 DEF Announces
    <2>3. ASSUME s \notin unsure' PROVE \A b \in Actor : Announces(b, s)' => actor'[b].at[2] = local'[s]
      BY <1>3, <1>4, <1>10, <2>2, <2>3
    <2> QED BY <1>5, <1>6, <1>7, <2>1, <2>2, <2>3 DEF Told
  <1> QED BY <1>9, <1>10

LEMMA BroadcastTold ==
  ASSUME PortTypeOK, ActorRules, PeerRules, NEW a \in Actor, Broadcast(a)
  PROVE  PeerRules'
  <1>0. actor[a].at[1] \in Session /\ actor[a].at[2] \in Service
    BY DEF Broadcast, ActorRules, Rules
  <1>5. PICK t \in Session : t = actor[a].at[1]
    BY <1>0
  <1>1. /\ actor[a].pc = "send"
        /\ ctl' = IF peer[t] \in {"open", "replaying", "ready"}
                  THEN [ctl EXCEPT ![t] = Append(@, actor[a].at[2])] ELSE ctl
        /\ UNCHANGED <<live, local, peer, replay, view, unsure>>
    BY <1>5 DEF Broadcast
  <1>3. /\ \A b \in Actor \ {a} : actor'[b] = actor[b]
        /\ actor'[a].pc = "edit"
    BY BroadcastFacts
  <1>4. /\ peer[t] \in {"open", "replaying", "ready"} => ctl'[t] = Append(ctl[t], actor[a].at[2])
        /\ peer[t] \notin {"open", "replaying", "ready"} => ctl'[t] = ctl[t]
        /\ \A s \in Session \ {t} : ctl'[s] = ctl[s]
    BY <1>1 DEF PortTypeOK
  <1>6. peer[t] \in {"open", "replaying", "ready"} => Final(t)' = actor[a].at[2]
    <2> SUFFICES ASSUME peer[t] \in {"open", "replaying", "ready"} PROVE Final(t)' = actor[a].at[2]
      OBVIOUS
    <2>1. ctl'[t] = Append(ctl[t], actor[a].at[2]) /\ ctl[t] \in Seq(Service)
      BY <1>4 DEF PortTypeOK
    <2> QED BY <1>0, <2>1, LastWritten DEF Final
  <1> SUFFICES ASSUME NEW s \in Session PROVE Told(s)'
    BY DEF PeerRules
  <1>7. Told(s) /\ s \in Actor
    BY DEF PeerRules, Actor
  <1>8. actor[s].pc # "idle" => actor'[s].pc # "idle"
    BY <1>3, <1>7
  <1>9. CASE s # t
    <2>1. \A b \in Actor : /\ Announces(b, s)' <=> Announces(b, s)
                           /\ Announces(b, s) => actor'[b] = actor[b]
      BY <1>3, <1>5, <1>9 DEF Announces
    <2>2. ctl'[s] = ctl[s] /\ Final(s)' = Final(s)
      BY <1>1, <1>4, <1>9 DEF Final
    <2> QED BY <1>1, <1>7, <1>8, <2>1, <2>2 DEF Told
  <1>10. CASE s = t
    <2>1. \A b \in Actor : Announces(b, s)' => Announces(b, s) /\ actor'[b] = actor[b]
      BY <1>3 DEF Announces
    <2>2. Announces(a, s)
      BY <1>1, <1>5, <1>10 DEF Announces
    <2>3. s \notin unsure /\ peer[s] # "left" => actor[a].at[2] = local[s]
      BY <1>7, <2>2 DEF Told
    <2>4. peer[s] = "absent" => ctl'[s] = ctl[s]
      BY <1>4, <1>10
    <2>5. peer[s] \in {"open", "replaying", "ready"} => Final(s)' = actor[a].at[2]
      BY <1>6, <1>10 DEF Final
    <2>6. UNCHANGED <<peer[s], view[s], replay[s], local[s], live, unsure>>
      BY <1>1
    <2>7. (peer[s] = "absent" => view[s] = None /\ ctl[s] = <<>>)'
      BY <1>7, <2>4, <2>6 DEF Told
    <2>8. (peer[s] = "left" => s \notin live /\ actor[s].pc # "idle")'
      BY <1>7, <1>8, <2>6 DEF Told
    <2>9. ASSUME s \notin unsure, peer[s] # "left"
          PROVE  /\ \A b \in Actor : Announces(b, s)' => actor'[b].at[2] = local[s]
                 /\ peer[s] = "replaying" => replay[s] = local[s]
                 /\ peer[s] \in {"open", "replaying", "ready"} => Final(s)' = local[s]
      BY <1>7, <2>1, <2>3, <2>5, <2>9 DEF Told
    <2> QED BY <2>6, <2>7, <2>8, <2>9 DEF Told
  <1> QED BY <1>9, <1>10

LEMMA StepTold ==
  ASSUME PortTypeOK, ActorRules, PeerRules, NEW a \in Actor, Step(a)
  PROVE  PeerRules'
  <1>1. CASE EditLocal(a)
    BY <1>1, EditLocalTold
  <1>2. CASE Broadcast(a)
    BY <1>2, BroadcastTold
  <1>3. CASE SaveRow(a) \/ ListSessions(a) \/ EditForwarder(a) \/ Finish(a)
    <2>1. /\ \A b \in Actor \ {a} : actor'[b] = actor[b]
          /\ actor[a].pc \in {"save", "list", "edit"}
          /\ actor'[a].pc \in {"list", "edit", "local", "done"}
      <3>1. CASE SaveRow(a)
        BY <3>1, GoesFacts DEF SaveRow
      <3>2. CASE ListSessions(a)
        BY <3>2, ListSessionsFacts
      <3>3. CASE EditForwarder(a)
        BY <3>3, EditForwarderFacts
      <3>4. CASE Finish(a)
        BY <3>4, EndsFacts DEF Finish
      <3> QED BY <1>3, <3>1, <3>2, <3>3, <3>4
    <2>2. UNCHANGED <<live, local, mesh, unsure>>
      BY <1>3 DEF SaveRow, ListSessions, EditForwarder, Finish
    <2>3. \A b \in Actor : actor'[b] = actor[b] \/ (actor[b].pc # "send" /\ actor'[b].pc # "send")
      BY <2>1
    <2>4. \A s \in Session : actor[s].pc # "idle" => actor'[s].pc # "idle"
      BY <2>1 DEF Actor
    <2> QED BY <2>2, <2>3, <2>4, NothingTold
  <1> QED BY <1>1, <1>2, <1>3 DEF Step

LEMMA SessionTold ==
  ASSUME PortTypeOK, PeerRules, NEW s \in Session,
         \/ Restore(s) \/ ListRows(s) \/ PeerStep(s)
         \/ bringUpSession(s) \/ closeSession(s) \/ ChannelOpens(s) \/ DropControl(s)
  PROVE  PeerRules'
  <1>0. s \in Actor /\ None \in Service /\ Told(s)
    BY DEF Actor, Service, PeerRules
  <1>1. CASE Restore(s) \/ ListRows(s)
    <2>1. /\ \A b \in Actor \ {s} : actor'[b] = actor[b]
          /\ actor[s].pc \in {"idle", "rows"} /\ actor'[s].pc \in {"rows", "edit"}
      <3>1. CASE Restore(s)
        <4>1. Starts(s, "rows", "restore", None)
          BY <3>1 DEF Restore
        <4> QED BY <1>0, <4>1, StartsFacts
      <3>2. CASE ListRows(s)
        BY <3>2, ListRowsFacts
      <3> QED BY <1>1, <3>1, <3>2
    <2>2. UNCHANGED <<live, local, mesh, unsure>>
      BY <1>1 DEF Restore, ListRows
    <2>3. \A b \in Actor : actor'[b] = actor[b] \/ (actor[b].pc # "send" /\ actor'[b].pc # "send")
      BY <2>1
    <2>4. \A r \in Session : actor[r].pc # "idle" => actor'[r].pc # "idle"
      BY <2>1 DEF Actor
    <2> QED BY <2>2, <2>3, <2>4, NothingTold
  <1>2. CASE bringUpSession(s)
    BY <1>2, NothingTold DEF bringUpSession
  <1>3. CASE closeSession(s)
    <2>1. /\ \A b \in Actor \ {s} : actor'[b] = actor[b]
          /\ actor'[s].pc = IF Runs(s) THEN actor[s].pc ELSE "done"
          /\ actor'[s].op = actor[s].op /\ actor'[s].proto = actor[s].proto
          /\ actor'[s].todo = actor[s].todo /\ actor'[s].at = actor[s].at
      BY <1>3, CloseFacts
    <2>2. \A b \in Actor : /\ actor'[b].pc = "send" <=> actor[b].pc = "send"
                           /\ actor'[b].at = actor[b].at
                           /\ actor[b].pc # "idle" => actor'[b].pc # "idle"
      BY <2>1 DEF Runs
    <2>3. actor'[s].pc # "idle"
      BY <2>1 DEF Runs
    <2>4. /\ live' = live \ {s} /\ peer'[s] = "left"
          /\ \A r \in Session \ {s} : peer'[r] = peer[r] /\ ctl'[r] = ctl[r]
          /\ UNCHANGED <<local, replay, view, unsure>>
      BY <1>3 DEF closeSession, PortTypeOK
    <2> SUFFICES ASSUME NEW r \in Session PROVE Told(r)'
      BY DEF PeerRules
    <2>5. \A b \in Actor : Announces(b, r)' <=> Announces(b, r)
      BY <2>2 DEF Announces
    <2>6. Told(r) /\ r \in Actor
      BY DEF PeerRules, Actor
    <2>7. CASE r = s
      BY <2>3, <2>4, <2>7 DEF Told
    <2>8. CASE r # s
      <3>1. Final(r)' = Final(r)
        BY <2>4, <2>8 DEF Final
      <3> QED BY <2>2, <2>4, <2>5, <2>6, <2>8, <3>1 DEF Told
    <2> QED BY <2>7, <2>8
  <1>4. CASE PeerStep(s) \/ ChannelOpens(s) \/ DropControl(s)
    <2>1. /\ UNCHANGED <<live, local, actor>>
          /\ unsure \subseteq unsure'
          /\ \A r \in Session \ {s} :
               /\ peer'[r] = peer[r] /\ replay'[r] = replay[r] /\ ctl'[r] = ctl[r] /\ view'[r] = view[r]
               /\ r \in unsure <=> r \in unsure'
      BY <1>4 DEF PeerStep, TakeSnapshot, Replay, handleControl, ChannelOpens, DropControl, PortTypeOK
    <2>2. \A b \in Actor, r \in Session : Announces(b, r)' <=> Announces(b, r)
      BY <2>1 DEF Announces
    <2>3. ASSUME NEW r \in Session \ {s} PROVE Told(r)'
      <3>1. Told(r)
        BY DEF PeerRules
      <3>2. Final(r)' = Final(r)
        BY <2>1 DEF Final
      <3> QED BY <2>1, <2>2, <3>1, <3>2 DEF Told
    <2> SUFFICES Told(s)'
      BY <2>3 DEF PeerRules
    <2>4. CASE ChannelOpens(s)
      <3>1. /\ peer[s] = "absent" /\ peer'[s] = "open"
            /\ UNCHANGED <<replay, ctl, view, unsure>>
        BY <2>4 DEF ChannelOpens, PortTypeOK
      <3>2. view[s] = None /\ ctl[s] = <<>>
        BY <1>0, <3>1 DEF Told
      <3>3. Final(s)' = None
        BY <3>1, <3>2 DEF Final, LastOf
      <3> QED BY <1>0, <2>1, <2>2, <3>1, <3>3 DEF Told
    <2>5. CASE TakeSnapshot(s)
      <3>1. /\ peer[s] = "open" /\ peer'[s] = "replaying" /\ replay'[s] = local[s]
            /\ UNCHANGED <<ctl, view, unsure>>
        BY <2>5 DEF TakeSnapshot, PortTypeOK
      <3>2. Final(s)' = Final(s)
        BY <3>1 DEF Final
      <3> QED BY <1>0, <2>1, <2>2, <3>1, <3>2 DEF Told
    <2>6. CASE Replay(s)
      <3>1. /\ peer[s] = "replaying" /\ peer'[s] = "ready"
            /\ UNCHANGED <<replay, view, unsure>>
            /\ ctl'[s] = IF replay[s] = None THEN ctl[s] ELSE Append(ctl[s], replay[s])
            /\ replay[s] \in Service /\ ctl[s] \in Seq(Service)
        BY <2>6 DEF Replay, PortTypeOK
      <3>2. CASE replay[s] = None
        <4>1. Final(s)' = Final(s)
          BY <3>1, <3>2 DEF Final
        <4> QED BY <1>0, <2>1, <2>2, <3>1, <3>2, <4>1 DEF Told
      <3>3. CASE replay[s] # None
        <4>1. Final(s)' = replay[s]
          BY <3>1, <3>3, LastWritten DEF Final
        <4> QED BY <1>0, <2>1, <2>2, <3>1, <3>3, <4>1 DEF Told
      <3> QED BY <3>2, <3>3
    <2>7. CASE handleControl(s)
      <3>1. /\ ctl[s] # <<>> /\ ctl[s] \in Seq(Service)
            /\ ctl'[s] = Tail(ctl[s]) /\ view'[s] = Head(ctl[s])
            /\ UNCHANGED <<peer, replay, unsure>>
        BY <2>7 DEF handleControl, PortTypeOK
      <3>2. Final(s)' = Final(s)
        BY <3>1, LastStays DEF Final
      <3>3. peer[s] # "absent"
        BY <1>0, <3>1 DEF Told
      <3> QED BY <1>0, <2>1, <2>2, <3>1, <3>2, <3>3 DEF Told
    <2>8. CASE DropControl(s)
      <3>1. ctl[s] # <<>> /\ s \in unsure' /\ UNCHANGED peer
        BY <2>8 DEF DropControl
      <3>2. peer[s] # "absent"
        BY <1>0, <3>1 DEF Told
      <3> QED BY <1>0, <2>1, <2>2, <3>1, <3>2 DEF Told
    <2> QED BY <1>4, <2>4, <2>5, <2>6, <2>7, <2>8 DEF PeerStep
  <1> QED BY <1>1, <1>2, <1>3, <1>4


-----------------------------------------------------------------------------
(* What a session shares while no two calls or restores overlap.             *)

\* When a is the one that runs, its own place is all there is to see.
LEMMA OnlyRunner ==
  ASSUME NEW a \in Actor,
         \A b \in Actor \ {a} : actor'[b] = actor[b] /\ ~Runs(b),
         Runs(a)',
         a \in Session => RestoreGoesOn(a)',
         a \notin Session => CallGoesOn(a)'
  PROVE  Alone' /\ AtRest' /\ GoesOn'
  <1>1. \A b \in Actor : Runs(b)' => b = a
    BY DEF Runs
  <1> QED BY <1>1 DEF Alone, AtRest, GoesOn

\* A step of a that neither shares nor takes up anything for the sessions that
\* are not up.
LEMMA StaysUnreached ==
  ASSUME Unreached, NEW a \in Actor, live' = live,
         \A b \in Actor \ {a} : actor'[b] = actor[b],
         actor'[a].pc # "idle",
         \A e \in actor'[a].todo : e \in actor[a].todo \/ e[1] \in live \/ e[1] = a,
         actor'[a].pc \in {"local", "send"} =>
            \/ actor'[a].at \in actor[a].todo
            \/ actor[a].pc \in {"local", "send"} /\ actor'[a].at = actor[a].at,
         \A s \in Session \ live :
            actor[s].pc = "idle" => (s \in exposed' => s \in exposed) /\ local'[s] = local[s]
  PROVE  Unreached'
  <1> SUFFICES ASSUME NEW s \in Session, s \notin live, actor'[s].pc = "idle"
               PROVE  /\ s \notin exposed' /\ local'[s] = None
                      /\ \A b \in Actor :
                           /\ \A e \in actor'[b].todo : e[1] # s
                           /\ actor'[b].pc \in {"local", "send"} => actor'[b].at[1] # s
    BY DEF Unreached
  <1>1. s # a /\ s \in Actor /\ actor[s].pc = "idle"
    BY DEF Actor
  <1>2. /\ s \notin exposed /\ local[s] = None
        /\ \A b \in Actor :
             /\ \A e \in actor[b].todo : e[1] # s
             /\ actor[b].pc \in {"local", "send"} => actor[b].at[1] # s
    BY <1>1 DEF Unreached
  <1>3. \A b \in Actor :
          /\ \A e \in actor'[b].todo : e[1] # s
          /\ actor'[b].pc \in {"local", "send"} => actor'[b].at[1] # s
    <2> SUFFICES ASSUME NEW b \in Actor
                 PROVE  /\ \A e \in actor'[b].todo : e[1] # s
                        /\ actor'[b].pc \in {"local", "send"} => actor'[b].at[1] # s
      OBVIOUS
    <2>1. CASE b = a
      BY <1>1, <1>2, <2>1
    <2>2. CASE b # a
      BY <1>2, <2>2
    <2> QED BY <2>1, <2>2
  <1> QED BY <1>1, <1>2, <1>3

\* What the rules say of a call or a restore that runs alone.
LEMMA RunsAlone ==
  ASSUME AloneRules, ~overlap, NEW a \in Actor, Runs(a)
  PROVE  /\ Unreached
         /\ \A b \in Actor \ {a} : ~Runs(b)
         /\ a \in Session => RestoreGoesOn(a)
         /\ a \notin Session => CallGoesOn(a)
  BY DEF AloneRules, Alone, GoesOn

LEMMA ExposeAlone ==
  ASSUME PortTypeOK, AloneRules, Call \intersect Session = {}, None \notin Proto,
         NEW c \in Call, NEW p \in Proto, ExposeService(c, p)
  PROVE  AloneRules'
  <1> SUFFICES ASSUME ~overlap' PROVE Alone' /\ Unreached' /\ AtRest' /\ GoesOn'
    BY DEF AloneRules
  <1>1. c \in Actor /\ c \notin Session /\ p \in Service
    BY DEF Actor, Service
  <1>2. Starts(c, "list", "expose", p) /\ UNCHANGED <<live, exposed, local>>
    BY DEF ExposeService
  <1>3. /\ \A b \in Actor \ {c} : actor'[b] = actor[b]
        /\ actor'[c].pc = "list" /\ actor'[c].op = "expose"
        /\ actor'[c].proto = p /\ actor'[c].todo = {}
        /\ ~overlap /\ \A b \in Actor : ~Runs(b)
    BY <1>1, <1>2, StartsFacts
  <1>4. Unreached /\ \A s \in live : Tidy(s)
    BY <1>3 DEF AloneRules, AtRest, Agrees
  <1>5. rows'[p] = "on"
    BY DEF ExposeService, SaveExposedService, PortTypeOK
  <1>6. CallGoesOn(c)'
    BY <1>2, <1>3, <1>4, <1>5 DEF CallGoesOn, RowFits, Tidy
  <1>7. Alone' /\ AtRest' /\ GoesOn'
    BY <1>1, <1>3, <1>6, OnlyRunner DEF Runs
  <1>8. Unreached'
    BY <1>1, <1>2, <1>3, <1>4, StaysUnreached
  <1> QED BY <1>7, <1>8

LEMMA UnexposeAlone ==
  ASSUME PortTypeOK, AloneRules, Call \intersect Session = {}, NEW c \in Call, UnexposeService(c)
  PROVE  AloneRules'
  <1> SUFFICES ASSUME ~overlap' PROVE Alone' /\ Unreached' /\ AtRest' /\ GoesOn'
    BY DEF AloneRules
  <1>1. c \in Actor /\ c \notin Session /\ None \in Service
    BY DEF Actor, Service
  <1>2. Starts(c, "list", "unexpose", None) /\ UNCHANGED <<live, exposed, local>>
    BY DEF UnexposeService
  <1>3. /\ \A b \in Actor \ {c} : actor'[b] = actor[b]
        /\ actor'[c].pc = "list" /\ actor'[c].op = "unexpose" /\ actor'[c].todo = {}
        /\ ~overlap /\ \A b \in Actor : ~Runs(b)
    BY <1>1, <1>2, StartsFacts
  <1>4. Unreached /\ \A s \in live : Tidy(s)
    BY <1>3 DEF AloneRules, AtRest, Agrees
  <1>6. CallGoesOn(c)'
    BY <1>2, <1>3, <1>4 DEF CallGoesOn, RowFits, Tidy
  <1>7. Alone' /\ AtRest' /\ GoesOn'
    BY <1>1, <1>3, <1>6, OnlyRunner DEF Runs
  <1>8. Unreached'
    BY <1>1, <1>2, <1>3, <1>4, StaysUnreached
  <1> QED BY <1>7, <1>8

LEMMA SetEnabledAlone ==
  ASSUME PortTypeOK, AloneRules, Call \intersect Session = {},
         NEW c \in Call, NEW p \in Proto, NEW op \in {"pause", "resume"}, SetExposeEnabled(c, p, op)
  PROVE  AloneRules'
  <1> SUFFICES ASSUME ~overlap' PROVE Alone' /\ Unreached' /\ AtRest' /\ GoesOn'
    BY DEF AloneRules
  <1>1. c \in Actor /\ c \notin Session /\ p \in Service
    BY DEF Actor, Service
  <1>2. Starts(c, "save", op, p) /\ UNCHANGED <<rows, live, exposed, local>>
    BY DEF SetExposeEnabled
  <1>3. /\ \A b \in Actor \ {c} : actor'[b] = actor[b]
        /\ actor'[c].pc = "save" /\ actor'[c].todo = {}
        /\ ~overlap /\ \A b \in Actor : ~Runs(b)
    BY <1>1, <1>2, StartsFacts
  <1>4. Unreached /\ \A s \in live : Agrees(s)
    BY <1>3 DEF AloneRules, AtRest
  <1>5. \A s \in live : Agrees(s)'
    <2> SUFFICES ASSUME NEW s \in live PROVE Agrees(s)'
      OBVIOUS
    <2>1. actor'[s] = actor[s]
      BY <1>1, <1>3 DEF PortTypeOK, Actor
    <2> QED BY <1>2, <1>4, <2>1 DEF Agrees, Tidy, AsSaved, Enabled, ListExposedServices
  <1>6. CallGoesOn(c)'
    BY <1>2, <1>3, <1>5 DEF CallGoesOn
  <1>7. Alone' /\ AtRest' /\ GoesOn'
    BY <1>1, <1>3, <1>6, OnlyRunner DEF Runs
  <1>8. Unreached'
    BY <1>1, <1>2, <1>3, <1>4, StaysUnreached
  <1> QED BY <1>7, <1>8

LEMMA SaveRowAlone ==
  ASSUME PortTypeOK, ActorRules, AloneRules, NEW a \in Actor, SaveRow(a)
  PROVE  AloneRules'
  <1> SUFFICES ASSUME ~overlap' PROVE Alone' /\ Unreached' /\ AtRest' /\ GoesOn'
    BY DEF AloneRules
  <1>1. /\ actor[a].pc = "save" /\ Goes(a, "list")
        /\ SaveExposedService(actor[a].proto, IF actor[a].op = "pause" THEN "off" ELSE "on")
        /\ UNCHANGED <<live, exposed, local, overlap>>
    BY DEF SaveRow
  <1>2. /\ \A b \in Actor \ {a} : actor'[b] = actor[b]
        /\ actor'[a].pc = "list" /\ actor'[a].op = actor[a].op
        /\ actor'[a].proto = actor[a].proto /\ actor'[a].todo = actor[a].todo
    BY <1>1, GoesFacts
  <1>3. Runs(a) /\ a \notin Session /\ actor[a].op \in {"pause", "resume"} /\ actor[a].proto \in Proto
    BY <1>1 DEF ActorRules, Rules, Runs
  <1>4. /\ Unreached /\ \A b \in Actor \ {a} : ~Runs(b)
        /\ \A s \in live : Tidy(s)
    BY <1>1, <1>3, RunsAlone DEF CallGoesOn, Agrees
  <1>5. rows'[actor[a].proto] = IF actor[a].op = "pause" THEN "off" ELSE "on"
    BY <1>1, <1>3 DEF SaveExposedService, PortTypeOK
  <1>6. RowFits(a)'
    BY <1>2, <1>3, <1>5 DEF RowFits
  <1>7. CallGoesOn(a)'
    BY <1>1, <1>2, <1>4, <1>6 DEF CallGoesOn, Tidy
  <1>8. Alone' /\ AtRest' /\ GoesOn'
    BY <1>2, <1>3, <1>4, <1>7, OnlyRunner DEF Runs
  <1>9. Unreached'
    BY <1>1, <1>2, <1>4, StaysUnreached
  <1> QED BY <1>8, <1>9

LEMMA ListSessionsAlone ==
  ASSUME PortTypeOK, ActorRules, AloneRules, NEW a \in Actor, ListSessions(a)
  PROVE  AloneRules'
  <1> SUFFICES ASSUME ~overlap' PROVE Alone' /\ Unreached' /\ AtRest' /\ GoesOn'
    BY DEF AloneRules
  <1>1. UNCHANGED <<rows, live, exposed, local, overlap>>
    BY DEF ListSessions
  <1>2. /\ \A b \in Actor \ {a} : actor'[b] = actor[b]
        /\ actor[a].pc = "list" /\ actor'[a].pc = "edit"
        /\ actor'[a].op = actor[a].op /\ actor'[a].proto = actor[a].proto
        /\ actor'[a].todo = live \X {Wanted(a)} /\ Wanted(a) \in Service
    BY ListSessionsFacts
  <1>3. Runs(a) /\ a \notin Session
    BY <1>2 DEF ActorRules, Rules, Runs
  <1>4. /\ Unreached /\ \A b \in Actor \ {a} : ~Runs(b)
        /\ RowFits(a) /\ \A s \in live : Tidy(s)
    BY <1>1, <1>2, <1>3, RunsAlone DEF CallGoesOn
  <1>5. Wanted(a)' = Wanted(a) /\ RowFits(a)'
    BY <1>1, <1>2, <1>4 DEF Wanted, RowFits
  <1>6. \A s \in live : Walked(a, s)'
    <2> SUFFICES ASSUME NEW s \in live PROVE Walked(a, s)'
      OBVIOUS
    <2>1. <<s, Wanted(a)>> \in actor'[a].todo
      BY <1>2
    <2> QED BY <1>1, <1>4, <1>5, <2>1 DEF Walked, Tidy
  <1>7. actor'[a].todo \subseteq Session \X {Wanted(a)}
    BY <1>2 DEF PortTypeOK
  <1>8. CallGoesOn(a)'
    BY <1>1, <1>2, <1>5, <1>6, <1>7 DEF CallGoesOn
  <1>9. Alone' /\ AtRest' /\ GoesOn'
    BY <1>2, <1>3, <1>4, <1>8, OnlyRunner DEF Runs
  <1>10. Unreached'
    BY <1>1, <1>2, <1>4, StaysUnreached
  <1> QED BY <1>9, <1>10


LEMMA RestoreAlone ==
  ASSUME PortTypeOK, AloneRules, NEW s \in Session, Restore(s)
  PROVE  AloneRules'
  <1> SUFFICES ASSUME ~overlap' PROVE Alone' /\ Unreached' /\ AtRest' /\ GoesOn'
    BY DEF AloneRules
  <1>1. s \in Actor /\ None \in Service
    BY DEF Actor, Service
  <1>2. Starts(s, "rows", "restore", None) /\ UNCHANGED <<rows, live, exposed, local>>
    BY DEF Restore
  <1>3. /\ \A b \in Actor \ {s} : actor'[b] = actor[b]
        /\ actor'[s].pc = "rows" /\ actor'[s].todo = {}
        /\ ~overlap /\ \A b \in Actor : ~Runs(b)
    BY <1>1, <1>2, StartsFacts
  <1>4. Unreached /\ \A r \in live : Agrees(r)
    BY <1>3 DEF AloneRules, AtRest
  <1>5. \A r \in live : Agrees(r)'
    <2> SUFFICES ASSUME NEW r \in live PROVE Agrees(r)'
      OBVIOUS
    <2>1. r \in Actor
      BY DEF PortTypeOK, Actor
    <2>2. actor'[r].pc = "done" => actor[r].pc = "done"
      BY <1>3, <2>1
    <2> QED BY <1>2, <1>4, <2>2 DEF Agrees, Tidy, AsSaved, Enabled, ListExposedServices
  <1>6. RestoreGoesOn(s)'
    BY <1>2, <1>3, <1>5 DEF RestoreGoesOn
  <1>7. Alone' /\ AtRest' /\ GoesOn'
    BY <1>1, <1>3, <1>6, OnlyRunner DEF Runs
  <1>8. Unreached'
    BY <1>1, <1>2, <1>3, <1>4, StaysUnreached
  <1> QED BY <1>7, <1>8

\* What the other sessions share is nothing to a restore.
LEMMA OthersAgree ==
  ASSUME PortTypeOK, NEW a \in Actor, live' = live, rows' = rows,
         \A b \in Actor \ {a} : actor'[b] = actor[b],
         \A s \in live \ {a} : Agrees(s),
         \A s \in live \ {a} : (s \in exposed' <=> s \in exposed) /\ local'[s] = local[s]
  PROVE  \A s \in live \ {a} : Agrees(s)'
  <1> SUFFICES ASSUME NEW s \in live \ {a} PROVE Agrees(s)'
    OBVIOUS
  <1>1. actor'[s] = actor[s]
    BY DEF PortTypeOK, Actor
  <1> QED BY <1>1 DEF Agrees, Tidy, AsSaved, Enabled, ListExposedServices

LEMMA ListRowsAlone ==
  ASSUME PortTypeOK, ActorRules, AloneRules, NEW s \in Session, ListRows(s)
  PROVE  AloneRules'
  <1> SUFFICES ASSUME ~overlap' PROVE Alone' /\ Unreached' /\ AtRest' /\ GoesOn'
    BY DEF AloneRules
  <1>1. s \in Actor /\ UNCHANGED <<rows, live, exposed, local, overlap>>
    BY DEF ListRows, Actor
  <1>2. /\ \A b \in Actor \ {s} : actor'[b] = actor[b]
        /\ actor[s].pc = "rows" /\ actor'[s].pc = "edit"
        /\ actor'[s].todo = {s} \X Enabled
    BY ListRowsFacts
  <1>3. Runs(s)
    BY <1>2 DEF Runs
  <1>4. /\ Unreached /\ \A b \in Actor \ {s} : ~Runs(b)
        /\ \A r \in live \ {s} : Agrees(r)
        /\ s \in live => Tidy(s) /\ (Enabled = {} => s \notin exposed)
    BY <1>1, <1>2, <1>3, RunsAlone DEF RestoreGoesOn, Agrees
  <1>5. \A r \in live \ {s} : Agrees(r)'
    BY <1>1, <1>2, <1>4, OthersAgree
  <1>6. Enabled' = Enabled /\ (Tidy(s)' <=> Tidy(s))
    BY <1>1 DEF Enabled, ListExposedServices, Tidy
  <1>7. RestoreGoesOn(s)'
    BY <1>1, <1>2, <1>4, <1>5, <1>6 DEF RestoreGoesOn
  <1>8. Alone' /\ AtRest' /\ GoesOn'
    BY <1>1, <1>2, <1>4, <1>7, OnlyRunner DEF Runs
  <1>9. Unreached'
    BY <1>1, <1>2, <1>4, StaysUnreached
  <1> QED BY <1>8, <1>9

LEMMA EditForwarderAlone ==
  ASSUME PortTypeOK, AloneRules, None \notin Proto, NEW a \in Actor, EditForwarder(a)
  PROVE  AloneRules'
  <1> SUFFICES ASSUME ~overlap' PROVE Alone' /\ Unreached' /\ AtRest' /\ GoesOn'
    BY DEF AloneRules
  <1>1. UNCHANGED <<rows, live, local, overlap>>
    BY DEF EditForwarder
  <1>2. PICK e \in Session \X Service :
          /\ \A b \in Actor \ {a} : actor'[b] = actor[b]
          /\ actor[a].pc = "edit" /\ actor'[a].pc = "local"
          /\ actor'[a].op = actor[a].op /\ actor'[a].proto = actor[a].proto
          /\ e \in actor[a].todo /\ actor'[a].at = e
          /\ actor'[a].todo = actor[a].todo \ {e}
          /\ exposed' = IF e[2] = None THEN exposed \ {e[1]} ELSE exposed \union {e[1]}
    BY EditForwarderFacts
  <1>3. Runs(a)
    BY <1>2 DEF Runs
  <1>4. /\ Unreached /\ \A b \in Actor \ {a} : ~Runs(b)
        /\ a \in Session => RestoreGoesOn(a)
        /\ a \notin Session => CallGoesOn(a)
    BY <1>1, <1>3, RunsAlone
  <1>5. \A s : s # e[1] => (s \in exposed' <=> s \in exposed)
    BY <1>2
  <1>6. e[1] \in exposed' <=> e[2] # None
    BY <1>2
  <1>7. ASSUME a \notin Session PROVE CallGoesOn(a)'
    <2>1. /\ RowFits(a) /\ actor[a].todo \subseteq Session \X {Wanted(a)}
          /\ \A s \in live : Walked(a, s)
      BY <1>2, <1>4, <1>7 DEF CallGoesOn
    <2>2. Wanted(a)' = Wanted(a) /\ RowFits(a)'
      BY <1>1, <1>2, <2>1 DEF Wanted, RowFits
    <2>3. e = <<e[1], Wanted(a)>> /\ e[2] = Wanted(a)
      BY <1>2, <2>1
    <2>4. ASSUME NEW s \in live PROVE Walked(a, s)'
      <3>1. CASE s = e[1]
        <4>1. <<s, Wanted(a)>> \notin actor'[a].todo
          BY <1>2, <2>3, <3>1
        <4>2. s \in exposed' <=> Wanted(a) # None
          BY <1>6, <2>3, <3>1
        <4> QED BY <1>2, <2>2, <3>1, <4>1, <4>2 DEF Walked
      <3>2. CASE s # e[1]
        <4>1. <<s, Wanted(a)>> \in actor'[a].todo <=> <<s, Wanted(a)>> \in actor[a].todo
          BY <1>2, <2>3, <3>2
        <4>2. /\ Tidy(s)' <=> Tidy(s)
              /\ Untouched(s) => Untouched(s)'
          <5>1. s \in Actor
            BY DEF PortTypeOK, Actor
          <5>2. s # a
            BY <1>7 DEF PortTypeOK
          <5> QED BY <1>1, <1>2, <1>5, <3>2, <5>1, <5>2 DEF Tidy, Untouched
        <4>3. Walked(a, s)
          BY <2>1
        <4> QED BY <1>1, <1>2, <2>2, <3>2, <4>1, <4>2, <4>3 DEF Walked
      <3> QED BY <3>1, <3>2
    <2> QED BY <1>1, <1>2, <2>1, <2>2, <2>3, <2>4 DEF CallGoesOn
  <1>8. ASSUME a \in Session PROVE RestoreGoesOn(a)'
    <2>1. actor[a].todo \subseteq {a} \X Enabled /\ \A s \in live \ {a} : Agrees(s)
      BY <1>2, <1>4, <1>8 DEF RestoreGoesOn
    <2>2. e[1] = a /\ e[2] \in Enabled /\ e[2] # None
      BY <1>2, <2>1 DEF Enabled, ListExposedServices
    <2>3. \A s \in live \ {a} : Agrees(s)'
      BY <1>1, <1>2, <1>5, <2>1, <2>2, OthersAgree
    <2>4. Enabled' = Enabled
      BY <1>1 DEF Enabled, ListExposedServices
    <2>5. a \in exposed'
      BY <1>6, <2>2
    <2> QED BY <1>1, <1>2, <2>1, <2>2, <2>3, <2>4, <2>5 DEF RestoreGoesOn
  <1>9. Alone' /\ AtRest' /\ GoesOn'
    BY <1>2, <1>4, <1>7, <1>8, OnlyRunner DEF Runs
  <1>10. \A s \in Session \ live : actor[s].pc = "idle" => s # e[1]
    BY <1>2, <1>4 DEF Unreached
  <1>11. Unreached'
    BY <1>1, <1>2, <1>4, <1>5, <1>10, StaysUnreached
  <1> QED BY <1>9, <1>11

LEMMA EditLocalAlone ==
  ASSUME PortTypeOK, ActorRules, AloneRules, None \notin Proto, NEW a \in Actor, EditLocal(a)
  PROVE  AloneRules'
  <1> SUFFICES ASSUME ~overlap' PROVE Alone' /\ Unreached' /\ AtRest' /\ GoesOn'
    BY DEF AloneRules
  <1>1. /\ UNCHANGED <<rows, live, exposed, overlap>>
        /\ actor[a].pc = "local" /\ Goes(a, "send")
        /\ local' = [local EXCEPT ![actor[a].at[1]] = actor[a].at[2]]
    BY DEF EditLocal
  <1>2. /\ \A b \in Actor \ {a} : actor'[b] = actor[b]
        /\ actor'[a].pc = "send" /\ actor'[a].op = actor[a].op
        /\ actor'[a].proto = actor[a].proto /\ actor'[a].todo = actor[a].todo
        /\ actor'[a].at = actor[a].at
    BY <1>1, GoesFacts
  <1>3. PICK e \in Session \X Service : e = actor[a].at /\ e \notin actor[a].todo
    BY <1>1 DEF ActorRules, Rules
  <1>4. local'[e[1]] = e[2] /\ \A s \in Session \ {e[1]} : local'[s] = local[s]
    BY <1>1, <1>3 DEF PortTypeOK
  <1>5. Runs(a)
    BY <1>1 DEF Runs
  <1>6. /\ Unreached /\ \A b \in Actor \ {a} : ~Runs(b)
        /\ a \in Session => RestoreGoesOn(a)
        /\ a \notin Session => CallGoesOn(a)
    BY <1>1, <1>5, RunsAlone
  <1>7. ASSUME a \notin Session PROVE CallGoesOn(a)'
    <2>1. /\ RowFits(a) /\ actor[a].todo \subseteq Session \X {Wanted(a)} /\ e[2] = Wanted(a)
          /\ \A s \in live : Walked(a, s)
      BY <1>1, <1>3, <1>6, <1>7 DEF CallGoesOn
    <2>2. Wanted(a)' = Wanted(a) /\ RowFits(a)'
      BY <1>1, <1>2, <2>1 DEF Wanted, RowFits
    <2>3. ASSUME NEW s \in live PROVE Walked(a, s)'
      <3>1. Walked(a, s) /\ s \in Session /\ s \in Actor /\ s # a
        BY <1>7, <2>1 DEF PortTypeOK, Actor
      <3>2. CASE s = e[1]
        <4>1. <<s, Wanted(a)>> \notin actor[a].todo
          BY <1>3, <2>1, <3>2
        <4>2. s \in exposed <=> Wanted(a) # None
          BY <1>1, <1>3, <3>1, <3>2, <4>1 DEF Walked
        <4>3. local'[s] = Wanted(a)
          BY <1>4, <2>1, <3>2
        <4> QED BY <1>1, <1>2, <2>2, <4>1, <4>2, <4>3 DEF Walked, Tidy
      <3>3. CASE s # e[1]
        <4>1. local'[s] = local[s] /\ actor'[s] = actor[s]
          BY <1>2, <1>4, <3>1, <3>3
        <4>2. /\ Tidy(s)' <=> Tidy(s)
              /\ Untouched(s) => Untouched(s)'
          BY <1>1, <4>1 DEF Tidy, Untouched
        <4> QED BY <1>1, <1>2, <1>3, <2>2, <3>1, <3>3, <4>1, <4>2 DEF Walked
      <3> QED BY <3>2, <3>3
    <2> QED BY <1>1, <1>2, <1>3, <2>1, <2>2, <2>3 DEF CallGoesOn
  <1>8. ASSUME a \in Session PROVE RestoreGoesOn(a)'
    <2>1. /\ actor[a].todo \subseteq {a} \X Enabled /\ \A s \in live \ {a} : Agrees(s)
          /\ e[1] = a /\ e[2] \in Enabled /\ (a \in live => a \in exposed)
      BY <1>1, <1>3, <1>6, <1>8 DEF RestoreGoesOn
    <2>2. \A s \in live \ {a} : Agrees(s)'
      <3>1. \A s \in live \ {a} : local'[s] = local[s]
        BY <1>4, <2>1 DEF PortTypeOK
      <3> QED BY <1>1, <1>2, <2>1, <3>1, OthersAgree
    <2>3. Enabled' = Enabled
      BY <1>1 DEF Enabled, ListExposedServices
    <2>4. local'[a] \in Enabled
      BY <1>4, <2>1
    <2> QED BY <1>1, <1>2, <1>3, <2>1, <2>2, <2>3, <2>4 DEF RestoreGoesOn
  <1>9. Alone' /\ AtRest' /\ GoesOn'
    BY <1>2, <1>6, <1>7, <1>8, OnlyRunner DEF Runs
  <1>10. \A s \in Session \ live : actor[s].pc = "idle" => s # e[1]
    BY <1>1, <1>3, <1>6 DEF Unreached
  <1>11. Unreached'
    BY <1>1, <1>2, <1>4, <1>6, <1>10, StaysUnreached
  <1> QED BY <1>9, <1>11

LEMMA BroadcastAlone ==
  ASSUME PortTypeOK, AloneRules, None \notin Proto, NEW a \in Actor, Broadcast(a)
  PROVE  AloneRules'
  <1> SUFFICES ASSUME ~overlap' PROVE Alone' /\ Unreached' /\ AtRest' /\ GoesOn'
    BY DEF AloneRules
  <1>1. UNCHANGED <<rows, live, exposed, local, overlap>>
    BY DEF Broadcast
  <1>2. /\ \A b \in Actor \ {a} : actor'[b] = actor[b]
        /\ actor[a].pc = "send" /\ actor'[a].pc = "edit"
        /\ actor'[a].op = actor[a].op /\ actor'[a].proto = actor[a].proto
        /\ actor'[a].todo = actor[a].todo
    BY BroadcastFacts
  <1>3. Runs(a)
    BY <1>2 DEF Runs
  <1>4. /\ Unreached /\ \A b \in Actor \ {a} : ~Runs(b)
        /\ a \in Session => RestoreGoesOn(a)
        /\ a \notin Session => CallGoesOn(a)
    BY <1>1, <1>3, RunsAlone
  <1>5. ASSUME a \notin Session PROVE CallGoesOn(a)'
    <2>1. /\ RowFits(a) /\ actor[a].todo \subseteq Session \X {Wanted(a)}
          /\ \A s \in live : Walked(a, s)
      BY <1>2, <1>4, <1>5 DEF CallGoesOn
    <2>2. Wanted(a)' = Wanted(a) /\ RowFits(a)'
      BY <1>1, <1>2, <2>1 DEF Wanted, RowFits
    <2>3. ASSUME NEW s \in live PROVE Walked(a, s)'
      <3>1. actor'[s] = actor[s]
        BY <1>2, <1>5 DEF PortTypeOK, Actor
      <3>2. /\ Tidy(s)' <=> Tidy(s)
            /\ Untouched(s) => Untouched(s)'
        BY <1>1, <3>1 DEF Tidy, Untouched
      <3> QED BY <1>1, <1>2, <2>1, <2>2, <3>2 DEF Walked
    <2> QED BY <1>1, <1>2, <2>1, <2>2, <2>3 DEF CallGoesOn
  <1>6. ASSUME a \in Session PROVE RestoreGoesOn(a)'
    <2>1. /\ actor[a].todo \subseteq {a} \X Enabled /\ \A s \in live \ {a} : Agrees(s)
          /\ a \in live => a \in exposed /\ local[a] \in Enabled
      BY <1>2, <1>4, <1>6 DEF RestoreGoesOn
    <2>2. \A s \in live \ {a} : Agrees(s)'
      BY <1>1, <1>2, <2>1, OthersAgree
    <2>3. Enabled' = Enabled
      BY <1>1 DEF Enabled, ListExposedServices
    <2> QED BY <1>1, <1>2, <2>1, <2>2, <2>3 DEF RestoreGoesOn
  <1>7. Alone' /\ AtRest' /\ GoesOn'
    BY <1>2, <1>4, <1>5, <1>6, OnlyRunner DEF Runs
  <1>8. Unreached'
    BY <1>1, <1>2, <1>4, StaysUnreached
  <1> QED BY <1>7, <1>8


\* A session whose row is saved, and nobody else's, shares it once a call ends.
LEMMA FinishAlone ==
  ASSUME PortTypeOK, ActorRules, AloneRules, None \notin Proto, NEW a \in Actor, Finish(a)
  PROVE  AloneRules'
  <1> SUFFICES ASSUME ~overlap' PROVE Alone' /\ Unreached' /\ AtRest' /\ GoesOn'
    BY DEF AloneRules
  <1>1. /\ UNCHANGED <<live, exposed, local, overlap>>
        /\ actor[a].pc = "edit" /\ actor[a].todo = {} /\ Ends(a)
        /\ actor[a].op = "unexpose" => rows' = [p \in Proto |-> "none"]
        /\ actor[a].op # "unexpose" => rows' = rows
    BY DEF Finish, DeleteExposedService
  <1>2. /\ \A b \in Actor \ {a} : actor'[b] = actor[b]
        /\ actor'[a].pc = "done" /\ actor'[a].todo = {}
    BY <1>1, EndsFacts
  <1>3. Runs(a)
    BY <1>1 DEF Runs
  <1>4. /\ Unreached /\ \A b \in Actor \ {a} : ~Runs(b)
        /\ a \in Session => RestoreGoesOn(a)
        /\ a \notin Session => CallGoesOn(a)
    BY <1>1, <1>3, RunsAlone
  <1>5. \A b \in Actor : ~Runs(b)'
    BY <1>2, <1>4 DEF Runs
  <1>6. ASSUME a \notin Session PROVE \A s \in live : Agrees(s)'
    <2> SUFFICES ASSUME NEW s \in live PROVE Agrees(s)'
      OBVIOUS
    <2>1. RowFits(a) /\ Walked(a, s) /\ actor'[s] = actor[s]
      BY <1>1, <1>2, <1>4, <1>6 DEF CallGoesOn, PortTypeOK, Actor
    <2>2. (local[s] = Wanted(a) /\ Tidy(s)) \/ Untouched(s)
      BY <1>1, <2>1 DEF Walked
    <2>3. Tidy(s) /\ (actor[s].pc = "done" => local[s] = Wanted(a))
      BY <2>2 DEF Untouched, Tidy
    <2>4. CASE actor[a].op \in {"expose", "resume"}
      <3>1. /\ rows' = rows /\ Wanted(a) = actor[a].proto
            /\ rows[actor[a].proto] = "on" /\ actor[a].proto \in Proto
        BY <1>1, <1>3, <2>1, <2>4 DEF RowFits, Wanted, ActorRules, Rules
      <3>2. actor[a].proto \in Enabled
        BY <3>1 DEF Enabled, ListExposedServices
      <3>3. actor[s].pc = "done" => AsSaved(s)
        BY <2>3, <3>1 DEF AsSaved
      <3> QED BY <1>1, <2>1, <2>3, <3>1, <3>2, <3>3 DEF Agrees, Tidy, AsSaved, Enabled, ListExposedServices
    <2>5. CASE actor[a].op \notin {"expose", "resume"}
      <3>1. local[s] = None /\ s \notin exposed
        BY <2>2, <2>5 DEF Wanted, Tidy, Untouched
      <3>2. \A p \in Proto : ~(rows'[p] = "on" /\ \A q \in Proto \ {p} : rows'[q] = "none")
        <4>1. CASE actor[a].op = "unexpose"
          BY <1>1, <4>1
        <4>2. CASE actor[a].op = "pause"
          <5>1. rows' = rows /\ rows[actor[a].proto] = "off" /\ actor[a].proto \in Proto
            BY <1>1, <1>3, <2>1, <4>2 DEF RowFits, ActorRules, Rules
          <5> QED BY <5>1
        <4>3. actor[a].op \in {"unexpose", "pause"}
          BY <1>3, <1>6, <2>5 DEF ActorRules, Rules, PortTypeOK
        <4> QED BY <4>1, <4>2, <4>3
      <3> QED BY <1>1, <2>1, <3>1, <3>2 DEF Agrees, Tidy, AsSaved
    <2> QED BY <2>4, <2>5
  <1>7. ASSUME a \in Session PROVE \A s \in live : Agrees(s)'
    <2>1. rows' = rows
      BY <1>1, <1>3, <1>7 DEF ActorRules, Rules
    <2>2. /\ \A s \in live \ {a} : Agrees(s)
          /\ a \in live => \/ {a} \X Enabled = {} /\ Tidy(a) /\ (Enabled = {} => a \notin exposed)
                           \/ a \in exposed /\ local[a] \in Enabled
      BY <1>1, <1>4, <1>7 DEF RestoreGoesOn
    <2>3. \A s \in live \ {a} : Agrees(s)'
      BY <1>1, <1>2, <2>1, <2>2, OthersAgree
    <2>4. ASSUME a \in live PROVE Agrees(a)'
      <3>1. CASE {a} \X Enabled = {} /\ Tidy(a) /\ (Enabled = {} => a \notin exposed)
        <4>1. Enabled = {}
          <5> SUFFICES ASSUME NEW p \in Enabled PROVE FALSE
            OBVIOUS
          <5>1. <<a, p>> \in {a} \X Enabled
            OBVIOUS
          <5> QED BY <3>1, <5>1
        <4>2. \A p \in Proto : rows[p] # "on"
          BY <4>1 DEF Enabled, ListExposedServices
        <4> QED BY <1>1, <2>1, <3>1, <4>1, <4>2 DEF Agrees, Tidy, AsSaved
      <3>2. CASE a \in exposed /\ local[a] \in Enabled
        <4>1. local[a] \in Proto /\ rows[local[a]] = "on"
          BY <3>2 DEF Enabled, ListExposedServices
        <4>2. AsSaved(a) /\ Tidy(a)
          BY <3>2, <4>1 DEF AsSaved, Tidy
        <4> QED BY <1>1, <2>1, <3>2, <4>2 DEF Agrees, Tidy, AsSaved, Enabled, ListExposedServices
      <3> QED BY <2>2, <2>4, <3>1, <3>2
    <2> QED BY <2>3, <2>4
  <1>8. Alone' /\ GoesOn'
    BY <1>5 DEF Alone, GoesOn
  <1>9. AtRest'
    BY <1>1, <1>6, <1>7 DEF AtRest
  <1>10. Unreached'
    BY <1>1, <1>2, <1>4, StaysUnreached
  <1> QED BY <1>8, <1>9, <1>10

LEMMA BringUpAlone ==
  ASSUME PortTypeOK, AloneRules, NEW s \in Session, bringUpSession(s)
  PROVE  AloneRules'
  <1> SUFFICES ASSUME ~overlap' PROVE Alone' /\ Unreached' /\ AtRest' /\ GoesOn'
    BY DEF AloneRules
  <1>1. /\ s \notin live /\ actor[s].pc = "idle" /\ live' = live \union {s}
        /\ UNCHANGED <<rows, exposed, local, actor, overlap>>
    BY DEF bringUpSession
  <1>2. Alone /\ Unreached /\ AtRest /\ GoesOn
    BY <1>1 DEF AloneRules
  <1>3. /\ s \notin exposed /\ local[s] = None
        /\ \A a \in Actor : /\ \A e \in actor[a].todo : e[1] # s
                            /\ actor[a].pc \in {"local", "send"} => actor[a].at[1] # s
    BY <1>1, <1>2 DEF Unreached
  <1>4. Enabled' = Enabled /\ \A r : (Agrees(r)' <=> Agrees(r)) /\ (Tidy(r)' <=> Tidy(r))
    BY <1>1 DEF Agrees, Tidy, AsSaved, Enabled, ListExposedServices
  <1>5. Agrees(s) /\ Tidy(s) /\ Untouched(s)
    BY <1>1, <1>3 DEF Agrees, Tidy, Untouched
  <1>6. Alone' /\ Unreached'
    BY <1>1, <1>2 DEF Alone, Unreached, Runs
  <1>7. AtRest'
    BY <1>1, <1>2, <1>4, <1>5 DEF AtRest, Runs
  <1>8. ASSUME NEW a \in Actor, Runs(a)', a \in Session PROVE RestoreGoesOn(a)'
    <2>1. RestoreGoesOn(a) /\ a # s
      BY <1>1, <1>2, <1>8 DEF GoesOn, Runs
    <2> QED BY <1>1, <1>4, <1>5, <2>1 DEF RestoreGoesOn
  <1>9. ASSUME NEW a \in Actor, Runs(a)', a \notin Session PROVE CallGoesOn(a)'
    <2>1. CallGoesOn(a)
      BY <1>1, <1>2, <1>9 DEF GoesOn, Runs
    <2>2. Wanted(a)' = Wanted(a) /\ (RowFits(a)' <=> RowFits(a))
      BY <1>1 DEF Wanted, RowFits
    <2>3. \A r : Walked(a, r)' <=> Walked(a, r)
      BY <1>1 DEF Walked, Wanted, Tidy, Untouched
    <2>4. Walked(a, s)
      BY <1>3, <1>5 DEF Walked
    <2>5. \A r \in live' : r \in live \/ r = s
      BY <1>1
    <2> QED BY <1>1, <1>4, <1>5, <2>1, <2>2, <2>3, <2>4, <2>5 DEF CallGoesOn
  <1>10. GoesOn'
    BY <1>8, <1>9 DEF GoesOn
  <1> QED BY <1>6, <1>7, <1>10

LEMMA CloseAlone ==
  ASSUME PortTypeOK, AloneRules, NEW s \in Session, closeSession(s)
  PROVE  AloneRules'
  <1> SUFFICES ASSUME ~overlap' PROVE Alone' /\ Unreached' /\ AtRest' /\ GoesOn'
    BY DEF AloneRules
  <1>1. s \in live /\ live' = live \ {s} /\ UNCHANGED <<rows, exposed, local, overlap>>
    BY DEF closeSession
  <1>2. /\ \A b \in Actor \ {s} : actor'[b] = actor[b]
        /\ actor'[s].pc = IF Runs(s) THEN actor[s].pc ELSE "done"
        /\ actor'[s].op = actor[s].op /\ actor'[s].proto = actor[s].proto
        /\ actor'[s].todo = actor[s].todo /\ actor'[s].at = actor[s].at
    BY CloseFacts
  <1>3. Alone /\ Unreached /\ AtRest /\ GoesOn
    BY <1>1 DEF AloneRules
  <1>4. \A b \in Actor : /\ Runs(b)' <=> Runs(b)
                         /\ Runs(b) => actor'[b].pc = actor[b].pc
                         /\ actor'[b].op = actor[b].op /\ actor'[b].proto = actor[b].proto
                         /\ actor'[b].todo = actor[b].todo /\ actor'[b].at = actor[b].at
    BY <1>2 DEF Runs
  <1>5. \A r \in live' : actor'[r] = actor[r] /\ r \in live
    BY <1>1, <1>2 DEF PortTypeOK, Actor
  <1>6. \A r \in live' : /\ Agrees(r)' <=> Agrees(r)
                         /\ Tidy(r)' <=> Tidy(r)
                         /\ Untouched(r)' <=> Untouched(r)
    BY <1>1, <1>5 DEF Agrees, Tidy, AsSaved, Enabled, ListExposedServices, Untouched
  <1>7. Alone' /\ AtRest'
    BY <1>3, <1>4, <1>5, <1>6 DEF Alone, AtRest
  <1>8. Unreached'
    <2> SUFFICES ASSUME NEW r \in Session, r \notin live', actor'[r].pc = "idle"
                 PROVE  /\ r \notin exposed' /\ local'[r] = None
                        /\ \A b \in Actor :
                             /\ \A e \in actor'[b].todo : e[1] # r
                             /\ actor'[b].pc \in {"local", "send"} => actor'[b].at[1] # r
      BY DEF Unreached
    <2>1. r # s
      BY <1>2 DEF Runs
    <2>2. r \notin live /\ actor[r].pc = "idle"
      BY <1>1, <1>2, <2>1 DEF Actor
    <2>3. /\ r \notin exposed /\ local[r] = None
          /\ \A b \in Actor : /\ \A e \in actor[b].todo : e[1] # r
                              /\ actor[b].pc \in {"local", "send"} => actor[b].at[1] # r
      BY <1>3, <2>2 DEF Unreached
    <2>4. \A b \in Actor : actor'[b].pc \in {"local", "send"} => actor[b].pc \in {"local", "send"}
      BY <1>2 DEF Runs
    <2> QED BY <1>1, <1>4, <2>3, <2>4
  <1>9. ASSUME NEW a \in Actor, Runs(a)', a \in Session PROVE RestoreGoesOn(a)'
    <2>1. RestoreGoesOn(a)
      BY <1>3, <1>4, <1>9 DEF GoesOn
    <2>2. Enabled' = Enabled
      BY <1>1 DEF Enabled, ListExposedServices
    <2>3. actor'[a].pc = actor[a].pc /\ actor'[a].todo = actor[a].todo /\ actor'[a].at = actor[a].at
      BY <1>4, <1>9
    <2> QED BY <1>1, <1>5, <1>6, <2>1, <2>2, <2>3 DEF RestoreGoesOn
  <1>10. ASSUME NEW a \in Actor, Runs(a)', a \notin Session PROVE CallGoesOn(a)'
    <2>1. CallGoesOn(a)
      BY <1>3, <1>4, <1>10 DEF GoesOn
    <2>2. actor'[a] = actor[a]
      BY <1>2, <1>10
    <2>3. Wanted(a)' = Wanted(a) /\ (RowFits(a)' <=> RowFits(a))
      BY <1>1, <2>2 DEF Wanted, RowFits
    <2>4. \A r \in live' : Walked(a, r)' <=> Walked(a, r)
      BY <1>1, <1>6, <2>2, <2>3 DEF Walked
    <2> QED BY <1>1, <1>5, <1>6, <2>1, <2>2, <2>3, <2>4 DEF CallGoesOn
  <1>11. GoesOn'
    BY <1>9, <1>10 DEF GoesOn
  <1> QED BY <1>7, <1>8, <1>11

\* Peers change nothing of what is shared.
LEMMA PeersAlone ==
  ASSUME AloneRules, UNCHANGED <<rows, live, exposed, local, actor, overlap>>
  PROVE  AloneRules'
  <1>1. Enabled' = Enabled /\ \A r : (Agrees(r)' <=> Agrees(r)) /\ (Tidy(r)' <=> Tidy(r))
    BY DEF Agrees, Tidy, AsSaved, Enabled, ListExposedServices
  <1>2. \A a, r : Wanted(a)' = Wanted(a) /\ (RowFits(a)' <=> RowFits(a)) /\ (Walked(a, r)' <=> Walked(a, r))
    BY DEF Wanted, RowFits, Walked, Tidy, Untouched
  <1>3. \A a : /\ Runs(a)' <=> Runs(a)
               /\ CallGoesOn(a)' <=> CallGoesOn(a)
               /\ RestoreGoesOn(a)' <=> RestoreGoesOn(a)
    BY <1>1, <1>2 DEF Runs, CallGoesOn, RestoreGoesOn
  <1>4. (Alone' <=> Alone) /\ (Unreached' <=> Unreached)
    BY <1>3 DEF Alone, Unreached
  <1>5. (AtRest' <=> AtRest) /\ (GoesOn' <=> GoesOn)
    BY <1>1, <1>3 DEF AtRest, GoesOn
  <1> QED BY <1>4, <1>5 DEF AloneRules

-----------------------------------------------------------------------------
(* The invariant, and what follows from it.                                  *)

LEMMA PortInvInit ==
  ASSUME Call \intersect Session = {}, None \notin Proto, PortInit
  PROVE  PortInv
  <1>1. \A a \in Actor : actor[a] = Idle
    BY DEF PortInit
  <1>2. Idle \in Place
    BY DEF Idle, Place, Service
  <1>3. actor \in [Actor -> Place]
    BY <1>2 DEF PortInit
  <1>4. /\ rows \in [Proto -> {"none", "off", "on"}]
        /\ live \subseteq Session /\ exposed \subseteq Session /\ unsure \subseteq Session
        /\ overlap \in BOOLEAN
        /\ local \in [Session -> Service] /\ replay \in [Session -> Service] /\ view \in [Session -> Service]
        /\ peer \in [Session -> {"absent", "open", "replaying", "ready", "left"}]
    BY DEF PortInit, Service
  <1>5. ctl \in [Session -> Seq(Service)]
    <2>1. <<>> \in Seq(Service)
      BY EmptySeq
    <2> QED BY <2>1 DEF PortInit
  <1>6. PortTypeOK
    BY <1>3, <1>4, <1>5 DEF PortTypeOK, Place
  <1>7. \A a \in Actor : actor[a].pc = "idle" /\ actor[a].todo = {}
    BY <1>1 DEF Idle
  <1>8. ActorRules
    BY <1>7 DEF ActorRules, Rules, Runs
  <1>9. PeerRules
    <2> SUFFICES ASSUME NEW s \in Session PROVE Told(s)
      BY DEF PeerRules
    <2>1. peer[s] = "absent" /\ view[s] = None /\ ctl[s] = <<>> /\ ~\E a \in Actor : Announces(a, s)
      BY <1>7 DEF PortInit, Announces
    <2> QED BY <2>1 DEF Told
  <1>10. AloneRules
    <2>1. live = {} /\ exposed = {} /\ \A s \in Session : local[s] = None
      BY DEF PortInit
    <2> QED BY <1>7, <2>1 DEF AloneRules, Alone, Unreached, AtRest, GoesOn, Runs
  <1> QED BY <1>6, <1>8, <1>9, <1>10 DEF PortInv

LEMMA PortInvStep ==
  ASSUME Call \intersect Session = {}, None \notin Proto, PortInv, [PortNext]_portVars
  PROVE  PortInv'
  <1> USE DEF PortInv
  <1>1. ASSUME NEW c \in Call,
               \/ UnexposeService(c)
               \/ \E p \in Proto : ExposeService(c, p)
                                   \/ \E op \in {"pause", "resume"} : SetExposeEnabled(c, p, op)
        PROVE  PortInv'
    <2>1. PortTypeOK' /\ ActorRules' /\ PeerRules'
      BY <1>1, CallsType, CallsRules, CallsTold
    <2>2. AloneRules'
      BY <1>1, ExposeAlone, UnexposeAlone, SetEnabledAlone
    <2> QED BY <2>1, <2>2
  <1>2. ASSUME NEW a \in Actor, Step(a) PROVE PortInv'
    <2>1. PortTypeOK' /\ ActorRules' /\ PeerRules'
      BY <1>2, StepType, StepRules, StepTold
    <2>2. AloneRules'
      BY <1>2, SaveRowAlone, ListSessionsAlone, EditForwarderAlone, EditLocalAlone,
         BroadcastAlone, FinishAlone DEF Step
    <2> QED BY <2>1, <2>2
  <1>3. ASSUME NEW s \in Session,
               \/ Restore(s) \/ ListRows(s) \/ PeerStep(s)
               \/ bringUpSession(s) \/ closeSession(s) \/ ChannelOpens(s) \/ DropControl(s)
        PROVE  PortInv'
    <2>1. PortTypeOK' /\ ActorRules' /\ PeerRules'
      BY <1>3, SessionType, SessionRules, SessionTold
    <2>2. CASE PeerStep(s) \/ ChannelOpens(s) \/ DropControl(s)
      <3>1. UNCHANGED <<rows, live, exposed, local, actor, overlap>>
        BY <2>2 DEF PeerStep, TakeSnapshot, Replay, handleControl, ChannelOpens, DropControl
      <3> QED BY <2>1, <3>1, PeersAlone
    <2>3. CASE ~(PeerStep(s) \/ ChannelOpens(s) \/ DropControl(s))
      <3>1. AloneRules'
        BY <1>3, <2>3, RestoreAlone, ListRowsAlone, BringUpAlone, CloseAlone
      <3> QED BY <2>1, <3>1
    <2> QED BY <2>2, <2>3
  <1>4. CASE UNCHANGED portVars
    <2>1. UNCHANGED <<rows, live, exposed, local, actor, peer, replay, ctl, view, unsure, overlap>>
      BY <1>4 DEF portVars, mesh
    <2>2. AloneRules'
      BY <2>1, PeersAlone
    <2>3. PortTypeOK'
      BY <2>1 DEF PortTypeOK
    <2>4. ActorRules'
      BY <2>1 DEF ActorRules, Rules, Runs
    <2>5. PeerRules'
      BY <2>1 DEF PeerRules, Told, Final, Announces
    <2> QED BY <2>2, <2>3, <2>4, <2>5
  <1> QED BY <1>1, <1>2, <1>3, <1>4 DEF PortNext

LEMMA PortInvHolds ==
  ASSUME Call \intersect Session = {}, None \notin Proto
  PROVE  PortSpec => []PortInv
  <1>1. PortInit => PortInv
    BY PortInvInit
  <1>2. PortInv /\ [PortNext]_portVars => PortInv'
    BY PortInvStep
  <1> QED BY <1>1, <1>2, PTL DEF PortSpec

(***************************************************************************)
(* Once nothing is under way a peer believes of a port what localServices  *)
(* says, for any number of calls, restores, sessions and peers, unless two *)
(* announcements of its session overlapped or a frame to it was dropped:   *)
(* broadcastControl and replayServicesTo write outside the lock, and a     *)
(* peer that joins between the two still hears of every service.           *)
(***************************************************************************)
THEOREM PeersAgreeHolds == PortSpec => []PeersAgree
  <1>1. ASSUME PortInv PROVE PeersAgree
    <2> SUFFICES ASSUME NEW s \in live \ unsure, Settled(s) PROVE view[s] = local[s]
      BY DEF PeersAgree
    <2>1. s \in Session /\ s \in Actor /\ Told(s)
      BY <1>1 DEF PortInv, PortTypeOK, Actor, PeerRules
    <2>2. peer[s] = "ready" /\ ctl[s] = <<>> /\ \A a \in Actor : ~Runs(a)
      BY <2>1 DEF Settled
    <2>3. ~\E a \in Actor : Announces(a, s)
      BY <2>2 DEF Announces, Runs
    <2>4. Final(s) = view[s]
      BY <2>2 DEF Final, LastOf
    <2> QED BY <2>1, <2>2, <2>3, <2>4 DEF Told
  <1>2. PortSpec => []PortInv
    BY PortInvHolds, ExposesAssumption
  <1> QED BY <1>1, <1>2, PTL

(***************************************************************************)
(* The variables have their types, and while no two calls or restores have *)
(* overlapped the saved rows, the forwarder and the mesh of every session  *)
(* agree: for any number of ExposeService, UnexposeService and             *)
(* SetExposeEnabled calls and of sessions that come and go between their   *)
(* steps.                                                                  *)
(***************************************************************************)
THEOREM ExposesInvHolds == PortSpec => []ExposesInv
  <1>1. ASSUME PortInv PROVE ExposesInv
    <2>1. PortTypeOK
      BY <1>1 DEF PortInv
    <2> SUFFICES ASSUME ~overlap, \A a \in Actor : ~Runs(a), NEW s \in live, actor[s].pc = "done"
                 PROVE  /\ s \in exposed <=> local[s] # None
                        /\ (\A p \in Proto : rows[p] # "on") => s \notin exposed
                        /\ \A p \in Proto : rows[p] = "on" /\ (\A q \in Proto \ {p} : rows[q] = "none") => local[s] = p
      BY <2>1 DEF ExposesInv, SharedAsSaved
    <2>2. Agrees(s)
      BY <1>1 DEF PortInv, AloneRules, AtRest
    <2> QED BY <2>2 DEF Agrees, Tidy, AsSaved, Enabled, ListExposedServices
  <1>2. PortSpec => []PortInv
    BY PortInvHolds, ExposesAssumption
  <1> QED BY <1>1, <1>2, PTL
=============================================================================
