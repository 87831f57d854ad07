------------------------------- MODULE Probes -------------------------------
(***************************************************************************)
(* What a peer measures on the control channel to another one: the round   *)
(* trip (client/mesh/heartbeat.go) and the bandwidth                       *)
(* (client/mesh/bandwidth.go).  The channel is ordered; both ends handle   *)
(* one frame at a time, and drop one that has waited for two seconds.  The *)
(* calls of MeasureBandwidth and the heartbeat run in goroutines of their  *)
(* own.  Frames of a probe name it here; the code puts the name in START,  *)
(* DONE and ACK, and no handler compares it.  Init, Next and Spec have Ctl *)
(* in their names, so that MeshProofs can extend this module and           *)
(* MeshSession.                                                            *)
(***************************************************************************)
EXTENDS Naturals, Sequences, SequencesExt

CONSTANTS Call,       \* bound: the calls of MeasureBandwidth there may be
          Ping,       \* bound: the pings there may be
          MaxChunks,  \* bound on the chunks of a probe
          MaxQueued,  \* bound on the frames in one direction
          MaxDrops,   \* bound on the frames dropped
          None

ASSUME ProbesAssumption ==
  MaxChunks \in Nat /\ MaxQueued \in Nat /\ MaxDrops \in Nat /\ None \notin Call

VARIABLES
  out, back,      \* the channel: to the peer, and from it
  up,             \* the channel is open
  call, sent,     \* what a call is at; the chunks it has sent
  bwOut,          \* Manager.bwOut of the peer
  ack,            \* the channel a call waits on
  bwIn,           \* the peer's Manager.bwIn
  beat, pinging,  \* the heartbeat: waiting, or between a ping and its record
  age,            \* Peer.outstanding: the ticks since a ping was recorded, or 0
  drops,
  disturbed       \* probes that another one, or a lost START, got in the way of

channel == <<out, back, up, drops>>
probing == <<call, sent, bwOut, ack, bwIn>>
beating == <<beat, pinging, age>>
ctlVars == <<channel, probing, beating, disturbed>>

\* What the peer has counted for a probe: chunks of its own, and of others.
Count == [of : Call, own : 0..MaxChunks, other : Nat]

CtlInit ==
  /\ out = <<>> /\ back = <<>> /\ up = TRUE /\ drops = 0
  /\ call = [c \in Call |-> "idle"] /\ sent = [c \in Call |-> 0]
  /\ bwOut = None /\ ack = [c \in Call |-> None] /\ bwIn = None
  /\ beat = "wait" /\ pinging = None /\ age = [t \in Ping |-> 0]
  /\ disturbed = {}

F(type, of) == [type |-> type, of |-> of]

\* SendText and SendBinary fail when the channel is closed.
Send(type, of) == up /\ Len(out) < MaxQueued /\ out' = Append(out, F(type, of))
Answers(type, of) ==
  IF up THEN Len(back) < MaxQueued /\ back' = Append(back, F(type, of)) ELSE UNCHANGED back

Ends(c, how) ==
  /\ call' = [call EXCEPT ![c] = how]
  /\ bwOut' = None        \* the deferred delete, of whosever entry there is

-----------------------------------------------------------------------------
(* MeasureBandwidth.                                                       *)

Running(c) == call[c] \in {"start", "stream", "wait"}

MeasureBandwidth(c) ==
  /\ call[c] = "idle"
  /\ call' = [call EXCEPT ![c] = "start"]
  /\ bwOut' = c
  /\ disturbed' = disturbed
       \union (IF \E d \in Call : Running(d) THEN {c} \union {d \in Call : Running(d)} ELSE {})
       \union (IF \E f \in ToSet(out) \union ToSet(back) : f.type \in {"DONE", "ACK"} THEN {c} ELSE {})
  /\ UNCHANGED <<channel, sent, ack, bwIn, beating>>

SendStart(c) ==
  /\ call[c] = "start" /\ Send("START", c)
  /\ call' = [call EXCEPT ![c] = "stream"]
  /\ UNCHANGED <<back, up, drops, sent, bwOut, ack, bwIn, beating, disturbed>>

\* The loop waits while too much is buffered.
SendChunk(c) ==
  /\ call[c] = "stream" /\ sent[c] < MaxChunks /\ Send("CHUNK", c)
  /\ sent' = [sent EXCEPT ![c] = @ + 1]
  /\ UNCHANGED <<back, up, drops, call, bwOut, ack, bwIn, beating, disturbed>>

\* Three seconds have passed.
SendDone(c) ==
  /\ call[c] = "stream" /\ Send("DONE", c)
  /\ call' = [call EXCEPT ![c] = "wait"]
  /\ UNCHANGED <<back, up, drops, sent, bwOut, ack, bwIn, beating, disturbed>>

SendFails(c) ==
  /\ call[c] \in {"start", "stream"} /\ ~up
  /\ Ends(c, "failed")
  /\ UNCHANGED <<channel, sent, ack, bwIn, beating, disturbed>>

TakeAck(c) ==
  /\ call[c] = "wait" /\ ack[c] # None
  /\ Ends(c, "returned")
  /\ UNCHANGED <<channel, sent, ack, bwIn, beating, disturbed>>

\* Mutant: the call waits for the answer however long it takes.
Patient(c) == FALSE /\ Ends(c, "failed")

AckTimesOut(c) ==
  /\ call[c] = "wait"
  /\ Ends(c, "failed")
  /\ UNCHANGED <<channel, sent, ack, bwIn, beating, disturbed>>

-----------------------------------------------------------------------------
(* The peer, and the answers.                                              *)

Gets(type) == out # <<>> /\ Head(out).type = type /\ out' = Tail(out)
IsAnswered(type) == back # <<>> /\ Head(back).type = type /\ back' = Tail(back)

\* Mutant: a count that is there goes on.
StartOnce ==
  /\ Gets("START")
  /\ bwIn' = IF bwIn = None THEN [of |-> Head(out).of, own |-> 0, other |-> 0] ELSE bwIn
  /\ UNCHANGED <<back, up, drops, call, sent, bwOut, ack, beating, disturbed>>

OnStart ==
  /\ Gets("START")
  /\ bwIn' = [of |-> Head(out).of, own |-> 0, other |-> 0]
  /\ UNCHANGED <<back, up, drops, call, sent, bwOut, ack, beating, disturbed>>

handleBandwidthChunk ==
  /\ Gets("CHUNK")
  /\ bwIn' = IF bwIn = None THEN None
             ELSE IF bwIn.of = Head(out).of THEN [bwIn EXCEPT !.own = @ + 1]
             ELSE [bwIn EXCEPT !.other = @ + 1]
  /\ UNCHANGED <<back, up, drops, call, sent, bwOut, ack, beating, disturbed>>

\* Nothing is acknowledged without a count.
OnDone ==
  /\ Gets("DONE")
  /\ bwIn' = None
  /\ IF bwIn = None THEN UNCHANGED back ELSE Answers("ACK", bwIn)
  /\ UNCHANGED <<up, drops, call, sent, bwOut, ack, beating, disturbed>>

\* Goes to the call that is registered last; a second one is dropped.
OnAck ==
  /\ IsAnswered("ACK")
  /\ ack' = IF bwOut # None /\ ack[bwOut] = None
            THEN [ack EXCEPT ![bwOut] = Head(back).of] ELSE ack
  /\ UNCHANGED <<out, up, drops, call, sent, bwOut, bwIn, beating, disturbed>>

-----------------------------------------------------------------------------
(* The heartbeat.                                                          *)

\* sendPings sends, ...
SendPing(t) ==
  /\ beat = "wait" /\ age[t] = 0
  /\ \A f \in ToSet(out) \union ToSet(back) : f # F("PING", t) /\ f # F("PONG", t)
  /\ Send("PING", t)
  /\ beat' = "record" /\ pinging' = t
  /\ UNCHANGED <<back, up, drops, probing, age, disturbed>>

\* ... and records what it has sent.
RecordPing ==
  /\ beat = "record"
  /\ age' = [age EXCEPT ![pinging] = 1]
  /\ beat' = "prune" /\ pinging' = None
  /\ UNCHANGED <<channel, probing, disturbed>>

\* Mutant: nothing is pruned.
KeepStalePings ==
  /\ beat \in {"wait", "prune"}
  /\ beat' = "wait"
  /\ age' = [t \in Ping |-> IF age[t] \in 1..3 THEN age[t] + 1 ELSE age[t]]
  /\ UNCHANGED <<channel, probing, pinging, disturbed>>

\* After three ticks, or four: the tick is late by what sendPings took.  Without
\* an open channel there was nothing to send.
pruneStalePings ==
  /\ beat \in {"wait", "prune"}
  /\ beat' = "wait"
  /\ \E stale \in SUBSET {t \in Ping : age[t] >= 4} :
       age' = [t \in Ping |-> IF age[t] = 0 \/ age[t] = 5 \/ t \in stale THEN 0 ELSE age[t] + 1]
  /\ UNCHANGED <<channel, probing, pinging, disturbed>>

OnPing ==
  /\ Gets("PING") /\ Answers("PONG", Head(out).of)
  /\ UNCHANGED <<up, drops, probing, beating, disturbed>>

\* A pong that is faster than the record is ignored.
OnPong ==
  /\ IsAnswered("PONG")
  /\ age' = [age EXCEPT ![Head(back).of] = 0]
  /\ UNCHANGED <<out, up, drops, probing, beat, pinging, disturbed>>

-----------------------------------------------------------------------------
\* attachChannel's OnMessage, while its reader is slow.
DropFrame ==
  /\ drops < MaxDrops
  /\ drops' = drops + 1
  /\ \/ /\ out # <<>> /\ out' = Tail(out) /\ UNCHANGED back
        /\ disturbed' = IF Head(out).type = "START" THEN disturbed \union {Head(out).of} ELSE disturbed
     \/ back # <<>> /\ back' = Tail(back) /\ UNCHANGED <<out, disturbed>>
  /\ UNCHANGED <<up, probing, beating>>

ChannelCloses ==
  /\ up
  /\ up' = FALSE /\ out' = <<>> /\ back' = <<>>
  /\ UNCHANGED <<drops, probing, beating, disturbed>>

CallStep(c) ==
  SendStart(c) \/ SendChunk(c) \/ SendDone(c) \/ SendFails(c) \/ TakeAck(c) \/ AckTimesOut(c)

Handle ==
  \/ OnStart \/ handleBandwidthChunk \/ OnDone \/ OnPing
  \/ OnAck \/ OnPong

Beat == RecordPing \/ pruneStalePings

CtlNext ==
  \/ \E c \in Call : MeasureBandwidth(c) \/ CallStep(c)
  \/ \E t \in Ping : SendPing(t)
  \/ Handle \/ Beat \/ DropFrame \/ ChannelCloses

CtlSpec == CtlInit /\ [][CtlNext]_ctlVars

\* Goroutines run, frames are handled, and the ticker ticks.
CtlFairSpec ==
  /\ CtlSpec
  /\ \A c \in Call : WF_ctlVars(CallStep(c))
  /\ WF_ctlVars(Handle) /\ WF_ctlVars(Beat)

-----------------------------------------------------------------------------
CtlTypeOK ==
  /\ out \in Seq([type : {"START", "CHUNK", "DONE"}, of : Call] \union [type : {"PING"}, of : Ping])
  /\ back \in Seq([type : {"ACK"}, of : Count] \union [type : {"PONG"}, of : Ping])
  /\ up \in BOOLEAN /\ drops \in 0..MaxDrops
  /\ call \in [Call -> {"idle", "start", "stream", "wait", "returned", "failed"}]
  /\ sent \in [Call -> 0..MaxChunks]
  /\ bwOut \in Call \union {None} /\ ack \in [Call -> Count \union {None}] /\ bwIn \in Count \union {None}
  /\ beat \in {"wait", "record", "prune"} /\ pinging \in Ping \union {None}
  /\ age \in [Ping -> 0..5]
  /\ disturbed \subseteq Call

\* A call returns what the peer has counted of its own probe, chunks of an
\* earlier one that was given up included: unless two calls run at once, the
\* end of an earlier one is still under way, or START is lost, for no ID is
\* compared (bandwidth.go:84-96, 151-218).
OwnMeasurement ==
  \A c \in Call \ disturbed :
    call[c] = "returned" => ack[c].of = c /\ ack[c].other = 0 /\ ack[c].own <= sent[c]

\* The invariant of the control channel: the types, and that MeasureBandwidth
\* answers with its own measurement (bandwidth.go:71-148).
ProbesInv == CtlTypeOK /\ OwnMeasurement

\* However the peer and the channel fail, a call returns.
CallReturns == \A c \in Call : (call[c] = "start") ~> (call[c] \in {"returned", "failed"})

\* No ping is outstanding for ever: one that nobody answers is forgotten, one
\* whose pong was faster than its record too (heartbeat.go:62-84).
PingsAreForgotten == \A t \in Ping : (age[t] > 0) ~> (age[t] = 0)
=============================================================================
