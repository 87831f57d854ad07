----------------------------- MODULE Handshake -----------------------------
(***************************************************************************)
(* The WebRTC handshake that turns the members of one portal into a full   *)
(* mesh: client/mesh/manager.go drives it, client/peer/connection.go owns  *)
(* one connection.  A joiner offers to everybody it finds in its roster,   *)
(* the others answer, and both sides trickle ICE candidates through the    *)
(* signaling server, from goroutines of their own, possibly ahead of the   *)
(* description they belong to.                                             *)
(*                                                                         *)
(* The signaling server is not in the repository.  It is modelled by what  *)
(* the clients rely on: it handles one request at a time, sends the joiner *)
(* its roster and the others a peer_joined in that same step, relays to    *)
(* members only, and each WebSocket is FIFO.  A manager that rejoins gets  *)
(* a new peer ID and is another element of Client.                         *)
(***************************************************************************)
EXTENDS Naturals, Sequences

CONSTANTS Client,    \* peer IDs the server may hand out
          MaxCand,   \* ICE candidates one connection gathers; the last is the end marker
          MayLeave,  \* the clients that may leave or lose their signaling link
          MayFail    \* TRUE if ICE may fail or disconnect

ASSUME HandshakeAssumption ==
  /\ MaxCand \in Nat
  /\ MayLeave \subseteq Client
  /\ MayFail \in BOOLEAN

VARIABLES
  entries,  \* server: how many clients have entered so far
  ticket,   \* server: ticket[c] is c's place in the order of entry, 0 before
  member,   \* server: the clients now in the portal
  inbox,    \* inbox[c]: signaling events on their way to c's run loop
  conn,     \* conn[c][d]: c's entry for d in Manager.peers
  busy,     \* busy[c]: peer whose offer c has applied but not yet answered
  ready     \* ready[c]: peers c announced with EventPeerReady

vars == <<entries, ticket, member, inbox, conn, busy, ready>>

-----------------------------------------------------------------------------
(* Connections (peer.Connection).                                          *)

Cand == 1..MaxCand

NoConn == [role |-> "none", local |-> FALSE, sent |-> FALSE, remote |-> FALSE,
           forwarded |-> 0, pending |-> {}, added |-> {}, state |-> "none"]

Conn == [role: {"none", "offerer", "answerer"},
         local: BOOLEAN,            \* SetLocalDescription done, gathering runs
         sent: BOOLEAN,             \* the offer or the answer went out
         remote: BOOLEAN,           \* SetRemoteDescription done
         forwarded: 0..MaxCand,     \* candidates handed to signaling so far
         pending: SUBSET Cand,      \* pendingRemoteICE
         added: SUBSET Cand,        \* candidates given to pion
         state: {"none", "connecting", "connected", "closed"}]

\* peer.New: the entry both code paths of onPeerJoinedWithRoster create.
NewConn(role) == [NoConn EXCEPT !.role = role, !.state = "connecting"]

Exists(c, d) == conn[c][d].role # "none"

\* Glare-free rule: the joiner offers, whoever was there already answers.
RoleAlwaysOffers(weAreJoiner) == "offerer"

RoleOf(weAreJoiner) == IF weAreJoiner THEN "offerer" ELSE "answerer"

\* onPeerJoinedWithRoster: an entry that is already there is left alone.
Entry(k, weAreJoiner) ==
  IF k.role # "none" THEN k ELSE NewConn(RoleOf(weAreJoiner))

\* flushPendingRemoteICE once the remote description is in.
FlushForgets(k) == [k EXCEPT !.remote = TRUE, !.pending = {}]

SetRemote(k) ==
  [k EXCEPT !.remote = TRUE, !.added = @ \union k.pending, !.pending = {}]

\* HandleOffer: the remote offer and the buffered candidates, then our answer.
AnswerNotSet(k) == SetRemote(k)

HandleOffer(k) == [SetRemote(k) EXCEPT !.local = TRUE]

\* AddRemoteICE: buffered before the remote description, added after it;
\* pion refuses a candidate once the connection is closed.
AddWithoutBuffer(k, cand) ==
  IF k.remote THEN [k EXCEPT !.added = @ \union {cand}] ELSE k

AddRemoteICE(k, cand) ==
  IF ~k.remote THEN [k EXCEPT !.pending = @ \union {cand}]
  ELSE IF k.state = "closed" THEN k
  ELSE [k EXCEPT !.added = @ \union {cand}]

-----------------------------------------------------------------------------
(* Signaling messages.                                                     *)

Msg(type, from, roster, cand) ==
  [type |-> type, from |-> from, roster |-> roster, cand |-> cand]

Message ==
  {m \in [type: {"joined", "peer_joined", "peer_left", "offer", "answer", "ice"},
          from: Client, roster: SUBSET Client, cand: 0..MaxCand] :
     m.type = "ice" => m.cand # 0}

\* The server relays a message to a peer that is still in the portal.
Relay(to, m) ==
  IF to \in member THEN [inbox EXCEPT ![to] = Append(@, m)] ELSE inbox

Receives(c, type) ==
  /\ c \in member
  /\ busy[c] = {}
  /\ inbox[c] # <<>>
  /\ Head(inbox[c]).type = type

Consume(c) == inbox' = [inbox EXCEPT ![c] = Tail(@)]

-----------------------------------------------------------------------------
Init ==
  /\ entries = 0
  /\ ticket = [c \in Client |-> 0]
  /\ member = {}
  /\ inbox = [c \in Client |-> <<>>]
  /\ conn = [c \in Client |-> [d \in Client |-> NoConn]]
  /\ busy = [c \in Client |-> {}]
  /\ ready = [c \in Client |-> {}]

\* portal.create or portal.join handled by the server: the newcomer gets the
\* roster, every member learns of the newcomer.
Join(c) ==
  /\ ticket[c] = 0
  /\ entries' = entries + 1
  /\ ticket' = [ticket EXCEPT ![c] = entries + 1]
  /\ member' = member \union {c}
  /\ inbox' = [d \in Client |->
                 IF d = c THEN <<Msg("joined", c, member, 0)>>
                 ELSE IF d \in member
                   THEN Append(inbox[d], Msg("peer_joined", c, {}, 0))
                 ELSE inbox[d]]
  /\ UNCHANGED <<conn, busy, ready>>

\* onPortalReady: as a joiner, an entry in the offerer role for every member.
RecvJoined(c) ==
  /\ Receives(c, "joined")
  /\ conn' = [conn EXCEPT ![c] =
                [d \in Client |-> IF d \in Head(inbox[c]).roster
                                  THEN Entry(conn[c][d], TRUE)
                                  ELSE conn[c][d]]]
  /\ Consume(c)
  /\ UNCHANGED <<entries, ticket, member, busy, ready>>

\* onPeerJoined: we were here first, so we wait for the offer.
RecvPeerJoined(c) ==
  /\ Receives(c, "peer_joined")
  /\ LET d == Head(inbox[c]).from
     IN  conn' = [conn EXCEPT ![c][d] = Entry(@, FALSE)]
  /\ Consume(c)
  /\ UNCHANGED <<entries, ticket, member, busy, ready>>

\* kickOffOffer, first half: the local description is set, gathering starts.
CreateOffer(c, d) ==
  /\ c \in member
  /\ conn[c][d].role = "offerer"
  /\ ~conn[c][d].local
  /\ conn[c][d].state # "closed"
  /\ conn' = [conn EXCEPT ![c][d].local = TRUE]
  /\ UNCHANGED <<entries, ticket, member, inbox, busy, ready>>

\* kickOffOffer, second half.  Nothing re-checks the connection in between;
\* an offer to a peer that left meanwhile goes nowhere.
SendOffer(c, d) ==
  /\ c \in member
  /\ conn[c][d].role = "offerer"
  /\ conn[c][d].local
  /\ ~conn[c][d].sent
  /\ conn' = [conn EXCEPT ![c][d].sent = TRUE]
  /\ inbox' = Relay(d, Msg("offer", c, {}, 0))
  /\ UNCHANGED <<entries, ticket, member, busy, ready>>

\* onOffer up to the answer: an unknown sender is entered first; then the
\* remote description, the buffered candidates and the local answer.  The
\* run loop is busy until SendAnswer.
RecvOffer(c) ==
  /\ Receives(c, "offer")
  /\ LET d == Head(inbox[c]).from
         k == Entry(conn[c][d], FALSE)
         usable == k.role = "answerer" /\ k.state # "closed"
     IN  /\ conn' = [conn EXCEPT ![c][d] =
                       IF usable THEN HandleOffer(k) ELSE k]
         /\ busy' = [busy EXCEPT ![c] = IF usable THEN {d} ELSE {}]
  /\ Consume(c)
  /\ UNCHANGED <<entries, ticket, member, ready>>

\* onOffer after HandleOffer returned the answer.
SendAnswer(c, d) ==
  /\ c \in member
  /\ busy[c] = {d}
  /\ busy' = [busy EXCEPT ![c] = {}]
  /\ conn' = [conn EXCEPT ![c][d].sent = TRUE]
  /\ inbox' = Relay(d, Msg("answer", c, {}, 0))
  /\ UNCHANGED <<entries, ticket, member, ready>>

\* onAnswer: only an offerer's open connection takes it.
RecvAnswer(c) ==
  /\ Receives(c, "answer")
  /\ LET d == Head(inbox[c]).from
         k == conn[c][d]
     IN  conn' = [conn EXCEPT ![c][d] =
                    IF k.role = "offerer" /\ k.state # "closed"
                    THEN SetRemote(k) ELSE k]
  /\ Consume(c)
  /\ UNCHANGED <<entries, ticket, member, busy, ready>>

\* onRemoteICE: a candidate of a peer we do not know is dropped.
RecvICE(c) ==
  /\ Receives(c, "ice")
  /\ LET m == Head(inbox[c])
     IN  conn' = [conn EXCEPT ![c][m.from] =
                    IF Exists(c, m.from) THEN AddRemoteICE(@, m.cand) ELSE @]
  /\ Consume(c)
  /\ UNCHANGED <<entries, ticket, member, busy, ready>>

HasLocalICE(k) == k.local /\ k.forwarded < MaxCand

\* forwardLocalICE: gathered candidates go out in order, from a goroutine of
\* their own, as soon as the local description is set.  A closed connection
\* may still forward: its select picks between Done and LocalICE at random.
ForwardICE(c, d) ==
  /\ c \in member
  /\ HasLocalICE(conn[c][d])
  /\ conn' = [conn EXCEPT ![c][d].forwarded = @ + 1]
  /\ inbox' = Relay(d, Msg("ice", c, {}, conn[c][d].forwarded + 1))
  /\ UNCHANGED <<entries, ticket, member, busy, ready>>

\* onPeerLeft: the entry goes and its connection is closed.
RecvPeerLeft(c) ==
  /\ Receives(c, "peer_left")
  /\ LET d == Head(inbox[c]).from
     IN  /\ conn' = [conn EXCEPT ![c][d] = NoConn]
         /\ ready' = [ready EXCEPT ![c] = @ \ {d}]
  /\ Consume(c)
  /\ UNCHANGED <<entries, ticket, member, busy>>

Negotiated(k) == k.role # "none" /\ k.local /\ k.remote /\ k.state # "closed"

\* pion: ICE connects once both descriptions are in place on both ends and
\* one end knows a candidate of the other (the other end learns it from the
\* connectivity check).
Connect(c, d) ==
  /\ conn[c][d].state = "connecting"
  /\ Negotiated(conn[c][d]) /\ Negotiated(conn[d][c])
  /\ conn[c][d].added # {} \/ conn[d][c].added # {}
  /\ conn' = [conn EXCEPT ![c][d].state = "connected"]
  /\ UNCHANGED <<entries, ticket, member, inbox, busy, ready>>

\* OnConnectionStateChange with Failed, Closed or Disconnected: the
\* connection closes itself; the entry stays in Manager.peers.
Fail(c, d) ==
  /\ MayFail
  /\ c \in member
  /\ Negotiated(conn[c][d])
  /\ conn' = [conn EXCEPT ![c][d].state = "closed"]
  /\ UNCHANGED <<entries, ticket, member, inbox, busy, ready>>

\* watchState: connected with every channel open, announced once.
AnnounceReady(c, d) ==
  /\ c \in member
  /\ d \notin ready[c]
  /\ conn[c][d].state = "connected"
  /\ conn[d][c].state = "connected"
  /\ ready' = [ready EXCEPT ![c] = @ \union {d}]
  /\ UNCHANGED <<entries, ticket, member, inbox, conn, busy>>

\* Manager.Close: the client's connections close, its entries go, and the
\* server tells the others.  A joiner whose link drops clears its entries in
\* the same way before it rejoins.
Leave(c) ==
  /\ c \in MayLeave \intersect member
  /\ member' = member \ {c}
  /\ conn' = [conn EXCEPT ![c] = [d \in Client |-> NoConn]]
  /\ busy' = [busy EXCEPT ![c] = {}]
  /\ ready' = [ready EXCEPT ![c] = {}]
  /\ inbox' = [d \in Client |->
                 IF d = c THEN <<>>
                 ELSE IF d \in member
                   THEN Append(inbox[d], Msg("peer_left", c, {}, 0))
                 ELSE inbox[d]]
  /\ UNCHANGED <<entries, ticket>>

-----------------------------------------------------------------------------
RunLoop(c) ==
  \/ RecvJoined(c) \/ RecvPeerJoined(c) \/ RecvPeerLeft(c)
  \/ RecvOffer(c) \/ RecvAnswer(c) \/ RecvICE(c)
  \/ \E d \in Client : SendAnswer(c, d)

Next ==
  \/ \E c \in Client : Join(c) \/ Leave(c) \/ RunLoop(c)
  \/ \E c, d \in Client :
       \/ CreateOffer(c, d) \/ SendOffer(c, d) \/ ForwardICE(c, d)
       \/ Connect(c, d) \/ Fail(c, d) \/ AnnounceReady(c, d)

\* Goroutines run: the run loop drains its events, the per-peer goroutines
\* take their next step, and ICE connects when it can.  Nobody has to join,
\* leave or fail.
Fairness ==
  /\ \A c \in Client : WF_vars(RunLoop(c))
  /\ \A c, d \in Client : WF_vars(CreateOffer(c, d) \/ SendOffer(c, d))
  /\ \A c, d \in Client : WF_vars(ForwardICE(c, d))
  /\ \A c, d \in Client : WF_vars(Connect(c, d) \/ AnnounceReady(c, d))

Spec == Init /\ [][Next]_vars

FairSpec == Spec /\ Fairness

-----------------------------------------------------------------------------
TypeOK ==
  /\ entries \in Nat
  /\ ticket \in [Client -> 0..entries]
  /\ member \subseteq Client
  /\ inbox \in [Client -> Seq(Message)]
  /\ conn \in [Client -> [Client -> Conn]]
  /\ busy \in [Client -> SUBSET Client]
  /\ ready \in [Client -> SUBSET Client]

(***************************************************************************)
(* No glare: two members that know each other never both offer and never   *)
(* both wait.  It is what onPeerJoinedWithRoster's "exactly one newer side *)
(* per pair" promises, whatever the order of joins, rosters and offers.    *)
(***************************************************************************)
NoGlare ==
  \A c, d \in Client :
    Exists(c, d) /\ Exists(d, c) => conn[c][d].role # conn[d][c].role

(***************************************************************************)
(* Trickled candidates survive the race with the description: whatever a   *)
(* live connection forwarded to a member is still on its way, buffered in  *)
(* pendingRemoteICE or added (forwardLocalICE against HandleOffer and      *)
(* HandleAnswer).  A connection that already failed may drop them.         *)
(***************************************************************************)
NoCandidateLost ==
  \A c, d \in member :
    \A k \in 1..conn[c][d].forwarded :
      \/ conn[d][c].state = "closed"
      \/ k \in conn[d][c].pending \union conn[d][c].added
      \/ \E i \in 1..Len(inbox[d]) : inbox[d][i] = Msg("ice", c, {}, k)

(***************************************************************************)
(* An answer is only applied to a connection that offered, and only by a   *)
(* peer that took the offer: a connection with both descriptions faces one *)
(* whose answer or offer it applied, unless that peer is gone or has       *)
(* dropped its entry.                                                      *)
(***************************************************************************)
DescriptionsMatch ==
  \A c, d \in member :
    Exists(c, d) /\ Exists(d, c) /\ conn[c][d].remote =>
      /\ conn[d][c].local
      /\ conn[c][d].role = "offerer" => conn[c][d].sent /\ conn[d][c].remote

(***************************************************************************)
(* Nothing waits for ever: two members end up ready for each other unless  *)
(* one leaves or its connection fails.  In particular no candidate or      *)
(* description is delivered to a peer that does not know the sender yet.   *)
(***************************************************************************)
EveryPairBecomesReady ==
  \A c \in Client : \A d \in Client \ {c} :
    (c \in member /\ d \in member) ~>
      \/ d \in ready[c]
      \/ c \notin member \/ d \notin member
      \/ conn[c][d].state = "closed" \/ conn[d][c].state = "closed"

=============================================================================
