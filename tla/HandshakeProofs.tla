-------------------------- MODULE HandshakeProofs --------------------------
(***************************************************************************)
(* NoGlare, NoCandidateLost and DescriptionsMatch for every set of         *)
(* clients.  A role says nothing by itself about the other side; what      *)
(* makes the two roles of a pair fit is the order in which the server      *)
(* admitted the clients, so the first inductive invariant (IInv) ties      *)
(* roles, rosters, peer_joined messages and offers to the tickets.  The    *)
(* second one (DInv) adds what the two ends of a pair and the messages     *)
(* between them know of each other.                                        *)
(***************************************************************************)
EXTENDS Handshake, TLAPS

Earlier(c, d) == 0 < ticket[c] /\ ticket[c] < ticket[d]

MembersEntered == \A c \in member : ticket[c] # 0

\* An offerer came after its peer, an answerer before it.
RolesFollowTickets ==
  \A c, d \in Client :
    /\ conn[c][d].role = "offerer" => Earlier(d, c)
    /\ conn[c][d].role = "answerer" => Earlier(c, d)

\* What a message in c's inbox says about the order of entry.
MessageFollowsTickets(c, m) ==
  /\ m.type = "joined" => \A d \in m.roster : Earlier(d, c)
  /\ m.type \in {"peer_joined", "offer"} => Earlier(c, m.from)

MessagesFollowTickets ==
  \A c \in Client : \A i \in 1..Len(inbox[c]) : MessageFollowsTickets(c, inbox[c][i])

IInv ==
  /\ TypeOK
  /\ MembersEntered
  /\ RolesFollowTickets
  /\ MessagesFollowTickets

-----------------------------------------------------------------------------
(* Connections keep their type.                                            *)

LEMMA ConnTypes ==
  ASSUME NEW k \in Conn
  PROVE  /\ NoConn \in Conn
         /\ \A b \in BOOLEAN : Entry(k, b) \in Conn
         /\ SetRemote(k) \in Conn
         /\ HandleOffer(k) \in Conn
         /\ \A cand \in Cand : AddRemoteICE(k, cand) \in Conn
  <1>1. NoConn \in Conn
    BY HandshakeAssumption DEF NoConn, Conn
  <1>2. ASSUME NEW b \in BOOLEAN PROVE Entry(k, b) \in Conn
    <2>1. RoleOf(b) \in {"offerer", "answerer"}
      BY DEF RoleOf
    <2>2. NewConn(RoleOf(b)) \in Conn
      BY <1>1, <2>1 DEF NewConn, Conn
    <2> QED BY <2>2 DEF Entry
  <1>3. SetRemote(k) \in Conn
    BY DEF SetRemote, Conn
  <1>4. HandleOffer(k) \in Conn
    BY <1>3 DEF HandleOffer, Conn
  <1>5. ASSUME NEW cand \in Cand PROVE AddRemoteICE(k, cand) \in Conn
    BY DEF AddRemoteICE, Conn
  <1> QED BY <1>1, <1>2, <1>3, <1>4, <1>5

\* The helpers below never change a role that is already there.
LEMMA ConnRoles ==
  ASSUME NEW k \in Conn
  PROVE  /\ \A b \in BOOLEAN :
              Entry(k, b).role = IF k.role # "none" THEN k.role ELSE RoleOf(b)
         /\ SetRemote(k).role = k.role
         /\ HandleOffer(k).role = k.role
         /\ \A cand \in Cand : AddRemoteICE(k, cand).role = k.role
  BY DEF Conn, NoConn, Entry, NewConn, SetRemote, HandleOffer, AddRemoteICE

LEMMA MsgType ==
  ASSUME NEW type \in {"joined", "peer_joined", "peer_left", "offer", "answer", "ice"},
         NEW from \in Client, NEW roster \in SUBSET Client, NEW cand \in 0..MaxCand,
         type = "ice" => cand # 0
  PROVE  Msg(type, from, roster, cand) \in Message
  BY DEF Msg, Message

-----------------------------------------------------------------------------
(* Inboxes.                                                                *)

LEMMA AppendElement ==
  ASSUME NEW S, NEW s \in Seq(S), NEW m \in S, NEW i \in 1..Len(Append(s, m))
  PROVE  \/ Append(s, m)[i] = m
         \/ i \in 1..Len(s) /\ Append(s, m)[i] = s[i]
  OBVIOUS

LEMMA TailElement ==
  ASSUME NEW S, NEW s \in Seq(S), s # <<>>
  PROVE  /\ Tail(s) \in Seq(S)
         /\ \A i \in 1..Len(Tail(s)) : i + 1 \in 1..Len(s) /\ Tail(s)[i] = s[i + 1]
  OBVIOUS

LEMMA RelayFacts ==
  ASSUME IInv, ticket' = ticket,
         NEW to \in Client, NEW m \in Message, MessageFollowsTickets(to, m),
         inbox' = Relay(to, m)
  PROVE  inbox' \in [Client -> Seq(Message)] /\ MessagesFollowTickets'
  <1>1. inbox' \in [Client -> Seq(Message)]
    BY DEF IInv, TypeOK, Relay
  <1>2. MessagesFollowTickets'
    <2> SUFFICES ASSUME NEW c \in Client, NEW i \in 1..Len(inbox'[c])
                 PROVE  MessageFollowsTickets(c, inbox'[c][i])
      BY Zenon DEF MessagesFollowTickets, MessageFollowsTickets, Earlier
    <2>1. inbox'[c] = inbox[c] \/ (c = to /\ inbox'[c] = Append(inbox[c], m))
      BY DEF IInv, TypeOK, Relay
    <2>2. CASE inbox'[c] = inbox[c]
      BY <2>2 DEF IInv, MessagesFollowTickets
    <2>3. CASE c = to /\ inbox'[c] = Append(inbox[c], m)
      <3>1. inbox[c] \in Seq(Message)
        BY DEF IInv, TypeOK
      <3>2. inbox'[c][i] = m \/ (i \in 1..Len(inbox[c]) /\ inbox'[c][i] = inbox[c][i])
        BY <2>3, <3>1, AppendElement
      <3> QED BY <2>3, <3>2 DEF IInv, MessagesFollowTickets
    <2> QED BY <2>1, <2>2, <2>3
  <1> QED BY <1>1, <1>2

LEMMA ConsumeFacts ==
  ASSUME IInv, ticket' = ticket, NEW c \in Client, inbox[c] # <<>>, Consume(c)
  PROVE  /\ Head(inbox[c]) \in Message
         /\ MessageFollowsTickets(c, Head(inbox[c]))
         /\ inbox' \in [Client -> Seq(Message)]
         /\ MessagesFollowTickets'
  <1>1. inbox[c] \in Seq(Message) /\ inbox[c] # <<>>
    BY DEF IInv, TypeOK
  <1>2. 1 \in 1..Len(inbox[c]) /\ Head(inbox[c]) = inbox[c][1] /\ Head(inbox[c]) \in Message
    BY <1>1
  <1>3. Tail(inbox[c]) \in Seq(Message)
        /\ \A i \in 1..Len(Tail(inbox[c])) :
             i + 1 \in 1..Len(inbox[c]) /\ Tail(inbox[c])[i] = inbox[c][i + 1]
    BY <1>1, TailElement
  <1>4. inbox' \in [Client -> Seq(Message)]
    BY <1>3 DEF IInv, TypeOK, Consume
  <1>5. MessagesFollowTickets'
    <2> SUFFICES ASSUME NEW d \in Client, NEW i \in 1..Len(inbox'[d])
                 PROVE  MessageFollowsTickets(d, inbox'[d][i])
      BY Zenon DEF MessagesFollowTickets, MessageFollowsTickets, Earlier
    <2>1. inbox'[d] = IF d = c THEN Tail(inbox[c]) ELSE inbox[d]
      BY DEF IInv, TypeOK, Consume
    <2> QED BY <2>1, <1>3 DEF IInv, MessagesFollowTickets
  <1> QED BY <1>2, <1>4, <1>5 DEF IInv, MessagesFollowTickets

-----------------------------------------------------------------------------
THEOREM InitIInv == Init => IInv
  <1> SUFFICES ASSUME Init PROVE IInv
    OBVIOUS
  <1>1. NoConn \in Conn
    BY HandshakeAssumption DEF NoConn, Conn, Cand
  <1>2. TypeOK
    BY <1>1 DEF Init, TypeOK
  <1>3. MembersEntered /\ RolesFollowTickets /\ MessagesFollowTickets
    BY DEF Init, MembersEntered, RolesFollowTickets, MessagesFollowTickets, NoConn
  <1> QED BY <1>2, <1>3 DEF IInv

(***************************************************************************)
(* Steps that touch neither the tickets nor the set of members nor a role. *)
(***************************************************************************)
LEMMA KeepRoles ==
  ASSUME IInv, UNCHANGED <<entries, ticket, member>>,
         NEW c \in Client, NEW d \in Client, NEW k \in Conn,
         k.role \in {"none", conn[c][d].role},
         conn' = [conn EXCEPT ![c][d] = k]
  PROVE  conn' \in [Client -> [Client -> Conn]] /\ MembersEntered' /\ RolesFollowTickets'
  <1>1. conn' \in [Client -> [Client -> Conn]]
    BY DEF IInv, TypeOK
  <1>2. \A a, b \in Client : conn'[a][b].role \in {"none", conn[a][b].role}
    BY DEF IInv, TypeOK
  <1>3. MembersEntered'
    BY DEF IInv, MembersEntered
  <1>4. RolesFollowTickets'
    BY <1>2 DEF IInv, RolesFollowTickets, Earlier
  <1> QED BY <1>1, <1>3, <1>4

(***************************************************************************)
(* Steps that create at most the entry (c, d), in a role that the tickets  *)
(* allow.                                                                  *)
(***************************************************************************)
LEMMA NewRole ==
  ASSUME IInv, UNCHANGED <<entries, ticket, member>>,
         NEW c \in Client, NEW d \in Client, NEW k \in Conn,
         \/ k.role = conn[c][d].role
         \/ k.role = "answerer" /\ Earlier(c, d),
         conn' = [conn EXCEPT ![c][d] = k]
  PROVE  conn' \in [Client -> [Client -> Conn]] /\ MembersEntered' /\ RolesFollowTickets'
  <1>1. conn' \in [Client -> [Client -> Conn]]
    BY DEF IInv, TypeOK
  <1>2. \A a, b \in Client :
          conn'[a][b] = IF a = c /\ b = d THEN k ELSE conn[a][b]
    BY DEF IInv, TypeOK
  <1>3. MembersEntered'
    BY DEF IInv, MembersEntered
  <1>4. RolesFollowTickets'
    BY <1>2 DEF IInv, RolesFollowTickets, Earlier
  <1> QED BY <1>1, <1>3, <1>4
THEOREM NextIInv == IInv /\ [Next]_vars => IInv'
  <1> SUFFICES ASSUME IInv, [Next]_vars PROVE IInv'
    OBVIOUS
  <1> USE DEF IInv
  <1>1. ASSUME NEW c \in Client, Join(c) PROVE IInv'
    <2>1. Msg("joined", c, member, 0) \in Message /\ Msg("peer_joined", c, {}, 0) \in Message
      BY HandshakeAssumption, MsgType DEF TypeOK
    <2>2. /\ ticket[c] = 0 /\ entries' = entries + 1 /\ ticket'[c] = entries'
          /\ \A d \in Client \ {c} : ticket'[d] = ticket[d] /\ ticket[d] < entries'
      BY <1>1 DEF Join, TypeOK
    <2>3. \A a, b \in Client : Earlier(a, b) => Earlier(a, b)'
      <3> SUFFICES ASSUME NEW a \in Client, NEW b \in Client, Earlier(a, b)
                   PROVE  0 < ticket'[a] /\ ticket'[a] < ticket'[b]
        BY DEF Earlier
      <3>1. ticket[a] \in Nat /\ ticket[b] \in Nat /\ entries' \in Nat
        BY <2>2 DEF TypeOK
      <3>2. a # c /\ ticket'[a] = ticket[a] /\ ticket[a] < entries'
        BY <2>2, <3>1 DEF Earlier
      <3>3. CASE b = c
        BY <2>2, <3>1, <3>2, <3>3 DEF Earlier
      <3>4. CASE b # c
        BY <2>2, <3>1, <3>2, <3>4 DEF Earlier
      <3> QED BY <3>3, <3>4
    <2>4. \A d \in member : d # c /\ Earlier(d, c)'
      BY <2>2 DEF Earlier, TypeOK, MembersEntered
    <2>5. TypeOK'
      <3>1. entries' \in Nat /\ ticket' \in [Client -> 0..entries']
        BY <1>1 DEF Join, TypeOK
      <3>2. inbox' \in [Client -> Seq(Message)]
        BY <1>1, <2>1 DEF Join, TypeOK
      <3> QED BY <1>1, <3>1, <3>2 DEF Join, TypeOK
    <2>6. MembersEntered'
      BY <1>1, <2>2 DEF Join, MembersEntered, TypeOK
    <2>7. RolesFollowTickets'
      BY <1>1, <2>3 DEF Join, RolesFollowTickets
    <2>8. MessagesFollowTickets'
      <3> SUFFICES ASSUME NEW d \in Client, NEW i \in 1..Len(inbox'[d])
                   PROVE  MessageFollowsTickets(d, inbox[d][i])'
        BY DEF MessagesFollowTickets
      <3>1. CASE d = c
        <4>1. inbox'[d] = <<Msg("joined", c, member, 0)>>
          BY <1>1, <3>1 DEF Join, TypeOK
        <4>2. inbox'[d][i] = Msg("joined", c, member, 0)
          BY <4>1
        <4> QED BY <2>4, <3>1, <4>2 DEF MessageFollowsTickets, Msg
      <3>2. CASE d \in member /\ d # c
        <4>1. inbox'[d] = Append(inbox[d], Msg("peer_joined", c, {}, 0))
          BY <1>1, <3>2 DEF Join, TypeOK
        <4>2. inbox[d] \in Seq(Message)
          BY DEF TypeOK
        <4>3. \/ inbox'[d][i] = Msg("peer_joined", c, {}, 0)
              \/ i \in 1..Len(inbox[d]) /\ inbox'[d][i] = inbox[d][i]
          BY <2>1, <4>1, <4>2, AppendElement
        <4>4. CASE inbox'[d][i] = Msg("peer_joined", c, {}, 0)
          BY <2>4, <3>2, <4>4 DEF MessageFollowsTickets, Msg
        <4>5. CASE i \in 1..Len(inbox[d]) /\ inbox'[d][i] = inbox[d][i]
          <5>1. MessageFollowsTickets(d, inbox[d][i]) /\ inbox[d][i] \in Message
            BY <4>2, <4>5 DEF MessagesFollowTickets
          <5> QED BY <2>3, <4>5, <5>1 DEF MessageFollowsTickets, Message
        <4> QED BY <4>3, <4>4, <4>5
      <3>3. CASE d \notin member /\ d # c
        <4>1. inbox'[d] = inbox[d] /\ inbox[d] \in Seq(Message)
          BY <1>1, <3>3 DEF Join, TypeOK
        <4>2. MessageFollowsTickets(d, inbox[d][i]) /\ inbox[d][i] \in Message
          BY <4>1 DEF MessagesFollowTickets
        <4> QED BY <2>3, <4>1, <4>2 DEF MessageFollowsTickets, Message
      <3> QED BY <3>1, <3>2, <3>3
    <2> QED BY <2>5, <2>6, <2>7, <2>8
  <1>2. ASSUME NEW c \in Client, Leave(c) PROVE IInv'
    <2>1. Msg("peer_left", c, {}, 0) \in Message /\ NoConn \in Conn
      BY HandshakeAssumption, MsgType DEF NoConn, Conn
    <2>2. TypeOK'
      <3>1. inbox' \in [Client -> Seq(Message)]
        BY <1>2, <2>1 DEF Leave, TypeOK
      <3>2. conn' \in [Client -> [Client -> Conn]]
        BY <1>2, <2>1 DEF Leave, TypeOK
      <3> QED BY <1>2, <3>1, <3>2 DEF Leave, TypeOK
    <2>3. MembersEntered'
      BY <1>2 DEF Leave, MembersEntered
    <2>4. RolesFollowTickets'
      <3>1. \A a, b \in Client : conn'[a][b] = IF a = c THEN NoConn ELSE conn[a][b]
        BY <1>2 DEF Leave, TypeOK
      <3>2. \A a, b \in Client : conn'[a][b].role \in {"none", conn[a][b].role}
        BY <3>1 DEF NoConn
      <3> QED BY <1>2, <3>2 DEF Leave, RolesFollowTickets, Earlier
    <2>5. MessagesFollowTickets'
      <3> SUFFICES ASSUME NEW d \in Client, NEW i \in 1..Len(inbox'[d])
                   PROVE  MessageFollowsTickets(d, inbox'[d][i])
        <4>1. ticket' = ticket
          BY <1>2 DEF Leave
        <4> QED BY <4>1, Zenon DEF MessagesFollowTickets, MessageFollowsTickets, Earlier
      <3>1. inbox[d] \in Seq(Message)
        BY DEF TypeOK
      <3>2. \/ inbox'[d] = <<>>
            \/ inbox'[d] = inbox[d]
            \/ inbox'[d] = Append(inbox[d], Msg("peer_left", c, {}, 0))
        BY <1>2 DEF Leave, TypeOK
      <3>3. \/ inbox'[d][i] = Msg("peer_left", c, {}, 0)
            \/ i \in 1..Len(inbox[d]) /\ inbox'[d][i] = inbox[d][i]
        BY <2>1, <3>1, <3>2, AppendElement, SMTT(20)
      <3> QED BY <3>3 DEF MessagesFollowTickets, MessageFollowsTickets, Msg
    <2> QED BY <2>2, <2>3, <2>4, <2>5
  <1>3. ASSUME NEW c \in Client, RecvJoined(c) PROVE IInv'
    <2>1. /\ Head(inbox[c]) \in Message
          /\ MessageFollowsTickets(c, Head(inbox[c]))
          /\ inbox' \in [Client -> Seq(Message)]
          /\ MessagesFollowTickets'
      BY <1>3, ConsumeFacts DEF RecvJoined, Receives
    <2> DEFINE roster == Head(inbox[c]).roster
    <2>2. \A d \in roster : Earlier(d, c)
      BY <1>3, <2>1 DEF RecvJoined, Receives, MessageFollowsTickets
    <2>3. \A a, d \in Client :
            conn'[a][d] = IF a = c /\ d \in roster THEN Entry(conn[a][d], TRUE) ELSE conn[a][d]
      BY <1>3 DEF RecvJoined, TypeOK
    <2>4. conn' \in [Client -> [Client -> Conn]]
      <3>1. \A a, d \in Client : Entry(conn[a][d], TRUE) \in Conn
        BY ConnTypes DEF TypeOK
      <3> QED BY <1>3, <3>1 DEF RecvJoined, TypeOK
    <2>5. RolesFollowTickets'
      <3>1. \A a, d \in Client :
              \/ conn'[a][d].role = conn[a][d].role
              \/ a = c /\ d \in roster /\ conn'[a][d].role = "offerer"
        <4> SUFFICES ASSUME NEW a \in Client, NEW d \in Client
                     PROVE  \/ conn'[a][d].role = conn[a][d].role
                            \/ a = c /\ d \in roster /\ conn'[a][d].role = "offerer"
          OBVIOUS
        <4>1. conn[a][d] \in Conn
          BY DEF TypeOK
        <4>2. \/ Entry(conn[a][d], TRUE).role = conn[a][d].role
              \/ Entry(conn[a][d], TRUE).role = "offerer"
          BY <4>1, ConnRoles DEF RoleOf
        <4> QED BY <2>3, <4>2
      <3> QED BY <1>3, <2>2, <3>1, ZenonT(30) DEF RecvJoined, RolesFollowTickets, Earlier
    <2> QED BY <1>3, <2>1, <2>4, <2>5 DEF RecvJoined, TypeOK, MembersEntered
  <1>4. ASSUME NEW c \in Client, RecvPeerJoined(c) PROVE IInv'
    <2>1. /\ Head(inbox[c]) \in Message
          /\ MessageFollowsTickets(c, Head(inbox[c]))
          /\ inbox' \in [Client -> Seq(Message)]
          /\ MessagesFollowTickets'
      BY <1>4, ConsumeFacts DEF RecvPeerJoined, Receives
    <2> DEFINE d == Head(inbox[c]).from
               k == Entry(conn[c][d], FALSE)
    <2>2. d \in Client /\ Earlier(c, d)
      BY <1>4, <2>1 DEF RecvPeerJoined, Receives, MessageFollowsTickets, Message
    <2>3. k \in Conn /\ (k.role = conn[c][d].role \/ k.role = "answerer")
      <3>1. PICK q : q = conn[c][d]
        OBVIOUS
      <3>2. q \in Conn
        BY <2>2, <3>1 DEF TypeOK
      <3>3. Entry(q, FALSE) \in Conn
        BY <3>2, ConnTypes
      <3>4. Entry(q, FALSE).role = IF q.role # "none" THEN q.role ELSE "answerer"
        BY <3>2, ConnRoles DEF RoleOf
      <3> QED BY <3>1, <3>3, <3>4
    <2>4. conn' \in [Client -> [Client -> Conn]] /\ MembersEntered' /\ RolesFollowTickets'
      <3>1. conn' = [conn EXCEPT ![c][d] = k]
        BY <1>4 DEF RecvPeerJoined
      <3>2. UNCHANGED <<entries, ticket, member>>
        BY <1>4 DEF RecvPeerJoined
      <3> HIDE DEF d, k
      <3> QED BY <2>2, <2>3, <3>1, <3>2, NewRole
    <2> QED BY <1>4, <2>1, <2>4 DEF RecvPeerJoined, TypeOK
  <1>5. ASSUME NEW c \in Client, RecvOffer(c) PROVE IInv'
    <2>1. /\ Head(inbox[c]) \in Message
          /\ MessageFollowsTickets(c, Head(inbox[c]))
          /\ inbox' \in [Client -> Seq(Message)]
          /\ MessagesFollowTickets'
      BY <1>5, ConsumeFacts DEF RecvOffer, Receives
    <2> DEFINE d == Head(inbox[c]).from
               e == Entry(conn[c][d], FALSE)
               usable == e.role = "answerer" /\ e.state # "closed"
               k == IF usable THEN HandleOffer(e) ELSE e
    <2>2. d \in Client /\ Earlier(c, d)
      BY <1>5, <2>1 DEF RecvOffer, Receives, MessageFollowsTickets, Message
    <2>3. e \in Conn /\ (e.role = conn[c][d].role \/ e.role = "answerer")
      <3>1. PICK q : q = conn[c][d]
        OBVIOUS
      <3>2. q \in Conn
        BY <2>2, <3>1 DEF TypeOK
      <3>3. Entry(q, FALSE) \in Conn
        BY <3>2, ConnTypes
      <3>4. Entry(q, FALSE).role = IF q.role # "none" THEN q.role ELSE "answerer"
        BY <3>2, ConnRoles DEF RoleOf
      <3> QED BY <3>1, <3>3, <3>4
    <2>4. k \in Conn /\ k.role = e.role
      BY <2>3, ConnTypes, ConnRoles
    <2>5. conn' \in [Client -> [Client -> Conn]] /\ MembersEntered' /\ RolesFollowTickets'
      <3>1. conn' = [conn EXCEPT ![c][d] = k]
        BY <1>5 DEF RecvOffer
      <3>2. UNCHANGED <<entries, ticket, member>>
        BY <1>5 DEF RecvOffer
      <3> HIDE DEF d, k
      <3> QED BY <2>2, <2>3, <2>4, <3>1, <3>2, NewRole
    <2>6. busy' \in [Client -> SUBSET Client]
      BY <1>5, <2>2, Zenon DEF RecvOffer, TypeOK
    <2> QED BY <1>5, <2>1, <2>5, <2>6 DEF RecvOffer, TypeOK
  <1>6. ASSUME NEW c \in Client, RecvAnswer(c) PROVE IInv'
    <2>1. /\ Head(inbox[c]) \in Message
          /\ inbox' \in [Client -> Seq(Message)]
          /\ MessagesFollowTickets'
      BY <1>6, ConsumeFacts DEF RecvAnswer, Receives
    <2> DEFINE d == Head(inbox[c]).from
               e == conn[c][d]
               k == IF e.role = "offerer" /\ e.state # "closed" THEN SetRemote(e) ELSE e
    <2>2. d \in Client /\ e \in Conn
      BY <2>1 DEF Message, TypeOK
    <2>3. k \in Conn /\ k.role = e.role
      BY <2>2, ConnTypes, ConnRoles
    <2>4. conn' \in [Client -> [Client -> Conn]] /\ MembersEntered' /\ RolesFollowTickets'
      <3>1. conn' = [conn EXCEPT ![c][d] = k]
        BY <1>6 DEF RecvAnswer
      <3>2. UNCHANGED <<entries, ticket, member>>
        BY <1>6 DEF RecvAnswer
      <3> HIDE DEF d, k
      <3> QED BY <2>2, <2>3, <3>1, <3>2, NewRole
    <2> QED BY <1>6, <2>1, <2>4 DEF RecvAnswer, TypeOK
  <1>7. ASSUME NEW c \in Client, RecvICE(c) PROVE IInv'
    <2>1. /\ Head(inbox[c]) \in Message
          /\ inbox' \in [Client -> Seq(Message)]
          /\ MessagesFollowTickets'
      BY <1>7, ConsumeFacts DEF RecvICE, Receives
    <2> DEFINE d == Head(inbox[c]).from
               e == conn[c][d]
               k == IF Exists(c, d) THEN AddRemoteICE(e, Head(inbox[c]).cand) ELSE e
    <2>2. d \in Client /\ e \in Conn
      BY <2>1 DEF Message, TypeOK
    <2>3. k \in Conn /\ k.role = e.role
      <3>1. Head(inbox[c]).cand \in Cand
        BY <1>7, <2>1, HandshakeAssumption DEF RecvICE, Receives, Message, Cand
      <3> QED BY <2>2, <3>1, ConnTypes, ConnRoles
    <2>4. conn' \in [Client -> [Client -> Conn]] /\ MembersEntered' /\ RolesFollowTickets'
      <3>1. conn' = [conn EXCEPT ![c][d] = k]
        BY <1>7 DEF RecvICE
      <3>2. UNCHANGED <<entries, ticket, member>>
        BY <1>7 DEF RecvICE
      <3> HIDE DEF d, k
      <3> QED BY <2>2, <2>3, <3>1, <3>2, NewRole
    <2> QED BY <1>7, <2>1, <2>4 DEF RecvICE, TypeOK
  <1>8. ASSUME NEW c \in Client, RecvPeerLeft(c) PROVE IInv'
    <2>1. /\ Head(inbox[c]) \in Message
          /\ inbox' \in [Client -> Seq(Message)]
          /\ MessagesFollowTickets'
      BY <1>8, ConsumeFacts DEF RecvPeerLeft, Receives
    <2> DEFINE d == Head(inbox[c]).from
    <2>2. d \in Client /\ NoConn \in Conn /\ NoConn.role = "none"
      BY <2>1, HandshakeAssumption DEF Message, NoConn, Conn
    <2>3. conn' \in [Client -> [Client -> Conn]] /\ MembersEntered' /\ RolesFollowTickets'
      <3>1. conn' = [conn EXCEPT ![c][d] = NoConn] /\ UNCHANGED <<entries, ticket, member>>
        BY <1>8 DEF RecvPeerLeft
      <3> HIDE DEF d
      <3> QED BY <2>2, <3>1, KeepRoles
    <2> QED BY <1>8, <2>1, <2>3 DEF RecvPeerLeft, TypeOK
  <1>9. ASSUME NEW c \in Client, NEW d \in Client,
               CreateOffer(c, d) \/ Connect(c, d) \/ Fail(c, d)
        PROVE  IInv'
    <2>1. PICK k \in Conn : k.role = conn[c][d].role /\ conn' = [conn EXCEPT ![c][d] = k]
      <3>1. conn[c][d] \in Conn
        BY DEF TypeOK
      <3>2. CASE CreateOffer(c, d)
        <4> DEFINE k == [conn[c][d] EXCEPT !.local = TRUE]
        <4>1. k \in Conn /\ k.role = conn[c][d].role
          BY <3>1 DEF Conn
        <4>2. conn' = [conn EXCEPT ![c][d] = k]
          BY <3>2 DEF CreateOffer, TypeOK
        <4> QED BY <4>1, <4>2
      <3>3. CASE Connect(c, d)
        <4> DEFINE k == [conn[c][d] EXCEPT !.state = "connected"]
        <4>1. k \in Conn /\ k.role = conn[c][d].role
          BY <3>1 DEF Conn
        <4>2. conn' = [conn EXCEPT ![c][d] = k]
          BY <3>3 DEF Connect, TypeOK
        <4> QED BY <4>1, <4>2
      <3>4. CASE Fail(c, d)
        <4> DEFINE k == [conn[c][d] EXCEPT !.state = "closed"]
        <4>1. k \in Conn /\ k.role = conn[c][d].role
          BY <3>1 DEF Conn
        <4>2. conn' = [conn EXCEPT ![c][d] = k]
          BY <3>4 DEF Fail, TypeOK
        <4> QED BY <4>1, <4>2
      <3> QED BY <1>9, <3>2, <3>3, <3>4
    <2>2. UNCHANGED <<entries, ticket, member, inbox, busy, ready>>
      BY <1>9 DEF CreateOffer, Connect, Fail
    <2>3. conn' \in [Client -> [Client -> Conn]] /\ MembersEntered' /\ RolesFollowTickets'
      BY <2>1, <2>2, NewRole
    <2>4. MessagesFollowTickets'
      BY <2>2 DEF MessagesFollowTickets, MessageFollowsTickets, Earlier
    <2> QED BY <2>2, <2>3, <2>4 DEF TypeOK
  <1>10. ASSUME NEW c \in Client, NEW d \in Client,
                SendOffer(c, d) \/ SendAnswer(c, d) \/ ForwardICE(c, d)
         PROVE  IInv'
    <2>1. conn[c][d] \in Conn /\ UNCHANGED <<entries, ticket, member, ready>>
      BY <1>10 DEF TypeOK, SendOffer, SendAnswer, ForwardICE
    <2>2. PICK k \in Conn, m \in Message :
            /\ k.role = conn[c][d].role /\ conn' = [conn EXCEPT ![c][d] = k]
            /\ MessageFollowsTickets(d, m) /\ inbox' = Relay(d, m)
      <3>1. CASE SendOffer(c, d)
        <4> DEFINE k == [conn[c][d] EXCEPT !.sent = TRUE]
                   m == Msg("offer", c, {}, 0)
        <4>1. k \in Conn /\ k.role = conn[c][d].role
          BY <2>1 DEF Conn
        <4>2. m \in Message
          BY HandshakeAssumption, MsgType
        <4>3. MessageFollowsTickets(d, m)
          BY <3>1 DEF SendOffer, RolesFollowTickets, MessageFollowsTickets, Msg
        <4>4. conn' = [conn EXCEPT ![c][d] = k] /\ inbox' = Relay(d, m)
          BY <3>1 DEF SendOffer, TypeOK
        <4> HIDE DEF k, m
        <4> QED BY <4>1, <4>2, <4>3, <4>4
      <3>2. CASE SendAnswer(c, d)
        <4> DEFINE k == [conn[c][d] EXCEPT !.sent = TRUE]
                   m == Msg("answer", c, {}, 0)
        <4>1. k \in Conn /\ k.role = conn[c][d].role
          BY <2>1 DEF Conn
        <4>2. m \in Message /\ MessageFollowsTickets(d, m)
          BY HandshakeAssumption, MsgType DEF MessageFollowsTickets, Msg
        <4>3. conn' = [conn EXCEPT ![c][d] = k] /\ inbox' = Relay(d, m)
          BY <3>2 DEF SendAnswer, TypeOK
        <4> HIDE DEF k, m
        <4> QED BY <4>1, <4>2, <4>3
      <3>3. CASE ForwardICE(c, d)
        <4> DEFINE k == [conn[c][d] EXCEPT !.forwarded = @ + 1]
                   m == Msg("ice", c, {}, conn[c][d].forwarded + 1)
        <4>1. conn[c][d].forwarded + 1 \in 1..MaxCand
          BY <2>1, <3>3, HandshakeAssumption DEF ForwardICE, HasLocalICE, Conn
        <4>2. k \in Conn /\ k.role = conn[c][d].role
          BY <2>1, <4>1 DEF Conn
        <4>3. m \in Message /\ MessageFollowsTickets(d, m)
          BY <4>1, MsgType DEF MessageFollowsTickets, Msg
        <4>4. conn' = [conn EXCEPT ![c][d] = k] /\ inbox' = Relay(d, m)
          BY <3>3 DEF ForwardICE, TypeOK
        <4> HIDE DEF k, m
        <4> QED BY <4>2, <4>3, <4>4
      <3> QED BY <1>10, <3>1, <3>2, <3>3
    <2>3. conn' \in [Client -> [Client -> Conn]] /\ MembersEntered' /\ RolesFollowTickets'
      BY <2>1, <2>2, NewRole
    <2>4. inbox' \in [Client -> Seq(Message)] /\ MessagesFollowTickets'
      BY <2>1, <2>2, RelayFacts
    <2>5. busy' \in [Client -> SUBSET Client]
      BY <1>10 DEF SendOffer, SendAnswer, ForwardICE, TypeOK
    <2> QED BY <2>1, <2>3, <2>4, <2>5 DEF TypeOK
  <1>11. ASSUME NEW c \in Client, NEW d \in Client, AnnounceReady(c, d) PROVE IInv'
    <2>1. UNCHANGED <<entries, ticket, member, inbox, conn, busy>>
      BY <1>11 DEF AnnounceReady
    <2>2. MembersEntered' /\ RolesFollowTickets' /\ MessagesFollowTickets'
      BY <2>1 DEF MembersEntered, RolesFollowTickets, MessagesFollowTickets,
                  MessageFollowsTickets, Earlier
    <2>3. TypeOK'
      BY <1>11, <2>1 DEF AnnounceReady, TypeOK
    <2> QED BY <2>2, <2>3
  <1>12. CASE UNCHANGED vars
    BY <1>12, Zenon DEF vars, TypeOK, MembersEntered, RolesFollowTickets,
                 MessagesFollowTickets, MessageFollowsTickets, Earlier
  <1> QED
    BY <1>1, <1>2, <1>3, <1>4, <1>5, <1>6, <1>7, <1>8, <1>9, <1>10, <1>11, <1>12
    DEF Next, RunLoop

(***************************************************************************)
(* Type correctness and no glare, for every set of clients, every number   *)
(* of candidates and every order of joins, leaves and messages.            *)
(***************************************************************************)
THEOREM TypeCorrect == Spec => []TypeOK
  <1>1. IInv => TypeOK
    BY DEF IInv
  <1> QED BY <1>1, InitIInv, NextIInv, PTL DEF Spec

THEOREM NoGlareHolds == Spec => []NoGlare
  <1>1. IInv => NoGlare
    <2> SUFFICES ASSUME IInv, NEW c \in Client, NEW d \in Client,
                        Exists(c, d), Exists(d, c), conn[c][d].role = conn[d][c].role
                 PROVE  FALSE
      BY DEF NoGlare
    <2>1. conn[c][d] \in Conn /\ ticket[c] \in Nat /\ ticket[d] \in Nat
      BY DEF IInv, TypeOK
    <2>2. conn[c][d].role \in {"offerer", "answerer"}
      BY <2>1 DEF Exists, Conn
    <2>3. Earlier(c, d) /\ Earlier(d, c)
      BY <2>2 DEF IInv, RolesFollowTickets
    <2> QED BY <2>1, <2>3 DEF Earlier
  <1> QED BY <1>1, InitIInv, NextIInv, PTL DEF Spec

-----------------------------------------------------------------------------
(***************************************************************************)
(* NoCandidateLost and DescriptionsMatch.  A candidate is only safe if its *)
(* receiver knows the sender when it arrives: the peer_joined or the offer *)
(* that introduces the sender is always ahead of it in the same inbox.     *)
(* The invariant therefore says of every message on its way what already   *)
(* holds at the other end, and of every entry what its peer has done.      *)
(***************************************************************************)

\* Clients outside the portal keep nothing.
AbsentAreBlank ==
  \A c \in Client \ member :
    inbox[c] = <<>> /\ busy[c] = {} /\ \A d \in Client : conn[c][d] = NoConn

NoneIsNoConn == \A c, d \in Client : ~Exists(c, d) => conn[c][d] = NoConn

BusyAnswers ==
  \A c \in Client : \A d \in busy[c] :
    conn[c][d].role = "answerer" /\ conn[c][d].local /\ conn[c][d].remote

SendersEntered ==
  \A c \in Client : \A i \in 1..Len(inbox[c]) : ticket[inbox[c][i].from] # 0

BInv ==
  /\ IInv
  /\ AbsentAreBlank
  /\ NoneIsNoConn
  /\ BusyAnswers
  /\ SendersEntered

Offered(c, d) == conn[c][d].role = "offerer" /\ conn[c][d].local /\ conn[c][d].sent

Answered(c, d) == conn[c][d].role = "answerer" /\ conn[c][d].local /\ conn[c][d].remote

\* One of the first n messages to c introduces d.
Introduced(c, d, n) ==
  \E j \in 1..n : inbox[c][j].type = "peer_joined" /\ inbox[c][j].from = d

Expects(c, d) == Exists(c, d) \/ Introduced(c, d, Len(inbox[c]))

\* What the i-th message to c says about its sender.
Justified(c, i) ==
  LET m == inbox[c][i]
  IN  /\ m.type = "joined" =>
           m.from = c /\ \A d \in m.roster \intersect member : Expects(d, c)
      /\ m.type = "peer_left" => m.from \notin member
      /\ m.from \in member =>
           /\ m.type = "offer" => Offered(m.from, c)
           /\ m.type = "answer" => Answered(m.from, c)
           /\ m.type = "ice" => Exists(c, m.from) \/ Introduced(c, m.from, i - 1)

MessagesJustified == \A c \in Client : \A i \in 1..Len(inbox[c]) : Justified(c, i)

\* What c's entry for d says about d's entry for c.
Answers(c, d) ==
  /\ conn[c][d].role = "offerer" => Expects(d, c)
  /\ conn[c][d].role = "offerer" /\ conn[c][d].remote => Answered(d, c)
  /\ conn[c][d].role = "answerer" /\ (conn[c][d].local \/ conn[c][d].remote) =>
       Answered(c, d) /\ Offered(d, c)

EntriesAnswer == \A c, d \in member : Answers(c, d)

DInv ==
  /\ BInv
  /\ MessagesJustified
  /\ EntriesAnswer
  /\ NoCandidateLost

-----------------------------------------------------------------------------
(* What a connection never loses, and the helpers that keep it.            *)

Grows(k, l) ==
  /\ k.role # "none" => l.role = k.role
  /\ k.local => l.local
  /\ k.sent => l.sent
  /\ k.remote => l.remote
  /\ k.state = "closed" => l.state = "closed"
  /\ k.pending \union k.added \subseteq l.pending \union l.added

LEMMA BlankGrows ==
  ASSUME NEW l \in Conn
  PROVE  Grows(NoConn, l)
  BY DEF Grows, NoConn, Conn

LEMMA EntryGrows ==
  ASSUME NEW k \in Conn, k.role = "none" => k = NoConn, NEW b \in BOOLEAN
  PROVE  /\ Entry(k, b) \in Conn
         /\ Entry(k, b).role # "none"
         /\ Grows(k, Entry(k, b))
         /\ Entry(k, b).forwarded = k.forwarded
         /\ \/ Entry(k, b) = k
            \/ /\ k = NoConn
               /\ Entry(k, b).role = RoleOf(b)
               /\ ~Entry(k, b).local /\ ~Entry(k, b).remote
  <1>1. Entry(k, b) \in Conn
    BY ConnTypes
  <1>2. CASE k.role # "none"
    BY <1>1, <1>2 DEF Entry, Grows
  <1>3. CASE k.role = "none"
    <2>1. k = NoConn /\ Entry(k, b) = NewConn(RoleOf(b))
      BY <1>3 DEF Entry
    <2>2. RoleOf(b) # "none"
      BY DEF RoleOf
    <2>3. /\ NewConn(RoleOf(b)).role = RoleOf(b)
          /\ ~NewConn(RoleOf(b)).local /\ ~NewConn(RoleOf(b)).remote
          /\ NewConn(RoleOf(b)).forwarded = NoConn.forwarded
      BY DEF NewConn, NoConn
    <2>4. Grows(k, Entry(k, b))
      BY <1>1, <2>1, BlankGrows
    <2> QED BY <1>1, <2>1, <2>2, <2>3, <2>4
  <1> QED BY <1>2, <1>3

LEMMA RemoteGrows ==
  ASSUME NEW k \in Conn
  PROVE  /\ SetRemote(k) \in Conn /\ Grows(k, SetRemote(k))
         /\ SetRemote(k).role = k.role /\ SetRemote(k).local = k.local
         /\ SetRemote(k).forwarded = k.forwarded
         /\ HandleOffer(k) \in Conn /\ Grows(k, HandleOffer(k))
         /\ HandleOffer(k).role = k.role
         /\ HandleOffer(k).local /\ HandleOffer(k).remote
         /\ HandleOffer(k).forwarded = k.forwarded
  <1>1. SetRemote(k) \in Conn /\ HandleOffer(k) \in Conn
    BY ConnTypes
  <1>2. /\ Grows(k, SetRemote(k)) /\ SetRemote(k).role = k.role
        /\ SetRemote(k).local = k.local /\ SetRemote(k).forwarded = k.forwarded
    BY DEF SetRemote, Grows, Conn
  <1>3. /\ Grows(k, HandleOffer(k)) /\ HandleOffer(k).role = k.role
        /\ HandleOffer(k).local /\ HandleOffer(k).remote
        /\ HandleOffer(k).forwarded = k.forwarded
    BY DEF SetRemote, HandleOffer, Grows, Conn
  <1> QED BY <1>1, <1>2, <1>3

LEMMA IceGrows ==
  ASSUME NEW k \in Conn, NEW cand \in Cand
  PROVE  /\ Grows(k, AddRemoteICE(k, cand))
         /\ \/ AddRemoteICE(k, cand).state = "closed"
            \/ cand \in AddRemoteICE(k, cand).pending \union AddRemoteICE(k, cand).added
         /\ AddRemoteICE(k, cand).role = k.role
         /\ AddRemoteICE(k, cand).local = k.local
         /\ AddRemoteICE(k, cand).remote = k.remote
         /\ AddRemoteICE(k, cand).forwarded = k.forwarded
  BY DEF AddRemoteICE, Grows, Conn

-----------------------------------------------------------------------------
(* The four simple parts.                                                  *)

LEMMA PointUpdate ==
  ASSUME TypeOK, NEW c \in Client, NEW d \in Client, NEW k,
         conn' = [conn EXCEPT ![c][d] = k]
  PROVE  /\ \A a, b \in Client : conn'[a][b] = IF a = c /\ b = d THEN k ELSE conn[a][b]
         /\ \A a \in Client \ {c} : conn'[a] = conn[a]
  BY DEF TypeOK

LEMMA RelaySenders ==
  ASSUME BInv, ticket' = ticket, NEW to \in Client, NEW m \in Message,
         ticket[m.from] # 0, inbox' = Relay(to, m)
  PROVE  SendersEntered'
  <1> SUFFICES ASSUME NEW c \in Client, NEW i \in 1..Len(inbox'[c])
               PROVE  ticket[inbox'[c][i].from] # 0
    BY DEF SendersEntered
  <1>1. inbox[c] \in Seq(Message)
    BY DEF BInv, IInv, TypeOK
  <1>2. inbox'[c] = inbox[c] \/ inbox'[c] = Append(inbox[c], m)
    BY DEF BInv, IInv, TypeOK, Relay
  <1>3. inbox'[c][i] = m \/ (i \in 1..Len(inbox[c]) /\ inbox'[c][i] = inbox[c][i])
    BY <1>1, <1>2, AppendElement, SMTT(20)
  <1> QED BY <1>3 DEF BInv, SendersEntered

LEMMA ConsumeSenders ==
  ASSUME BInv, ticket' = ticket, NEW c \in Client, inbox[c] # <<>>, Consume(c)
  PROVE  /\ SendersEntered'
         /\ \A a \in Client \ {c} : inbox'[a] = inbox[a]
         /\ inbox'[c] = Tail(inbox[c])
         /\ ticket[Head(inbox[c]).from] # 0
  <1>1. inbox[c] \in Seq(Message)
    BY DEF BInv, IInv, TypeOK
  <1>2. \A a \in Client : inbox'[a] = IF a = c THEN Tail(inbox[c]) ELSE inbox[a]
    BY DEF BInv, IInv, TypeOK, Consume
  <1>3. \A i \in 1..Len(Tail(inbox[c])) :
          i + 1 \in 1..Len(inbox[c]) /\ Tail(inbox[c])[i] = inbox[c][i + 1]
    BY <1>1, TailElement
  <1>4. SendersEntered'
    <2> SUFFICES ASSUME NEW a \in Client, NEW i \in 1..Len(inbox'[a])
                 PROVE  ticket[inbox'[a][i].from] # 0
      BY DEF SendersEntered
    <2>1. CASE a = c
      <3>1. i \in 1..Len(Tail(inbox[c])) /\ inbox'[a][i] = Tail(inbox[c])[i]
        BY <1>2, <2>1
      <3>2. i + 1 \in 1..Len(inbox[c]) /\ inbox'[a][i] = inbox[c][i + 1]
        BY <1>3, <3>1
      <3> QED BY <3>2 DEF BInv, SendersEntered
    <2>2. CASE a # c
      BY <1>2, <2>2 DEF BInv, SendersEntered
    <2> QED BY <2>1, <2>2
  <1>5. 1 \in 1..Len(inbox[c]) /\ Head(inbox[c]) = inbox[c][1]
    BY <1>1
  <1> QED BY <1>2, <1>4, <1>5 DEF BInv, SendersEntered

\* A step of one member's goroutines: it touches its own entries only.
LEMMA OwnStep ==
  ASSUME BInv, member' = member, NEW c \in member,
         \A a \in Client \ {c} : conn'[a] = conn[a] /\ busy'[a] = busy[a],
         \A a \in Client \ member : inbox'[a] = inbox[a],
         \A b \in Client : conn'[c][b].role = "none" => conn'[c][b] = NoConn,
         \A b \in busy'[c] :
           conn'[c][b].role = "answerer" /\ conn'[c][b].local /\ conn'[c][b].remote
  PROVE  AbsentAreBlank' /\ NoneIsNoConn' /\ BusyAnswers'
  <1>1. AbsentAreBlank'
    BY DEF BInv, AbsentAreBlank
  <1>2. NoneIsNoConn'
    BY DEF BInv, NoneIsNoConn, Exists
  <1>3. BusyAnswers'
    BY DEF BInv, BusyAnswers
  <1> QED BY <1>1, <1>2, <1>3

LEMMA InitBInv == Init => BInv
  <1> SUFFICES ASSUME Init PROVE BInv
    OBVIOUS
  <1>1. IInv
    BY InitIInv
  <1>2. AbsentAreBlank /\ NoneIsNoConn /\ BusyAnswers /\ SendersEntered
    BY DEF Init, AbsentAreBlank, NoneIsNoConn, BusyAnswers, SendersEntered
  <1> QED BY <1>1, <1>2 DEF BInv

LEMMA JoinBInv ==
  ASSUME BInv, NEW c \in Client, Join(c), IInv'
  PROVE  BInv'
  <1> USE DEF BInv, IInv
  <1>1. /\ ticket[c] = 0 /\ c \notin member /\ entries + 1 # 0
        /\ \A d \in Client : ticket'[d] = IF d = c THEN entries + 1 ELSE ticket[d]
    BY DEF Join, TypeOK, MembersEntered
  <1>2. AbsentAreBlank'
    BY DEF Join, AbsentAreBlank
  <1>3. NoneIsNoConn' /\ BusyAnswers'
    BY DEF Join, NoneIsNoConn, BusyAnswers, Exists
  <1>4. SendersEntered'
    <2> SUFFICES ASSUME NEW d \in Client, NEW i \in 1..Len(inbox'[d])
                 PROVE  ticket'[inbox'[d][i].from] # 0
      BY DEF SendersEntered
    <2>1. inbox[d] \in Seq(Message) /\ inbox'[d] \in Seq(Message)
      BY DEF TypeOK
    <2>2. inbox'[d][i].from \in Client
      BY <2>1 DEF Message
    <2>3. CASE inbox'[d][i].from = c
      BY <1>1, <2>3
    <2>4. CASE i \in 1..Len(inbox[d]) /\ inbox'[d][i] = inbox[d][i]
      <3>1. ticket[inbox[d][i].from] # 0
        BY <2>4 DEF SendersEntered
      <3> QED BY <1>1, <2>2, <2>4, <3>1
    <2>5. CASE d = c
      <3>1. inbox'[d] = <<Msg("joined", c, member, 0)>>
        BY <2>5 DEF Join
      <3>2. inbox'[d][i].from = c
        BY <3>1 DEF Msg
      <3> QED BY <2>3, <3>2
    <2>6. CASE d # c
      <3>1. inbox'[d] = inbox[d] \/ inbox'[d] = Append(inbox[d], Msg("peer_joined", c, {}, 0))
        BY <2>6 DEF Join
      <3>2. Msg("peer_joined", c, {}, 0) \in Message
        BY HandshakeAssumption, MsgType
      <3>3. \/ inbox'[d][i] = Msg("peer_joined", c, {}, 0)
            \/ i \in 1..Len(inbox[d]) /\ inbox'[d][i] = inbox[d][i]
        BY <2>1, <3>1, <3>2, AppendElement, SMTT(20)
      <3>4. Msg("peer_joined", c, {}, 0).from = c
        BY DEF Msg
      <3> QED BY <2>3, <2>4, <3>3, <3>4
    <2> QED BY <2>5, <2>6
  <1> QED BY <1>2, <1>3, <1>4

LEMMA LeaveBInv ==
  ASSUME BInv, NEW c \in Client, Leave(c), IInv'
  PROVE  BInv'
  <1> USE DEF BInv, IInv
  <1>1. c \in member /\ ticket' = ticket /\ ticket[c] # 0
    BY DEF Leave, MembersEntered
  <1>2. /\ \A a, b \in Client : conn'[a][b] = IF a = c THEN NoConn ELSE conn[a][b]
        /\ \A a \in Client : busy'[a] = IF a = c THEN {} ELSE busy[a]
        /\ NoConn.role = "none"
    BY DEF Leave, TypeOK, NoConn
  <1>3. AbsentAreBlank'
    <2> SUFFICES ASSUME NEW a \in Client \ member'
                 PROVE  inbox'[a] = <<>> /\ busy'[a] = {} /\ \A b \in Client : conn'[a][b] = NoConn
      BY DEF AbsentAreBlank
    <2>1. a = c \/ (a # c /\ a \notin member /\ inbox'[a] = inbox[a])
      BY DEF Leave
    <2>2. a = c => inbox'[a] = <<>>
      BY DEF Leave
    <2> QED BY <1>2, <2>1, <2>2 DEF AbsentAreBlank
  <1>4. NoneIsNoConn'
    BY <1>2 DEF NoneIsNoConn, Exists
  <1>5. BusyAnswers'
    <2> SUFFICES ASSUME NEW a \in Client, NEW b \in busy'[a]
                 PROVE  conn'[a][b].role = "answerer" /\ conn'[a][b].local /\ conn'[a][b].remote
      BY DEF BusyAnswers
    <2>1. a # c /\ b \in busy[a]
      BY <1>2
    <2>2. b \in Client /\ conn'[a][b] = conn[a][b]
      BY <1>2, <2>1 DEF TypeOK
    <2> QED BY <2>1, <2>2 DEF BusyAnswers
  <1>6. SendersEntered'
    <2> SUFFICES ASSUME NEW d \in Client, NEW i \in 1..Len(inbox'[d])
                 PROVE  ticket[inbox'[d][i].from] # 0
      BY <1>1 DEF SendersEntered
    <2>1. inbox[d] \in Seq(Message)
      BY DEF TypeOK
    <2>2. \/ inbox'[d] = <<>>
          \/ inbox'[d] = inbox[d]
          \/ inbox'[d] = Append(inbox[d], Msg("peer_left", c, {}, 0))
      BY DEF Leave
    <2>3. Msg("peer_left", c, {}, 0) \in Message
      BY HandshakeAssumption, MsgType
    <2>4. \/ inbox'[d][i] = Msg("peer_left", c, {}, 0)
          \/ i \in 1..Len(inbox[d]) /\ inbox'[d][i] = inbox[d][i]
      BY <2>1, <2>2, <2>3, AppendElement, SMTT(20)
    <2>5. Msg("peer_left", c, {}, 0).from = c
      BY DEF Msg
    <2> QED BY <1>1, <2>4, <2>5 DEF SendersEntered
  <1> QED BY <1>3, <1>4, <1>5, <1>6

LEMMA RecvJoinedBInv ==
  ASSUME BInv, NEW c \in Client, RecvJoined(c), IInv'
  PROVE  BInv'
  <1> USE DEF BInv, IInv
  <1>1. /\ c \in member /\ busy[c] = {} /\ inbox[c] # <<>> /\ Consume(c)
        /\ UNCHANGED <<ticket, member, busy>>
    BY DEF RecvJoined, Receives
  <1>2. SendersEntered' /\ \A a \in Client \ {c} : inbox'[a] = inbox[a]
    BY <1>1, ConsumeSenders
  <1>3. /\ \A a \in Client \ {c} : conn'[a] = conn[a]
        /\ \A b \in Client :
             conn'[c][b] = conn[c][b] \/ conn'[c][b] = Entry(conn[c][b], TRUE)
    BY DEF RecvJoined, TypeOK
  <1>4. \A b \in Client : conn'[c][b].role = "none" => conn'[c][b] = NoConn
    <2> SUFFICES ASSUME NEW b \in Client, conn'[c][b].role = "none"
                 PROVE  conn'[c][b] = NoConn
      OBVIOUS
    <2>1. PICK q : q = conn[c][b]
      OBVIOUS
    <2>2. q \in Conn /\ (q.role = "none" => q = NoConn)
      BY <2>1 DEF TypeOK, NoneIsNoConn, Exists
    <2>3. Entry(q, TRUE).role # "none"
      BY <2>2, EntryGrows
    <2> QED BY <1>3, <2>1, <2>2, <2>3
  <1>5. AbsentAreBlank' /\ NoneIsNoConn' /\ BusyAnswers'
    BY <1>1, <1>2, <1>3, <1>4, OwnStep
  <1> QED BY <1>2, <1>5

\* The events that concern one entry: c consumes a message and sets its
\* entry for the sender to k.
LEMMA EventBInv ==
  ASSUME BInv, NEW c \in member, NEW d \in Client, NEW k,
         inbox[c] # <<>>, Consume(c), UNCHANGED <<ticket, member>>, IInv',
         conn' = [conn EXCEPT ![c][d] = k],
         k.role = "none" => k = NoConn,
         busy[c] = {},
         \/ busy' = busy
         \/ /\ busy' = [busy EXCEPT ![c] = {d}]
            /\ k.role = "answerer" /\ k.local /\ k.remote
  PROVE  BInv'
  <1> USE DEF BInv, IInv
  <1>1. SendersEntered' /\ \A a \in Client \ {c} : inbox'[a] = inbox[a]
    BY ConsumeSenders DEF TypeOK
  <1>2. /\ \A a, b \in Client : conn'[a][b] = IF a = c /\ b = d THEN k ELSE conn[a][b]
        /\ \A a \in Client \ {c} : conn'[a] = conn[a]
    BY PointUpdate DEF TypeOK
  <1>3. \A b \in Client : conn'[c][b].role = "none" => conn'[c][b] = NoConn
    BY <1>2 DEF NoneIsNoConn, Exists, TypeOK
  <1>4. /\ \A a \in Client \ {c} : busy'[a] = busy[a]
        /\ \A b \in busy'[c] : b = d /\ k.role = "answerer" /\ k.local /\ k.remote
    BY DEF TypeOK
  <1>5. \A b \in busy'[c] :
          conn'[c][b].role = "answerer" /\ conn'[c][b].local /\ conn'[c][b].remote
    BY <1>2, <1>4 DEF TypeOK
  <1>6. AbsentAreBlank' /\ NoneIsNoConn' /\ BusyAnswers'
    BY <1>1, <1>2, <1>3, <1>4, <1>5, OwnStep
  <1> QED BY <1>1, <1>6

\* The steps of the per-peer goroutines: c's entry for d grows, and its run
\* loop may stop waiting for the answer it sent.
LEMMA GoroutineBInv ==
  ASSUME BInv, NEW c \in member, NEW d \in Client, NEW k,
         UNCHANGED <<ticket, member>>, IInv', SendersEntered',
         \A a \in Client \ member : inbox'[a] = inbox[a],
         conn' = [conn EXCEPT ![c][d] = k],
         conn[c][d].role # "none", Grows(conn[c][d], k),
         busy' = busy \/ busy' = [busy EXCEPT ![c] = {}]
  PROVE  BInv'
  <1> USE DEF BInv, IInv
  <1>1. k.role = conn[c][d].role
    BY DEF Grows
  <1>2. /\ \A a, b \in Client : conn'[a][b] = IF a = c /\ b = d THEN k ELSE conn[a][b]
        /\ \A a \in Client \ {c} : conn'[a] = conn[a]
    BY PointUpdate DEF TypeOK
  <1>3. \A b \in Client : conn'[c][b].role = "none" => conn'[c][b] = NoConn
    BY <1>1, <1>2 DEF NoneIsNoConn, Exists, TypeOK
  <1>4. /\ \A a \in Client \ {c} : busy'[a] = busy[a]
        /\ busy'[c] \subseteq busy[c] /\ busy[c] \subseteq Client
    BY DEF TypeOK
  <1>5. \A b \in busy'[c] :
          conn'[c][b].role = "answerer" /\ conn'[c][b].local /\ conn'[c][b].remote
    <2> SUFFICES ASSUME NEW b \in busy'[c]
                 PROVE  conn'[c][b].role = "answerer" /\ conn'[c][b].local /\ conn'[c][b].remote
      OBVIOUS
    <2>1. conn[c][b].role = "answerer" /\ conn[c][b].local /\ conn[c][b].remote
      BY <1>4 DEF BusyAnswers, TypeOK
    <2>2. b \in Client /\ c \in Client
      BY <1>4 DEF TypeOK
    <2>3. CASE b = d
      BY <1>1, <1>2, <2>1, <2>2, <2>3 DEF Grows
    <2>4. CASE b # d
      BY <1>2, <2>1, <2>2, <2>4
    <2> QED BY <2>3, <2>4
  <1>6. AbsentAreBlank' /\ NoneIsNoConn' /\ BusyAnswers'
    BY <1>2, <1>3, <1>4, <1>5, OwnStep
  <1> QED BY <1>6

(***************************************************************************)
(* Two shapes of step.  A goroutine of c works on the entry for d, which   *)
(* becomes k, and may send one message; or c's run loop handles an event   *)
(* from d, and its entry for d becomes k.                                  *)
(***************************************************************************)

Sends(c, d, k) ==
  LET Same == k.forwarded = conn[c][d].forwarded
  IN  \/ inbox' = inbox /\ Same
      \/ /\ inbox' = Relay(d, Msg("offer", c, {}, 0)) /\ Same
         /\ k.role = "offerer" /\ k.local /\ k.sent
      \/ /\ inbox' = Relay(d, Msg("answer", c, {}, 0)) /\ Same
         /\ k.role = "answerer" /\ k.local /\ k.remote
      \/ /\ inbox' = Relay(d, Msg("ice", c, {}, k.forwarded))
         /\ k.forwarded = conn[c][d].forwarded + 1 /\ k.local

GoroutineStep(c, d, k) ==
  /\ c \in member
  /\ UNCHANGED <<ticket, member>>
  /\ conn' = [conn EXCEPT ![c][d] = k]
  /\ Exists(c, d)
  /\ Grows(conn[c][d], k)
  /\ k.remote = conn[c][d].remote
  /\ k.role = "answerer" => k.local = conn[c][d].local
  /\ busy' = busy \/ busy' = [busy EXCEPT ![c] = {}]
  /\ Sends(c, d, k)

\* What an event leaves of the descriptions in the entry of its sender.
Described(c, d, k) ==
  LET type == Head(inbox[c]).type
  IN  \/ /\ k.role = conn[c][d].role
         /\ k.local = conn[c][d].local /\ k.remote = conn[c][d].remote
      \/ k.role = "answerer" /\ ~k.local /\ ~k.remote
      \/ k.role = "answerer" /\ k.local /\ k.remote /\ type = "offer"
      \/ k.role = "offerer" /\ k.role = conn[c][d].role /\ type = "answer"

EventStep(c, d, k) ==
  /\ c \in member
  /\ busy[c] = {}
  /\ inbox[c] # <<>>
  /\ Head(inbox[c]).type \in {"peer_joined", "offer", "answer", "ice"}
  /\ Head(inbox[c]).from = d
  /\ Consume(c)
  /\ UNCHANGED <<ticket, member>>
  /\ conn' = [conn EXCEPT ![c][d] = k]
  /\ Grows(conn[c][d], k)
  /\ k.role = "none" => k = NoConn
  /\ k.forwarded = conn[c][d].forwarded
  /\ Head(inbox[c]).type = "peer_joined" => k.role # "none"
  /\ Head(inbox[c]).type = "ice" /\ Exists(c, d) =>
       k.state = "closed" \/ Head(inbox[c]).cand \in k.pending \union k.added
  /\ Described(c, d, k)
  /\ \/ busy' = busy
     \/ /\ busy' = [busy EXCEPT ![c] = {d}]
        /\ k.role = "answerer" /\ k.local /\ k.remote

LEMMA GoroutineShape ==
  ASSUME BInv, NEW c \in Client, NEW d \in Client,
         \/ CreateOffer(c, d) \/ SendOffer(c, d) \/ SendAnswer(c, d)
         \/ ForwardICE(c, d) \/ Connect(c, d) \/ Fail(c, d)
  PROVE  \E k \in Conn : GoroutineStep(c, d, k)
  <1>1. PICK q : q = conn[c][d]
    OBVIOUS
  <1>2. q \in Conn /\ (q.role = "none" => q = NoConn)
    BY <1>1 DEF BInv, IInv, TypeOK, NoneIsNoConn, Exists
  <1>3. c \notin member => q = NoConn
    BY <1>1 DEF BInv, AbsentAreBlank
  <1>4. NoConn.role = "none" /\ ~NoConn.local
    BY DEF NoConn
  <1>5. CASE CreateOffer(c, d)
    <2> DEFINE k == [q EXCEPT !.local = TRUE]
    <2>1. conn' = [conn EXCEPT ![c][d] = k]
      BY <1>1, <1>5 DEF CreateOffer, BInv, IInv, TypeOK
    <2>2. /\ k \in Conn /\ Grows(q, k) /\ k.remote = q.remote /\ k.role = q.role
          /\ k.forwarded = q.forwarded
      BY <1>2 DEF Conn, Grows
    <2>3. q.role = "offerer"
      BY <1>1, <1>5 DEF CreateOffer
    <2> HIDE DEF k
    <2> QED BY <1>1, <1>5, <2>1, <2>2, <2>3 DEF CreateOffer, GoroutineStep, Sends, Exists
  <1>6. CASE SendOffer(c, d)
    <2> DEFINE k == [q EXCEPT !.sent = TRUE]
    <2>1. conn' = [conn EXCEPT ![c][d] = k]
      BY <1>1, <1>6 DEF SendOffer, BInv, IInv, TypeOK
    <2>2. /\ k \in Conn /\ Grows(q, k) /\ k.remote = q.remote /\ k.role = q.role
          /\ k.forwarded = q.forwarded /\ k.local = q.local /\ k.sent
      BY <1>2 DEF Conn, Grows
    <2>3. q.role = "offerer" /\ q.local
      BY <1>1, <1>6 DEF SendOffer
    <2> HIDE DEF k
    <2> QED BY <1>1, <1>6, <2>1, <2>2, <2>3 DEF SendOffer, GoroutineStep, Sends, Exists
  <1>7. CASE SendAnswer(c, d)
    <2> DEFINE k == [q EXCEPT !.sent = TRUE]
    <2>1. conn' = [conn EXCEPT ![c][d] = k]
      BY <1>1, <1>7 DEF SendAnswer, BInv, IInv, TypeOK
    <2>2. /\ k \in Conn /\ Grows(q, k) /\ k.remote = q.remote /\ k.role = q.role
          /\ k.forwarded = q.forwarded /\ k.local = q.local
      BY <1>2 DEF Conn, Grows
    <2>3. q.role = "answerer" /\ q.local /\ q.remote
      BY <1>1, <1>7 DEF SendAnswer, BInv, BusyAnswers
    <2> HIDE DEF k
    <2> QED BY <1>1, <1>7, <2>1, <2>2, <2>3 DEF SendAnswer, GoroutineStep, Sends, Exists
  <1>8. CASE ForwardICE(c, d)
    <2> DEFINE k == [q EXCEPT !.forwarded = @ + 1]
    <2>1. conn' = [conn EXCEPT ![c][d] = k]
      BY <1>1, <1>8 DEF ForwardICE, BInv, IInv, TypeOK
    <2>2. q.local /\ q.forwarded + 1 \in 0..MaxCand
      BY <1>1, <1>2, <1>8, HandshakeAssumption DEF ForwardICE, HasLocalICE, Conn
    <2>3. /\ k \in Conn /\ Grows(q, k) /\ k.remote = q.remote /\ k.role = q.role
          /\ k.forwarded = q.forwarded + 1 /\ k.local = q.local
      BY <1>2, <2>2 DEF Conn, Grows
    <2>4. q.role # "none"
      BY <1>2, <1>4, <2>2
    <2>5. inbox' = Relay(d, Msg("ice", c, {}, k.forwarded))
      BY <1>1, <1>8, <2>3 DEF ForwardICE
    <2> HIDE DEF k
    <2> QED BY <1>1, <1>8, <2>1, <2>2, <2>3, <2>4, <2>5 DEF ForwardICE, GoroutineStep, Sends, Exists
  <1>9. CASE Connect(c, d)
    <2> DEFINE k == [q EXCEPT !.state = "connected"]
    <2>1. conn' = [conn EXCEPT ![c][d] = k]
      BY <1>1, <1>9 DEF Connect, BInv, IInv, TypeOK
    <2>2. q.role # "none" /\ q.state # "closed"
      BY <1>1, <1>9 DEF Connect, Negotiated
    <2>3. /\ k \in Conn /\ Grows(q, k) /\ k.remote = q.remote /\ k.role = q.role
          /\ k.forwarded = q.forwarded /\ k.local = q.local
      BY <1>2, <2>2 DEF Conn, Grows
    <2>4. c \in member
      BY <1>3, <1>4, <2>2
    <2> HIDE DEF k
    <2> QED BY <1>1, <1>9, <2>1, <2>2, <2>3, <2>4 DEF Connect, GoroutineStep, Sends, Exists
  <1>10. CASE Fail(c, d)
    <2> DEFINE k == [q EXCEPT !.state = "closed"]
    <2>1. conn' = [conn EXCEPT ![c][d] = k]
      BY <1>1, <1>10 DEF Fail, BInv, IInv, TypeOK
    <2>2. q.role # "none"
      BY <1>1, <1>10 DEF Fail, Negotiated
    <2>3. /\ k \in Conn /\ Grows(q, k) /\ k.remote = q.remote /\ k.role = q.role
          /\ k.forwarded = q.forwarded /\ k.local = q.local
      BY <1>2 DEF Conn, Grows
    <2> HIDE DEF k
    <2> QED BY <1>1, <1>10, <2>1, <2>2, <2>3 DEF Fail, GoroutineStep, Sends, Exists
  <1> QED BY <1>5, <1>6, <1>7, <1>8, <1>9, <1>10

LEMMA EventShape ==
  ASSUME BInv, NEW c \in Client,
         RecvPeerJoined(c) \/ RecvOffer(c) \/ RecvAnswer(c) \/ RecvICE(c)
  PROVE  \E d \in Client, k \in Conn : EventStep(c, d, k)
  <1> DEFINE h == Head(inbox[c])
             d == h.from
  <1>1. /\ c \in member /\ busy[c] = {} /\ inbox[c] # <<>> /\ Consume(c)
        /\ UNCHANGED <<ticket, member>>
    BY DEF RecvPeerJoined, RecvOffer, RecvAnswer, RecvICE, Receives
  <1>2. h \in Message /\ d \in Client
    <2>1. inbox[c] \in Seq(Message)
      BY DEF BInv, IInv, TypeOK
    <2>2. h \in Message
      BY <1>1, <2>1
    <2> QED BY <2>2 DEF Message
  <1>3. PICK q : q = conn[c][d]
    OBVIOUS
  <1>4. q \in Conn /\ (q.role = "none" => q = NoConn)
    BY <1>2, <1>3 DEF BInv, IInv, TypeOK, NoneIsNoConn, Exists
  <1>5. PICK e : e = Entry(q, FALSE)
    OBVIOUS
  <1>6. /\ e \in Conn /\ e.role # "none" /\ Grows(q, e) /\ e.forwarded = q.forwarded
        /\ e = q \/ (e.role = "answerer" /\ ~e.local /\ ~e.remote)
    BY <1>4, <1>5, EntryGrows DEF RoleOf
  <1>7. CASE RecvPeerJoined(c)
    <2>1. conn' = [conn EXCEPT ![c][d] = e] /\ h.type = "peer_joined" /\ busy' = busy
      BY <1>2, <1>3, <1>5, <1>7 DEF RecvPeerJoined, Receives, BInv, IInv, TypeOK
    <2>2. Described(c, d, e)
      BY <1>3, <1>6, Zenon DEF Described
    <2>3. EventStep(c, d, e)
      BY <1>1, <1>3, <1>6, <2>1, <2>2 DEF EventStep
    <2> QED BY <1>2, <1>6, <2>3
  <1>8. CASE RecvOffer(c)
    <2> DEFINE usable == e.role = "answerer" /\ e.state # "closed"
               k == IF usable THEN HandleOffer(e) ELSE e
    <2>1. /\ conn' = [conn EXCEPT ![c][d] = k] /\ h.type = "offer"
          /\ busy' = [busy EXCEPT ![c] = IF usable THEN {d} ELSE {}]
      BY <1>2, <1>3, <1>5, <1>8 DEF RecvOffer, Receives, BInv, IInv, TypeOK
    <2>2. /\ k \in Conn /\ k.role = e.role /\ k.forwarded = e.forwarded /\ Grows(e, k)
          /\ usable => k.local /\ k.remote
      BY <1>6, RemoteGrows DEF Grows
    <2>3. Grows(q, k) /\ k.role # "none" /\ k.forwarded = q.forwarded
      BY <1>6, <2>2 DEF Grows
    <2>4. Described(c, d, k)
      BY <1>3, <1>6, <2>1, <2>2 DEF Described
    <2>5. \/ busy' = busy
          \/ busy' = [busy EXCEPT ![c] = {d}] /\ k.role = "answerer" /\ k.local /\ k.remote
      <3>1. CASE usable
        BY <2>1, <2>2, <3>1
      <3>2. CASE ~usable
        BY <1>1, <2>1, <3>2 DEF BInv, IInv, TypeOK
      <3> QED BY <3>1, <3>2
    <2> HIDE DEF k
    <2>6. EventStep(c, d, k)
      BY <1>1, <1>3, <2>1, <2>2, <2>3, <2>4, <2>5 DEF EventStep
    <2> QED BY <1>2, <2>2, <2>6
  <1>9. CASE RecvAnswer(c)
    <2> DEFINE k == IF q.role = "offerer" /\ q.state # "closed" THEN SetRemote(q) ELSE q
    <2>1. conn' = [conn EXCEPT ![c][d] = k] /\ h.type = "answer" /\ busy' = busy
      BY <1>2, <1>3, <1>9 DEF RecvAnswer, Receives, BInv, IInv, TypeOK
    <2>2. /\ k \in Conn /\ k.role = q.role /\ k.forwarded = q.forwarded /\ Grows(q, k)
          /\ k = q \/ k.role = "offerer"
      BY <1>4, RemoteGrows DEF Grows
    <2>3. k.role = "none" => k = NoConn
      BY <1>4, <2>2
    <2>4. Described(c, d, k)
      BY <1>3, <2>1, <2>2, ZenonT(30) DEF Described
    <2> HIDE DEF k
    <2>5. EventStep(c, d, k)
      BY <1>1, <1>3, <2>1, <2>2, <2>3, <2>4 DEF EventStep
    <2> QED BY <1>2, <2>2, <2>5
  <1>10. CASE RecvICE(c)
    <2> DEFINE k == IF q.role # "none" THEN AddRemoteICE(q, h.cand) ELSE q
    <2>1. conn' = [conn EXCEPT ![c][d] = k] /\ h.type = "ice" /\ busy' = busy
      BY <1>2, <1>3, <1>10 DEF RecvICE, Receives, Exists, BInv, IInv, TypeOK
    <2>2. h.cand \in Cand
      BY <1>2, <2>1, HandshakeAssumption DEF Message, Cand
    <2>3. AddRemoteICE(q, h.cand) \in Conn /\ Grows(q, q)
      BY <1>4, <2>2, ConnTypes DEF Grows
    <2>4. /\ k \in Conn /\ k.role = q.role /\ k.local = q.local /\ k.remote = q.remote
          /\ k.forwarded = q.forwarded /\ Grows(q, k)
          /\ q.role # "none" => k.state = "closed" \/ h.cand \in k.pending \union k.added
      BY <1>4, <2>2, <2>3, IceGrows
    <2>5. k.role = "none" => k = NoConn
      BY <1>4, <2>4
    <2>6. Described(c, d, k)
      BY <1>3, <2>4, ZenonT(30) DEF Described
    <2> HIDE DEF k
    <2>7. EventStep(c, d, k)
      BY <1>1, <1>3, <2>1, <2>4, <2>5, <2>6 DEF EventStep, Exists
    <2> QED BY <1>2, <2>4, <2>7
  <1> QED BY <1>7, <1>8, <1>9, <1>10, Zenon

LEMMA NextBInv == BInv /\ [Next]_vars => BInv'
  <1> SUFFICES ASSUME BInv, [Next]_vars PROVE BInv'
    OBVIOUS
  <1>1. IInv'
    BY NextIInv DEF BInv
  <1>2. ASSUME NEW c \in Client, NEW d \in Client, NEW k \in Conn, GoroutineStep(c, d, k)
        PROVE  BInv'
    <2>1. /\ c \in member /\ UNCHANGED <<ticket, member>>
          /\ conn' = [conn EXCEPT ![c][d] = k] /\ conn[c][d].role # "none"
          /\ Grows(conn[c][d], k)
          /\ busy' = busy \/ busy' = [busy EXCEPT ![c] = {}]
      BY <1>2 DEF GoroutineStep, Exists
    <2>2. ticket[c] # 0 /\ k.forwarded \in 0..MaxCand /\ conn[c][d].forwarded \in 0..MaxCand
      BY <2>1 DEF BInv, IInv, MembersEntered, TypeOK, Conn
    <2>3. \/ inbox' = inbox
          \/ \E m \in Message : m.from = c /\ inbox' = Relay(d, m)
      <3>1. /\ Msg("offer", c, {}, 0) \in Message
            /\ Msg("answer", c, {}, 0) \in Message
            /\ k.forwarded # 0 => Msg("ice", c, {}, k.forwarded) \in Message
        BY <2>2, HandshakeAssumption, MsgType
      <3>2. \A t, n : Msg(t, c, {}, n).from = c
        BY DEF Msg
      <3> QED BY <1>2, <2>2, <3>1, <3>2 DEF GoroutineStep, Sends
    <2>4. SendersEntered'
      <3>1. CASE inbox' = inbox
        BY <2>1, <3>1 DEF BInv, SendersEntered
      <3>2. CASE \E m \in Message : m.from = c /\ inbox' = Relay(d, m)
        BY <2>1, <2>2, <3>2, RelaySenders
      <3> QED BY <2>3, <3>1, <3>2
    <2>5. \A a \in Client \ member : inbox'[a] = inbox[a]
      BY <2>3 DEF Relay, BInv, IInv, TypeOK
    <2> QED BY <1>1, <2>1, <2>4, <2>5, GoroutineBInv
  <1>3. ASSUME NEW c \in Client, NEW d \in Client, NEW k \in Conn, EventStep(c, d, k)
        PROVE  BInv'
    BY <1>1, <1>3, EventBInv DEF EventStep
  <1>4. ASSUME NEW c \in Client, RecvPeerLeft(c) PROVE BInv'
    <2> DEFINE d == Head(inbox[c]).from
    <2>1. /\ c \in member /\ busy[c] = {} /\ inbox[c] # <<>> /\ Consume(c)
          /\ UNCHANGED <<ticket, member, busy>> /\ conn' = [conn EXCEPT ![c][d] = NoConn]
      BY <1>4 DEF RecvPeerLeft, Receives
    <2>2. d \in Client
      <3>1. inbox[c] \in Seq(Message)
        BY <2>1 DEF BInv, IInv, TypeOK
      <3>2. Head(inbox[c]) \in Message
        BY <2>1, <3>1
      <3> QED BY <3>2 DEF Message
    <2> HIDE DEF d
    <2> QED BY <1>1, <2>1, <2>2, EventBInv
  <1>5. ASSUME NEW c \in Client, NEW d \in Client, AnnounceReady(c, d) PROVE BInv'
    BY <1>1, <1>5 DEF AnnounceReady, BInv, AbsentAreBlank, NoneIsNoConn, Exists,
                      BusyAnswers, SendersEntered
  <1>6. CASE UNCHANGED vars
    BY <1>1, <1>6 DEF vars, BInv, AbsentAreBlank, NoneIsNoConn, Exists,
                      BusyAnswers, SendersEntered
  <1> QED
    BY <1>1, <1>2, <1>3, <1>4, <1>5, <1>6, JoinBInv, LeaveBInv, RecvJoinedBInv,
       GoroutineShape, EventShape
    DEF Next, RunLoop

-----------------------------------------------------------------------------
(* What every step does for the members that stay: their entries grow, and *)
(* an inbox is left alone, gets one message, or loses the head that its    *)
(* owner has just handled.                                                 *)

Handled(a) ==
  LET h == Head(inbox[a])
      k == conn'[a][h.from]
  IN  /\ h.type = "peer_joined" => k.role # "none"
      /\ h.type = "ice" /\ h.from \in member /\ Exists(a, h.from) =>
           k.state = "closed" \/ h.cand \in k.pending \union k.added

Followed(a) ==
  \/ inbox'[a] = inbox[a]
  \/ \E m \in Message : inbox'[a] = Append(inbox[a], m)
  \/ inbox[a] # <<>> /\ inbox'[a] = Tail(inbox[a]) /\ Handled(a)

Steady ==
  /\ \A a \in member' \ member : ticket[a] = 0
  /\ \A a, b \in member \intersect member' : Grows(conn[a][b], conn'[a][b])
  /\ \A a \in member \intersect member' : Followed(a)

LEMMA ExpectsKept ==
  ASSUME BInv, Steady, NEW a \in member, a \in member', NEW b \in member, b \in member',
         Expects(a, b)
  PROVE  Expects(a, b)'
  <1>1. a \in Client /\ inbox[a] \in Seq(Message)
    BY DEF BInv, IInv, TypeOK
  <1>2. Grows(conn[a][b], conn'[a][b]) /\ Followed(a)
    BY DEF Steady
  <1>3. CASE Exists(a, b)
    BY <1>2, <1>3 DEF Exists, Expects, Grows
  <1>4. CASE Introduced(a, b, Len(inbox[a]))
    <2>1. PICK j \in 1..Len(inbox[a]) :
            inbox[a][j].type = "peer_joined" /\ inbox[a][j].from = b
      BY <1>4 DEF Introduced
    <2>2. CASE \/ inbox'[a] = inbox[a]
               \/ \E m \in Message : inbox'[a] = Append(inbox[a], m)
      <3>1. j \in 1..Len(inbox'[a]) /\ inbox'[a][j] = inbox[a][j]
        BY <1>1, <2>2
      <3> QED BY <2>1, <3>1 DEF Expects, Introduced
    <2>3. CASE inbox[a] # <<>> /\ inbox'[a] = Tail(inbox[a]) /\ Handled(a)
      <3>1. CASE j = 1
        <4>1. Head(inbox[a]) = inbox[a][j]
          BY <1>1, <2>3, <3>1
        <4>2. conn'[a][b].role # "none"
          BY <2>1, <2>3, <4>1 DEF Handled
        <4> QED BY <4>2 DEF Expects, Exists
      <3>2. CASE j # 1
        <4>1. j - 1 \in 1..Len(inbox'[a]) /\ inbox'[a][j - 1] = inbox[a][j]
          BY <1>1, <2>3, <3>2
        <4> QED BY <2>1, <4>1 DEF Expects, Introduced
      <3> QED BY <3>1, <3>2
    <2> QED BY <1>2, <2>2, <2>3 DEF Followed
  <1> QED BY <1>3, <1>4 DEF Expects

\* The message that was the i-th and is now the j-th.
LEMMA MessageKept ==
  ASSUME BInv, MessagesJustified, Steady, NEW a \in member, a \in member',
         NEW i \in 1..Len(inbox[a]), NEW j \in 1..Len(inbox'[a]),
         inbox'[a][j] = inbox[a][i],
         \/ /\ j = i
            /\ \A n \in 1..(i - 1) : inbox'[a][n] = inbox[a][n]
         \/ /\ j = i - 1 /\ Handled(a) /\ Head(inbox[a]) = inbox[a][1]
            /\ \A n \in 1..(j - 1) : inbox'[a][n] = inbox[a][n + 1]
  PROVE  Justified(a, j)'
  <1>1. a \in Client /\ inbox[a] \in Seq(Message) /\ member \subseteq Client
    BY DEF BInv, IInv, TypeOK
  <1>2. PICK m \in Message : m = inbox[a][i]
    BY <1>1
  <1>3. Justified(a, i) /\ ticket[m.from] # 0 /\ MessageFollowsTickets(a, m)
    BY <1>1, <1>2 DEF MessagesJustified, BInv, SendersEntered, IInv, MessagesFollowTickets
  <1>4. m.type = "joined" =>
          m.from = a /\ \A d \in m.roster \intersect member' : Expects(d, a)'
    <2> SUFFICES ASSUME m.type = "joined"
                 PROVE  m.from = a /\ \A d \in m.roster \intersect member' : Expects(d, a)'
      OBVIOUS
    <2>1. m.from = a /\ \A d \in m.roster \intersect member : Expects(d, a)
      BY <1>2, <1>3 DEF Justified
    <2>2. ASSUME NEW d \in m.roster \intersect member' PROVE Expects(d, a)'
      <3>1. ticket[d] # 0
        BY <1>3 DEF MessageFollowsTickets, Earlier
      <3>2. d \in member
        BY <3>1 DEF Steady
      <3> QED BY <2>1, <3>2, ExpectsKept
    <2> QED BY <2>1, <2>2
  <1>5. m.from \in member' => m.from \in member
    BY <1>3 DEF Steady
  <1>6. ASSUME m.from \in member'
        PROVE  /\ m.type = "offer" => Offered(m.from, a)'
               /\ m.type = "answer" => Answered(m.from, a)'
               /\ m.type = "ice" => Exists(a, m.from)' \/ Introduced(a, m.from, j - 1)'
    <2>1. m.from \in member /\ m.from \in member'
      BY <1>5, <1>6
    <2>2. /\ Grows(conn[m.from][a], conn'[m.from][a])
          /\ Grows(conn[a][m.from], conn'[a][m.from])
      BY <2>1 DEF Steady
    <2>3. m.type = "offer" => Offered(m.from, a)'
      <3>1. m.type = "offer" => Offered(m.from, a)
        BY <1>2, <1>3, <2>1, Zenon DEF Justified
      <3> QED BY <2>2, <3>1 DEF Offered, Grows
    <2>4. m.type = "answer" => Answered(m.from, a)'
      <3>1. m.type = "answer" => Answered(m.from, a)
        BY <1>2, <1>3, <2>1, Zenon DEF Justified
      <3> QED BY <2>2, <3>1 DEF Answered, Grows
    <2>5. ASSUME m.type = "ice"
          PROVE  Exists(a, m.from)' \/ Introduced(a, m.from, j - 1)'
      <3>1. Exists(a, m.from) \/ Introduced(a, m.from, i - 1)
        BY <1>2, <1>3, <2>1, <2>5 DEF Justified
      <3>2. CASE Exists(a, m.from)
        BY <2>2, <3>2 DEF Exists, Grows
      <3>3. CASE Introduced(a, m.from, i - 1)
        <4>1. PICK n \in 1..(i - 1) :
                inbox[a][n].type = "peer_joined" /\ inbox[a][n].from = m.from
          BY <3>3 DEF Introduced
        <4>2. CASE j = i /\ inbox'[a][n] = inbox[a][n]
          BY <4>1, <4>2 DEF Introduced
        <4>3. CASE Handled(a) /\ Head(inbox[a]) = inbox[a][1] /\ n = 1
          BY <4>1, <4>3 DEF Handled, Exists
        <4>4. CASE j = i - 1 /\ n # 1
                   /\ \A x \in 1..(j - 1) : inbox'[a][x] = inbox[a][x + 1]
          <5>1. n - 1 \in 1..(j - 1) /\ (n - 1) + 1 = n
            BY <1>1, <4>1, <4>4
          <5>2. inbox'[a][n - 1] = inbox[a][n]
            BY <4>4, <5>1
          <5> QED BY <4>1, <5>1, <5>2 DEF Introduced
        <4> QED BY <4>1, <4>2, <4>3, <4>4
      <3> QED BY <3>1, <3>2, <3>3
    <2> QED BY <2>3, <2>4, <2>5
  <1>7. m.type = "peer_left" => m.from \notin member'
    BY <1>2, <1>3, <1>5 DEF Justified
  <1>8. inbox'[a][j] = m
    BY <1>2
  <1> QED BY <1>4, <1>6, <1>7, <1>8 DEF Justified

LEMMA MessagesKept ==
  ASSUME BInv, BInv', MessagesJustified, Steady,
         \A a \in member \intersect member' : \A m \in Message :
           inbox'[a] = Append(inbox[a], m) => Justified(a, Len(inbox[a]))',
         \A a \in member' \ member : \A i \in 1..Len(inbox'[a]) : Justified(a, i)'
  PROVE  MessagesJustified'
  <1> SUFFICES ASSUME NEW a \in Client, NEW i \in 1..Len(inbox'[a])
               PROVE  Justified(a, i)'
    BY DEF MessagesJustified
  <1>1. inbox[a] \in Seq(Message) /\ inbox'[a] \in Seq(Message)
    BY DEF BInv, IInv, TypeOK
  <1>2. a \in member'
    BY DEF BInv, AbsentAreBlank
  <1>3. CASE a \notin member
    BY <1>2, <1>3
  <1>4. CASE a \in member
    <2>1. CASE inbox'[a] = inbox[a]
      BY <1>1, <1>2, <1>4, <2>1, MessageKept
    <2>2. ASSUME NEW m \in Message, inbox'[a] = Append(inbox[a], m)
          PROVE  Justified(a, i)'
      <3>1. Len(inbox'[a]) = Len(inbox[a]) + 1 /\ Len(inbox[a]) \in Nat
        BY <1>1, <2>2
      <3>2. CASE i = Len(inbox'[a])
        BY <1>2, <1>4, <2>2, <3>2
      <3>3. CASE i # Len(inbox'[a])
        <4>1. i \in 1..Len(inbox[a])
          BY <3>1, <3>3
        <4>2. \A n \in 1..Len(inbox[a]) : inbox'[a][n] = inbox[a][n]
          BY <1>1, <2>2
        <4>3. \A n \in 1..(i - 1) : inbox'[a][n] = inbox[a][n]
          BY <3>1, <4>1, <4>2
        <4> QED BY <1>2, <1>4, <4>1, <4>2, <4>3, MessageKept
      <3> QED BY <3>2, <3>3
    <2>3. CASE inbox[a] # <<>> /\ inbox'[a] = Tail(inbox[a]) /\ Handled(a)
      <3>1. /\ Len(inbox'[a]) = Len(inbox[a]) - 1
            /\ Head(inbox[a]) = inbox[a][1]
            /\ \A n \in 1..(Len(inbox[a]) - 1) : inbox'[a][n] = inbox[a][n + 1]
        BY <1>1, <2>3
      <3>2. i + 1 \in 1..Len(inbox[a]) /\ inbox'[a][i] = inbox[a][i + 1] /\ i = (i + 1) - 1
        BY <1>1, <3>1
      <3>3. \A n \in 1..(i - 1) : inbox'[a][n] = inbox[a][n + 1]
        BY <1>1, <3>1
      <3> QED BY <1>2, <1>4, <2>3, <3>1, <3>2, <3>3, MessageKept
    <2> QED BY <1>2, <1>4, <2>1, <2>2, <2>3 DEF Steady, Followed
  <1> QED BY <1>3, <1>4

LEMMA EntriesKept ==
  ASSUME BInv, EntriesAnswer, Steady,
         \A a, b \in member \intersect member' :
           \/ /\ conn'[a][b].role = conn[a][b].role
              /\ conn'[a][b].remote = conn[a][b].remote
              /\ conn'[a][b].role = "answerer" => conn'[a][b].local = conn[a][b].local
           \/ Answers(a, b)',
         \A a, b \in member' : a \notin member \/ b \notin member => conn'[a][b] = NoConn
  PROVE  EntriesAnswer'
  <1> SUFFICES ASSUME NEW a \in member', NEW b \in member' PROVE Answers(a, b)'
    BY DEF EntriesAnswer
  <1>1. CASE a \notin member \/ b \notin member
    BY <1>1 DEF Answers, NoConn
  <1>2. CASE a \in member /\ b \in member /\ ~Answers(a, b)'
    <2>1. /\ conn'[a][b].role = conn[a][b].role /\ conn'[a][b].remote = conn[a][b].remote
          /\ conn'[a][b].role = "answerer" => conn'[a][b].local = conn[a][b].local
      BY <1>2
    <2>2. Answers(a, b) /\ Grows(conn[a][b], conn'[a][b]) /\ Grows(conn[b][a], conn'[b][a])
      BY <1>2 DEF EntriesAnswer, Steady
    <2>3. Expects(b, a) => Expects(b, a)'
      BY <1>2, ExpectsKept
    <2>4. /\ Answered(a, b) => Answered(a, b)'
          /\ Answered(b, a) => Answered(b, a)'
          /\ Offered(b, a) => Offered(b, a)'
      BY <2>2 DEF Answered, Offered, Grows
    <2> QED BY <2>1, <2>2, <2>3, <2>4 DEF Answers
  <1> QED BY <1>1, <1>2

LEMMA CandidatesKept ==
  ASSUME DInv, Steady,
         \A a, b \in member \intersect member' : \A k \in 1..conn'[a][b].forwarded :
           \/ k \in 1..conn[a][b].forwarded
           \/ \E i \in 1..Len(inbox'[b]) : inbox'[b][i] = Msg("ice", a, {}, k),
         \A a, b \in member' : a \notin member \/ b \notin member => conn'[a][b] = NoConn
  PROVE  NoCandidateLost'
  <1> SUFFICES ASSUME NEW c \in member', NEW d \in member', NEW k \in 1..conn'[c][d].forwarded
               PROVE  \/ conn'[d][c].state = "closed"
                      \/ k \in conn'[d][c].pending \union conn'[d][c].added
                      \/ \E i \in 1..Len(inbox'[d]) : inbox'[d][i] = Msg("ice", c, {}, k)
    BY DEF NoCandidateLost, Msg
  <1>1. c \in member /\ d \in member
    BY DEF NoConn
  <1>2. Grows(conn[d][c], conn'[d][c]) /\ Followed(d) /\ inbox[d] \in Seq(Message) /\ d \in Client
    BY <1>1 DEF Steady, DInv, BInv, IInv, TypeOK
  <1>3. CASE conn[d][c].state = "closed" \/ k \in conn[d][c].pending \union conn[d][c].added
    BY <1>2, <1>3 DEF Grows
  <1>4. ASSUME NEW i \in 1..Len(inbox[d]), inbox[d][i] = Msg("ice", c, {}, k)
        PROVE  \/ conn'[d][c].state = "closed"
               \/ k \in conn'[d][c].pending \union conn'[d][c].added
               \/ \E j \in 1..Len(inbox'[d]) : inbox'[d][j] = Msg("ice", c, {}, k)
    <2>1. CASE \/ inbox'[d] = inbox[d]
               \/ \E m \in Message : inbox'[d] = Append(inbox[d], m)
      <3>1. i \in 1..Len(inbox'[d]) /\ inbox'[d][i] = inbox[d][i]
        BY <1>2, <2>1
      <3> QED BY <1>4, <3>1
    <2>2. CASE inbox[d] # <<>> /\ inbox'[d] = Tail(inbox[d]) /\ Handled(d)
      <3>1. CASE i = 1
        <4>1. Head(inbox[d]) = inbox[d][1] /\ Justified(d, 1)
          BY <1>2, <2>2, <3>1 DEF DInv, MessagesJustified
        <4>2. /\ Head(inbox[d]).type = "ice" /\ Head(inbox[d]).from = c
              /\ Head(inbox[d]).cand = k
          BY <1>4, <3>1, <4>1 DEF Msg
        <4>3. ~Introduced(d, c, 1 - 1)
          BY DEF Introduced
        <4>4. Exists(d, c)
          BY <1>1, <4>1, <4>2, <4>3 DEF Justified
        <4> QED BY <1>1, <2>2, <4>2, <4>4 DEF Handled
      <3>2. CASE i # 1
        <4>1. i - 1 \in 1..Len(inbox'[d]) /\ inbox'[d][i - 1] = inbox[d][i]
          BY <1>2, <2>2, <3>2
        <4> QED BY <1>4, <4>1
      <3> QED BY <3>1, <3>2
    <2> QED BY <1>2, <2>1, <2>2 DEF Followed
  <1>5. \/ k \in 1..conn[c][d].forwarded
        \/ \E i \in 1..Len(inbox'[d]) : inbox'[d][i] = Msg("ice", c, {}, k)
    BY <1>1
  <1>6. k \in 1..conn[c][d].forwarded =>
          \/ conn[d][c].state = "closed"
          \/ k \in conn[d][c].pending \union conn[d][c].added
          \/ \E i \in 1..Len(inbox[d]) : inbox[d][i] = Msg("ice", c, {}, k)
    BY <1>1 DEF DInv, NoCandidateLost
  <1> QED BY <1>3, <1>4, <1>5, <1>6

-----------------------------------------------------------------------------
(* The delivery invariant is inductive.                                    *)

LEMMA GrowsRefl ==
  ASSUME NEW k
  PROVE  Grows(k, k)
  BY DEF Grows

LEMMA InitDInv == Init => DInv
  <1> SUFFICES ASSUME Init PROVE DInv
    OBVIOUS
  <1>1. BInv
    BY InitBInv
  <1>2. MessagesJustified /\ EntriesAnswer /\ NoCandidateLost
    BY DEF Init, MessagesJustified, EntriesAnswer, NoCandidateLost
  <1> QED BY <1>1, <1>2 DEF DInv

\* What the others see of a goroutine's step: the message M, if it sends one.
Posts(c, d, k, M) ==
  /\ M \in Message /\ M.from = c
  /\ \A a \in Client :
       inbox'[a] = inbox[a] \/ (a = d /\ inbox'[a] = Append(inbox[a], M))
  /\ \/ inbox' = inbox
     \/ M.type = "offer" /\ k.role = "offerer" /\ k.local /\ k.sent
     \/ M.type = "answer" /\ k.role = "answerer" /\ k.local /\ k.remote
     \/ M.type = "ice" /\ k.local
  /\ \/ k.forwarded = conn[c][d].forwarded
     \/ /\ k.forwarded = conn[c][d].forwarded + 1
        /\ inbox' = Relay(d, M) /\ M = Msg("ice", c, {}, k.forwarded)

LEMMA GoroutineDInv ==
  ASSUME DInv, BInv', NEW c \in Client, NEW d \in Client, NEW k \in Conn,
         GoroutineStep(c, d, k)
  PROVE  DInv'
  <1>1. /\ c \in member /\ UNCHANGED <<ticket, member>>
        /\ conn' = [conn EXCEPT ![c][d] = k] /\ Exists(c, d) /\ Grows(conn[c][d], k)
        /\ k.remote = conn[c][d].remote
        /\ k.role = "answerer" => k.local = conn[c][d].local
        /\ Sends(c, d, k)
    BY DEF GoroutineStep
  <1>2. TypeOK /\ BInv /\ member \subseteq Client
    BY DEF DInv, BInv, IInv, TypeOK
  <1>3. \A a, b \in Client : conn'[a][b] = IF a = c /\ b = d THEN k ELSE conn[a][b]
    <2>1. conn' = [conn EXCEPT ![c][d] = k]
      BY <1>1
    <2> QED BY <1>2, <2>1, PointUpdate DEF TypeOK
  <1>4. k.forwarded \in 0..MaxCand /\ conn[c][d].forwarded \in 0..MaxCand
    BY <1>2 DEF TypeOK, Conn
  <1>5. PICK M : Posts(c, d, k, M)
    <2>1. ASSUME NEW m
          PROVE  /\ Relay(d, m)[d] = IF d \in member THEN Append(inbox[d], m) ELSE inbox[d]
                 /\ \A a \in Client : a # d => Relay(d, m)[a] = inbox[a]
      BY <1>2 DEF Relay, TypeOK
    <2>2. /\ Msg("offer", c, {}, 0) \in Message
          /\ Msg("answer", c, {}, 0) \in Message
          /\ k.forwarded # 0 => Msg("ice", c, {}, k.forwarded) \in Message
      BY <1>4, HandshakeAssumption, MsgType
    <2>3. \A type, n : Msg(type, c, {}, n).from = c /\ Msg(type, c, {}, n).type = type
      BY DEF Msg
    <2>4. CASE inbox' = inbox /\ k.forwarded = conn[c][d].forwarded
      <3>1. Posts(c, d, k, Msg("offer", c, {}, 0))
        BY <2>2, <2>3, <2>4 DEF Posts
      <3> QED BY <3>1
    <2>5. CASE /\ inbox' = Relay(d, Msg("offer", c, {}, 0))
               /\ k.forwarded = conn[c][d].forwarded
               /\ k.role = "offerer" /\ k.local /\ k.sent
      <3> DEFINE M == Msg("offer", c, {}, 0)
      <3>1. M \in Message /\ M.from = c /\ M.type = "offer" /\ inbox' = Relay(d, M)
        BY <2>2, <2>3, <2>5
      <3> HIDE DEF M
      <3>2. \A a \in Client :
              inbox'[a] = inbox[a] \/ (a = d /\ inbox'[a] = Append(inbox[a], M))
        BY <2>1, <3>1
      <3>3. Posts(c, d, k, M)
        BY <2>5, <3>1, <3>2, Zenon DEF Posts
      <3> QED BY <3>3
    <2>6. CASE /\ inbox' = Relay(d, Msg("answer", c, {}, 0))
               /\ k.forwarded = conn[c][d].forwarded
               /\ k.role = "answerer" /\ k.local /\ k.remote
      <3> DEFINE M == Msg("answer", c, {}, 0)
      <3>1. M \in Message /\ M.from = c /\ M.type = "answer" /\ inbox' = Relay(d, M)
        BY <2>2, <2>3, <2>6
      <3> HIDE DEF M
      <3>2. \A a \in Client :
              inbox'[a] = inbox[a] \/ (a = d /\ inbox'[a] = Append(inbox[a], M))
        BY <2>1, <3>1
      <3>3. Posts(c, d, k, M)
        BY <2>6, <3>1, <3>2, Zenon DEF Posts
      <3> QED BY <3>3
    <2>7. CASE /\ inbox' = Relay(d, Msg("ice", c, {}, k.forwarded))
               /\ k.forwarded = conn[c][d].forwarded + 1 /\ k.local
      <3>1. k.forwarded # 0
        BY <1>4, <2>7
      <3> DEFINE M == Msg("ice", c, {}, k.forwarded)
      <3>2. M \in Message /\ M.from = c /\ M.type = "ice" /\ inbox' = Relay(d, M)
        BY <2>2, <2>3, <2>7, <3>1
      <3>3. M = Msg("ice", c, {}, k.forwarded)
        OBVIOUS
      <3> HIDE DEF M
      <3>4. \A a \in Client :
              inbox'[a] = inbox[a] \/ (a = d /\ inbox'[a] = Append(inbox[a], M))
        BY <2>1, <3>2
      <3>5. Posts(c, d, k, M)
        BY <2>7, <3>2, <3>3, <3>4, Zenon DEF Posts
      <3> QED BY <3>5
    <2> QED BY <1>1, <2>4, <2>5, <2>6, <2>7 DEF Sends
  <1>6. Steady
    <2>1. \A a, b \in member \intersect member' : Grows(conn[a][b], conn'[a][b])
      BY <1>1, <1>2, <1>3, GrowsRefl
    <2>2. \A a \in member \intersect member' : Followed(a)
      BY <1>2, <1>5 DEF Followed, Posts
    <2> QED BY <1>1, <2>1, <2>2 DEF Steady
  <1>7. Expects(d, c) \/ ~k.local \/ d \notin member
    <2>1. conn[c][d].role \in {"offerer", "answerer"} /\ k.role = conn[c][d].role
      BY <1>1, <1>2 DEF TypeOK, Conn, Exists, Grows
    <2>2. d \in member => Answers(c, d)
      BY <1>1 DEF DInv, EntriesAnswer
    <2> QED BY <1>1, <2>1, <2>2 DEF Answers, Offered, Expects, Exists
  <1>8. MessagesJustified'
    <2>1. ASSUME NEW a \in member \intersect member', NEW m \in Message,
                 inbox'[a] = Append(inbox[a], m)
          PROVE  Justified(a, Len(inbox[a]))'
      <3>1. inbox[a] \in Seq(Message) /\ a \in Client
        BY <1>2 DEF TypeOK
      <3>2. inbox'[a] # inbox[a] /\ Len(inbox'[a]) = Len(inbox[a]) + 1 /\ Len(inbox[a]) \in Nat
        BY <2>1, <3>1
      <3>3. a = d /\ inbox'[a] = Append(inbox[a], M) /\ inbox' # inbox
        BY <1>5, <3>1, <3>2 DEF Posts
      <3>4. inbox'[a][Len(inbox'[a])] = M
        BY <3>1, <3>3
      <3>5. k.role = conn[c][d].role \/ conn[c][d].role = "none"
        BY <1>1 DEF Grows
      <3>6. conn'[c][d] = k
        BY <1>3
      <3>7. M.type = "offer" => Offered(c, d)'
        BY <1>5, <3>3, <3>6 DEF Offered, Posts
      <3>8. M.type = "answer" => Answered(c, d)'
        BY <1>5, <3>3, <3>6 DEF Answered, Posts
      <3>9. M.type = "ice" => Exists(d, c)' \/ Introduced(d, c, Len(inbox[d]) - 1)'
        <4> SUFFICES ASSUME M.type = "ice"
                     PROVE  Exists(d, c)' \/ Introduced(d, c, Len(inbox[d]) - 1)'
          OBVIOUS
        <4>1. Expects(d, c)
          BY <1>5, <1>7, <3>3 DEF Posts
        <4>2. CASE Exists(d, c)
          BY <1>1, <1>6, <3>3, <4>2 DEF Steady, Exists, Grows
        <4>3. CASE Introduced(d, c, Len(inbox[d]))
          <5>1. PICK n \in 1..Len(inbox[d]) :
                  inbox[d][n].type = "peer_joined" /\ inbox[d][n].from = c
            BY <4>3 DEF Introduced
          <5>2. inbox'[d][n] = inbox[d][n] /\ n \in 1..(Len(inbox'[d]) - 1)
            BY <3>1, <3>3
          <5> QED BY <5>1, <5>2 DEF Introduced
        <4> QED BY <4>1, <4>2, <4>3 DEF Expects
      <3>10. M.type \notin {"joined", "peer_left"}
        BY <1>5, <3>3 DEF Posts
      <3>11. M.from = c
        BY <1>5 DEF Posts
      <3>12. Justified(d, Len(inbox[d]))'
        BY <3>3, <3>4, <3>7, <3>8, <3>9, <3>10, <3>11 DEF Justified
      <3> QED BY <3>3, <3>12
    <2>2. member' \ member = {}
      BY <1>1
    <2> QED BY <1>2, <1>6, <2>1, <2>2, MessagesKept DEF DInv
  <1>9. EntriesAnswer'
    <2>1. k.role = conn[c][d].role
      BY <1>1 DEF Grows, Exists
    <2>2. \A a, b \in member \intersect member' :
            /\ conn'[a][b].role = conn[a][b].role
            /\ conn'[a][b].remote = conn[a][b].remote
            /\ conn'[a][b].role = "answerer" => conn'[a][b].local = conn[a][b].local
      BY <1>1, <1>2, <1>3, <2>1
    <2> QED BY <1>1, <1>2, <1>6, <2>2, EntriesKept DEF DInv
  <1>10. NoCandidateLost'
    <2>1. ASSUME NEW a \in member \intersect member', NEW b \in member \intersect member',
                 NEW n \in 1..conn'[a][b].forwarded
          PROVE  \/ n \in 1..conn[a][b].forwarded
                 \/ \E i \in 1..Len(inbox'[b]) : inbox'[b][i] = Msg("ice", a, {}, n)
      <3>1. CASE ~(a = c /\ b = d) \/ k.forwarded = conn[c][d].forwarded
        BY <1>2, <1>3, <3>1
      <3>2. CASE /\ a = c /\ b = d /\ k.forwarded = conn[c][d].forwarded + 1
                 /\ inbox' = Relay(d, M) /\ M = Msg("ice", c, {}, k.forwarded)
        <4>1. inbox'[d] = Append(inbox[d], M) /\ inbox[d] \in Seq(Message)
          BY <1>2, <3>2 DEF Relay, TypeOK
        <4>2. Len(inbox'[d]) \in 1..Len(inbox'[d]) /\ inbox'[d][Len(inbox'[d])] = M
          BY <4>1
        <4>3. n \in 1..conn[a][b].forwarded \/ n = k.forwarded
          BY <1>2, <1>3, <1>4, <3>2
        <4> QED BY <3>2, <4>2, <4>3
      <3> QED BY <1>5, <3>1, <3>2 DEF Posts
    <2> QED BY <1>1, <1>6, <2>1, CandidatesKept
  <1> QED BY <1>8, <1>9, <1>10 DEF DInv

LEMMA EventDInv ==
  ASSUME DInv, BInv', NEW c \in Client, NEW d \in Client, NEW k \in Conn,
         EventStep(c, d, k)
  PROVE  DInv'
  <1> DEFINE h == Head(inbox[c])
  <1>1. /\ c \in member /\ inbox[c] # <<>> /\ Consume(c)
        /\ h.from = d /\ h.type \in {"peer_joined", "offer", "answer", "ice"}
        /\ UNCHANGED <<ticket, member>>
        /\ conn' = [conn EXCEPT ![c][d] = k] /\ Grows(conn[c][d], k)
        /\ k.forwarded = conn[c][d].forwarded
        /\ h.type = "peer_joined" => k.role # "none"
        /\ h.type = "ice" /\ Exists(c, d) =>
             k.state = "closed" \/ h.cand \in k.pending \union k.added
        /\ Described(c, d, k)
    BY DEF EventStep
  <1>2. TypeOK /\ BInv /\ member \subseteq Client
    BY DEF DInv, BInv, IInv, TypeOK
  <1>3. \A a, b \in Client : conn'[a][b] = IF a = c /\ b = d THEN k ELSE conn[a][b]
    <2>1. conn' = [conn EXCEPT ![c][d] = k]
      BY <1>1
    <2> QED BY <1>2, <2>1, PointUpdate DEF TypeOK
  <1>4. inbox'[c] = Tail(inbox[c]) /\ \A a \in Client \ {c} : inbox'[a] = inbox[a]
    BY <1>1, <1>2, ConsumeSenders
  <1>5. Steady
    <2>1. \A a, b \in member \intersect member' : Grows(conn[a][b], conn'[a][b])
      BY <1>1, <1>2, <1>3, GrowsRefl
    <2>2. Handled(c)
      BY <1>1, <1>3 DEF Handled
    <2>3. \A a \in member \intersect member' : Followed(a)
      BY <1>1, <1>2, <1>4, <2>2 DEF Followed
    <2> QED BY <1>1, <2>1, <2>3 DEF Steady
  <1>6. MessagesJustified'
    <2>1. ASSUME NEW a \in member \intersect member', NEW m \in Message,
                 inbox'[a] = Append(inbox[a], m)
          PROVE  FALSE
      <3>1. inbox[a] \in Seq(Message) /\ a \in Client
        BY <1>2 DEF TypeOK
      <3>2. inbox'[a] = inbox[a] \/ (inbox[a] # <<>> /\ inbox'[a] = Tail(inbox[a]))
        BY <1>1, <1>4, <3>1
      <3> QED BY <2>1, <3>1, <3>2
    <2>2. member' \ member = {}
      BY <1>1
    <2> HIDE DEF h
    <2> QED BY <1>2, <1>5, <2>1, <2>2, MessagesKept DEF DInv
  <1>7. EntriesAnswer'
    <2>1. Head(inbox[c]) = inbox[c][1] /\ 1 \in 1..Len(inbox[c])
      BY <1>1, <1>2 DEF TypeOK
    <2>2. Justified(c, 1)
      BY <2>1 DEF DInv, MessagesJustified
    <2>3. ASSUME d \in member
          PROVE  \/ /\ k.role = conn[c][d].role
                    /\ k.local = conn[c][d].local /\ k.remote = conn[c][d].remote
                 \/ Answers(c, d)'
      <3>1. conn'[c][d] = k
        BY <1>3
      <3>2. Grows(conn[d][c], conn'[d][c])
        BY <1>1, <1>5, <2>3 DEF Steady
      <3>3. CASE k.role = "answerer" /\ ~k.local /\ ~k.remote
        BY <3>1, <3>3 DEF Answers
      <3>4. CASE k.role = "answerer" /\ k.local /\ k.remote /\ h.type = "offer"
        <4>1. Offered(d, c)
          BY <1>1, <2>1, <2>2, <2>3, <3>4 DEF Justified
        <4>2. Offered(d, c)' /\ Answered(c, d)'
          BY <3>1, <3>2, <3>4, <4>1 DEF Offered, Answered, Grows
        <4> QED BY <3>1, <3>4, <4>2 DEF Answers
      <3>5. CASE k.role = "offerer" /\ k.role = conn[c][d].role /\ h.type = "answer"
        <4>1. Answered(d, c) /\ Expects(d, c)
          BY <1>1, <2>1, <2>2, <2>3, <3>5 DEF Justified, DInv, EntriesAnswer, Answers
        <4>2. Answered(d, c)' /\ Expects(d, c)'
          BY <1>1, <1>2, <1>5, <2>3, <3>2, <4>1, ExpectsKept DEF Answered, Grows
        <4> QED BY <3>1, <3>5, <4>2 DEF Answers
      <3> QED BY <1>1, <3>3, <3>4, <3>5 DEF Described
    <2>4. \A a, b \in member \intersect member' :
            \/ /\ conn'[a][b].role = conn[a][b].role
               /\ conn'[a][b].remote = conn[a][b].remote
               /\ conn'[a][b].role = "answerer" => conn'[a][b].local = conn[a][b].local
            \/ Answers(a, b)'
      BY <1>2, <1>3, <2>3
    <2> QED BY <1>1, <1>2, <1>5, <2>4, EntriesKept DEF DInv
  <1>8. NoCandidateLost'
    <2>1. \A a, b \in member \intersect member' : conn'[a][b].forwarded = conn[a][b].forwarded
      BY <1>1, <1>2, <1>3
    <2> QED BY <1>1, <1>5, <2>1, CandidatesKept
  <1> QED BY <1>6, <1>7, <1>8 DEF DInv

LEMMA RecvPeerLeftDInv ==
  ASSUME DInv, BInv', NEW c \in Client, RecvPeerLeft(c)
  PROVE  DInv'
  <1> DEFINE d == Head(inbox[c]).from
  <1>1. /\ c \in member /\ inbox[c] # <<>> /\ Consume(c)
        /\ Head(inbox[c]).type = "peer_left"
        /\ UNCHANGED <<ticket, member>> /\ conn' = [conn EXCEPT ![c][d] = NoConn]
    BY DEF RecvPeerLeft, Receives
  <1>2. TypeOK /\ BInv /\ member \subseteq Client
    BY DEF DInv, BInv, IInv, TypeOK
  <1>3. Head(inbox[c]) = inbox[c][1] /\ 1 \in 1..Len(inbox[c])
    BY <1>1, <1>2 DEF TypeOK
  <1>4. d \notin member
    BY <1>1, <1>3 DEF DInv, MessagesJustified, Justified
  <1>5. \A a, b \in member : conn'[a][b] = conn[a][b]
    BY <1>1, <1>2, <1>4 DEF TypeOK
  <1>6. inbox'[c] = Tail(inbox[c]) /\ \A a \in Client \ {c} : inbox'[a] = inbox[a]
    BY <1>1, <1>2, ConsumeSenders
  <1>7. Steady
    <2>1. \A a, b \in member \intersect member' : Grows(conn[a][b], conn'[a][b])
      BY <1>5, GrowsRefl
    <2>2. Handled(c)
      BY <1>1 DEF Handled
    <2>3. \A a \in member \intersect member' : Followed(a)
      BY <1>1, <1>2, <1>6, <2>2 DEF Followed
    <2> QED BY <1>1, <2>1, <2>3 DEF Steady
  <1>8. MessagesJustified'
    <2>1. ASSUME NEW a \in member \intersect member', NEW m \in Message,
                 inbox'[a] = Append(inbox[a], m)
          PROVE  FALSE
      <3>1. inbox[a] \in Seq(Message) /\ a \in Client
        BY <1>2 DEF TypeOK
      <3>2. inbox'[a] = inbox[a] \/ (inbox[a] # <<>> /\ inbox'[a] = Tail(inbox[a]))
        BY <1>1, <1>6, <3>1
      <3> QED BY <2>1, <3>1, <3>2
    <2>2. member' \ member = {}
      BY <1>1
    <2> HIDE DEF d
    <2> QED BY <1>2, <1>7, <2>1, <2>2, MessagesKept DEF DInv
  <1>9. EntriesAnswer'
    BY <1>1, <1>2, <1>5, <1>7, EntriesKept DEF DInv
  <1>10. NoCandidateLost'
    BY <1>1, <1>5, <1>7, CandidatesKept
  <1> QED BY <1>8, <1>9, <1>10 DEF DInv

LEMMA RecvJoinedDInv ==
  ASSUME DInv, BInv', NEW c \in Client, RecvJoined(c)
  PROVE  DInv'
  <1> DEFINE roster == Head(inbox[c]).roster
  <1>1. /\ c \in member /\ inbox[c] # <<>> /\ Consume(c)
        /\ Head(inbox[c]).type = "joined"
        /\ UNCHANGED <<ticket, member>>
    BY DEF RecvJoined, Receives
  <1>2. TypeOK /\ BInv /\ member \subseteq Client
    BY DEF DInv, BInv, IInv, TypeOK
  <1>3. \A a, b \in Client :
          conn'[a][b] = IF a = c /\ b \in roster THEN Entry(conn[a][b], TRUE) ELSE conn[a][b]
    BY <1>2 DEF RecvJoined, TypeOK
  <1>4. Head(inbox[c]) = inbox[c][1] /\ 1 \in 1..Len(inbox[c])
    BY <1>1, <1>2 DEF TypeOK
  <1>5. \A d \in roster \intersect member : Expects(d, c)
    BY <1>1, <1>4 DEF DInv, MessagesJustified, Justified
  <1>6. inbox'[c] = Tail(inbox[c]) /\ \A a \in Client \ {c} : inbox'[a] = inbox[a]
    BY <1>1, <1>2, ConsumeSenders
  <1>7. ASSUME NEW a \in Client, NEW b \in Client
        PROVE  /\ Grows(conn[a][b], conn'[a][b])
               /\ conn'[a][b].forwarded = conn[a][b].forwarded
               /\ \/ conn'[a][b] = conn[a][b]
                  \/ /\ a = c /\ b \in roster /\ conn'[a][b].role = "offerer"
                     /\ ~conn'[a][b].local /\ ~conn'[a][b].remote
    <2>1. PICK q : q = conn[a][b]
      OBVIOUS
    <2>2. q \in Conn /\ (q.role = "none" => q = NoConn)
      BY <1>2, <2>1 DEF BInv, TypeOK, NoneIsNoConn, Exists
    <2>3. /\ Grows(q, Entry(q, TRUE)) /\ Entry(q, TRUE).forwarded = q.forwarded
          /\ \/ Entry(q, TRUE) = q
             \/ /\ Entry(q, TRUE).role = "offerer"
                /\ ~Entry(q, TRUE).local /\ ~Entry(q, TRUE).remote
      BY <2>2, EntryGrows DEF RoleOf
    <2>4. \/ conn'[a][b] = q
          \/ a = c /\ b \in roster /\ conn'[a][b] = Entry(q, TRUE)
      BY <1>3, <2>1
    <2> QED BY <2>1, <2>3, <2>4, GrowsRefl
  <1>8. Steady
    <2>1. Handled(c)
      BY <1>1 DEF Handled
    <2>2. \A a \in member \intersect member' : Followed(a)
      BY <1>1, <1>2, <1>6, <2>1 DEF Followed
    <2> QED BY <1>1, <1>2, <1>7, <2>2 DEF Steady
  <1>9. MessagesJustified'
    <2>1. ASSUME NEW a \in member \intersect member', NEW m \in Message,
                 inbox'[a] = Append(inbox[a], m)
          PROVE  FALSE
      <3>1. inbox[a] \in Seq(Message) /\ a \in Client
        BY <1>2 DEF TypeOK
      <3>2. inbox'[a] = inbox[a] \/ (inbox[a] # <<>> /\ inbox'[a] = Tail(inbox[a]))
        BY <1>1, <1>6, <3>1
      <3> QED BY <2>1, <3>1, <3>2
    <2>2. member' \ member = {}
      BY <1>1
    <2> HIDE DEF roster
    <2> QED BY <1>2, <1>8, <2>1, <2>2, MessagesKept DEF DInv
  <1>10. EntriesAnswer'
    <2>1. ASSUME NEW a \in member \intersect member', NEW b \in member \intersect member',
                 conn'[a][b] # conn[a][b]
          PROVE  Answers(a, b)'
      <3>1. /\ a = c /\ b \in roster /\ conn'[a][b].role = "offerer"
            /\ ~conn'[a][b].local /\ ~conn'[a][b].remote
        BY <1>2, <1>7, <2>1
      <3>2. Expects(b, a)'
        BY <1>2, <1>5, <1>8, <3>1, ExpectsKept
      <3> QED BY <3>1, <3>2 DEF Answers
    <2> HIDE DEF roster
    <2> QED BY <1>1, <1>2, <1>8, <2>1, EntriesKept DEF DInv
  <1>11. NoCandidateLost'
    BY <1>1, <1>2, <1>7, <1>8, CandidatesKept
  <1> QED BY <1>9, <1>10, <1>11 DEF DInv

\* The newcomer's ticket was 0: nobody had an entry for it or a message
\* from it, and everybody in its roster is told of it in the same step.
LEMMA JoinDInv ==
  ASSUME DInv, BInv', NEW c \in Client, Join(c)
  PROVE  DInv'
  <1>1. TypeOK /\ BInv /\ member \subseteq Client
    BY DEF DInv, BInv, IInv, TypeOK
  <1>2. /\ ticket[c] = 0 /\ c \notin member /\ member' = member \union {c} /\ conn' = conn
        /\ \A a \in Client :
             inbox'[a] = IF a = c THEN <<Msg("joined", c, member, 0)>>
                         ELSE IF a \in member
                           THEN Append(inbox[a], Msg("peer_joined", c, {}, 0))
                         ELSE inbox[a]
    BY <1>1 DEF Join, BInv, IInv, MembersEntered
  <1>3. Msg("peer_joined", c, {}, 0) \in Message
    BY HandshakeAssumption, MsgType
  <1>4. Msg("peer_joined", c, {}, 0).type = "peer_joined" /\ Msg("peer_joined", c, {}, 0).from = c
    BY DEF Msg
  <1>5. \A a, b \in Client : a = c \/ b = c => conn[a][b] = NoConn
    <2> SUFFICES ASSUME NEW a \in Client, NEW b \in Client, a = c \/ b = c
                 PROVE  conn[a][b].role = "none"
      BY <1>1 DEF BInv, NoneIsNoConn, Exists
    <2>1. conn[a][b].role \in {"none", "offerer", "answerer"}
      BY <1>1 DEF TypeOK, Conn
    <2>2. ticket[a] \in Nat /\ ticket[b] \in Nat
      BY <1>1 DEF TypeOK
    <2>3. ~Earlier(a, b) /\ ~Earlier(b, a)
      BY <1>2, <2>2 DEF Earlier
    <2> QED BY <1>1, <2>1, <2>3 DEF BInv, IInv, RolesFollowTickets
  <1>6. Steady
    <2>1. \A a \in member \intersect member' : Followed(a)
      BY <1>1, <1>2, <1>3 DEF Followed
    <2> QED BY <1>2, <2>1, GrowsRefl DEF Steady
  <1>7. MessagesJustified'
    <2>1. ASSUME NEW a \in member \intersect member', NEW m \in Message,
                 inbox'[a] = Append(inbox[a], m)
          PROVE  Justified(a, Len(inbox[a]))'
      <3>1. inbox[a] \in Seq(Message) /\ a \in Client /\ a # c
        BY <1>1, <1>2 DEF TypeOK
      <3>2. inbox'[a] = Append(inbox[a], Msg("peer_joined", c, {}, 0))
        BY <1>2, <3>1
      <3>3. inbox'[a][Len(inbox'[a])] = Msg("peer_joined", c, {}, 0)
        BY <1>3, <3>1, <3>2
      <3> QED BY <1>4, <3>3 DEF Justified
    <2>2. ASSUME NEW a \in member' \ member, NEW i \in 1..Len(inbox'[a])
          PROVE  Justified(a, i)'
      <3>1. a = c /\ inbox'[a] = <<Msg("joined", c, member, 0)>>
        BY <1>2, <2>2
      <3>2. inbox'[a][i] = Msg("joined", c, member, 0)
        BY <3>1
      <3>3. /\ inbox'[a][i].type = "joined" /\ inbox'[a][i].from = c
            /\ inbox'[a][i].roster = member
        BY <3>2 DEF Msg
      <3>4. ASSUME NEW d \in member PROVE Expects(d, c)'
        <4>1. inbox'[d] = Append(inbox[d], Msg("peer_joined", c, {}, 0))
              /\ inbox[d] \in Seq(Message)
          BY <1>1, <1>2 DEF TypeOK
        <4>2. /\ Len(inbox'[d]) \in 1..Len(inbox'[d])
              /\ inbox'[d][Len(inbox'[d])] = Msg("peer_joined", c, {}, 0)
          BY <1>3, <4>1
        <4> QED BY <1>4, <4>2 DEF Expects, Introduced
      <3> QED BY <3>1, <3>3, <3>4 DEF Justified
    <2> QED BY <1>1, <1>6, <2>1, <2>2, MessagesKept DEF DInv
  <1>8. \A a, b \in member' : a \notin member \/ b \notin member => conn'[a][b] = NoConn
    BY <1>1, <1>2, <1>5
  <1>9. EntriesAnswer'
    BY <1>1, <1>2, <1>6, <1>8, EntriesKept DEF DInv
  <1>10. NoCandidateLost'
    BY <1>2, <1>6, <1>8, CandidatesKept
  <1> QED BY <1>7, <1>9, <1>10 DEF DInv

LEMMA LeaveDInv ==
  ASSUME DInv, BInv', NEW c \in Client, Leave(c)
  PROVE  DInv'
  <1>1. TypeOK /\ BInv /\ member \subseteq Client
    BY DEF DInv, BInv, IInv, TypeOK
  <1>2. /\ member' = member \ {c}
        /\ \A a \in Client : a # c => conn'[a] = conn[a]
        /\ \A a \in member' : inbox'[a] = Append(inbox[a], Msg("peer_left", c, {}, 0))
    BY <1>1 DEF Leave, TypeOK
  <1>3. Msg("peer_left", c, {}, 0) \in Message
    BY HandshakeAssumption, MsgType
  <1>4. Msg("peer_left", c, {}, 0).type = "peer_left" /\ Msg("peer_left", c, {}, 0).from = c
    BY DEF Msg
  <1>5. \A a, b \in member' : conn'[a][b] = conn[a][b]
    BY <1>1, <1>2
  <1>6. Steady
    <2>1. \A a \in member \intersect member' : Followed(a)
      BY <1>2, <1>3 DEF Followed
    <2> QED BY <1>2, <1>5, <2>1, GrowsRefl DEF Steady
  <1>7. MessagesJustified'
    <2>1. ASSUME NEW a \in member \intersect member', NEW m \in Message,
                 inbox'[a] = Append(inbox[a], m)
          PROVE  Justified(a, Len(inbox[a]))'
      <3>1. inbox[a] \in Seq(Message)
        BY <1>1 DEF TypeOK
      <3>2. inbox'[a][Len(inbox'[a])] = Msg("peer_left", c, {}, 0)
        BY <1>2, <1>3, <3>1
      <3> QED BY <1>2, <1>4, <3>2 DEF Justified
    <2> QED BY <1>1, <1>2, <1>6, <2>1, MessagesKept DEF DInv
  <1>8. EntriesAnswer'
    BY <1>1, <1>2, <1>5, <1>6, EntriesKept DEF DInv
  <1>9. NoCandidateLost'
    BY <1>2, <1>5, <1>6, CandidatesKept
  <1> QED BY <1>7, <1>8, <1>9 DEF DInv

LEMMA NextDInv == DInv /\ [Next]_vars => DInv'
  <1> SUFFICES ASSUME DInv, [Next]_vars PROVE DInv'
    OBVIOUS
  <1>1. BInv'
    BY NextBInv DEF DInv
  <1>2. CASE UNCHANGED <<inbox, conn, member>>
    <2>1. MessagesJustified'
      BY <1>2 DEF DInv, MessagesJustified, Justified, Expects, Exists, Introduced,
                  Offered, Answered
    <2>2. EntriesAnswer'
      BY <1>2 DEF DInv, EntriesAnswer, Answers, Expects, Exists, Introduced,
                  Offered, Answered
    <2>3. NoCandidateLost'
      BY <1>2 DEF DInv, NoCandidateLost, Msg
    <2> QED BY <1>1, <2>1, <2>2, <2>3 DEF DInv
  <1>3. ASSUME NEW c \in Client, NEW d \in Client,
               \/ CreateOffer(c, d) \/ SendOffer(c, d) \/ SendAnswer(c, d)
               \/ ForwardICE(c, d) \/ Connect(c, d) \/ Fail(c, d)
        PROVE  DInv'
    BY <1>1, <1>3, GoroutineShape, GoroutineDInv DEF DInv
  <1>4. ASSUME NEW c \in Client,
               RecvPeerJoined(c) \/ RecvOffer(c) \/ RecvAnswer(c) \/ RecvICE(c)
        PROVE  DInv'
    BY <1>1, <1>4, EventShape, EventDInv DEF DInv
  <1>5. ASSUME NEW c \in Client, NEW d \in Client, AnnounceReady(c, d)
        PROVE  UNCHANGED <<inbox, conn, member>>
    BY <1>5 DEF AnnounceReady
  <1>6. UNCHANGED vars => UNCHANGED <<inbox, conn, member>>
    BY DEF vars
  <1> QED
    BY <1>1, <1>2, <1>3, <1>4, <1>5, <1>6, JoinDInv, LeaveDInv, RecvJoinedDInv,
       RecvPeerLeftDInv
    DEF Next, RunLoop

(***************************************************************************)
(* No trickled candidate is lost between two members, however it races     *)
(* with the offer, the answer and the peer_joined that introduce its       *)
(* sender (forwardLocalICE, onRemoteICE, pendingRemoteICE).                *)
(***************************************************************************)
THEOREM NoCandidateLostHolds == Spec => []NoCandidateLost
  <1>1. DInv => NoCandidateLost
    BY DEF DInv
  <1> QED BY <1>1, InitDInv, NextDInv, PTL DEF Spec

(***************************************************************************)
(* A connection with both descriptions faces one whose description it      *)
(* applied: onAnswer and HandleOffer never pair an answer with an entry    *)
(* that did not offer, or an offer with one that was not sent.             *)
(***************************************************************************)
THEOREM DescriptionsMatchHolds == Spec => []DescriptionsMatch
  <1>1. DInv => DescriptionsMatch
    <2> SUFFICES ASSUME DInv, NEW c \in member, NEW d \in member,
                        Exists(c, d), conn[c][d].remote
                 PROVE  /\ conn[d][c].local
                        /\ conn[c][d].role = "offerer" => conn[c][d].sent /\ conn[d][c].remote
      BY DEF DescriptionsMatch
    <2>1. conn[c][d].role \in {"offerer", "answerer"}
      BY DEF DInv, BInv, IInv, TypeOK, Conn, Exists
    <2>2. Answers(c, d) /\ Answers(d, c)
      BY DEF DInv, EntriesAnswer
    <2> QED BY <2>1, <2>2 DEF Answers, Answered, Offered
  <1> QED BY <1>1, InitDInv, NextDInv, PTL DEF Spec
=============================================================================
