----------------------------- MODULE MeshProofs ----------------------------
(***************************************************************************)
(* Safety of client/mesh.                                                  *)
(*                                                                         *)
(* A mesh session, for every number of peers, sessions and redial          *)
(* attempts: a Close leaves no link behind unless it overtook a thread     *)
(* that was about to install one; a Leave sticks once the entering call    *)
(* can no longer undo it; a redial clears the peer map before it goes back *)
(* to listening.  The inductive invariant says in which thread's hands the *)
(* one open link can be, how far the entering call is when nothing of it   *)
(* may be left, and what the peer map holds at each step of run and Close. *)
(*                                                                         *)
(* The bandwidth probes of a peer, for every number of calls, chunks and   *)
(* pings: a call answers with its own measurement.                         *)
(***************************************************************************)
EXTENDS MeshSession, Probes, FiniteSetTheorems, SequenceTheorems, TLAPS

SigClosed == {"sigClosed", "peersClosed", "waiting", "returned"}
Closing == \E c \in Closer : app[c] \in SigClosed
NoLinkOpen == \A k \in Session : link[k] # "open"

\* A redial under way has attempts left.
BudgetLeft == run \in Redialing => attempt < MaxAttempts

\* What the entering call has done so far, and without a runtime no peer
\* enters.
NotStarted ==
  /\ enter = "start" => sig = 0 /\ dialed = 0
  /\ enter \in {"start", "dialed", "wanting", "requested"} => run = "off"
  /\ enter \in {"dialed", "wanting", "requested"} => sig # 0
  /\ run = "off" => peers = NoPeers
  /\ \A k \in Session : k <= dialed => link[k] # "none"

\* A closed map stays empty.
ClosedMap ==
  /\ \A c \in Closer : app[c] = "peersClosed" => peersNil
  /\ \A c \in Closer : app[c] \in {"waiting", "returned"} => closed
  /\ closed => peersNil /\ Closing
  /\ peersNil => peers = NoPeers

\* At most one link is open: the current one, or the one a redial has just
\* dialed.
OneLink ==
  \A k \in Session : link[k] = "open" => k = sig \/ (run = "dialed" /\ k = dialed)

\* An owner's run loop never leaves the first session.
OwnerStays == wasOwner => run \in {"off", "select", "done"}

\* A Close that overtook nobody: no link is open and nobody will dial or ask
\* for a redial any more.
QuietClose ==
  Closing /\ overtaken = "no" =>
    /\ NoLinkOpen
    /\ run \notin Redialing
    /\ enter # "start"
    /\ enter \in {"dialed", "wanting"} => link[sig] = "closed"
    /\ run # "off" \/ enter = "requested" => ~wantPortal

\* An owner's Close that came after its dial.
OwnersClose == Closing /\ wasOwner /\ overtaken # "enter" => NoLinkOpen /\ enter # "start"

\* A Leave the entering call can no longer undo, and the rejoins since.
LeftBehind ==
  /\ left = "no" => again = 0
  /\ left # "no" => ~wantPortal /\ enter \notin {"start", "dialed"}
  /\ left = "resting" => again = 0 /\ run \notin Redialing
  /\ left = "reconnecting" => again = 0 \/ (again = 1 /\ run \notin Redialing)

IInv ==
  /\ TypeOK
  /\ BudgetLeft
  /\ NotStarted
  /\ EntriesOfThisSession
  /\ ClosedMap
  /\ OneLink
  /\ OwnerStays
  /\ QuietClose
  /\ OwnersClose
  /\ LeftBehind

-----------------------------------------------------------------------------
(* The queues of the server keep their type.                               *)

Queues == [Session -> Seq(Event)]

LEMMA EvType ==
  ASSUME NEW t \in {"created", "joined", "peer_joined", "peer_left", "closed", "error"},
         NEW w \in SUBSET Remote
  PROVE  Ev(t, w) \in Event
  BY DEF Ev, Event

LEMMA PushType ==
  ASSUME pushed \in Queues, NEW k \in Session, NEW e \in Event, Push(k, e)
  PROVE  pushed' \in Queues
  BY DEF Push, Queues

LEMMA PushAllType ==
  ASSUME pushed \in Queues, NEW e \in Event, PushAll(e)
  PROVE  pushed' \in Queues
  BY DEF PushAll, Queues

LEMMA CutType ==
  ASSUME pushed \in Queues, NEW k \in Session, Cut(k)
  PROVE  pushed' \in Queues
  <1>1. PICK n \in 0..Len(pushed[k]) : pushed' = [pushed EXCEPT ![k] = SubSeq(@, 1, n)]
    BY DEF Cut
  <1>2. pushed[k] \in Seq(Event)
    BY DEF Queues
  <1>3. \A i \in 1..n : pushed[k][i] \in Event
    BY <1>2, ElementOfSeq
  <1>4. SubSeq(pushed[k], 1, n) \in Seq(Event)
    BY <1>2, <1>3, SubSeqProperties
  <1> QED BY <1>1, <1>4 DEF Queues

LEMMA ForgetsType ==
  ASSUME requests \in [Session -> Seq({"create", "join", "leave"})],
         seat \in [Session -> BOOLEAN], portalUp \in BOOLEAN, wasOwner \in BOOLEAN,
         NEW k \in Session, Forgets(k)
  PROVE  /\ requests' \in [Session -> Seq({"create", "join", "leave"})]
         /\ seat' \in [Session -> BOOLEAN] /\ portalUp' \in BOOLEAN
  <1>1. <<>> \in Seq({"create", "join", "leave"})
    BY EmptySeq
  <1>2. requests' \in [Session -> Seq({"create", "join", "leave"})]
    BY <1>1 DEF Forgets
  <1>3. seat' \in [Session -> BOOLEAN]
    BY DEF Forgets
  <1>4. portalUp' \in BOOLEAN
    BY Zenon DEF Forgets
  <1> QED BY <1>2, <1>3, <1>4

LEMMA SendsType ==
  ASSUME requests \in [Session -> Seq({"create", "join", "leave"})],
         NEW k \in 0..MaxSessions, NEW q \in {"create", "join", "leave"}, SendsOn(k, q)
  PROVE  requests' \in [Session -> Seq({"create", "join", "leave"})]
  BY DEF SendsOn, Session

LEMMA HeadTailType ==
  ASSUME NEW S, NEW s \in Seq(S), s # <<>>
  PROVE  Head(s) \in S /\ Tail(s) \in Seq(S)
  OBVIOUS

-----------------------------------------------------------------------------
LEMMA InitIInv == Init => IInv
  <1> SUFFICES ASSUME Init PROVE IInv
    OBVIOUS
  <1>1. wasOwner \in BOOLEAN
    BY MeshSessionAssumption, Zenon DEF Init
  <1>2. <<>> \in Seq({"create", "join", "leave"}) /\ <<>> \in Seq(Event)
    BY EmptySeq
  <1>3. pushed \in [Session -> Seq(Event)]
    BY <1>2 DEF Init
  <1>4. requests \in [Session -> Seq({"create", "join", "leave"})]
    BY <1>2 DEF Init
  <1>5. /\ seat \in [Session -> BOOLEAN]
        /\ link \in [Session -> {"none", "open", "dropped", "closed"}]
        /\ peers \in [Remote -> 0..MaxSessions]
        /\ app \in [Closer -> {"idle", "leaving", "left", "sigClosed", "peersClosed",
                               "waiting", "returned"}]
    BY MeshSessionAssumption DEF Init, NoPeers
  <1>6. /\ dialed \in 0..MaxSessions /\ sig \in 0..dialed /\ attempt \in 0..MaxAttempts
        /\ again \in Nat
    BY MeshSessionAssumption DEF Init
  <1>7. TypeOK
    BY <1>1, <1>3, <1>4, <1>5, <1>6, Zenon DEF Init, TypeOK
  <1>8. ~Closing /\ NoLinkOpen
    BY DEF Init, Closing, SigClosed, Closer, NoLinkOpen
  <1> QED BY <1>7, <1>8 DEF Init, IInv, BudgetLeft, NotStarted, EntriesOfThisSession, ClosedMap,
                      OneLink, OwnerStays, QuietClose, OwnersClose, LeftBehind, Redialing,
                      NoLinkOpen, NoPeers, Closer

LEMMA NextIInv == IInv /\ [Next]_vars => IInv'
  <1> SUFFICES ASSUME IInv, [Next]_vars PROVE IInv'
    OBVIOUS
  <1> USE MeshSessionAssumption DEF server, client, state, threads, history
  <1>1. ASSUME NEW k \in Session, ServerHandles(k) PROVE IInv'
    <2>1. TypeOK'
      <3>1. /\ Head(requests[k]) \in {"create", "join", "leave"}
            /\ Tail(requests[k]) \in Seq({"create", "join", "leave"})
        BY <1>1, HeadTailType DEF ServerHandles, TypeOK, IInv
      <3>2. requests' \in [Session -> Seq({"create", "join", "leave"})]
        BY <1>1, <3>1 DEF ServerHandles, TypeOK, IInv
      <3>3. pushed' \in Queues
        <4>1. pushed \in Queues
          BY DEF TypeOK, IInv, Queues
        <4>2. Ev("created", {}) \in Event /\ Ev("joined", others) \in Event /\ Ev("error", {}) \in Event
          BY EvType DEF TypeOK, IInv
        <4> QED BY <1>1, <4>1, <4>2, PushType DEF ServerHandles
      <3>4. portalUp' \in BOOLEAN /\ others' \subseteq Remote /\ seat' \in [Session -> BOOLEAN]
        BY <1>1 DEF ServerHandles, TypeOK, IInv
      <3> QED BY <1>1, <3>2, <3>3, <3>4 DEF ServerHandles, TypeOK, IInv, Queues
    <2>2. (BudgetLeft /\ NotStarted /\ EntriesOfThisSession /\ ClosedMap /\ OneLink /\ OwnerStays)'
      BY <1>1 DEF ServerHandles, Push, Ev, Event, TypeOK,
         IInv, BudgetLeft, NotStarted, EntriesOfThisSession, ClosedMap, OneLink,
         OwnerStays, Closing, SigClosed, Redialing, Closer, App
    <2>3. QuietClose'
      BY <1>1 DEF ServerHandles, Push, Ev, Event, TypeOK,
         IInv, QuietClose, ClosedMap, Closing, SigClosed, NoLinkOpen, NotStarted,
         OneLink, OwnerStays, Redialing, Closer, App
    <2>4. (OwnersClose /\ LeftBehind)'
      BY <1>1 DEF ServerHandles, Push, Ev, Event, TypeOK,
         IInv, OwnersClose, LeftBehind, ClosedMap, Closing, SigClosed, NoLinkOpen,
         NotStarted, OneLink, OwnerStays, Redialing, Closer, App
    <2> QED BY <2>1, <2>2, <2>3, <2>4 DEF IInv
  <1>2. ASSUME NEW r \in Remote, ServerPeer(r) PROVE IInv'
    <2>1. TypeOK'
      <3>1. pushed' \in Queues
        <4>1. pushed \in Queues
          BY DEF TypeOK, IInv, Queues
        <4>2. Ev("peer_joined", {r}) \in Event /\ Ev("peer_left", {r}) \in Event
          BY EvType
        <4> QED BY <1>2, <4>1, <4>2, PushAllType DEF ServerPeer
      <3> QED BY <1>2, <3>1 DEF ServerPeer, TypeOK, IInv, Queues
    <2>2. (BudgetLeft /\ NotStarted /\ EntriesOfThisSession /\ ClosedMap /\ OneLink /\ OwnerStays)'
      BY <1>2 DEF ServerPeer, PushAll, Ev, Event, TypeOK,
         IInv, BudgetLeft, NotStarted, EntriesOfThisSession, ClosedMap, OneLink,
         OwnerStays, Closing, SigClosed, Redialing, Closer, App
    <2>3. QuietClose'
      BY <1>2 DEF ServerPeer, PushAll, Ev, Event, TypeOK,
         IInv, QuietClose, ClosedMap, Closing, SigClosed, NoLinkOpen, NotStarted,
         OneLink, OwnerStays, Redialing, Closer, App
    <2>4. (OwnersClose /\ LeftBehind)'
      BY <1>2 DEF ServerPeer, PushAll, Ev, Event, TypeOK,
         IInv, OwnersClose, LeftBehind, ClosedMap, Closing, SigClosed, NoLinkOpen,
         NotStarted, OneLink, OwnerStays, Redialing, Closer, App
    <2> QED BY <2>1, <2>2, <2>3, <2>4 DEF IInv
  <1>3. CASE ServerClosesPortal
    <2>1. TypeOK'
      <3>1. pushed' \in Queues
        <4>1. pushed \in Queues
          BY DEF TypeOK, IInv, Queues
        <4>2. Ev("closed", {}) \in Event
          BY EvType
        <4> QED BY <1>3, <4>1, <4>2, PushAllType DEF ServerClosesPortal
      <3>2. portalUp' \in BOOLEAN /\ seat' \in [Session -> BOOLEAN]
        BY <1>3 DEF ServerClosesPortal
      <3>3. UNCHANGED <<others, requests, dialed, link, sig, wasOwner, wantPortal, portal, peers,
                        peersNil, closed, enter, run, attempt, app, crashed, overtaken, left, again>>
        BY <1>3 DEF ServerClosesPortal
      <3> QED BY <3>1, <3>2, <3>3 DEF TypeOK, IInv, Queues
    <2>2. (BudgetLeft /\ NotStarted /\ EntriesOfThisSession /\ ClosedMap /\ OneLink /\ OwnerStays)'
      BY <1>3 DEF ServerClosesPortal, PushAll, Ev, Event, TypeOK,
         IInv, BudgetLeft, NotStarted, EntriesOfThisSession, ClosedMap, OneLink,
         OwnerStays, Closing, SigClosed, Redialing, Closer, App
    <2>3. QuietClose'
      BY <1>3 DEF ServerClosesPortal, PushAll, Ev, Event, TypeOK,
         IInv, QuietClose, ClosedMap, Closing, SigClosed, NoLinkOpen, NotStarted,
         OneLink, OwnerStays, Redialing, Closer, App
    <2>4. (OwnersClose /\ LeftBehind)'
      BY <1>3 DEF ServerClosesPortal, PushAll, Ev, Event, TypeOK,
         IInv, OwnersClose, LeftBehind, ClosedMap, Closing, SigClosed, NoLinkOpen,
         NotStarted, OneLink, OwnerStays, Redialing, Closer, App
    <2> QED BY <2>1, <2>2, <2>3, <2>4 DEF IInv
  <1>4. ASSUME NEW k \in Session, LinkDrops(k) PROVE IInv'
    <2>1. TypeOK'
      <3>1. pushed' \in Queues
        BY <1>4, CutType DEF LinkDrops, TypeOK, IInv, Queues
      <3>2. link' \in [Session -> {"none", "open", "dropped", "closed"}]
        BY <1>4 DEF LinkDrops, TypeOK, IInv
      <3>3. /\ requests' \in [Session -> Seq({"create", "join", "leave"})]
            /\ seat' \in [Session -> BOOLEAN] /\ portalUp' \in BOOLEAN
        BY <1>4, ForgetsType DEF LinkDrops, TypeOK, IInv
      <3>4. UNCHANGED <<others, dialed, state, threads, history>>
        BY <1>4 DEF LinkDrops
      <3> QED BY <3>1, <3>2, <3>3, <3>4 DEF TypeOK, IInv, Queues
    <2>2. (BudgetLeft /\ NotStarted /\ EntriesOfThisSession /\ ClosedMap /\ OneLink /\ OwnerStays)'
      BY <1>4 DEF LinkDrops, Forgets, TypeOK,
         IInv, BudgetLeft, NotStarted, EntriesOfThisSession, ClosedMap, OneLink,
         OwnerStays, Closing, SigClosed, Redialing, Closer, App
    <2>3. QuietClose'
      BY <1>4 DEF LinkDrops, Forgets, TypeOK,
         IInv, QuietClose, ClosedMap, Closing, SigClosed, NoLinkOpen, NotStarted,
         OneLink, OwnerStays, Redialing, Closer, App
    <2>4. (OwnersClose /\ LeftBehind)'
      BY <1>4 DEF LinkDrops, Forgets, TypeOK,
         IInv, OwnersClose, LeftBehind, ClosedMap, Closing, SigClosed, NoLinkOpen,
         NotStarted, OneLink, OwnerStays, Redialing, Closer, App
    <2> QED BY <2>1, <2>2, <2>3, <2>4 DEF IInv
  <1>5. CASE EnterDials
    <2>1. TypeOK'
      <3>1. dialed' \in 0..MaxSessions /\ sig' \in 0..dialed'
        BY <1>5 DEF EnterDials, DialOK, TypeOK, IInv, NotStarted
      <3>2. link' \in [Session -> {"none", "open", "dropped", "closed"}]
        BY <1>5 DEF EnterDials, DialOK, TypeOK, IInv
      <3>3. enter' \in {"dialed", "failed"}
        BY <1>5 DEF EnterDials
      <3> QED BY <1>5, <3>1, <3>2, <3>3 DEF EnterDials, TypeOK, IInv
    <2>2. (BudgetLeft /\ NotStarted /\ EntriesOfThisSession /\ ClosedMap /\ OneLink /\ OwnerStays)'
      BY <1>5 DEF EnterDials, DialOK, Session, TypeOK,
         IInv, BudgetLeft, NotStarted, EntriesOfThisSession, ClosedMap, OneLink,
         OwnerStays, Closing, SigClosed, Redialing, Closer, App
    <2>3. QuietClose'
      BY <1>5 DEF EnterDials, DialOK, Session, TypeOK,
         IInv, QuietClose, ClosedMap, Closing, SigClosed, NoLinkOpen, NotStarted,
         OneLink, OwnerStays, Redialing, Closer, App
    <2>4. (OwnersClose /\ LeftBehind)'
      BY <1>5 DEF EnterDials, DialOK, Session, TypeOK,
         IInv, OwnersClose, LeftBehind, ClosedMap, Closing, SigClosed, NoLinkOpen,
         NotStarted, OneLink, OwnerStays, Redialing, Closer, App
    <2> QED BY <2>1, <2>2, <2>3, <2>4 DEF IInv
  <1>6. CASE EnterWants
    <2>1. TypeOK'
      BY <1>6 DEF EnterWants, TypeOK, IInv
    <2>2. (BudgetLeft /\ NotStarted /\ EntriesOfThisSession /\ ClosedMap /\ OneLink /\ OwnerStays)'
      BY <1>6 DEF EnterWants, TypeOK,
         IInv, BudgetLeft, NotStarted, EntriesOfThisSession, ClosedMap, OneLink,
         OwnerStays, Closing, SigClosed, Redialing, Closer, App
    <2>3. QuietClose'
      BY <1>6 DEF EnterWants, TypeOK,
         IInv, QuietClose, ClosedMap, Closing, SigClosed, NoLinkOpen, NotStarted,
         OneLink, OwnerStays, Redialing, Closer, App
    <2>4. (OwnersClose /\ LeftBehind)'
      BY <1>6 DEF EnterWants, TypeOK,
         IInv, OwnersClose, LeftBehind, ClosedMap, Closing, SigClosed, NoLinkOpen,
         NotStarted, OneLink, OwnerStays, Redialing, Closer, App
    <2> QED BY <2>1, <2>2, <2>3, <2>4 DEF IInv
  <1>7. CASE EnterRequests
    <2>1. TypeOK'
      <3>1. sig \in 0..MaxSessions
        BY DEF TypeOK, IInv
      <3>2. requests' \in [Session -> Seq({"create", "join", "leave"})]
        <4> DEFINE q == IF wasOwner THEN "create" ELSE "join"
        <4>1. q \in {"create", "join", "leave"}
          OBVIOUS
        <4>2. SendsOn(sig, q) \/ requests' = requests
          BY <1>7 DEF EnterRequests
        <4> HIDE DEF q
        <4> QED BY <3>1, <4>1, <4>2, SendsType DEF TypeOK, IInv
      <3>3. enter' \in {"requested", "failed"}
        BY <1>7 DEF EnterRequests
      <3> QED BY <1>7, <3>2, <3>3 DEF EnterRequests, TypeOK, IInv
    <2>2. (BudgetLeft /\ NotStarted /\ EntriesOfThisSession /\ ClosedMap /\ OneLink /\ OwnerStays)'
      BY <1>7 DEF EnterRequests, SendsOn, TypeOK,
         IInv, BudgetLeft, NotStarted, EntriesOfThisSession, ClosedMap, OneLink,
         OwnerStays, Closing, SigClosed, Redialing, Closer, App
    <2>3. QuietClose'
      BY <1>7 DEF EnterRequests, SendsOn, TypeOK,
         IInv, QuietClose, ClosedMap, Closing, SigClosed, NoLinkOpen, NotStarted,
         OneLink, OwnerStays, Redialing, Closer, App
    <2>4. (OwnersClose /\ LeftBehind)'
      BY <1>7 DEF EnterRequests, SendsOn, TypeOK,
         IInv, OwnersClose, LeftBehind, ClosedMap, Closing, SigClosed, NoLinkOpen,
         NotStarted, OneLink, OwnerStays, Redialing, Closer, App
    <2> QED BY <2>1, <2>2, <2>3, <2>4 DEF IInv
  <1>8. CASE StartRuntime
    <2>1. TypeOK'
      BY <1>8 DEF StartRuntime, TypeOK, IInv
    <2>2. (BudgetLeft /\ NotStarted /\ EntriesOfThisSession /\ ClosedMap /\ OneLink /\ OwnerStays)'
      BY <1>8 DEF StartRuntime, NoPeers, TypeOK,
         IInv, BudgetLeft, NotStarted, EntriesOfThisSession, ClosedMap, OneLink,
         OwnerStays, Closing, SigClosed, Redialing, Closer, App
    <2>3. QuietClose'
      BY <1>8 DEF StartRuntime, NoPeers, TypeOK,
         IInv, QuietClose, ClosedMap, Closing, SigClosed, NoLinkOpen, NotStarted,
         OneLink, OwnerStays, Redialing, Closer, App
    <2>4. (OwnersClose /\ LeftBehind)'
      BY <1>8 DEF StartRuntime, NoPeers, TypeOK,
         IInv, OwnersClose, LeftBehind, ClosedMap, Closing, SigClosed, NoLinkOpen,
         NotStarted, OneLink, OwnerStays, Redialing, Closer, App
    <2> QED BY <2>1, <2>2, <2>3, <2>4 DEF IInv
  <1>9. CASE EnterReturns
    <2>1. TypeOK'
      <3>1. enter' \in {"entered", "failed"}
        BY <1>9 DEF EnterReturns
      <3> QED BY <1>9, <3>1 DEF EnterReturns, TypeOK, IInv
    <2>2. (BudgetLeft /\ NotStarted /\ EntriesOfThisSession /\ ClosedMap /\ OneLink /\ OwnerStays)'
      BY <1>9 DEF EnterReturns, TypeOK,
         IInv, BudgetLeft, NotStarted, EntriesOfThisSession, ClosedMap, OneLink,
         OwnerStays, Closing, SigClosed, Redialing, Closer, App
    <2>3. QuietClose'
      BY <1>9 DEF EnterReturns, TypeOK,
         IInv, QuietClose, ClosedMap, Closing, SigClosed, NoLinkOpen, NotStarted,
         OneLink, OwnerStays, Redialing, Closer, App
    <2>4. (OwnersClose /\ LeftBehind)'
      BY <1>9 DEF EnterReturns, TypeOK,
         IInv, OwnersClose, LeftBehind, ClosedMap, Closing, SigClosed, NoLinkOpen,
         NotStarted, OneLink, OwnerStays, Redialing, Closer, App
    <2> QED BY <2>1, <2>2, <2>3, <2>4 DEF IInv
  <1>10. ASSUME NEW c \in Closer, Leave(c) PROVE IInv'
    <2>1. TypeOK'
      <3>0. app' \in [Closer -> {"idle", "leaving", "left", "sigClosed", "peersClosed",
                                 "waiting", "returned"}]
        BY <1>10 DEF Leave, App, TypeOK, IInv
      <3>1. wantPortal' \in BOOLEAN
        BY <1>10, Zenon DEF Leave
      <3>2. left' \in {"no", "resting", "reconnecting"}
        BY <1>10 DEF Leave, TypeOK, IInv
      <3> QED BY <1>10, <3>0, <3>1, <3>2 DEF Leave, TypeOK, IInv
    <2>2. (BudgetLeft /\ NotStarted /\ EntriesOfThisSession /\ ClosedMap /\ OneLink /\ OwnerStays)'
      BY <1>10 DEF Leave, TypeOK,
         IInv, BudgetLeft, NotStarted, EntriesOfThisSession, ClosedMap, OneLink,
         OwnerStays, Closing, SigClosed, Redialing, Closer, App
    <2>3. QuietClose'
      BY <1>10 DEF Leave, TypeOK,
         IInv, QuietClose, ClosedMap, Closing, SigClosed, NoLinkOpen, NotStarted,
         OneLink, OwnerStays, Redialing, Closer, App
    <2>4. (OwnersClose /\ LeftBehind)'
      BY <1>10 DEF Leave, TypeOK,
         IInv, OwnersClose, LeftBehind, ClosedMap, Closing, SigClosed, NoLinkOpen,
         NotStarted, OneLink, OwnerStays, Redialing, Closer, App
    <2> QED BY <2>1, <2>2, <2>3, <2>4 DEF IInv
  <1>11. ASSUME NEW c \in Closer, LeaveSend(c) PROVE IInv'
    <2>1. TypeOK'
      <3>0. app' \in [Closer -> {"idle", "leaving", "left", "sigClosed", "peersClosed",
                                 "waiting", "returned"}]
        BY <1>11 DEF LeaveSend, App, TypeOK, IInv
      <3>1. sig \in 0..MaxSessions
        BY DEF TypeOK, IInv
      <3>2. requests' \in [Session -> Seq({"create", "join", "leave"})]
        BY <1>11, <3>1, SendsType DEF LeaveSend, TypeOK, IInv
      <3> QED BY <1>11, <3>0, <3>2 DEF LeaveSend, TypeOK, IInv
    <2>2. (BudgetLeft /\ NotStarted /\ EntriesOfThisSession /\ ClosedMap /\ OneLink /\ OwnerStays)'
      BY <1>11 DEF LeaveSend, SendsOn, TypeOK,
         IInv, BudgetLeft, NotStarted, EntriesOfThisSession, ClosedMap, OneLink,
         OwnerStays, Closing, SigClosed, Redialing, Closer, App
    <2>3. QuietClose'
      BY <1>11 DEF LeaveSend, SendsOn, TypeOK,
         IInv, QuietClose, ClosedMap, Closing, SigClosed, NoLinkOpen, NotStarted,
         OneLink, OwnerStays, Redialing, Closer, App
    <2>4. (OwnersClose /\ LeftBehind)'
      BY <1>11 DEF LeaveSend, SendsOn, TypeOK,
         IInv, OwnersClose, LeftBehind, ClosedMap, Closing, SigClosed, NoLinkOpen,
         NotStarted, OneLink, OwnerStays, Redialing, Closer, App
    <2> QED BY <2>1, <2>2, <2>3, <2>4 DEF IInv
  <1>12. ASSUME NEW c \in Closer, CloseSig(c) PROVE IInv'
    <2>1. TypeOK'
      <3>0. app' \in [Closer -> {"idle", "leaving", "left", "sigClosed", "peersClosed",
                                 "waiting", "returned"}]
        BY <1>12 DEF CloseSig, App, TypeOK, IInv
      <3>1. /\ pushed' \in Queues
            /\ requests' \in [Session -> Seq({"create", "join", "leave"})]
            /\ seat' \in [Session -> BOOLEAN] /\ portalUp' \in BOOLEAN
        <4>1. CASE sig = 0
          BY <1>12, <4>1 DEF CloseSig, TypeOK, IInv, Queues
        <4>2. CASE sig # 0
          <5>1. sig \in Session /\ pushed \in Queues
            BY <4>2 DEF TypeOK, IInv, Session, Queues
          <5> QED BY <1>12, <4>2, <5>1, CutType, ForgetsType DEF CloseSig, TypeOK, IInv
        <4> QED BY <4>1, <4>2
      <3>2. link' \in [Session -> {"none", "open", "dropped", "closed"}]
        BY <1>12 DEF CloseSig, Closes, TypeOK, IInv
      <3>3. overtaken' \in {"no", "enter", "redial", "wanted"}
        BY <1>12 DEF CloseSig, Overtaken
      <3> QED BY <1>12, <3>0, <3>1, <3>2, <3>3 DEF CloseSig, TypeOK, IInv, Queues
    <2>2. (BudgetLeft /\ NotStarted /\ EntriesOfThisSession /\ ClosedMap /\ OneLink /\ OwnerStays)'
      BY <1>12 DEF CloseSig, Closes, Forgets, Unclosed, Overtaken, Session, TypeOK,
         IInv, BudgetLeft, NotStarted, EntriesOfThisSession, ClosedMap, OneLink,
         OwnerStays, Closing, SigClosed, Redialing, Closer, App
    <2>3. QuietClose'
      <3> SUFFICES ASSUME overtaken' = "no"
                   PROVE  /\ NoLinkOpen' /\ run \notin Redialing /\ enter # "start"
                          /\ enter \in {"dialed", "wanting"} => link'[sig] = "closed"
                          /\ run # "off" \/ enter = "requested" => ~wantPortal
        BY <1>12 DEF CloseSig, QuietClose
      <3>1. /\ run \notin Redialing /\ enter # "start"
            /\ run # "off" \/ enter = "requested" => ~wantPortal
        BY <1>12 DEF CloseSig, Overtaken
      <3>2. \A k \in Session : link[k] = "open" => k = sig
        BY <3>1 DEF IInv, OneLink, Redialing
      <3>3. NoLinkOpen'
        BY <1>12, <3>2 DEF CloseSig, Closes, NoLinkOpen, TypeOK, IInv, Session
      <3>4. enter \in {"dialed", "wanting"} => link'[sig] = "closed"
        <4> HAVE enter \in {"dialed", "wanting"}
        <4>1. sig # 0
          BY DEF IInv, NotStarted
        <4>2. sig \in Session /\ link[sig] # "none" /\ link' = Closes(sig)
          BY <1>12, <4>1 DEF CloseSig, IInv, NotStarted, TypeOK, Session
        <4> QED BY <4>2 DEF Closes, TypeOK, IInv
      <3> QED BY <3>1, <3>3, <3>4
    <2>4. (OwnersClose /\ LeftBehind)'
      BY <1>12 DEF CloseSig, Closes, Forgets, Unclosed, Overtaken, Session, TypeOK,
         IInv, OwnersClose, LeftBehind, ClosedMap, Closing, SigClosed, NoLinkOpen,
         NotStarted, OneLink, OwnerStays, Redialing, Closer, App
    <2> QED BY <2>1, <2>2, <2>3, <2>4 DEF IInv
  <1>13. ASSUME NEW c \in Closer, ClosePeers(c) PROVE IInv'
    <2>1. TypeOK'
      <3>0. app' \in [Closer -> {"idle", "leaving", "left", "sigClosed", "peersClosed",
                                 "waiting", "returned"}]
        BY <1>13 DEF ClosePeers, App, TypeOK, IInv
      <3> QED BY <1>13, <3>0 DEF ClosePeers, NoPeers, TypeOK, IInv
    <2>2. (BudgetLeft /\ NotStarted /\ EntriesOfThisSession /\ ClosedMap /\ OneLink /\ OwnerStays)'
      BY <1>13 DEF ClosePeers, NoPeers, TypeOK,
         IInv, BudgetLeft, NotStarted, EntriesOfThisSession, ClosedMap, OneLink,
         OwnerStays, Closing, SigClosed, Redialing, Closer, App
    <2>3. QuietClose'
      BY <1>13 DEF ClosePeers, NoPeers, TypeOK,
         IInv, QuietClose, ClosedMap, Closing, SigClosed, NoLinkOpen, NotStarted,
         OneLink, OwnerStays, Redialing, Closer, App
    <2>4. (OwnersClose /\ LeftBehind)'
      BY <1>13 DEF ClosePeers, NoPeers, TypeOK,
         IInv, OwnersClose, LeftBehind, ClosedMap, Closing, SigClosed, NoLinkOpen,
         NotStarted, OneLink, OwnerStays, Redialing, Closer, App
    <2> QED BY <2>1, <2>2, <2>3, <2>4 DEF IInv
  <1>14. ASSUME NEW c \in Closer, SignalClosed(c) PROVE IInv'
    <2>1. TypeOK'
      <3>1. app' \in [Closer -> {"idle", "leaving", "left", "sigClosed", "peersClosed",
                                 "waiting", "returned"}]
        BY <1>14 DEF SignalClosed, App, TypeOK, IInv
      <3> QED BY <1>14, <3>1 DEF SignalClosed, TypeOK, IInv
    <2>2. (BudgetLeft /\ NotStarted /\ EntriesOfThisSession /\ ClosedMap /\ OneLink /\ OwnerStays)'
      BY <1>14 DEF SignalClosed, TypeOK,
         IInv, BudgetLeft, NotStarted, EntriesOfThisSession, ClosedMap, OneLink,
         OwnerStays, Closing, SigClosed, Redialing, Closer, App
    <2>3. QuietClose'
      BY <1>14 DEF SignalClosed, TypeOK,
         IInv, QuietClose, ClosedMap, Closing, SigClosed, NoLinkOpen, NotStarted,
         OneLink, OwnerStays, Redialing, Closer, App
    <2>4. (OwnersClose /\ LeftBehind)'
      BY <1>14 DEF SignalClosed, TypeOK,
         IInv, OwnersClose, LeftBehind, ClosedMap, Closing, SigClosed, NoLinkOpen,
         NotStarted, OneLink, OwnerStays, Redialing, Closer, App
    <2> QED BY <2>1, <2>2, <2>3, <2>4 DEF IInv
  <1>15. ASSUME NEW c \in Closer, CloseAgain(c) PROVE IInv'
    <2>1. TypeOK'
      <3>1. app' \in [Closer -> {"idle", "leaving", "left", "sigClosed", "peersClosed",
                                 "waiting", "returned"}]
        BY <1>15 DEF CloseAgain, App, TypeOK, IInv
      <3> QED BY <1>15, <3>1 DEF CloseAgain, TypeOK, IInv
    <2>2. (BudgetLeft /\ NotStarted /\ EntriesOfThisSession /\ ClosedMap /\ OneLink /\ OwnerStays)'
      BY <1>15 DEF CloseAgain, TypeOK,
         IInv, BudgetLeft, NotStarted, EntriesOfThisSession, ClosedMap, OneLink,
         OwnerStays, Closing, SigClosed, Redialing, Closer, App
    <2>3. QuietClose'
      BY <1>15 DEF CloseAgain, TypeOK,
         IInv, QuietClose, ClosedMap, Closing, SigClosed, NoLinkOpen, NotStarted,
         OneLink, OwnerStays, Redialing, Closer, App
    <2>4. (OwnersClose /\ LeftBehind)'
      BY <1>15 DEF CloseAgain, TypeOK,
         IInv, OwnersClose, LeftBehind, ClosedMap, Closing, SigClosed, NoLinkOpen,
         NotStarted, OneLink, OwnerStays, Redialing, Closer, App
    <2> QED BY <2>1, <2>2, <2>3, <2>4 DEF IInv
  <1>16. ASSUME NEW c \in Closer, CloseReturns(c) PROVE IInv'
    <2>1. TypeOK'
      <3>1. app' \in [Closer -> {"idle", "leaving", "left", "sigClosed", "peersClosed",
                                 "waiting", "returned"}]
        BY <1>16 DEF CloseReturns, App, TypeOK, IInv
      <3> QED BY <1>16, <3>1 DEF CloseReturns, TypeOK, IInv
    <2>2. (BudgetLeft /\ NotStarted /\ EntriesOfThisSession /\ ClosedMap /\ OneLink /\ OwnerStays)'
      BY <1>16 DEF CloseReturns, TypeOK,
         IInv, BudgetLeft, NotStarted, EntriesOfThisSession, ClosedMap, OneLink,
         OwnerStays, Closing, SigClosed, Redialing, Closer, App
    <2>3. QuietClose'
      BY <1>16 DEF CloseReturns, TypeOK,
         IInv, QuietClose, ClosedMap, Closing, SigClosed, NoLinkOpen, NotStarted,
         OneLink, OwnerStays, Redialing, Closer, App
    <2>4. (OwnersClose /\ LeftBehind)'
      BY <1>16 DEF CloseReturns, TypeOK,
         IInv, OwnersClose, LeftBehind, ClosedMap, Closing, SigClosed, NoLinkOpen,
         NotStarted, OneLink, OwnerStays, Redialing, Closer, App
    <2> QED BY <2>1, <2>2, <2>3, <2>4 DEF IInv
  <1>17. CASE HandleEvent
    <2>1. TypeOK'
      <3>1. sig \in Session /\ pushed[sig] \in Seq(Event) /\ pushed[sig] # <<>>
        BY <1>17 DEF HandleEvent, TypeOK, IInv, Session
      <3>2. Head(pushed[sig]) \in Event /\ Tail(pushed[sig]) \in Seq(Event)
        BY <3>1, HeadTailType
      <3>3. pushed' \in [Session -> Seq(Event)]
        BY <1>17, <3>1, <3>2 DEF HandleEvent, TypeOK, IInv
      <3>4. peers' \in [Remote -> 0..MaxSessions]
        <4>1. sig \in 0..MaxSessions /\ 0 \in 0..MaxSessions /\ peers \in [Remote -> 0..MaxSessions]
          BY <3>1, MeshSessionAssumption DEF TypeOK, IInv, Session
        <4>2. PICK who : \/ Enters(who)
                         \/ peers' = [r \in Remote |-> IF r \in who THEN 0 ELSE peers[r]]
                         \/ peers' = peers
          BY <1>17 DEF HandleEvent
        <4> QED BY <4>1, <4>2 DEF Enters
      <3>5. portal' \in BOOLEAN /\ crashed' \in BOOLEAN
        BY <1>17, Zenon DEF HandleEvent, Enters, TypeOK, IInv
      <3> QED BY <1>17, <3>3, <3>4, <3>5 DEF HandleEvent, TypeOK, IInv
    <2>2. (BudgetLeft /\ NotStarted /\ EntriesOfThisSession /\ ClosedMap /\ OneLink /\ OwnerStays)'
      BY <1>17 DEF HandleEvent, Enters, NoPeers, Event, TypeOK,
         IInv, BudgetLeft, NotStarted, EntriesOfThisSession, ClosedMap, OneLink,
         OwnerStays, Closing, SigClosed, Redialing, Closer, App
    <2>3. QuietClose'
      BY <1>17 DEF HandleEvent, Enters, NoPeers, Event, TypeOK,
         IInv, QuietClose, ClosedMap, Closing, SigClosed, NoLinkOpen, NotStarted,
         OneLink, OwnerStays, Redialing, Closer, App
    <2>4. (OwnersClose /\ LeftBehind)'
      BY <1>17 DEF HandleEvent, Enters, NoPeers, Event, TypeOK,
         IInv, OwnersClose, LeftBehind, ClosedMap, Closing, SigClosed, NoLinkOpen,
         NotStarted, OneLink, OwnerStays, Redialing, Closer, App
    <2> QED BY <2>1, <2>2, <2>3, <2>4 DEF IInv
  <1>18. CASE EventsClosed
    <2>1. TypeOK'
      BY <1>18 DEF EventsClosed, ShouldReconnect, TypeOK, IInv
    <2>2. (BudgetLeft /\ NotStarted /\ EntriesOfThisSession /\ ClosedMap /\ OneLink /\ OwnerStays)'
      BY <1>18 DEF EventsClosed, ShouldReconnect, TypeOK,
         IInv, BudgetLeft, NotStarted, EntriesOfThisSession, ClosedMap, OneLink,
         OwnerStays, Closing, SigClosed, Redialing, Closer, App
    <2>3. QuietClose'
      BY <1>18 DEF EventsClosed, ShouldReconnect, TypeOK,
         IInv, QuietClose, ClosedMap, Closing, SigClosed, NoLinkOpen, NotStarted,
         OneLink, OwnerStays, Redialing, Closer, App
    <2>4. (OwnersClose /\ LeftBehind)'
      BY <1>18 DEF EventsClosed, ShouldReconnect, TypeOK,
         IInv, OwnersClose, LeftBehind, ClosedMap, Closing, SigClosed, NoLinkOpen,
         NotStarted, OneLink, OwnerStays, Redialing, Closer, App
    <2> QED BY <2>1, <2>2, <2>3, <2>4 DEF IInv
  <1>19. CASE SeesClosed
    <2>1. TypeOK'
      BY <1>19 DEF SeesClosed, TypeOK, IInv
    <2>2. (BudgetLeft /\ NotStarted /\ EntriesOfThisSession /\ ClosedMap /\ OneLink /\ OwnerStays)'
      BY <1>19 DEF SeesClosed, TypeOK,
         IInv, BudgetLeft, NotStarted, EntriesOfThisSession, ClosedMap, OneLink,
         OwnerStays, Closing, SigClosed, Redialing, Closer, App
    <2>3. QuietClose'
      BY <1>19 DEF SeesClosed, TypeOK,
         IInv, QuietClose, ClosedMap, Closing, SigClosed, NoLinkOpen, NotStarted,
         OneLink, OwnerStays, Redialing, Closer, App
    <2>4. (OwnersClose /\ LeftBehind)'
      BY <1>19 DEF SeesClosed, TypeOK,
         IInv, OwnersClose, LeftBehind, ClosedMap, Closing, SigClosed, NoLinkOpen,
         NotStarted, OneLink, OwnerStays, Redialing, Closer, App
    <2> QED BY <2>1, <2>2, <2>3, <2>4 DEF IInv
  <1>20. CASE BackoffElapses
    <2>1. TypeOK'
      BY <1>20 DEF BackoffElapses, TypeOK, IInv
    <2>2. (BudgetLeft /\ NotStarted /\ EntriesOfThisSession /\ ClosedMap /\ OneLink /\ OwnerStays)'
      BY <1>20 DEF BackoffElapses, TypeOK,
         IInv, BudgetLeft, NotStarted, EntriesOfThisSession, ClosedMap, OneLink,
         OwnerStays, Closing, SigClosed, Redialing, Closer, App
    <2>3. QuietClose'
      BY <1>20 DEF BackoffElapses, TypeOK,
         IInv, QuietClose, ClosedMap, Closing, SigClosed, NoLinkOpen, NotStarted,
         OneLink, OwnerStays, Redialing, Closer, App
    <2>4. (OwnersClose /\ LeftBehind)'
      BY <1>20 DEF BackoffElapses, TypeOK,
         IInv, OwnersClose, LeftBehind, ClosedMap, Closing, SigClosed, NoLinkOpen,
         NotStarted, OneLink, OwnerStays, Redialing, Closer, App
    <2> QED BY <2>1, <2>2, <2>3, <2>4 DEF IInv
  <1>21. CASE RedialFails
    <2>1. TypeOK'
      BY <1>21 DEF RedialFails, NextAttempt, TypeOK, IInv, BudgetLeft, Redialing
    <2>2. (BudgetLeft /\ NotStarted /\ EntriesOfThisSession /\ ClosedMap /\ OneLink /\ OwnerStays)'
      BY <1>21 DEF RedialFails, NextAttempt, TypeOK,
         IInv, BudgetLeft, NotStarted, EntriesOfThisSession, ClosedMap, OneLink,
         OwnerStays, Closing, SigClosed, Redialing, Closer, App
    <2>3. QuietClose'
      BY <1>21 DEF RedialFails, NextAttempt, TypeOK,
         IInv, QuietClose, ClosedMap, Closing, SigClosed, NoLinkOpen, NotStarted,
         OneLink, OwnerStays, Redialing, Closer, App
    <2>4. (OwnersClose /\ LeftBehind)'
      BY <1>21 DEF RedialFails, NextAttempt, TypeOK,
         IInv, OwnersClose, LeftBehind, ClosedMap, Closing, SigClosed, NoLinkOpen,
         NotStarted, OneLink, OwnerStays, Redialing, Closer, App
    <2> QED BY <2>1, <2>2, <2>3, <2>4 DEF IInv
  <1>22. CASE Redials
    <2>1. TypeOK'
      <3>1. dialed' \in 0..MaxSessions /\ sig' \in 0..dialed'
        BY <1>22 DEF Redials, DialOK, TypeOK, IInv
      <3>2. link' \in [Session -> {"none", "open", "dropped", "closed"}]
        BY <1>22 DEF Redials, DialOK, TypeOK, IInv
      <3>3. /\ UNCHANGED <<server, state, enter, attempt, app, crashed, history>>
            /\ run' = "dialed"
        BY <1>22 DEF Redials
      <3> QED BY <3>1, <3>2, <3>3 DEF TypeOK, IInv
    <2>2. (BudgetLeft /\ NotStarted /\ EntriesOfThisSession /\ ClosedMap /\ OneLink /\ OwnerStays)'
      BY <1>22 DEF Redials, DialOK, Session, TypeOK,
         IInv, BudgetLeft, NotStarted, EntriesOfThisSession, ClosedMap, OneLink,
         OwnerStays, Closing, SigClosed, Redialing, Closer, App
    <2>3. QuietClose'
      BY <1>22 DEF Redials, DialOK, Session, TypeOK,
         IInv, QuietClose, ClosedMap, Closing, SigClosed, NoLinkOpen, NotStarted,
         OneLink, OwnerStays, Redialing, Closer, App
    <2>4. (OwnersClose /\ LeftBehind)'
      BY <1>22 DEF Redials, DialOK, Session, TypeOK,
         IInv, OwnersClose, LeftBehind, ClosedMap, Closing, SigClosed, NoLinkOpen,
         NotStarted, OneLink, OwnerStays, Redialing, Closer, App
    <2> QED BY <2>1, <2>2, <2>3, <2>4 DEF IInv
  <1>23. CASE SwapClient
    <2>1. TypeOK'
      <3>1. link' \in [Session -> {"none", "open", "dropped", "closed"}]
        BY <1>23 DEF SwapClient, Closes, TypeOK, IInv
      <3> QED BY <1>23, <3>1 DEF SwapClient, TypeOK, IInv
    <2>2. (BudgetLeft /\ NotStarted /\ EntriesOfThisSession /\ ClosedMap /\ OneLink /\ OwnerStays)'
      BY <1>23 DEF SwapClient, Closes, TypeOK,
         IInv, BudgetLeft, NotStarted, EntriesOfThisSession, ClosedMap, OneLink,
         OwnerStays, Closing, SigClosed, Redialing, Closer, App
    <2>3. QuietClose'
      BY <1>23 DEF SwapClient, Closes, TypeOK,
         IInv, QuietClose, ClosedMap, Closing, SigClosed, NoLinkOpen, NotStarted,
         OneLink, OwnerStays, Redialing, Closer, App
    <2>4. (OwnersClose /\ LeftBehind)'
      BY <1>23 DEF SwapClient, Closes, TypeOK,
         IInv, OwnersClose, LeftBehind, ClosedMap, Closing, SigClosed, NoLinkOpen,
         NotStarted, OneLink, OwnerStays, Redialing, Closer, App
    <2> QED BY <2>1, <2>2, <2>3, <2>4 DEF IInv
  <1>24. CASE SendRejoin
    <2>1. TypeOK'
      <3>1. again' \in Nat
        BY <1>24 DEF SendRejoin, TypeOK, IInv
      <3>2. requests' \in [Session -> Seq({"create", "join", "leave"})]
        <4>1. sig \in 0..MaxSessions
          BY DEF TypeOK, IInv
        <4> QED BY <1>24, <4>1, SendsType DEF SendRejoin, TypeOK, IInv
      <3>3. link' \in [Session -> {"none", "open", "dropped", "closed"}]
        BY <1>24 DEF SendRejoin, Closes, TypeOK, IInv
      <3> QED BY <1>24, <3>1, <3>2, <3>3
              DEF SendRejoin, NextAttempt, TypeOK, IInv, BudgetLeft, Redialing
    <2>2. (BudgetLeft /\ NotStarted /\ EntriesOfThisSession /\ ClosedMap /\ OneLink /\ OwnerStays)'
      BY <1>24 DEF SendRejoin, SendsOn, Closes, NextAttempt, TypeOK,
         IInv, BudgetLeft, NotStarted, EntriesOfThisSession, ClosedMap, OneLink,
         OwnerStays, Closing, SigClosed, Redialing, Closer, App
    <2>3. QuietClose'
      BY <1>24 DEF SendRejoin, SendsOn, Closes, NextAttempt, TypeOK,
         IInv, QuietClose, ClosedMap, Closing, SigClosed, NoLinkOpen, NotStarted,
         OneLink, OwnerStays, Redialing, Closer, App
    <2>4. (OwnersClose /\ LeftBehind)'
      BY <1>24 DEF SendRejoin, SendsOn, Closes, NextAttempt, TypeOK,
         IInv, OwnersClose, LeftBehind, ClosedMap, Closing, SigClosed, NoLinkOpen,
         NotStarted, OneLink, OwnerStays, Redialing, Closer, App
    <2> QED BY <2>1, <2>2, <2>3, <2>4 DEF IInv
  <1>25. CASE ClearPeers
    <2>1. TypeOK'
      BY <1>25 DEF ClearPeers, NoPeers, TypeOK, IInv
    <2>2. (BudgetLeft /\ NotStarted /\ EntriesOfThisSession /\ ClosedMap /\ OneLink /\ OwnerStays)'
      BY <1>25 DEF ClearPeers, NoPeers, TypeOK,
         IInv, BudgetLeft, NotStarted, EntriesOfThisSession, ClosedMap, OneLink,
         OwnerStays, Closing, SigClosed, Redialing, Closer, App
    <2>3. QuietClose'
      BY <1>25 DEF ClearPeers, NoPeers, TypeOK,
         IInv, QuietClose, ClosedMap, Closing, SigClosed, NoLinkOpen, NotStarted,
         OneLink, OwnerStays, Redialing, Closer, App
    <2>4. (OwnersClose /\ LeftBehind)'
      BY <1>25 DEF ClearPeers, NoPeers, TypeOK,
         IInv, OwnersClose, LeftBehind, ClosedMap, Closing, SigClosed, NoLinkOpen,
         NotStarted, OneLink, OwnerStays, Redialing, Closer, App
    <2> QED BY <2>1, <2>2, <2>3, <2>4 DEF IInv
  <1>26. CASE UNCHANGED vars
    BY <1>26 DEF vars, TypeOK,
         IInv, BudgetLeft, NotStarted, EntriesOfThisSession, ClosedMap, OneLink,
         OwnerStays, Closing, SigClosed, QuietClose, OwnersClose, LeftBehind,
         NoLinkOpen, Redialing
  <1> QED
    BY <1>1, <1>2, <1>3, <1>4, <1>5, <1>6, <1>7, <1>8, <1>9, <1>10, <1>11, <1>12, <1>13,
       <1>14, <1>15, <1>16, <1>17, <1>18, <1>19, <1>20, <1>21, <1>22, <1>23, <1>24,
       <1>25, <1>26
    DEF Next, Server, Enter, CloseSteps, RunLoop, Reconnect

(***************************************************************************)
(* Type correctness: among the rest, attemptReconnect never counts past    *)
(* its budget.                                                             *)
(***************************************************************************)
THEOREM TypeCorrect == Spec => []TypeOK
  <1>1. IInv => TypeOK
    BY DEF IInv
  <1> QED BY <1>1, InitIInv, NextIInv, PTL DEF Spec

(***************************************************************************)
(* No peer entry of a dropped session is ever met by an event of the next, *)
(* however many peers come and go and however often the link drops.        *)
(***************************************************************************)
THEOREM EntriesOfThisSessionHolds == Spec => []EntriesOfThisSession
  <1>1. IInv => EntriesOfThisSession
    BY DEF IInv
  <1> QED BY <1>1, InitIInv, NextIInv, PTL DEF Spec

(***************************************************************************)
(* Close leaves no signaling link and no peer connection, at whatever      *)
(* moment of the session it comes and whoever closes, unless it overtook   *)
(* the dial of the entering call or, for a joiner, a redial.               *)
(***************************************************************************)
THEOREM CloseLeavesNothingHolds == Spec => []CloseLeavesNothing
  <1>1. IInv => CloseLeavesNothing
    <2> SUFFICES ASSUME IInv, NEW c \in Closer, app[c] = "returned",
                        overtaken = "no" \/ (wasOwner /\ overtaken # "enter")
                 PROVE  ClosedMeansGone
      BY DEF CloseLeavesNothing
    <2>1. peers = NoPeers
      BY DEF IInv, ClosedMap
    <2>2. Closing
      BY DEF Closing, SigClosed
    <2>3. NoLinkOpen
      BY <2>2 DEF IInv, QuietClose, OwnersClose
    <2> QED BY <2>1, <2>3 DEF ClosedMeansGone, NoLinkOpen, NoPeers
  <1> QED BY <1>1, InitIInv, NextIInv, PTL DEF Spec

(***************************************************************************)
(* A manager never has two links open, but for the moment in which a       *)
(* redial has dialed the next one and not yet closed the last.             *)
(***************************************************************************)
THEOREM OneLinkHolds == Spec => []OneLink
  <1>1. IInv => OneLink
    BY DEF IInv
  <1> QED BY <1>1, InitIInv, NextIInv, PTL DEF Spec

(***************************************************************************)
(* A Leave that the entering call can no longer undo: no signaling drop    *)
(* brings the session back, but for the reconnect that was under way.      *)
(***************************************************************************)
THEOREM LeaveSticksHolds == Spec => []LeaveSticks
  <1>1. IInv => LeaveSticks
    BY DEF IInv, LeftBehind, LeaveSticks
  <1> QED BY <1>1, InitIInv, NextIInv, PTL DEF Spec

-----------------------------------------------------------------------------
(***************************************************************************)
(* The control channel to a peer.                                          *)
(***************************************************************************)

\* The chunks of the probe of c among the frames of q.
IsChunk(f, c) == f.type = "CHUNK" /\ f.of = c
ChunksAt(q, c) == {i \in 1..Len(q) : IsChunk(q[i], c)}
Chunks(q, c) == Cardinality(ChunksAt(q, c))

\* What may follow the START of a probe: its chunks, its DONE, and pings.
Own(f, c) == f.type = "PING" \/ (f.type \in {"CHUNK", "DONE"} /\ f.of = c)
\* The START of the probe of c has been taken off q.
Passed(q, c) == \A j \in 1..Len(q) : Own(q[j], c)
\* It is in q: no DONE before it, nothing of another probe behind it.
Pending(q, c) ==
  \E i \in 1..Len(q) :
    /\ q[i].type = "START" /\ q[i].of = c
    /\ \A j \in 1..Len(q) : (j < i => q[j].type # "DONE") /\ (j > i => Own(q[j], c))

\* The chunks counted and those under way have been sent.
Counted ==
  /\ \A c \in Call : Chunks(out, c) <= sent[c]
  /\ bwIn # None => bwIn.own + Chunks(out, bwIn.of) <= sent[bwIn.of]

\* What the peer may answer to the probe of c.
Measures(k, c) == k.of = c /\ k.other = 0 /\ k.own <= sent[c]

\* A call that is registered with the peer has not ended.
Registered == bwOut # None => Running(bwOut)

\* An answer that a call has is its own, if nothing disturbed its probe.
Answered ==
  \A c \in Call :
    /\ call[c] = "idle" => ack[c] = None
    /\ c \notin disturbed /\ ack[c] # None => Measures(ack[c], c)
    /\ call[c] = "returned" => ack[c] # None

\* A closed channel carries nothing.
Quiet == ~up => out = <<>> /\ back = <<>>

\* A probe that nothing disturbed: its call is the only one and is registered,
\* whatever ACK is under way answers it, and the peer either has its START
\* still to come or counts for it, or for nobody.
Probe(c) ==
  /\ bwOut = c /\ \A d \in Call : Running(d) => d = c
  /\ \A j \in 1..Len(back) : back[j].type = "ACK" => Measures(back[j].of, c)
  /\ call[c] = "start" => \A j \in 1..Len(out) : out[j].type # "DONE"
  /\ up /\ call[c] \in {"stream", "wait"} =>
       \/ Pending(out, c)
       \/ Passed(out, c) /\ (bwIn # None => bwIn.of = c /\ bwIn.other = 0)

Undisturbed == \A c \in Call \ disturbed : Running(c) => Probe(c)

\* The frames in each direction.
ToPeer == [type : {"START", "CHUNK", "DONE"}, of : Call] \union [type : {"PING"}, of : Ping]
FromPeer == [type : {"ACK"}, of : Count] \union [type : {"PONG"}, of : Ping]

\* The inductive invariant of the control channel.
PInv == CtlTypeOK /\ Counted /\ Registered /\ Answered /\ Quiet /\ Undisturbed


-----------------------------------------------------------------------------
(* Frames on the way, and the chunks among them.                             *)

LEMMA ChunksType ==
  ASSUME NEW T, NEW q \in Seq(T), NEW c
  PROVE  IsFiniteSet(ChunksAt(q, c)) /\ Chunks(q, c) \in Nat
  <1>1. Len(q) \in Nat /\ ChunksAt(q, c) \subseteq 1..Len(q)
    BY LenProperties DEF ChunksAt
  <1>2. IsFiniteSet(1..Len(q))
    BY <1>1, FS_Interval
  <1>3. IsFiniteSet(ChunksAt(q, c))
    BY <1>1, <1>2, FS_Subset
  <1> QED BY <1>3, FS_CardinalityType DEF Chunks

LEMMA NoChunks ==
  ASSUME NEW c
  PROVE  Chunks(<<>>, c) = 0
  <1>1. ChunksAt(<<>>, c) = {}
    BY EmptySeq DEF ChunksAt
  <1> QED BY <1>1, FS_EmptySet DEF Chunks

\* A frame that is written is the last one, and the others are as they were.
LEMMA Written ==
  ASSUME NEW T, NEW q \in Seq(T), NEW f \in T
  PROVE  /\ Append(q, f) \in Seq(T)
         /\ Len(q) \in Nat /\ Len(Append(q, f)) = Len(q) + 1
         /\ Append(q, f)[Len(q) + 1] = f
         /\ \A i \in 1..Len(q) : Append(q, f)[i] = q[i]
  BY AppendProperties, LenProperties

LEMMA ChunksWritten ==
  ASSUME NEW T, NEW q \in Seq(T), NEW f \in T, NEW c
  PROVE  Chunks(Append(q, f), c) = IF IsChunk(f, c) THEN Chunks(q, c) + 1 ELSE Chunks(q, c)
  <1> DEFINE p == Append(q, f)
  <1>1. /\ Len(q) \in Nat /\ Len(p) = Len(q) + 1 /\ p[Len(q) + 1] = f
        /\ \A i \in 1..Len(q) : p[i] = q[i]
    BY Written
  <1> HIDE DEF p
  <1>2. ChunksAt(p, c) = ChunksAt(q, c) \union (IF IsChunk(f, c) THEN {Len(q) + 1} ELSE {})
    <2> SUFFICES ASSUME NEW i PROVE i \in ChunksAt(p, c) <=>
                   i \in ChunksAt(q, c) \/ (IsChunk(f, c) /\ i = Len(q) + 1)
      OBVIOUS
    <2>1. i \in 1..Len(p) <=> i \in 1..Len(q) \/ i = Len(q) + 1
      BY <1>1
    <2>2. i \in ChunksAt(p, c) <=> i \in 1..Len(p) /\ IsChunk(p[i], c)
      BY DEF ChunksAt
    <2>3. i \in ChunksAt(q, c) <=> i \in 1..Len(q) /\ IsChunk(q[i], c)
      BY DEF ChunksAt
    <2>4. Len(q) + 1 \notin 1..Len(q)
      BY <1>1
    <2>5. CASE i \in 1..Len(q)
      BY <1>1, <2>1, <2>2, <2>3, <2>4, <2>5
    <2>6. CASE i = Len(q) + 1
      BY <1>1, <2>1, <2>2, <2>3, <2>4, <2>6
    <2> QED BY <2>1, <2>2, <2>3, <2>5, <2>6
  <1>3. IsFiniteSet(ChunksAt(q, c)) /\ Len(q) + 1 \notin ChunksAt(q, c)
    <2>1. Len(q) + 1 \notin 1..Len(q)
      BY <1>1
    <2> QED BY <2>1, ChunksType DEF ChunksAt
  <1>4. CASE IsChunk(f, c)
    BY <1>2, <1>3, <1>4, FS_AddElement DEF Chunks, p
  <1>5. CASE ~IsChunk(f, c)
    BY <1>2, <1>5 DEF Chunks, p
  <1> QED BY <1>4, <1>5

\* The frames that are left when the first one is taken off.
LEMMA Taken ==
  ASSUME NEW T, NEW q \in Seq(T), q # <<>>
  PROVE  /\ Head(q) \in T /\ Tail(q) \in Seq(T) /\ Head(q) = q[1]
         /\ Len(q) \in Nat \ {0} /\ Len(Tail(q)) = Len(q) - 1
         /\ \A i \in 1..Len(Tail(q)) : Tail(q)[i] = q[i + 1] /\ i + 1 \in 1..Len(q)
  <1>1. /\ Head(q) \in T /\ Tail(q) \in Seq(T)
        /\ Len(q) \in Nat \ {0} /\ Len(Tail(q)) = Len(q) - 1
        /\ \A i \in 1..Len(Tail(q)) : Tail(q)[i] = q[i + 1]
    BY HeadTailProperties, EmptySeq
  <1>2. Head(q) = q[1]
    OBVIOUS
  <1>3. \A i \in 1..Len(Tail(q)) : i + 1 \in 1..Len(q)
    BY <1>1
  <1> QED BY <1>1, <1>2, <1>3

LEMMA ChunksTaken ==
  ASSUME NEW T, NEW q \in Seq(T), q # <<>>, NEW c
  PROVE  Chunks(Tail(q), c) + (IF IsChunk(Head(q), c) THEN 1 ELSE 0) <= Chunks(q, c)
  <1> DEFINE p == Tail(q)
             S == ChunksAt(q, c) \ {1}
             f == [i \in ChunksAt(p, c) |-> i + 1]
  <1>1. /\ p \in Seq(T) /\ Head(q) = q[1] /\ Len(q) \in Nat \ {0} /\ Len(p) = Len(q) - 1
        /\ \A i \in 1..Len(p) : p[i] = q[i + 1] /\ i + 1 \in 1..Len(q)
    BY Taken
  <1>2. IsFiniteSet(ChunksAt(q, c)) /\ Chunks(q, c) \in Nat /\ Chunks(p, c) \in Nat
    BY <1>1, ChunksType
  <1>3. IsFiniteSet(S) /\ Cardinality(S) = IF 1 \in ChunksAt(q, c) THEN Chunks(q, c) - 1 ELSE Chunks(q, c)
    BY <1>2, FS_RemoveElement DEF Chunks
  <1>4. 1 \in ChunksAt(q, c) <=> IsChunk(Head(q), c)
    BY <1>1 DEF ChunksAt
  <1> HIDE DEF p
  <1>5. f \in [ChunksAt(p, c) -> S]
    <2> SUFFICES ASSUME NEW i \in ChunksAt(p, c) PROVE i + 1 \in S
      OBVIOUS
    <2>1. i \in 1..Len(p) /\ IsChunk(p[i], c)
      BY DEF ChunksAt
    <2>2. i + 1 # 1 /\ i + 1 \in 1..Len(q) /\ IsChunk(q[i + 1], c)
      BY <1>1, <2>1
    <2> QED BY <2>2 DEF ChunksAt
  <1>6. \A i, j \in ChunksAt(p, c) : f[i] = f[j] => i = j
    <2>1. ChunksAt(p, c) \subseteq Int
      BY DEF ChunksAt
    <2> QED BY <2>1
  <1>7. f \in Injection(ChunksAt(p, c), S)
    BY <1>5, <1>6 DEF Injection, IsInjective
  <1> HIDE DEF f, S
  <1>8. Cardinality(ChunksAt(p, c)) <= Cardinality(S)
    BY <1>3, <1>7, FS_Injection
  <1>9. Chunks(p, c) <= IF IsChunk(Head(q), c) THEN Chunks(q, c) - 1 ELSE Chunks(q, c)
    BY <1>3, <1>4, <1>8 DEF Chunks
  <1> QED BY <1>2, <1>9 DEF p

-----------------------------------------------------------------------------
(* A probe on the way.                                                       *)

LEMMA PassedWritten ==
  ASSUME NEW T, NEW q \in Seq(T), NEW f \in T, NEW c, Own(f, c)
  PROVE  /\ Passed(q, c) => Passed(Append(q, f), c)
         /\ Pending(q, c) => Pending(Append(q, f), c)
  <1> DEFINE p == Append(q, f)
  <1>1. /\ Len(q) \in Nat /\ Len(p) = Len(q) + 1 /\ p[Len(q) + 1] = f
        /\ \A i \in 1..Len(q) : p[i] = q[i]
    BY Written
  <1> HIDE DEF p
  <1>2. \A j \in 1..Len(p) : j \in 1..Len(q) \/ j = Len(q) + 1
    BY <1>1
  <1>3. ASSUME Passed(q, c) PROVE Passed(p, c)
    <2> SUFFICES ASSUME NEW j \in 1..Len(p) PROVE Own(p[j], c)
      BY DEF Passed
    <2> QED BY <1>1, <1>2, <1>3 DEF Passed
  <1>4. ASSUME Pending(q, c) PROVE Pending(p, c)
    <2>1. PICK i \in 1..Len(q) :
            /\ q[i].type = "START" /\ q[i].of = c
            /\ \A j \in 1..Len(q) : (j < i => q[j].type # "DONE") /\ (j > i => Own(q[j], c))
      BY <1>4 DEF Pending
    <2>2. i \in 1..Len(p) /\ p[i].type = "START" /\ p[i].of = c
      BY <1>1, <2>1
    <2>3. ASSUME NEW j \in 1..Len(p)
          PROVE  (j < i => p[j].type # "DONE") /\ (j > i => Own(p[j], c))
      <3>1. CASE j \in 1..Len(q)
        BY <1>1, <2>1, <3>1
      <3>2. CASE j = Len(q) + 1
        <4>1. ~(j < i) /\ p[j] = f
          BY <1>1, <3>2
        <4> QED BY <4>1
      <3> QED BY <1>2, <3>1, <3>2
    <2> QED BY <2>2, <2>3 DEF Pending
  <1> QED BY <1>3, <1>4 DEF p

LEMMA StartWritten ==
  ASSUME NEW T, NEW q \in Seq(T), NEW f \in T, NEW c, f.type = "START", f.of = c,
         \A j \in 1..Len(q) : q[j].type # "DONE"
  PROVE  Pending(Append(q, f), c)
  <1> DEFINE p == Append(q, f)
  <1>1. /\ Len(q) \in Nat /\ Len(p) = Len(q) + 1 /\ p[Len(q) + 1] = f
        /\ \A i \in 1..Len(q) : p[i] = q[i]
    BY Written
  <1> HIDE DEF p
  <1>2. ASSUME NEW j \in 1..Len(p)
        PROVE  /\ j < Len(q) + 1 => p[j].type # "DONE"
               /\ j > Len(q) + 1 => Own(p[j], c)
    <2>1. CASE j \in 1..Len(q)
      BY <1>1, <2>1
    <2>2. CASE j = Len(q) + 1
      BY <1>1, <2>2
    <2> QED BY <1>1, <2>1, <2>2
  <1>3. Len(q) + 1 \in 1..Len(p)
    BY <1>1
  <1>4. Pending(p, c)
    BY <1>1, <1>2, <1>3 DEF Pending
  <1> QED BY <1>4 DEF p

LEMMA PassedTaken ==
  ASSUME NEW T, NEW q \in Seq(T), q # <<>>, NEW c, Passed(q, c)
  PROVE  Own(Head(q), c) /\ Passed(Tail(q), c)
  <1>1. Head(q) = q[1] /\ 1 \in 1..Len(q) /\ \A i \in 1..Len(Tail(q)) : Tail(q)[i] = q[i + 1] /\ i + 1 \in 1..Len(q)
    BY Taken
  <1> QED BY <1>1 DEF Passed

LEMMA PendingTaken ==
  ASSUME NEW T, NEW q \in Seq(T), q # <<>>, NEW c, Pending(q, c)
  PROVE  \/ Head(q).type = "START" /\ Head(q).of = c /\ Passed(Tail(q), c)
         \/ Head(q).type # "DONE" /\ Pending(Tail(q), c)
  <1> DEFINE p == Tail(q)
  <1>1. /\ Head(q) = q[1] /\ Len(q) \in Nat \ {0} /\ Len(p) = Len(q) - 1
        /\ \A i \in 1..Len(p) : p[i] = q[i + 1] /\ i + 1 \in 1..Len(q)
    BY Taken
  <1> HIDE DEF p
  <1>2. PICK i \in 1..Len(q) :
          /\ q[i].type = "START" /\ q[i].of = c
          /\ \A j \in 1..Len(q) : (j < i => q[j].type # "DONE") /\ (j > i => Own(q[j], c))
    BY DEF Pending
  <1>3. CASE i = 1
    <2>1. Passed(p, c)
      <3> SUFFICES ASSUME NEW j \in 1..Len(p) PROVE Own(p[j], c)
        BY DEF Passed
      <3>1. j + 1 > i /\ j + 1 \in 1..Len(q) /\ p[j] = q[j + 1]
        BY <1>1, <1>3
      <3> QED BY <1>2, <3>1
    <2> QED BY <1>1, <1>2, <1>3, <2>1 DEF p
  <1>4. CASE i # 1
    <2>1. i - 1 \in 1..Len(p) /\ p[i - 1] = q[i]
      BY <1>1, <1>2, <1>4
    <2>2. Head(q).type # "DONE"
      BY <1>1, <1>2, <1>4
    <2>3. ASSUME NEW j \in 1..Len(p)
          PROVE  (j < i - 1 => p[j].type # "DONE") /\ (j > i - 1 => Own(p[j], c))
      <3>1. /\ j + 1 \in 1..Len(q) /\ p[j] = q[j + 1]
            /\ (j < i - 1 => j + 1 < i) /\ (j > i - 1 => j + 1 > i)
        BY <1>1, <1>2
      <3> QED BY <1>2, <3>1
    <2>4. Pending(p, c)
      BY <1>2, <2>1, <2>3 DEF Pending
    <2> QED BY <2>2, <2>4 DEF p
  <1> QED BY <1>3, <1>4


-----------------------------------------------------------------------------
(* Types and counts.                                                         *)

LEMMA FrameFacts ==
  ASSUME NEW f \in ToPeer
  PROVE  /\ f.type \in {"START", "CHUNK", "DONE", "PING"}
         /\ f.type \in {"START", "CHUNK", "DONE"} => f.of \in Call
         /\ f.type = "PING" => f.of \in Ping
  BY DEF ToPeer

LEMMA AnswerFacts ==
  ASSUME NEW f \in FromPeer
  PROVE  /\ f.type \in {"ACK", "PONG"}
         /\ f.type = "ACK" => f.of \in Count
         /\ f.type = "PONG" => f.of \in Ping
  BY DEF FromPeer

LEMMA FIsFrame ==
  /\ \A c \in Call, type \in {"START", "CHUNK", "DONE"} :
       F(type, c) \in ToPeer /\ F(type, c).type = type /\ F(type, c).of = c
  /\ \A t \in Ping : F("PING", t) \in ToPeer /\ F("PING", t).type = "PING"
  /\ \A t \in Ping : F("PONG", t) \in FromPeer /\ F("PONG", t).type = "PONG"
  /\ \A k \in Count : F("ACK", k) \in FromPeer /\ F("ACK", k).type = "ACK" /\ F("ACK", k).of = k
  BY DEF F, ToPeer, FromPeer

\* Taking a frame off counts at most what it carries.
LEMMA CountedTaken ==
  ASSUME CtlTypeOK, Counted, out # <<>>, out' = Tail(out), sent' = sent,
         \/ bwIn' = bwIn
         \/ bwIn' = None
         \/ bwIn' \in Count /\ bwIn'.own = 0
         \/ /\ bwIn # None /\ IsChunk(Head(out), bwIn.of)
            /\ bwIn'.of = bwIn.of /\ bwIn'.own = bwIn.own + 1
  PROVE  Counted'
  <1>1. out \in Seq(ToPeer) /\ Tail(out) \in Seq(ToPeer)
    BY Taken DEF CtlTypeOK, ToPeer
  <1>2. \A c : /\ Chunks(out, c) \in Nat /\ Chunks(Tail(out), c) \in Nat
               /\ Chunks(Tail(out), c) + (IF IsChunk(Head(out), c) THEN 1 ELSE 0) <= Chunks(out, c)
    BY <1>1, ChunksType, ChunksTaken
  <1>3. ASSUME NEW c \in Call PROVE Chunks(Tail(out), c) <= sent[c] /\ sent[c] \in Nat
    <2>1. Chunks(out, c) <= sent[c] /\ sent[c] \in Nat
      BY DEF Counted, CtlTypeOK
    <2>2. Chunks(Tail(out), c) <= Chunks(out, c)
      BY <1>2
    <2> QED BY <1>2, <2>1, <2>2
  <1>4. bwIn # None => bwIn \in Count /\ bwIn.own \in Nat /\ bwIn.of \in Call
    BY DEF CtlTypeOK, Count
  <1>5. bwIn' # None => bwIn'.own + Chunks(Tail(out), bwIn'.of) <= sent[bwIn'.of]
    <2>1. CASE bwIn' = bwIn
      BY <1>2, <1>3, <1>4, <2>1 DEF Counted
    <2>2. CASE bwIn' \in Count /\ bwIn'.own = 0
      BY <1>2, <1>3, <2>2 DEF Count
    <2>3. CASE /\ bwIn # None /\ IsChunk(Head(out), bwIn.of)
               /\ bwIn'.of = bwIn.of /\ bwIn'.own = bwIn.own + 1
      <3>1. Chunks(Tail(out), bwIn.of) + 1 <= Chunks(out, bwIn.of)
        BY <1>2, <2>3
      <3>2. bwIn.own + Chunks(out, bwIn.of) <= sent[bwIn.of]
        BY <2>3 DEF Counted
      <3> QED BY <1>2, <1>3, <1>4, <2>3, <3>1, <3>2
    <2> QED BY <2>1, <2>2, <2>3
  <1> QED BY <1>3, <1>5 DEF Counted

\* A frame that is not a chunk counts nothing.
LEMMA CountedWritten ==
  ASSUME CtlTypeOK, Counted, NEW f \in ToPeer, f.type # "CHUNK", out' = Append(out, f),
         UNCHANGED <<sent, bwIn>>
  PROVE  Counted'
  <1>1. out \in Seq(ToPeer)
    BY DEF CtlTypeOK, ToPeer
  <1>2. \A c : Chunks(out', c) = Chunks(out, c)
    BY <1>1, ChunksWritten DEF IsChunk
  <1> QED BY <1>2 DEF Counted

LEMMA ToPeerWritten ==
  ASSUME CtlTypeOK, NEW f \in ToPeer, out' = Append(out, f)
  PROVE  out' \in Seq(ToPeer) /\ out' # <<>>
  <1>1. out \in Seq(ToPeer)
    BY DEF CtlTypeOK, ToPeer
  <1> QED BY <1>1, AppendProperties

-----------------------------------------------------------------------------
(* MeasureBandwidth.                                                         *)

\* A call that nothing disturbs is the only one, and the registered one.
LEMMA OneProbe ==
  ASSUME Undisturbed, NEW c \in Call, Running(c), NEW d \in Call \ disturbed, Running(d)
  PROVE  c = d /\ Probe(d)
  BY DEF Undisturbed, Probe

LEMMA MeasureInv ==
  ASSUME None \notin Call, PInv, NEW c \in Call, MeasureBandwidth(c)
  PROVE  PInv'
  <1>1. /\ call[c] = "idle" /\ call' = [call EXCEPT ![c] = "start"] /\ bwOut' = c
        /\ UNCHANGED <<out, back, up, drops, sent, ack, bwIn, beat, pinging, age>>
    BY DEF MeasureBandwidth, channel, beating
  <1>2. call'[c] = "start" /\ \A d \in Call \ {c} : call'[d] = call[d]
    BY <1>1 DEF PInv, CtlTypeOK
  <1>3. disturbed \subseteq disturbed' /\ disturbed' \subseteq Call
    BY DEF MeasureBandwidth, PInv, CtlTypeOK
  <1>4. CtlTypeOK'
    BY <1>1, <1>3 DEF PInv, CtlTypeOK
  <1>5. Counted' /\ Quiet'
    BY <1>1 DEF PInv, Counted, Quiet
  <1>6. Registered'
    BY <1>1, <1>2 DEF Registered, Running
  <1>7. Answered'
    BY <1>1, <1>2, <1>3 DEF PInv, Answered, Measures
  <1>8. ASSUME NEW d \in Call \ disturbed', Running(d)' PROVE Probe(d)'
    <2>1. (\E f \in ToSet(out) \union ToSet(back) : f.type \in {"DONE", "ACK"}) => c \in disturbed'
      BY DEF MeasureBandwidth
    <2>2. \A e \in Call : Running(e) => c \in disturbed' /\ e \in disturbed'
      BY DEF MeasureBandwidth
    <2>3. d = c
      BY <1>2, <1>8, <2>2 DEF Running
    <2>4. \A e \in Call : ~Running(e)
      BY <1>8, <2>2, <2>3
    <2>5. \A e \in Call : Running(e)' => e = c
      BY <1>2, <2>4 DEF Running
    <2>6. \A f \in ToSet(out) \union ToSet(back) : f.type \notin {"DONE", "ACK"}
      BY <1>8, <2>1, <2>3
    <2>7. /\ \A j \in 1..Len(out) : out[j] \in ToSet(out)
          /\ \A j \in 1..Len(back) : back[j] \in ToSet(back)
      BY DEF PInv, CtlTypeOK, ToSet
    <2> QED BY <1>1, <1>2, <2>3, <2>5, <2>6, <2>7 DEF Probe
  <1>9. Undisturbed'
    BY <1>8 DEF Undisturbed
  <1> QED BY <1>4, <1>5, <1>6, <1>7, <1>9 DEF PInv

\* What a step of a running call changes of the others: nothing.
LEMMA CallMoves ==
  ASSUME PInv, NEW c \in Call, Running(c), NEW how \in {"stream", "wait"},
         call' = [call EXCEPT ![c] = how], UNCHANGED <<bwOut, ack, sent, disturbed>>
  PROVE  /\ call'[c] = how /\ \A d \in Call \ {c} : call'[d] = call[d]
         /\ call' \in [Call -> {"idle", "start", "stream", "wait", "returned", "failed"}]
         /\ \A d \in Call : Running(d)' <=> Running(d)
         /\ Registered' /\ Answered'
  <1>1. /\ call'[c] = how /\ \A d \in Call \ {c} : call'[d] = call[d]
        /\ call' \in [Call -> {"idle", "start", "stream", "wait", "returned", "failed"}]
    BY DEF PInv, CtlTypeOK
  <1>2. \A d \in Call : Running(d)' <=> Running(d)
    BY <1>1 DEF Running
  <1>3. Registered'
    BY <1>2 DEF PInv, CtlTypeOK, Registered
  <1>4. Answered'
    BY <1>1 DEF PInv, Answered, Measures, Running
  <1> QED BY <1>1, <1>2, <1>3, <1>4

LEMMA SendStartInv ==
  ASSUME None \notin Call, PInv, NEW c \in Call, SendStart(c)
  PROVE  PInv'
  <1>1. /\ call[c] = "start" /\ call' = [call EXCEPT ![c] = "stream"]
        /\ up /\ out' = Append(out, F("START", c))
        /\ UNCHANGED <<back, up, drops, sent, bwOut, ack, bwIn, beat, pinging, age, disturbed>>
    BY DEF SendStart, Send, beating
  <1>2. Running(c)
    BY <1>1 DEF Running
  <1>3. /\ call'[c] = "stream" /\ \A d \in Call \ {c} : call'[d] = call[d]
        /\ call' \in [Call -> {"idle", "start", "stream", "wait", "returned", "failed"}]
        /\ \A d \in Call : Running(d)' <=> Running(d)
        /\ Registered' /\ Answered'
    BY <1>1, <1>2, CallMoves
  <1>4. F("START", c) \in ToPeer /\ F("START", c).type = "START" /\ F("START", c).of = c
    BY FIsFrame
  <1>5. out' \in Seq(ToPeer) /\ out \in Seq(ToPeer)
    BY <1>1, <1>4, ToPeerWritten DEF PInv, CtlTypeOK, ToPeer
  <1>6. CtlTypeOK'
    BY <1>1, <1>3, <1>5 DEF PInv, CtlTypeOK, ToPeer
  <1>7. Counted'
    BY <1>1, <1>4, CountedWritten DEF PInv
  <1>8. Quiet'
    BY <1>1 DEF PInv, Quiet
  <1>9. ASSUME NEW d \in Call \ disturbed, Running(d)' PROVE Probe(d)'
    <2>1. d = c /\ Probe(c)
      BY <1>2, <1>3, <1>9, OneProbe DEF PInv
    <2>2. Pending(out', c)
      BY <1>1, <1>4, <1>5, <2>1, StartWritten DEF Probe
    <2> QED BY <1>1, <1>3, <2>1, <2>2 DEF Probe, Measures
  <1>10. Undisturbed'
    BY <1>1, <1>9 DEF Undisturbed
  <1> QED BY <1>3, <1>6, <1>7, <1>8, <1>10 DEF PInv

LEMMA SendChunkInv ==
  ASSUME None \notin Call, MaxChunks \in Nat, PInv, NEW c \in Call, SendChunk(c)
  PROVE  PInv'
  <1>1. /\ call[c] = "stream" /\ sent[c] < MaxChunks /\ sent' = [sent EXCEPT ![c] = @ + 1]
        /\ up /\ out' = Append(out, F("CHUNK", c))
        /\ UNCHANGED <<back, up, drops, call, bwOut, ack, bwIn, beat, pinging, age, disturbed>>
    BY DEF SendChunk, Send, beating
  <1>2. Running(c) /\ \A d \in Call : Running(d)' <=> Running(d)
    BY <1>1 DEF Running
  <1>3. /\ sent'[c] = sent[c] + 1 /\ \A d \in Call \ {c} : sent'[d] = sent[d]
        /\ \A d \in Call : sent[d] \in Nat /\ sent[d] <= sent'[d]
    BY <1>1 DEF PInv, CtlTypeOK
  <1>4. F("CHUNK", c) \in ToPeer /\ F("CHUNK", c).type = "CHUNK" /\ F("CHUNK", c).of = c
    BY FIsFrame
  <1>5. out' \in Seq(ToPeer) /\ out \in Seq(ToPeer)
    BY <1>1, <1>4, ToPeerWritten DEF PInv, CtlTypeOK, ToPeer
  <1>6. sent' \in [Call -> 0..MaxChunks]
    BY <1>1 DEF PInv, CtlTypeOK
  <1>7. CtlTypeOK'
    BY <1>1, <1>5, <1>6 DEF PInv, CtlTypeOK, ToPeer
  <1>8. \A d \in Call : /\ Chunks(out, d) \in Nat
                        /\ Chunks(out', d) = IF d = c THEN Chunks(out, d) + 1 ELSE Chunks(out, d)
    BY <1>1, <1>4, <1>5, ChunksWritten, ChunksType DEF IsChunk
  <1>9. Counted'
    <2>1. bwIn # None => bwIn.of \in Call /\ bwIn.own \in Nat
      BY DEF PInv, CtlTypeOK, Count
    <2>2. \A d \in Call : Chunks(out', d) <= sent'[d]
      BY <1>3, <1>8 DEF PInv, Counted
    <2>3. bwIn # None => bwIn.own + Chunks(out', bwIn.of) <= sent'[bwIn.of]
      BY <1>3, <1>8, <2>1 DEF PInv, Counted
    <2> QED BY <1>1, <2>2, <2>3 DEF Counted
  <1>10. \A k, d : d \in Call /\ k.own \in Nat /\ Measures(k, d) => Measures(k, d)'
    BY <1>3 DEF Measures
  <1>11. Registered' /\ Quiet'
    BY <1>1, <1>2 DEF PInv, CtlTypeOK, Registered, Quiet
  <1>12. Answered'
    <2>1. \A d \in Call : ack[d] # None => ack[d].own \in Nat
      BY DEF PInv, CtlTypeOK, Count
    <2> QED BY <1>1, <1>10, <2>1 DEF PInv, Answered
  <1>13. ASSUME NEW d \in Call \ disturbed, Running(d)' PROVE Probe(d)'
    <2>1. d = c /\ Probe(c)
      BY <1>2, <1>13, OneProbe DEF PInv
    <2>2. Pending(out, c) \/ (Passed(out, c) /\ (bwIn # None => bwIn.of = c /\ bwIn.other = 0))
      BY <1>1, <2>1 DEF Probe
    <2>3. Pending(out', c) \/ (Passed(out', c) /\ (bwIn # None => bwIn.of = c /\ bwIn.other = 0))
      BY <1>1, <1>4, <1>5, <2>2, PassedWritten DEF Own
    <2>4. \A j \in 1..Len(back) : back[j].type = "ACK" => Measures(back[j].of, c)'
      <3> SUFFICES ASSUME NEW j \in 1..Len(back), back[j].type = "ACK" PROVE Measures(back[j].of, c)'
        OBVIOUS
      <3>1. back[j] \in FromPeer
        BY DEF PInv, CtlTypeOK, FromPeer
      <3>2. back[j].of.own \in Nat /\ Measures(back[j].of, c)
        BY <2>1, <3>1, AnswerFacts DEF Count, Probe
      <3> QED BY <1>1, <1>10, <3>2
    <2> QED BY <1>1, <1>2, <2>1, <2>3, <2>4 DEF Probe
  <1>14. Undisturbed'
    BY <1>1, <1>13 DEF Undisturbed
  <1> QED BY <1>7, <1>9, <1>11, <1>12, <1>14 DEF PInv

LEMMA SendDoneInv ==
  ASSUME None \notin Call, PInv, NEW c \in Call, SendDone(c)
  PROVE  PInv'
  <1>1. /\ call[c] = "stream" /\ call' = [call EXCEPT ![c] = "wait"]
        /\ up /\ out' = Append(out, F("DONE", c))
        /\ UNCHANGED <<back, up, drops, sent, bwOut, ack, bwIn, beat, pinging, age, disturbed>>
    BY DEF SendDone, Send, beating
  <1>2. Running(c)
    BY <1>1 DEF Running
  <1>3. /\ call'[c] = "wait" /\ \A d \in Call \ {c} : call'[d] = call[d]
        /\ call' \in [Call -> {"idle", "start", "stream", "wait", "returned", "failed"}]
        /\ \A d \in Call : Running(d)' <=> Running(d)
        /\ Registered' /\ Answered'
    BY <1>1, <1>2, CallMoves
  <1>4. F("DONE", c) \in ToPeer /\ F("DONE", c).type = "DONE" /\ F("DONE", c).of = c
    BY FIsFrame
  <1>5. out' \in Seq(ToPeer) /\ out \in Seq(ToPeer)
    BY <1>1, <1>4, ToPeerWritten DEF PInv, CtlTypeOK, ToPeer
  <1>6. CtlTypeOK'
    BY <1>1, <1>3, <1>5 DEF PInv, CtlTypeOK, ToPeer
  <1>7. Counted'
    BY <1>1, <1>4, CountedWritten DEF PInv
  <1>8. Quiet'
    BY <1>1 DEF PInv, Quiet
  <1>9. ASSUME NEW d \in Call \ disturbed, Running(d)' PROVE Probe(d)'
    <2>1. d = c /\ Probe(c)
      BY <1>2, <1>3, <1>9, OneProbe DEF PInv
    <2>2. Pending(out, c) \/ (Passed(out, c) /\ (bwIn # None => bwIn.of = c /\ bwIn.other = 0))
      BY <1>1, <2>1 DEF Probe
    <2>3. Pending(out', c) \/ (Passed(out', c) /\ (bwIn # None => bwIn.of = c /\ bwIn.other = 0))
      BY <1>1, <1>4, <1>5, <2>2, PassedWritten DEF Own
    <2> QED BY <1>1, <1>3, <2>1, <2>3 DEF Probe, Measures
  <1>10. Undisturbed'
    BY <1>1, <1>9 DEF Undisturbed
  <1> QED BY <1>3, <1>6, <1>7, <1>8, <1>10 DEF PInv

\* A call that ends takes whatever is registered with it.
LEMMA EndsInv ==
  ASSUME None \notin Call, PInv, NEW c \in Call, SendFails(c) \/ TakeAck(c) \/ AckTimesOut(c)
  PROVE  PInv'
  <1>1. /\ Running(c) /\ bwOut' = None
        /\ \E how \in {"failed", "returned"} :
             call' = [call EXCEPT ![c] = how] /\ (how = "returned" => ack[c] # None)
        /\ UNCHANGED <<out, back, up, drops, sent, ack, bwIn, beat, pinging, age, disturbed>>
    BY DEF SendFails, TakeAck, AckTimesOut, Ends, Running, channel, beating
  <1>2. /\ call'[c] \in {"failed", "returned"} /\ (call'[c] = "returned" => ack[c] # None)
        /\ \A d \in Call \ {c} : call'[d] = call[d]
        /\ call' \in [Call -> {"idle", "start", "stream", "wait", "returned", "failed"}]
    BY <1>1 DEF PInv, CtlTypeOK
  <1>3. CtlTypeOK' /\ Counted' /\ Quiet' /\ Registered'
    BY <1>1, <1>2 DEF PInv, CtlTypeOK, Counted, Quiet, Registered
  <1>4. Answered'
    BY <1>1, <1>2 DEF PInv, Answered, Measures
  <1>5. Undisturbed'
    <2> SUFFICES ASSUME NEW d \in Call \ disturbed, Running(d)' PROVE FALSE
      BY <1>1 DEF Undisturbed
    <2>1. Running(d) /\ d # c
      BY <1>2 DEF Running
    <2> QED BY <1>1, <2>1, OneProbe DEF PInv
  <1> QED BY <1>3, <1>4, <1>5 DEF PInv


-----------------------------------------------------------------------------
(* The peer, and the answers.                                                *)

LEMMA HeadFacts ==
  ASSUME PInv, NEW type \in {"START", "CHUNK", "DONE", "PING"}, Gets(type)
  PROVE  /\ out \in Seq(ToPeer) /\ out # <<>> /\ out' = Tail(out) /\ out' \in Seq(ToPeer)
         /\ Head(out).type = type /\ up
         /\ type # "PING" => Head(out).of \in Call
         /\ type = "PING" => Head(out).of \in Ping
         /\ \A j \in 1..Len(out') : out'[j] = out[j + 1] /\ j + 1 \in 1..Len(out)
         /\ 1 \in 1..Len(out) /\ Head(out) = out[1]
  <1>1. out \in Seq(ToPeer) /\ out # <<>> /\ out' = Tail(out) /\ Head(out).type = type
    BY DEF Gets, PInv, CtlTypeOK, ToPeer
  <1>2. /\ Head(out) \in ToPeer /\ out' \in Seq(ToPeer)
        /\ \A j \in 1..Len(out') : out'[j] = out[j + 1] /\ j + 1 \in 1..Len(out)
        /\ 1 \in 1..Len(out) /\ Head(out) = out[1]
    BY <1>1, Taken
  <1>3. up
    BY <1>1 DEF PInv, Quiet, CtlTypeOK
  <1> QED BY <1>1, <1>2, <1>3, FrameFacts

\* What the probe of c has left when the peer takes a frame off.
LEMMA LeftOfProbe ==
  ASSUME PInv, NEW type \in {"START", "CHUNK", "DONE", "PING"}, Gets(type), NEW c \in Call, Probe(c)
  PROVE  /\ call[c] = "start" => type # "DONE" /\ \A j \in 1..Len(out') : out'[j].type # "DONE"
         /\ call[c] \in {"stream", "wait"} =>
              \/ type = "START" /\ Head(out).of = c /\ Passed(out', c)
              \/ type # "DONE" /\ Pending(out', c)
              \/ /\ Own(Head(out), c) /\ Passed(out', c)
                 /\ bwIn # None => bwIn.of = c /\ bwIn.other = 0
  <1>1. /\ out \in Seq(ToPeer) /\ out # <<>> /\ out' = Tail(out)
        /\ Head(out).type = type /\ up
        /\ \A j \in 1..Len(out') : out'[j] = out[j + 1] /\ j + 1 \in 1..Len(out)
        /\ 1 \in 1..Len(out) /\ Head(out) = out[1]
    BY HeadFacts
  <1>2. call[c] = "start" => type # "DONE" /\ \A j \in 1..Len(out') : out'[j].type # "DONE"
    BY <1>1 DEF Probe
  <1>3. ASSUME call[c] \in {"stream", "wait"}
        PROVE  \/ type = "START" /\ Head(out).of = c /\ Passed(out', c)
               \/ type # "DONE" /\ Pending(out', c)
               \/ /\ Own(Head(out), c) /\ Passed(out', c)
                  /\ bwIn # None => bwIn.of = c /\ bwIn.other = 0
    <2>1. CASE Pending(out, c)
      BY <1>1, <2>1, PendingTaken
    <2>2. CASE Passed(out, c) /\ (bwIn # None => bwIn.of = c /\ bwIn.other = 0)
      BY <1>1, <2>2, PassedTaken
    <2> QED BY <1>1, <1>3, <2>1, <2>2 DEF Probe
  <1> QED BY <1>2, <1>3

\* Neither the calls nor what they were answered change.
LEMMA CallsStay ==
  ASSUME PInv, UNCHANGED <<call, sent, bwOut, ack>>, disturbed \subseteq disturbed'
  PROVE  /\ Registered' /\ Answered'
         /\ \A c \in Call : Running(c)' <=> Running(c)
         /\ \A k, c : Measures(k, c)' <=> Measures(k, c)
  BY DEF PInv, Registered, Answered, Running, Measures

LEMMA OnStartInv ==
  ASSUME None \notin Call, MaxChunks \in Nat, PInv, OnStart
  PROVE  PInv'
  <1>1. /\ Gets("START") /\ bwIn' = [of |-> Head(out).of, own |-> 0, other |-> 0]
        /\ UNCHANGED <<back, up, drops, call, sent, bwOut, ack, beat, pinging, age, disturbed>>
    BY DEF OnStart, beating
  <1>2. /\ out # <<>> /\ out' = Tail(out) /\ out' \in Seq(ToPeer) /\ Head(out).of \in Call /\ up
        /\ Head(out).type = "START"
    BY <1>1, HeadFacts
  <1>3. bwIn' \in Count /\ bwIn'.own = 0 /\ bwIn'.other = 0 /\ bwIn'.of = Head(out).of
    BY <1>1, <1>2 DEF Count
  <1>4. CtlTypeOK'
    BY <1>1, <1>2, <1>3 DEF PInv, CtlTypeOK, ToPeer
  <1>5. Counted'
    BY <1>1, <1>2, <1>3, CountedTaken DEF PInv
  <1>6. Registered' /\ Answered' /\ (\A c \in Call : Running(c)' <=> Running(c))
    BY <1>1, CallsStay
  <1>7. Quiet'
    BY <1>1, <1>2 DEF Quiet
  <1>8. ASSUME NEW c \in Call \ disturbed, Running(c)' PROVE Probe(c)'
    <2>1. Probe(c)
      BY <1>6, <1>8 DEF PInv, Undisturbed
    <2>2. /\ call[c] = "start" => \A j \in 1..Len(out') : out'[j].type # "DONE"
          /\ call[c] \in {"stream", "wait"} =>
               \/ Head(out).of = c /\ Passed(out', c)
               \/ Pending(out', c)
      BY <1>1, <1>2, <2>1, LeftOfProbe DEF Own
    <2> QED BY <1>1, <1>3, <1>6, <2>1, <2>2 DEF Probe, Measures
  <1>9. Undisturbed'
    BY <1>1, <1>8 DEF Undisturbed
  <1> QED BY <1>4, <1>5, <1>6, <1>7, <1>9 DEF PInv

LEMMA ChunkInv ==
  ASSUME None \notin Call, MaxChunks \in Nat, PInv, handleBandwidthChunk
  PROVE  PInv'
  <1>1. /\ Gets("CHUNK")
        /\ bwIn' = IF bwIn = None THEN None
                   ELSE IF bwIn.of = Head(out).of THEN [bwIn EXCEPT !.own = @ + 1]
                   ELSE [bwIn EXCEPT !.other = @ + 1]
        /\ UNCHANGED <<back, up, drops, call, sent, bwOut, ack, beat, pinging, age, disturbed>>
    BY DEF handleBandwidthChunk, beating
  <1>2. /\ out # <<>> /\ out' = Tail(out) /\ out' \in Seq(ToPeer) /\ Head(out).of \in Call /\ up
        /\ Head(out).type = "CHUNK" /\ out \in Seq(ToPeer)
    BY <1>1, HeadFacts
  <1>3. bwIn # None => /\ bwIn \in Count /\ bwIn.own \in Nat /\ bwIn.other \in Nat /\ bwIn.of \in Call
                       /\ bwIn.own + Chunks(out, bwIn.of) <= sent[bwIn.of]
                       /\ sent[bwIn.of] \in 0..MaxChunks
    BY DEF PInv, CtlTypeOK, Counted, Count
  <1>4. ASSUME bwIn # None, bwIn.of = Head(out).of PROVE bwIn.own + 1 <= MaxChunks
    <2>1. IsChunk(Head(out), bwIn.of)
      BY <1>2, <1>4 DEF IsChunk
    <2>2. Chunks(out, bwIn.of) \in Nat /\ Chunks(Tail(out), bwIn.of) \in Nat
          /\ Chunks(Tail(out), bwIn.of) + 1 <= Chunks(out, bwIn.of)
      BY <1>2, <2>1, ChunksTaken, ChunksType
    <2> QED BY <1>3, <1>4, <2>2
  <1>5. bwIn # None /\ bwIn.of = Head(out).of =>
          /\ bwIn' \in Count /\ bwIn'.of = bwIn.of /\ bwIn'.own = bwIn.own + 1 /\ bwIn'.other = bwIn.other
    <2> SUFFICES ASSUME bwIn # None, bwIn.of = Head(out).of
                 PROVE  /\ bwIn' \in Count /\ bwIn'.of = bwIn.of
                        /\ bwIn'.own = bwIn.own + 1 /\ bwIn'.other = bwIn.other
      OBVIOUS
    <2>1. bwIn' = [bwIn EXCEPT !.own = @ + 1] /\ bwIn \in Count
      BY <1>1, <1>3
    <2>2. bwIn.own + 1 \in 0..MaxChunks
      BY <1>3, <1>4
    <2> QED BY <2>1, <2>2 DEF Count
  <1>6. bwIn # None /\ bwIn.of # Head(out).of =>
          bwIn' \in Count /\ bwIn'.of = bwIn.of /\ bwIn'.own = bwIn.own
    <2> SUFFICES ASSUME bwIn # None, bwIn.of # Head(out).of
                 PROVE  bwIn' \in Count /\ bwIn'.of = bwIn.of /\ bwIn'.own = bwIn.own
      OBVIOUS
    <2>1. bwIn' = [bwIn EXCEPT !.other = @ + 1] /\ bwIn \in Count /\ bwIn.other + 1 \in Nat
      BY <1>1, <1>3
    <2> QED BY <2>1 DEF Count
  <1>7. bwIn' \in Count \union {None}
    BY <1>1, <1>5, <1>6
  <1>8. CtlTypeOK'
    BY <1>1, <1>2, <1>7 DEF PInv, CtlTypeOK, ToPeer
  <1>9. Counted'
    <2>1. CASE bwIn = None
      BY <1>1, <1>2, <2>1, CountedTaken DEF PInv
    <2>2. CASE bwIn # None /\ bwIn.of = Head(out).of
      <3>1. IsChunk(Head(out), bwIn.of)
        BY <1>2, <2>2 DEF IsChunk
      <3> QED BY <1>1, <1>2, <1>5, <2>2, <3>1, CountedTaken DEF PInv
    <2>3. CASE bwIn # None /\ bwIn.of # Head(out).of
      <3>1. \A c \in Call : /\ Chunks(out', c) \in Nat /\ Chunks(out, c) \in Nat
                            /\ Chunks(out', c) <= Chunks(out, c)
                            /\ Chunks(out, c) <= sent[c] /\ sent[c] \in Nat
        <4> SUFFICES ASSUME NEW c \in Call
                     PROVE  /\ Chunks(out', c) \in Nat /\ Chunks(out, c) \in Nat
                            /\ Chunks(out', c) <= Chunks(out, c)
                            /\ Chunks(out, c) <= sent[c] /\ sent[c] \in Nat
          OBVIOUS
        <4>1. Chunks(out', c) \in Nat /\ Chunks(out, c) \in Nat
          BY <1>2, ChunksType
        <4>2. Chunks(out', c) + (IF IsChunk(Head(out), c) THEN 1 ELSE 0) <= Chunks(out, c)
          BY <1>2, ChunksTaken
        <4> QED BY <4>1, <4>2 DEF PInv, Counted, CtlTypeOK
      <3>2. \A c \in Call : Chunks(out', c) <= sent[c]
        BY <3>1
      <3>3. bwIn'.own + Chunks(out', bwIn'.of) <= sent[bwIn'.of]
        BY <1>3, <1>6, <2>3, <3>1
      <3> QED BY <1>1, <3>2, <3>3 DEF Counted
    <2> QED BY <2>1, <2>2, <2>3
  <1>10. Registered' /\ Answered' /\ (\A c \in Call : Running(c)' <=> Running(c))
    BY <1>1, CallsStay
  <1>11. Quiet'
    BY <1>1, <1>2 DEF Quiet
  <1>12. ASSUME NEW c \in Call \ disturbed, Running(c)' PROVE Probe(c)'
    <2>1. Probe(c)
      BY <1>10, <1>12 DEF PInv, Undisturbed
    <2>2. /\ call[c] = "start" => \A j \in 1..Len(out') : out'[j].type # "DONE"
          /\ call[c] \in {"stream", "wait"} =>
               \/ Pending(out', c)
               \/ Head(out).of = c /\ Passed(out', c) /\ (bwIn # None => bwIn.of = c /\ bwIn.other = 0)
      BY <1>1, <1>2, <2>1, LeftOfProbe DEF Own
    <2>3. /\ bwIn = None => bwIn' = None
          /\ bwIn # None /\ bwIn.of = c /\ Head(out).of = c => bwIn'.of = c /\ bwIn'.other = bwIn.other
      BY <1>1, <1>5
    <2> QED BY <1>1, <1>10, <2>1, <2>2, <2>3 DEF Probe, Measures
  <1>13. Undisturbed'
    BY <1>1, <1>12 DEF Undisturbed
  <1> QED BY <1>8, <1>9, <1>10, <1>11, <1>13 DEF PInv

\* An answer that is sent, or none.
LEMMA BackWritten ==
  ASSUME PInv, NEW f \in FromPeer, back' = Append(back, f)
  PROVE  /\ back' \in Seq(FromPeer)
         /\ \A j \in 1..Len(back') : back'[j] = f \/ \E i \in 1..Len(back) : back'[j] = back[i]
  <1>1. back \in Seq(FromPeer)
    BY DEF PInv, CtlTypeOK, FromPeer
  <1>2. /\ back' \in Seq(FromPeer) /\ Len(back) \in Nat /\ Len(back') = Len(back) + 1
        /\ back'[Len(back) + 1] = f /\ \A i \in 1..Len(back) : back'[i] = back[i]
    BY <1>1, Written
  <1>3. \A j \in 1..Len(back') : j \in 1..Len(back) \/ j = Len(back) + 1
    BY <1>2
  <1> QED BY <1>2, <1>3

LEMMA OnDoneInv ==
  ASSUME None \notin Call, PInv, OnDone
  PROVE  PInv'
  <1>1. /\ Gets("DONE") /\ bwIn' = None
        /\ IF bwIn = None THEN UNCHANGED back ELSE Answers("ACK", bwIn)
        /\ UNCHANGED <<up, drops, call, sent, bwOut, ack, beat, pinging, age, disturbed>>
    BY DEF OnDone, beating
  <1>2. /\ out # <<>> /\ out' = Tail(out) /\ out' \in Seq(ToPeer) /\ up
        /\ Head(out).type = "DONE" /\ out \in Seq(ToPeer)
    BY <1>1, HeadFacts
  <1>3. bwIn # None => /\ bwIn \in Count /\ back' = Append(back, F("ACK", bwIn))
                       /\ F("ACK", bwIn) \in FromPeer /\ F("ACK", bwIn).of = bwIn
    BY <1>1, <1>2, FIsFrame DEF Answers, PInv, CtlTypeOK
  <1>4. back' \in Seq(FromPeer)
    BY <1>1, <1>3, BackWritten DEF PInv, CtlTypeOK, FromPeer
  <1>5. CtlTypeOK'
    BY <1>1, <1>2, <1>4 DEF PInv, CtlTypeOK, ToPeer, FromPeer
  <1>6. Counted'
    BY <1>1, <1>2, CountedTaken DEF PInv
  <1>7. /\ Registered' /\ Answered' /\ (\A c \in Call : Running(c)' <=> Running(c))
        /\ \A k, c : Measures(k, c)' <=> Measures(k, c)
    BY <1>1, CallsStay
  <1>8. Quiet'
    BY <1>1, <1>2 DEF Quiet
  <1>9. ASSUME NEW c \in Call \ disturbed, Running(c)' PROVE Probe(c)'
    <2>1. Probe(c) /\ call[c] \in {"start", "stream", "wait"}
      BY <1>7, <1>9 DEF PInv, Undisturbed, Running
    <2>2. /\ call[c] \in {"stream", "wait"} /\ Passed(out', c)
          /\ bwIn # None => bwIn.of = c /\ bwIn.other = 0
      BY <1>1, <2>1, LeftOfProbe
    <2>3. bwIn # None => Measures(bwIn, c)
      <3> SUFFICES ASSUME bwIn # None PROVE bwIn.own <= sent[c]
        BY <2>2 DEF Measures
      <3>1. bwIn.own \in Nat /\ bwIn.of = c /\ Chunks(out, c) \in Nat /\ sent[c] \in Nat
        BY <1>2, <2>2, ChunksType DEF PInv, CtlTypeOK, Count
      <3>2. bwIn.own + Chunks(out, c) <= sent[c]
        BY <3>1 DEF PInv, Counted
      <3> QED BY <3>1, <3>2
    <2>4. \A j \in 1..Len(back') : back'[j].type = "ACK" => Measures(back'[j].of, c)
      <3>1. CASE bwIn = None
        BY <1>1, <2>1, <3>1 DEF Probe
      <3>2. CASE bwIn # None
        BY <1>3, <2>1, <2>3, <3>2, BackWritten DEF Probe
      <3> QED BY <3>1, <3>2
    <2> QED BY <1>1, <1>7, <2>1, <2>2, <2>4 DEF Probe
  <1>10. Undisturbed'
    BY <1>1, <1>9 DEF Undisturbed
  <1> QED BY <1>5, <1>6, <1>7, <1>8, <1>10 DEF PInv

LEMMA OnPingInv ==
  ASSUME None \notin Call, PInv, OnPing
  PROVE  PInv'
  <1>1. /\ Gets("PING") /\ Answers("PONG", Head(out).of)
        /\ UNCHANGED <<up, drops, call, sent, bwOut, ack, bwIn, beat, pinging, age, disturbed>>
    BY DEF OnPing, probing, beating
  <1>2. /\ out # <<>> /\ out' = Tail(out) /\ out' \in Seq(ToPeer) /\ up
        /\ Head(out).type = "PING" /\ Head(out).of \in Ping
    BY <1>1, HeadFacts
  <1>3. PICK t \in Ping : t = Head(out).of
    BY <1>2
  <1>4. /\ back' = Append(back, F("PONG", t)) /\ F("PONG", t) \in FromPeer /\ F("PONG", t).type = "PONG"
    BY <1>1, <1>2, <1>3, FIsFrame DEF Answers
  <1>5. /\ back' \in Seq(FromPeer)
        /\ \A j \in 1..Len(back') : back'[j] = F("PONG", t) \/ \E i \in 1..Len(back) : back'[j] = back[i]
    BY <1>4, BackWritten
  <1>6. CtlTypeOK'
    BY <1>1, <1>2, <1>5 DEF PInv, CtlTypeOK, ToPeer, FromPeer
  <1>7. Counted'
    BY <1>1, <1>2, CountedTaken DEF PInv
  <1>8. /\ Registered' /\ Answered' /\ (\A c \in Call : Running(c)' <=> Running(c))
        /\ \A k, c : Measures(k, c)' <=> Measures(k, c)
    BY <1>1, CallsStay
  <1>9. Quiet'
    BY <1>1, <1>2 DEF Quiet
  <1>10. ASSUME NEW c \in Call \ disturbed, Running(c)' PROVE Probe(c)'
    <2>1. Probe(c)
      BY <1>8, <1>10 DEF PInv, Undisturbed
    <2>2. /\ call[c] = "start" => \A j \in 1..Len(out') : out'[j].type # "DONE"
          /\ call[c] \in {"stream", "wait"} =>
               \/ Pending(out', c)
               \/ Passed(out', c) /\ (bwIn # None => bwIn.of = c /\ bwIn.other = 0)
      BY <1>1, <2>1, LeftOfProbe
    <2>3. \A j \in 1..Len(back') : back'[j].type = "ACK" => Measures(back'[j].of, c)
      BY <1>4, <1>5, <2>1 DEF Probe
    <2> QED BY <1>1, <1>8, <2>1, <2>2, <2>3 DEF Probe
  <1>11. Undisturbed'
    BY <1>1, <1>10 DEF Undisturbed
  <1> QED BY <1>6, <1>7, <1>8, <1>9, <1>11 DEF PInv

\* An answer that is taken off.
LEMMA BackTaken ==
  ASSUME PInv, back # <<>>, back' = Tail(back)
  PROVE  /\ up /\ Head(back) \in FromPeer /\ back' \in Seq(FromPeer)
         /\ 1 \in 1..Len(back) /\ Head(back) = back[1]
         /\ \A j \in 1..Len(back') : \E i \in 1..Len(back) : back'[j] = back[i]
  <1>1. back \in Seq(FromPeer)
    BY DEF PInv, CtlTypeOK, FromPeer
  <1>2. up
    BY DEF PInv, Quiet, CtlTypeOK
  <1>3. /\ Head(back) \in FromPeer /\ back' \in Seq(FromPeer) /\ Head(back) = back[1]
        /\ Len(back) \in Nat \ {0}
        /\ \A j \in 1..Len(back') : back'[j] = back[j + 1] /\ j + 1 \in 1..Len(back)
    BY <1>1, Taken
  <1>4. \A j \in 1..Len(back') : \E i \in 1..Len(back) : back'[j] = back[i]
    BY <1>3
  <1> QED BY <1>2, <1>3, <1>4

\* Fewer answers disturb no probe.
LEMMA ProbesStay ==
  ASSUME PInv, UNCHANGED <<out, up, call, sent, bwOut, bwIn>>, disturbed \subseteq disturbed',
         \A j \in 1..Len(back') : \E i \in 1..Len(back) : back'[j] = back[i]
  PROVE  Counted' /\ Registered' /\ Undisturbed'
  <1>1. Counted' /\ Registered'
    BY DEF PInv, Counted, Registered, Running
  <1>2. ASSUME NEW c \in Call \ disturbed', Running(c)' PROVE Probe(c)'
    <2>1. Probe(c)
      BY <1>2 DEF PInv, Undisturbed, Running
    <2>2. \A j \in 1..Len(back') : back'[j].type = "ACK" => Measures(back'[j].of, c)
      BY <2>1 DEF Probe
    <2> QED BY <2>1, <2>2 DEF Probe, Running, Measures
  <1> QED BY <1>1, <1>2 DEF Undisturbed

LEMMA OnAckInv ==
  ASSUME None \notin Call, PInv, OnAck
  PROVE  PInv'
  <1>1. /\ back # <<>> /\ Head(back).type = "ACK" /\ back' = Tail(back)
        /\ ack' = IF bwOut # None /\ ack[bwOut] = None
                  THEN [ack EXCEPT ![bwOut] = Head(back).of] ELSE ack
        /\ UNCHANGED <<out, up, drops, call, sent, bwOut, bwIn, beat, pinging, age, disturbed>>
    BY DEF OnAck, IsAnswered, beating
  <1>2. /\ up /\ Head(back) \in FromPeer /\ back' \in Seq(FromPeer)
        /\ 1 \in 1..Len(back) /\ Head(back) = back[1]
        /\ \A j \in 1..Len(back') : \E i \in 1..Len(back) : back'[j] = back[i]
    BY <1>1, BackTaken
  <1>3. Head(back).of \in Count
    BY <1>1, <1>2, AnswerFacts
  <1>4. ack' \in [Call -> Count \union {None}]
    BY <1>1, <1>3 DEF PInv, CtlTypeOK
  <1>5. CtlTypeOK'
    BY <1>1, <1>2, <1>4 DEF PInv, CtlTypeOK, FromPeer
  <1>6. Counted' /\ Registered' /\ Undisturbed'
    BY <1>1, <1>2, ProbesStay
  <1>7. Quiet'
    BY <1>1, <1>2 DEF Quiet
  <1>8. ASSUME NEW c \in Call
        PROVE  /\ call[c] = "idle" => ack'[c] = None
               /\ c \notin disturbed /\ ack'[c] # None => Measures(ack'[c], c)
               /\ call[c] = "returned" => ack'[c] # None
    <2>1. CASE ack'[c] = ack[c]
      BY <2>1 DEF PInv, Answered
    <2>2. CASE ack'[c] # ack[c]
      <3>1. bwOut = c /\ ack'[c] = Head(back).of
        BY <1>1, <2>2 DEF PInv, CtlTypeOK
      <3>2. Running(c)
        BY <3>1 DEF PInv, Registered
      <3>3. c \notin disturbed => Measures(Head(back).of, c)
        BY <1>1, <1>2, <3>2 DEF PInv, Undisturbed, Probe
      <3>4. ack[c] = None
        BY <1>1, <2>2, <3>1
      <3> QED BY <2>2, <3>1, <3>2, <3>3, <3>4 DEF Running
    <2> QED BY <2>1, <2>2
  <1>9. Answered'
    BY <1>1, <1>8 DEF Answered, Measures
  <1> QED BY <1>5, <1>6, <1>7, <1>9 DEF PInv

-----------------------------------------------------------------------------
(* The heartbeat, and the channel.                                           *)

LEMMA SendPingInv ==
  ASSUME None \notin Call, PInv, NEW t \in Ping, SendPing(t)
  PROVE  PInv'
  <1>1. /\ up /\ out' = Append(out, F("PING", t)) /\ beat' = "record" /\ pinging' = t
        /\ UNCHANGED <<back, up, drops, call, sent, bwOut, ack, bwIn, age, disturbed>>
    BY DEF SendPing, Send, probing
  <1>2. F("PING", t) \in ToPeer /\ F("PING", t).type = "PING"
    BY FIsFrame
  <1>3. out' \in Seq(ToPeer) /\ out \in Seq(ToPeer)
    BY <1>1, <1>2, ToPeerWritten DEF PInv, CtlTypeOK, ToPeer
  <1>4. CtlTypeOK'
    BY <1>1, <1>3 DEF PInv, CtlTypeOK, ToPeer
  <1>5. Counted'
    BY <1>1, <1>2, CountedWritten DEF PInv
  <1>6. Registered' /\ Answered' /\ (\A c \in Call : Running(c)' <=> Running(c))
    BY <1>1, CallsStay
  <1>7. Quiet'
    BY <1>1 DEF Quiet
  <1>8. \A j \in 1..Len(out') : out'[j] = F("PING", t) \/ \E i \in 1..Len(out) : out'[j] = out[i]
    <2>1. /\ Len(out) \in Nat /\ Len(out') = Len(out) + 1 /\ out'[Len(out) + 1] = F("PING", t)
          /\ \A i \in 1..Len(out) : out'[i] = out[i]
      BY <1>1, <1>2, <1>3, Written
    <2>2. \A j \in 1..Len(out') : j \in 1..Len(out) \/ j = Len(out) + 1
      BY <2>1
    <2> QED BY <2>1, <2>2
  <1>9. ASSUME NEW c \in Call \ disturbed, Running(c)' PROVE Probe(c)'
    <2>1. Probe(c)
      BY <1>6, <1>9 DEF PInv, Undisturbed
    <2>2. call[c] = "start" => \A j \in 1..Len(out') : out'[j].type # "DONE"
      BY <1>2, <1>8, <2>1 DEF Probe
    <2>3. call[c] \in {"stream", "wait"} =>
            \/ Pending(out', c)
            \/ Passed(out', c) /\ (bwIn # None => bwIn.of = c /\ bwIn.other = 0)
      BY <1>1, <1>2, <1>3, <2>1, PassedWritten DEF Probe, Own
    <2> QED BY <1>1, <1>6, <2>1, <2>2, <2>3 DEF Probe, Measures
  <1>10. Undisturbed'
    BY <1>1, <1>9 DEF Undisturbed
  <1> QED BY <1>4, <1>5, <1>6, <1>7, <1>10 DEF PInv

\* The record of a ping, a tick, a step that changes nothing: no frame moves.
LEMMA NoFrameInv ==
  ASSUME PInv, UNCHANGED <<channel, probing, disturbed>>, beat' \in {"wait", "record", "prune"},
         pinging' \in Ping \union {None}, age' \in [Ping -> 0..5]
  PROVE  PInv'
  <1>1. UNCHANGED <<out, back, up, drops, call, sent, bwOut, ack, bwIn, disturbed>>
    BY DEF channel, probing
  <1>2. CtlTypeOK'
    BY <1>1 DEF PInv, CtlTypeOK
  <1>3. Answered' /\ Quiet'
    BY <1>1 DEF PInv, Answered, Quiet, Measures
  <1>4. Counted' /\ Registered' /\ Undisturbed'
    BY <1>1, ProbesStay
  <1> QED BY <1>2, <1>3, <1>4 DEF PInv

LEMMA RecordPingInv ==
  ASSUME PInv, RecordPing
  PROVE  PInv'
  <1>1. age \in [Ping -> 0..5] /\ 1 \in 0..5
    BY DEF PInv, CtlTypeOK
  <1>2. age' = [age EXCEPT ![pinging] = 1]
    BY DEF RecordPing
  <1>3. age' \in [Ping -> 0..5]
    BY <1>1, <1>2
  <1> QED BY <1>3, NoFrameInv DEF RecordPing

LEMMA PruneInv ==
  ASSUME PInv, pruneStalePings
  PROVE  PInv'
  <1>1. PICK stale \in SUBSET {t \in Ping : age[t] >= 4} :
          age' = [t \in Ping |-> IF age[t] = 0 \/ age[t] = 5 \/ t \in stale THEN 0 ELSE age[t] + 1]
    BY DEF pruneStalePings
  <1>2. age' \in [Ping -> 0..5]
    <2>1. \A t \in Ping : age[t] \in 0..5
      BY DEF PInv, CtlTypeOK
    <2>2. \A n \in 0..5 : n = 5 \/ n + 1 \in 0..5
      OBVIOUS
    <2>3. \A t \in Ping : (IF age[t] = 0 \/ age[t] = 5 \/ t \in stale THEN 0 ELSE age[t] + 1) \in 0..5
      BY <2>1, <2>2
    <2> QED BY <1>1, <2>3
  <1>3. pinging' \in Ping \union {None}
    BY DEF pruneStalePings, PInv, CtlTypeOK
  <1> QED BY <1>2, <1>3, NoFrameInv DEF pruneStalePings

LEMMA OnPongInv ==
  ASSUME PInv, OnPong
  PROVE  PInv'
  <1>1. /\ back # <<>> /\ Head(back).type = "PONG" /\ back' = Tail(back)
        /\ age' = [age EXCEPT ![Head(back).of] = 0]
        /\ UNCHANGED <<out, up, drops, call, sent, bwOut, ack, bwIn, beat, pinging, disturbed>>
    BY DEF OnPong, IsAnswered, probing
  <1>2. /\ up /\ back' \in Seq(FromPeer)
        /\ \A j \in 1..Len(back') : \E i \in 1..Len(back) : back'[j] = back[i]
    BY <1>1, BackTaken
  <1>3. age' \in [Ping -> 0..5]
    BY <1>1 DEF PInv, CtlTypeOK
  <1>4. CtlTypeOK'
    BY <1>1, <1>2, <1>3 DEF PInv, CtlTypeOK, FromPeer
  <1>5. Counted' /\ Registered' /\ Undisturbed'
    BY <1>1, <1>2, ProbesStay
  <1>6. Answered' /\ Quiet'
    BY <1>1, <1>2 DEF PInv, Answered, Quiet, Measures
  <1> QED BY <1>4, <1>5, <1>6 DEF PInv

LEMMA DropFrameInv ==
  ASSUME None \notin Call, MaxDrops \in Nat, PInv, DropFrame
  PROVE  PInv'
  <1>1. /\ drops' \in 0..MaxDrops
        /\ UNCHANGED <<up, call, sent, bwOut, ack, bwIn, beat, pinging, age>>
    BY DEF DropFrame, probing, beating, PInv, CtlTypeOK
  <1>2. CASE /\ out # <<>> /\ out' = Tail(out) /\ UNCHANGED back
             /\ disturbed' = IF Head(out).type = "START" THEN disturbed \union {Head(out).of} ELSE disturbed
    <2>1. PICK type \in {"START", "CHUNK", "DONE", "PING"} : Head(out).type = type
      <3>1. Head(out) \in ToPeer
        BY <1>2, Taken DEF PInv, CtlTypeOK, ToPeer
      <3> QED BY <3>1, FrameFacts
    <2>2. Gets(type)
      BY <1>2, <2>1 DEF Gets
    <2>3. /\ out' \in Seq(ToPeer) /\ up
          /\ disturbed \subseteq disturbed' /\ disturbed' \subseteq Call
      BY <1>2, <2>1, <2>2, HeadFacts DEF PInv, CtlTypeOK
    <2>4. CtlTypeOK'
      BY <1>1, <1>2, <2>3 DEF PInv, CtlTypeOK, ToPeer
    <2>5. Counted'
      BY <1>1, <1>2, CountedTaken DEF PInv
    <2>6. Registered' /\ Answered' /\ (\A c \in Call : Running(c)' <=> Running(c))
      BY <1>1, <2>3, CallsStay
    <2>7. Quiet'
      BY <1>1, <2>3 DEF Quiet
    <2>8. ASSUME NEW c \in Call \ disturbed', Running(c)' PROVE Probe(c)'
      <3>1. Probe(c)
        BY <2>3, <2>6, <2>8 DEF PInv, Undisturbed
      <3>2. type = "START" => Head(out).of # c
        BY <1>2, <2>1, <2>8
      <3>3. /\ call[c] = "start" => \A j \in 1..Len(out') : out'[j].type # "DONE"
            /\ call[c] \in {"stream", "wait"} =>
                 \/ Pending(out', c)
                 \/ Passed(out', c) /\ (bwIn # None => bwIn.of = c /\ bwIn.other = 0)
        BY <2>2, <3>1, <3>2, LeftOfProbe
      <3> QED BY <1>1, <1>2, <2>6, <3>1, <3>3 DEF Probe, Measures
    <2>9. Undisturbed'
      BY <2>8 DEF Undisturbed
    <2> QED BY <2>4, <2>5, <2>6, <2>7, <2>9 DEF PInv
  <1>3. CASE back # <<>> /\ back' = Tail(back) /\ UNCHANGED <<out, disturbed>>
    <2>1. /\ up /\ back' \in Seq(FromPeer)
          /\ \A j \in 1..Len(back') : \E i \in 1..Len(back) : back'[j] = back[i]
      BY <1>3, BackTaken
    <2>2. CtlTypeOK'
      BY <1>1, <1>3, <2>1 DEF PInv, CtlTypeOK, FromPeer
    <2>3. Counted' /\ Registered' /\ Undisturbed'
      BY <1>1, <1>3, <2>1, ProbesStay
    <2>4. Answered' /\ Quiet'
      BY <1>1, <1>3, <2>1 DEF PInv, Answered, Quiet, Measures
    <2> QED BY <2>2, <2>3, <2>4 DEF PInv
  <1> QED BY <1>2, <1>3 DEF DropFrame

LEMMA ChannelClosesInv ==
  ASSUME None \notin Call, PInv, ChannelCloses
  PROVE  PInv'
  <1>1. /\ up' = FALSE /\ out' = <<>> /\ back' = <<>>
        /\ UNCHANGED <<drops, call, sent, bwOut, ack, bwIn, beat, pinging, age, disturbed>>
    BY DEF ChannelCloses, probing, beating
  <1>2. CtlTypeOK'
    <2>1. out' \in Seq(ToPeer) /\ back' \in Seq(FromPeer)
      BY <1>1, EmptySeq
    <2> QED BY <1>1, <2>1 DEF PInv, CtlTypeOK, ToPeer, FromPeer
  <1>3. Counted'
    <2>1. \A c : Chunks(out', c) = 0 /\ Chunks(out, c) \in Nat
      BY <1>1, NoChunks, ChunksType DEF PInv, CtlTypeOK
    <2>2. \A c \in Call : sent[c] \in Nat
      BY DEF PInv, CtlTypeOK
    <2>3. bwIn # None => bwIn.of \in Call /\ bwIn.own \in Nat
      BY DEF PInv, CtlTypeOK, Count
    <2>4. bwIn # None => bwIn.own + 0 <= sent[bwIn.of]
      BY <2>1, <2>2, <2>3 DEF PInv, Counted
    <2> QED BY <1>1, <2>1, <2>2, <2>4 DEF Counted
  <1>4. Registered' /\ Answered' /\ (\A c \in Call : Running(c)' <=> Running(c))
    BY <1>1, CallsStay
  <1>5. Quiet'
    BY <1>1 DEF Quiet
  <1>6. ASSUME NEW c \in Call \ disturbed, Running(c)' PROVE Probe(c)'
    <2>1. Probe(c)
      BY <1>4, <1>6 DEF PInv, Undisturbed
    <2>2. 1..Len(out') = {} /\ 1..Len(back') = {}
      BY <1>1
    <2> QED BY <1>1, <1>4, <2>1, <2>2 DEF Probe
  <1>7. Undisturbed'
    BY <1>1, <1>6 DEF Undisturbed
  <1> QED BY <1>2, <1>3, <1>4, <1>5, <1>7 DEF PInv

-----------------------------------------------------------------------------
(* The invariant, and what follows from it.                                  *)

LEMMA PInvInit ==
  ASSUME MaxChunks \in Nat, MaxDrops \in Nat, CtlInit
  PROVE  PInv
  <1>1. /\ out = <<>> /\ back = <<>> /\ up = TRUE /\ drops = 0
        /\ call = [c \in Call |-> "idle"] /\ sent = [c \in Call |-> 0]
        /\ bwOut = None /\ ack = [c \in Call |-> None] /\ bwIn = None
        /\ beat = "wait" /\ pinging = None /\ age = [t \in Ping |-> 0]
        /\ disturbed = {}
    BY DEF CtlInit
  <1>2. CtlTypeOK
    BY <1>1 DEF CtlTypeOK
  <1>3. Counted
    BY <1>1, NoChunks DEF Counted
  <1>4. Registered /\ Answered /\ Quiet /\ Undisturbed
    BY <1>1 DEF Registered, Answered, Quiet, Undisturbed, Running
  <1> QED BY <1>2, <1>3, <1>4 DEF PInv

LEMMA PInvStep ==
  ASSUME None \notin Call, MaxChunks \in Nat, MaxDrops \in Nat, PInv, [CtlNext]_ctlVars
  PROVE  PInv'
  <1>1. ASSUME NEW c \in Call, MeasureBandwidth(c) PROVE PInv'
    BY <1>1, MeasureInv
  <1>2. ASSUME NEW c \in Call, CallStep(c) PROVE PInv'
    BY <1>2, SendStartInv, SendChunkInv, SendDoneInv, EndsInv DEF CallStep
  <1>3. ASSUME NEW t \in Ping, SendPing(t) PROVE PInv'
    BY <1>3, SendPingInv
  <1>4. CASE Handle
    BY <1>4, OnStartInv, ChunkInv, OnDoneInv, OnPingInv, OnAckInv, OnPongInv DEF Handle
  <1>5. CASE Beat
    BY <1>5, RecordPingInv, PruneInv DEF Beat
  <1>6. CASE DropFrame
    BY <1>6, DropFrameInv
  <1>7. CASE ChannelCloses
    BY <1>7, ChannelClosesInv
  <1>8. CASE UNCHANGED ctlVars
    BY <1>8, NoFrameInv DEF ctlVars, beating, PInv, CtlTypeOK
  <1> QED BY <1>1, <1>2, <1>3, <1>4, <1>5, <1>6, <1>7, <1>8 DEF CtlNext

(***************************************************************************)
(* MeasureBandwidth answers with what the peer counted of its own probe,   *)
(* for any number of calls and pings, of chunks and of frames lost: the    *)
(* channel is ordered, START resets the count and DONE ends it, so an ACK  *)
(* that nothing disturbed finds its own call registered.  A call that is   *)
(* excepted overlapped with another, began while the end of one was under  *)
(* way, or lost its START.                                                 *)
(***************************************************************************)
THEOREM ProbesInvHolds == CtlSpec => []ProbesInv
  <1>1. CtlInit => PInv
    BY PInvInit, ProbesAssumption
  <1>2. PInv /\ [CtlNext]_ctlVars => PInv'
    BY PInvStep, ProbesAssumption
  <1>3. PInv => ProbesInv
    BY DEF PInv, Answered, Measures, ProbesInv, OwnMeasurement
  <1> QED BY <1>1, <1>2, <1>3, PTL DEF CtlSpec
=============================================================================
