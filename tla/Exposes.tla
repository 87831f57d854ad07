------------------------------ MODULE Exposes -------------------------------
(***************************************************************************)
(* One port that the user shares: the saved rows (client/storage), the     *)
(* forwarder and the mesh of every portal session (client/app.go,          *)
(* client/proxy, client/mesh), and what a peer of each session was told.   *)
(*                                                                         *)
(* A call is a click in the window or a command of the dashboard: commands *)
(* run in goroutines of their own (signaling.Client.handleCommand), so     *)
(* calls overlap.  So does the restore of a session that has become ready, *)
(* and the replay to a peer that has.  Each of them walks its sessions     *)
(* without a lock: it edits the forwarder, then mesh.localServices, then   *)
(* writes to the control channel of the peer, which is ordered.  Init,     *)
(* Next and Spec have Port in their names, so that PortProofs can extend   *)
(* this module and ProxyUdp.                                               *)
(***************************************************************************)
EXTENDS Naturals, Sequences, FiniteSets

CONSTANTS Session,    \* portal sessions
          Proto,      \* the protocols a port is shared for: tcp, udp
          Call,       \* bound: the calls there may be
          AtOnce,     \* bound on the calls and restores that run at once
          None        \* no service

ASSUME ExposesAssumption ==
  None \notin Proto /\ Call \intersect Session = {} /\ AtOnce \in Nat

VARIABLES
  rows,      \* exposed_services: proto -> none, off or on
  live,      \* the sessions in App.sessions
  exposed,   \* the sessions whose forwarder exposes the port
  local,     \* mesh.localServices of the port
  actor,     \* calls and restores: what they are at
  peer,      \* the control channel to the peer, and the replay on it
  replay,    \* the snapshot a replay has taken
  ctl,       \* what is under way to the peer
  view,      \* the peer's Peer.services of the port
  unsure,    \* sessions where two announcements overlapped, or one was lost
  overlap    \* two calls or restores have overlapped

mesh == <<peer, replay, ctl, view>>
portVars == <<rows, live, exposed, local, actor, mesh, unsure, overlap>>

Actor == Call \union Session        \* a restore is named by its session
Service == Proto \union {None}

Idle == [pc |-> "idle", op |-> "none", proto |-> None, todo |-> {}, at |-> <<>>]

PortInit ==
  /\ rows = [p \in Proto |-> "none"]
  /\ live = {} /\ exposed = {}
  /\ local = [s \in Session |-> None]
  /\ actor = [a \in Actor |-> Idle]
  /\ peer = [s \in Session |-> "absent"]
  /\ replay = [s \in Session |-> None]
  /\ ctl = [s \in Session |-> <<>>]
  /\ view = [s \in Session |-> None]
  /\ unsure = {} /\ overlap = FALSE

Runs(a) == actor[a].pc \notin {"idle", "done"}
Goes(a, pc) == actor' = [actor EXCEPT ![a].pc = pc]
Ends(a) == actor' = [actor EXCEPT ![a] = [Idle EXCEPT !.pc = "done"]]

\* Marks that a starts, and whether somebody else is running.
Starts(a, pc, op, proto) ==
  /\ actor[a].pc = "idle"
  /\ Cardinality({b \in Actor : Runs(b)}) < AtOnce
  /\ actor' = [actor EXCEPT ![a] = [Idle EXCEPT !.pc = pc, !.op = op, !.proto = proto]]
  /\ overlap' = (overlap \/ \E b \in Actor : Runs(b))

-----------------------------------------------------------------------------
(* The saved rows (storage.Store).                                         *)

SaveExposedService(p, state) == rows' = [rows EXCEPT ![p] = state]

ListExposedServices(states) == {p \in Proto : rows[p] \in states}

\* UnexposeService deletes the rows of both protocols.
DeleteExposedService == rows' = [p \in Proto |-> "none"]

-----------------------------------------------------------------------------
(* The calls.                                                              *)

\* The row is saved before the sessions are looked at.
ExposeService(c, p) ==
  /\ Starts(c, "list", "expose", p)
  /\ SaveExposedService(p, "on")
  /\ UNCHANGED <<live, exposed, local, mesh, unsure>>

UnexposeService(c) ==
  /\ Starts(c, "list", "unexpose", None)
  /\ UNCHANGED <<rows, live, exposed, local, mesh, unsure>>

\* SetExposeEnabled looks for the row; without one it returns an error and
\* changes nothing.
SetExposeEnabled(c, p, op) ==
  /\ p \in ListExposedServices({"off", "on"}) /\ Starts(c, "save", op, p)
  /\ UNCHANGED <<rows, live, exposed, local, mesh, unsure>>

\* Saving inserts the row again if it was deleted meanwhile.
SaveRow(c) ==
  /\ actor[c].pc = "save"
  /\ SaveExposedService(actor[c].proto, IF actor[c].op = "pause" THEN "off" ELSE "on")
  /\ Goes(c, "list")
  /\ UNCHANGED <<live, exposed, local, mesh, unsure, overlap>>

\* allSessions: one edit per session, of the whole port.
ListSessions(c) ==
  LET to == IF actor[c].op \in {"expose", "resume"} THEN actor[c].proto ELSE None IN
  /\ actor[c].pc = "list"
  /\ actor' = [actor EXCEPT ![c].pc = "edit", ![c].todo = live \X {to}]
  /\ UNCHANGED <<rows, live, exposed, local, mesh, unsure, overlap>>

\* restoreExposedServicesFor, started on EventPortalReady.
Restore(s) ==
  /\ s \in live
  /\ Starts(s, "rows", "restore", None)
  /\ UNCHANGED <<rows, live, exposed, local, mesh, unsure>>

\* Mutant: paused services are restored too.
ListAllRows(s) ==
  /\ actor[s].pc = "rows"
  /\ actor' = [actor EXCEPT ![s].pc = "edit",
                            ![s].todo = {<<s, p>> : p \in ListExposedServices({"off", "on"})}]
  /\ UNCHANGED <<rows, live, exposed, local, mesh, unsure, overlap>>

ListRows(s) ==
  /\ actor[s].pc = "rows"
  /\ actor' = [actor EXCEPT ![s].pc = "edit",
                            ![s].todo = {<<s, p>> : p \in ListExposedServices({"on"})}]
  /\ UNCHANGED <<rows, live, exposed, local, mesh, unsure, overlap>>

\* Forwarder.ExposeTarget or Unexpose in the next session.
EditForwarder(a) ==
  \E e \in actor[a].todo :
  /\ actor[a].pc = "edit"
  /\ exposed' = IF e[2] = None THEN exposed \ {e[1]} ELSE exposed \union {e[1]}
  /\ actor' = [actor EXCEPT ![a].pc = "local", ![a].at = e, ![a].todo = @ \ {e}]
  /\ UNCHANGED <<rows, live, local, mesh, unsure, overlap>>

\* AnnounceService or UnannounceService, under the lock.
EditLocal(a) ==
  LET s == actor[a].at[1] IN
  /\ actor[a].pc = "local"
  /\ local' = [local EXCEPT ![s] = actor[a].at[2]]
  /\ unsure' = IF peer[s] = "replaying"
                    \/ \E b \in Actor \ {a} : actor[b].pc = "send" /\ actor[b].at[1] = s
                 THEN unsure \union {s} ELSE unsure
  /\ Goes(a, "send")
  /\ UNCHANGED <<rows, live, exposed, mesh, overlap>>

\* broadcastControl, after the lock is given back.
Broadcast(a) ==
  LET s == actor[a].at[1] IN
  /\ actor[a].pc = "send"
  /\ ctl' = IF peer[s] \in {"open", "replaying", "ready"}
            THEN [ctl EXCEPT ![s] = Append(@, actor[a].at[2])] ELSE ctl
  /\ actor' = [actor EXCEPT ![a].pc = "edit", ![a].at = <<>>]
  /\ UNCHANGED <<rows, live, exposed, local, peer, replay, view, unsure, overlap>>

\* UnexposeService deletes the rows last.
Finish(a) ==
  /\ actor[a].pc = "edit" /\ actor[a].todo = {}
  /\ IF actor[a].op = "unexpose" THEN DeleteExposedService ELSE UNCHANGED rows
  /\ Ends(a)
  /\ UNCHANGED <<live, exposed, local, mesh, unsure, overlap>>

-----------------------------------------------------------------------------
(* Sessions and peers.                                                     *)

bringUpSession(s) ==
  /\ s \notin live /\ actor[s].pc = "idle"
  /\ live' = live \union {s}
  /\ UNCHANGED <<rows, exposed, local, actor, mesh, unsure, overlap>>

\* A session that is left for good.
closeSession(s) ==
  /\ s \in live
  /\ live' = live \ {s}
  /\ peer' = [peer EXCEPT ![s] = "left"]
  /\ ctl' = [ctl EXCEPT ![s] = <<>>]
  /\ actor' = [actor EXCEPT ![s].pc = IF Runs(s) THEN @ ELSE "done"]
  /\ UNCHANGED <<rows, exposed, local, replay, view, unsure, overlap>>

\* The control channel opens before the last of the four does.
ChannelOpens(s) ==
  /\ s \in live /\ peer[s] = "absent"
  /\ peer' = [peer EXCEPT ![s] = "open"]
  /\ UNCHANGED <<rows, live, exposed, local, actor, replay, ctl, view, unsure, overlap>>

\* Mutant: a peer that joins is told nothing.
TakeNothing(s) ==
  /\ peer[s] = "open"
  /\ peer' = [peer EXCEPT ![s] = "replaying"]
  /\ replay' = [replay EXCEPT ![s] = None]
  /\ UNCHANGED <<rows, live, exposed, local, actor, ctl, view, unsure, overlap>>

\* replayServicesTo: the snapshot under the lock, ...
TakeSnapshot(s) ==
  /\ peer[s] = "open"
  /\ peer' = [peer EXCEPT ![s] = "replaying"]
  /\ replay' = [replay EXCEPT ![s] = local[s]]
  /\ UNCHANGED <<rows, live, exposed, local, actor, ctl, view, unsure, overlap>>

\* ... and the frames after it.
Replay(s) ==
  /\ peer[s] = "replaying"
  /\ peer' = [peer EXCEPT ![s] = "ready"]
  /\ ctl' = IF replay[s] = None THEN ctl ELSE [ctl EXCEPT ![s] = Append(@, replay[s])]
  /\ UNCHANGED <<rows, live, exposed, local, actor, replay, view, unsure, overlap>>

\* handleControl on service.expose and service.unexpose.
handleControl(s) ==
  /\ ctl[s] # <<>>
  /\ view' = [view EXCEPT ![s] = Head(ctl[s])]
  /\ ctl' = [ctl EXCEPT ![s] = Tail(@)]
  /\ UNCHANGED <<rows, live, exposed, local, actor, peer, replay, unsure, overlap>>

\* OnMessage gives up on a frame its peer is too slow for.
DropControl(s) ==
  /\ ctl[s] # <<>>
  /\ ctl' = [ctl EXCEPT ![s] = Tail(@)]
  /\ unsure' = unsure \union {s}
  /\ UNCHANGED <<rows, live, exposed, local, actor, peer, replay, view, overlap>>

-----------------------------------------------------------------------------
Step(a) ==
  SaveRow(a) \/ ListSessions(a) \/ EditForwarder(a) \/ EditLocal(a) \/ Broadcast(a) \/ Finish(a)

PeerStep(s) == TakeSnapshot(s) \/ Replay(s) \/ handleControl(s)

PortNext ==
  \/ \E c \in Call :
       \/ UnexposeService(c)
       \/ \E p \in Proto : ExposeService(c, p) \/ \E op \in {"pause", "resume"} : SetExposeEnabled(c, p, op)
  \/ \E a \in Actor : Step(a)
  \/ \E s \in Session :
       \/ Restore(s) \/ ListRows(s) \/ PeerStep(s)
       \/ bringUpSession(s) \/ closeSession(s) \/ ChannelOpens(s) \/ DropControl(s)

PortSpec == PortInit /\ [][PortNext]_portVars

-----------------------------------------------------------------------------
PortTypeOK ==
  /\ rows \in [Proto -> {"none", "off", "on"}]
  /\ live \subseteq Session /\ exposed \subseteq Session /\ unsure \subseteq Session
  /\ overlap \in BOOLEAN
  /\ local \in [Session -> Service] /\ replay \in [Session -> Service] /\ view \in [Session -> Service]
  /\ actor \in [Actor -> [pc : {"idle", "save", "rows", "list", "edit", "local", "send", "done"},
                          op : {"none", "expose", "unexpose", "pause", "resume", "restore"},
                          proto : Service, todo : SUBSET (Session \X Service),
                          at : (Session \X Service) \union {<<>>}]]
  /\ peer \in [Session -> {"absent", "open", "replaying", "ready", "left"}]
  /\ ctl \in [Session -> Seq(Service)]

Settled(s) == \A a \in Actor : ~Runs(a) /\ peer[s] = "ready" /\ ctl[s] = <<>>

\* When nothing is under way a peer believes what localServices says, unless
\* two edits of the same session overlapped or a frame was dropped: the
\* broadcast and the replay are written outside the lock (manager.go:959-975,
\* 1230-1257), a peer that joins in the middle still sees every service.
PeersAgree ==
  \A s \in live \ unsure : Settled(s) => view[s] = local[s]

\* When no call is under way and no two have overlapped, a session shares the
\* port exactly if a saved row is enabled, in its forwarder and in its mesh,
\* whenever the session came up; but a port saved for both protocols has one
\* entry in either, and pausing one protocol stops both (app.go:2079-2090).
SharedAsSaved ==
  ~overlap /\ (\A a \in Actor : ~Runs(a)) =>
    \A s \in live : actor[s].pc = "done" =>
      /\ s \in exposed <=> local[s] # None
      /\ (\A p \in Proto : rows[p] # "on") => s \notin exposed
      /\ \A p \in Proto : rows[p] = "on" /\ (\A q \in Proto \ {p} : rows[q] = "none") => local[s] = p

\* The invariant of the calls on a port: the types, and the agreement of table,
\* forwarder and mesh that SharedAsSaved asks of ExposeService, UnexposeService,
\* SetExposeEnabled and the restore of a session (app.go:1975-2169).
ExposesInv == PortTypeOK /\ SharedAsSaved
=============================================================================
