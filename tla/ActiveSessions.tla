--------------------------- MODULE ActiveSessions ---------------------------
(***************************************************************************)
(* The portals the desktop app is in, and the rows that bring them back at *)
(* the next launch (client/app.go, client/sessions.go,                     *)
(* client/storage/active_sessions.go).                                     *)
(*                                                                         *)
(* Each create, join or resume is a goroutine of its own that brings up a  *)
(* session, waits for its mesh and records a row.  Beside it run the       *)
(* session's event pump, the user's LeavePortal, LeaveAllPortals and       *)
(* sign-out, and Shutdown; the process may also just die.  A session's     *)
(* mesh is seen from outside: asked, in, refused, closed.  The session is  *)
(* in the map before its mesh has dialed: who closes it then spends the    *)
(* one Close of the mesh (closeOnce) on a manager without a link, and the  *)
(* call dials on.  Such a mesh is in a portal with a run loop that ends on *)
(* the closed channel, before it has heard of the portal (deaf) or after;  *)
(* once it has left the portal the bare signaling link is there (linked).  *)
(***************************************************************************)
EXTENDS Naturals, Sequences

CONSTANTS Foreign,      \* portals of other people, to join
          Own,          \* IDs the server gives to the portals created here
          NoPortal,
          MaxSessions,  \* bound on sessions ever brought up
          MaxLaunches,  \* bound on launches of the app
          Habits        \* what the user does beyond waiting for each call

Portal == Foreign \union Own
AllHabits ==
  {"cancels",    \* presses X, Cancel or sign-out while a call is under way
   "rejoins",    \* joins a portal this app is already in
   "signsOut"}   \* signs out and in again without leaving the app

ASSUME ActiveSessionsAssumption ==
  /\ NoPortal \notin Portal
  /\ Foreign \intersect Own = {}
  /\ MaxSessions \in Nat /\ MaxLaunches \in Nat
  /\ Habits \subseteq AllHabits

VARIABLES
  phase, launches, locked,               \* the process
  up, issued,                            \* the server
  used, sessions, active,                \* App.sessions, App.activeID
  call, kind, target, row, gone,         \* the goroutine that set a session up
  mesh, once, portal, queue, view,       \* mesh.Manager, closeOnce, events, s.view
  closer, pid, leavingAll,               \* who tears a session down
  rows, toResume                         \* active_sessions, rows to redial

process == <<phase, launches, locked>>
server  == <<up, issued>>
app     == <<used, sessions, active>>
caller  == <<call, kind, target, row, gone>>
net     == <<mesh, once, portal, queue, view>>
ending  == <<closer, pid, leavingAll>>
stored  == <<rows, toResume>>
vars == <<process, server, app, caller, net, ending, stored>>

Sid == 1..MaxSessions
NoSid == 0

Init ==
  /\ phase = "off" /\ launches = 0 /\ locked = TRUE
  /\ up = Foreign /\ issued = {}
  /\ used = 0 /\ sessions = {} /\ active = NoSid
  /\ call = [s \in Sid |-> "none"]
  /\ kind = [s \in Sid |-> "joiner"]
  /\ target = [s \in Sid |-> NoPortal]
  /\ row = [s \in Sid |-> NoPortal]
  /\ gone = [s \in Sid |-> FALSE]
  /\ mesh = [s \in Sid |-> "new"]
  /\ once = [s \in Sid |-> FALSE]
  /\ portal = [s \in Sid |-> NoPortal]
  /\ queue = [s \in Sid |-> <<>>]
  /\ view = [s \in Sid |-> NoPortal]
  /\ closer = [s \in Sid |-> "none"]
  /\ pid = [s \in Sid |-> NoPortal]
  /\ leavingAll = "no"
  /\ rows = [p \in Portal |-> "none"]
  /\ toResume = {}

-----------------------------------------------------------------------------
(* The store.  Shutdown takes it away from everybody before it closes the  *)
(* sessions; the mutant takes it away only at the end.                     *)

DetachedLast == phase # "off"

StoreOpen == phase = "up"

\* forgetActiveSession.
Without(p) == IF StoreOpen /\ p \in Portal THEN [rows EXCEPT ![p] = "none"] ELSE rows

InFlight(s) ==
  call[s] \in {"starting", "waiting", "entered", "recorded", "failing", "dropped", "closing"}
Leaving == {"leave", "leaveClosed", "all"}
NobodyLeaves == leavingAll # "closing" /\ \A s \in Sid : closer[s] \notin Leaving
Quiet == toResume = {} /\ NobodyLeaves /\ \A s \in Sid : ~InFlight(s)

\* The session is connected and the call that set it up has returned.
Settled(s) == s \in sessions /\ call[s] = "done" /\ view[s] # NoPortal

UserActs == phase = "up" /\ ~locked /\ (leavingAll # "closing" \/ "cancels" \in Habits)

-----------------------------------------------------------------------------
(* Bringing a session up: createPortal, joinPortal and resumeOne.          *)

\* newSessionID
NewSessionID(s) == s <= MaxSessions /\ used' = s

\* bringUpSession, for kind k, portal p, on behalf of row r.
BringUp(k, p, r, foreground) ==
  LET s == used + 1 IN
  /\ NewSessionID(s)
  /\ sessions' = sessions \union {s}
  /\ active' = IF foreground THEN s ELSE active
  /\ call' = [call EXCEPT ![s] = "starting"]
  /\ kind' = [kind EXCEPT ![s] = k]
  /\ target' = [target EXCEPT ![s] = p]
  /\ row' = [row EXCEPT ![s] = r]
  /\ UNCHANGED <<gone, process, server, net, closer, pid, rows>>

UserCreates ==
  /\ UserActs
  /\ \E foreground \in BOOLEAN : BringUp("owner", NoPortal, NoPortal, foreground)
  /\ leavingAll' = "no"
  /\ UNCHANGED toResume

\* The dashboard offers no portal that is already in the strip, and awaits
\* LeavePortal before it lists the portals again.
UserJoins(p) ==
  /\ UserActs
  /\ \/ "rejoins" \in Habits
     \/ /\ \A s \in Sid : target[s] = p =>
              s \notin sessions /\ ~InFlight(s) /\ closer[s] \notin Leaving
        /\ \A x \in toResume : x[1] # p
  /\ \E foreground \in BOOLEAN : BringUp("joiner", p, NoPortal, foreground)
  /\ leavingAll' = "no"
  /\ UNCHANGED toResume

\* resumeOne, in the background.
ResumeOne(x) ==
  /\ phase # "off" /\ x \in toResume
  /\ toResume' = toResume \ {x}
  /\ BringUp(x[2], IF x[2] = "owner" THEN NoPortal ELSE x[1], x[1], FALSE)
  /\ UNCHANGED leavingAll

\* mesh.CreatePortal / mesh.JoinPortal: a mesh closed in the meantime dials
\* and asks all the same.
Dial(s) ==
  /\ call[s] = "starting"
  /\ \/ /\ call' = [call EXCEPT ![s] = "waiting"]
        /\ mesh' = [mesh EXCEPT ![s] = "asked"]
     \/ /\ call' = [call EXCEPT ![s] = "failing"]
        /\ UNCHANGED mesh
  /\ UNCHANGED <<process, server, app, kind, target, row, gone, once, portal, queue, view,
                 ending, stored>>

\* waitPortalReady sees mesh.Portal(); createPortal then sets the view, the
\* joiner leaves that to the pump.
SeesReady(s) ==
  /\ call[s] = "waiting" /\ portal[s] # NoPortal /\ mesh[s] # "deaf"
  /\ call' = [call EXCEPT ![s] = "entered"]
  /\ view' = IF kind[s] = "owner" THEN [view EXCEPT ![s] = portal[s]] ELSE view
  /\ UNCHANGED <<process, server, app, kind, target, row, gone, mesh, once, portal, queue,
                 ending, stored>>

\* waitPortalReady takes the server's refusal from InitialError.
SeesRefused(s) ==
  /\ call[s] = "waiting" /\ mesh[s] \in {"gone", "refused"}
  /\ call' = [call EXCEPT ![s] = "failing"]
  /\ gone' = [gone EXCEPT ![s] = mesh[s] = "gone"]
  /\ UNCHANGED <<process, server, app, kind, target, row, net, ending, stored>>

\* The deadline of waitPortalReady, which may beat a portal that comes at the
\* last moment; the mutant has none.
NeverTimesOut(s) == FALSE

TimesOut(s) ==
  /\ call[s] = "waiting"
  /\ call' = [call EXCEPT ![s] = "failing"]
  /\ UNCHANGED <<process, server, app, kind, target, row, gone, net, ending, stored>>

\* persistEnter; then resumeOne drops the row it has replaced.
Record(s) ==
  /\ call[s] = "entered"
  /\ rows' = IF StoreOpen THEN [rows EXCEPT ![portal[s]] = kind[s]] ELSE rows
  /\ call' = [call EXCEPT ![s] =
                IF kind[s] = "owner" /\ row[s] # NoPortal THEN "recorded" ELSE "done"]
  /\ UNCHANGED <<process, server, app, kind, target, row, gone, net, ending, toResume>>

\* The mutant mistakes the new portal for the old one.
ForgetReplacement(s) ==
  /\ call[s] = "recorded"
  /\ rows' = IF row[s] # portal[s] THEN Without(portal[s]) ELSE rows
  /\ call' = [call EXCEPT ![s] = "done"]
  /\ UNCHANGED <<process, server, app, kind, target, row, gone, net, ending, toResume>>

ForgetReplaced(s) ==
  /\ call[s] = "recorded"
  /\ rows' = IF row[s] # portal[s] THEN Without(row[s]) ELSE rows
  /\ call' = [call EXCEPT ![s] = "done"]
  /\ UNCHANGED <<process, server, app, kind, target, row, gone, net, ending, toResume>>

-----------------------------------------------------------------------------
(* Taking a session down.                                                  *)

\* Removing s from the map, and from the foreground.
Unmap(s) ==
  /\ sessions' = sessions \ {s}
  /\ active' = IF active = s THEN NoSid ELSE active
  /\ UNCHANGED used

\* closeSession: mesh.Leave and mesh.Close.  The Leave takes the mesh out of
\* its portal, and the server ends an owner's portal.  The first Close ends
\* the signaling link; its run loop may see that end before the closed
\* channel, and then emits one more EventPortalClosed.  A second Close does
\* nothing, and the link of a mesh that dialed in between stays.
CloseSession(s) ==
  /\ once' = [once EXCEPT ![s] = TRUE]
  /\ mesh' = [mesh EXCEPT ![s] = IF once[s] /\ @ # "closed" THEN "linked" ELSE "closed"]
  /\ up' = IF kind[s] = "owner" THEN up \ {portal[s]} ELSE up
  /\ \/ UNCHANGED queue
     \/ /\ ~once[s] /\ mesh[s] \in {"asked", "in", "gone", "refused"}
        /\ queue' = [queue EXCEPT ![s] = Append(@, "closed")]

\* closeSession waits for the pump.  It would go on after 2 seconds, which a
\* pump that only has its queue to relay does not need.
PumpDone(s) == once[s] /\ queue[s] = <<>>

\* dropSession after a failed call, then its closeSession; the mutant takes a
\* mesh that was never answered for one that needs no closing.
DropSession(s) ==
  /\ call[s] = "failing"
  /\ Unmap(s)
  /\ call' = [call EXCEPT ![s] = "dropped"]
  /\ UNCHANGED <<process, server, kind, target, row, gone, net, ending, stored>>

CloseUnlessAsked(s) ==
  /\ call[s] = "dropped"
  /\ IF mesh[s] # "asked" THEN CloseSession(s)
                          ELSE once' = [once EXCEPT ![s] = TRUE] /\ UNCHANGED <<mesh, up, queue>>
  /\ call' = [call EXCEPT ![s] = "closing"]
  /\ UNCHANGED <<process, issued, app, kind, target, row, gone, portal, view, ending, stored>>

CloseDropped(s) ==
  /\ call[s] = "dropped"
  /\ CloseSession(s)
  /\ call' = [call EXCEPT ![s] = "closing"]
  /\ UNCHANGED <<process, issued, app, kind, target, row, gone, portal, view, ending, stored>>

\* The call returns its error; a resumed row goes when the portal is gone.
Fail(s) ==
  /\ call[s] = "closing" /\ PumpDone(s)
  /\ call' = [call EXCEPT ![s] = "failed"]
  /\ rows' = IF kind[s] = "joiner" /\ gone[s] THEN Without(row[s]) ELSE rows
  /\ UNCHANGED <<process, server, app, kind, target, row, gone, net, ending, toResume>>

\* LeavePortal and Leave: the portal to forget is the one in the view now.
BeginLeave(s) ==
  /\ s \in sessions
  /\ Unmap(s)
  /\ closer' = [closer EXCEPT ![s] = "leave"]
  /\ pid' = [pid EXCEPT ![s] = view[s]]

LeavePortal(s) ==
  /\ UserActs /\ (Settled(s) \/ "cancels" \in Habits)
  /\ BeginLeave(s)
  /\ UNCHANGED <<process, server, caller, net, leavingAll, stored>>

\* The sign-out button: Leave for the foreground session, then the lock.
SignOut ==
  /\ phase = "up" /\ ~locked /\ "signsOut" \in Habits
  /\ "cancels" \in Habits \/ Quiet
  /\ IF active \in sessions THEN BeginLeave(active) ELSE UNCHANGED <<app, closer, pid>>
  /\ locked' = TRUE
  /\ UNCHANGED <<phase, launches, server, caller, net, leavingAll, stored>>

\* LeaveAllPortals, until every session it found is closed.
LeaveAll ==
  /\ UserActs /\ leavingAll # "closing" /\ (Quiet \/ "cancels" \in Habits)
  /\ sessions' = {} /\ active' = NoSid
  /\ closer' = [s \in Sid |-> IF s \in sessions THEN "all" ELSE closer[s]]
  /\ leavingAll' = "closing"
  /\ UNCHANGED <<process, server, used, caller, net, pid, stored>>

\* Shutdown takes the store away and every session out of the map.  pid
\* notes the portal of a settled one, for KeptForNextLaunch.
Shutdown ==
  /\ phase = "up" /\ (NobodyLeaves \/ "cancels" \in Habits)
  /\ phase' = "closing"
  /\ sessions' = {} /\ active' = NoSid
  /\ closer' = [s \in Sid |-> IF s \in sessions THEN "quit" ELSE closer[s]]
  /\ pid' = [s \in Sid |-> IF Settled(s) THEN view[s] ELSE pid[s]]
  /\ UNCHANGED <<launches, locked, server, used, caller, net, leavingAll, stored>>

Closed(c) == CASE c = "leave" -> "leaveClosed" [] c = "all" -> "allClosed" [] c = "quit" -> "quitClosed"

\* The mutant closes no session that is not in a portal yet.
CloseKnown(s) ==
  /\ closer[s] \in {"leave", "all", "quit"}
  /\ IF portal[s] # NoPortal THEN CloseSession(s) ELSE UNCHANGED <<mesh, once, up, queue>>
  /\ closer' = [closer EXCEPT ![s] = Closed(@)]
  /\ UNCHANGED <<process, issued, app, caller, portal, view, pid, leavingAll, stored>>

Close(s) ==
  /\ closer[s] \in {"leave", "all", "quit"}
  /\ CloseSession(s)
  /\ closer' = [closer EXCEPT ![s] = Closed(@)]
  /\ UNCHANGED <<process, issued, app, caller, portal, view, pid, leavingAll, stored>>

\* The last step of LeavePortal; the mutant closes and leaves it at that.
LeaveKeepsRow(s) ==
  /\ closer[s] = "leaveClosed" /\ PumpDone(s)
  /\ closer' = [closer EXCEPT ![s] = "left"]
  /\ UNCHANGED <<process, server, app, caller, net, pid, leavingAll, stored>>

ForgetLeft(s) ==
  /\ closer[s] = "leaveClosed" /\ PumpDone(s)
  /\ rows' = Without(pid[s])
  /\ closer' = [closer EXCEPT ![s] = "left"]
  /\ UNCHANGED <<process, server, app, caller, net, pid, leavingAll, toResume>>

\* The last step of LeaveAllPortals.
AllDone(s) == closer[s] # "all" /\ (closer[s] = "allClosed" => PumpDone(s))

ClearRows ==
  /\ leavingAll = "closing" /\ \A s \in Sid : AllDone(s)
  /\ leavingAll' = "done"
  /\ rows' = IF StoreOpen THEN [p \in Portal |-> "none"] ELSE rows
  /\ UNCHANGED <<process, server, app, caller, net, closer, pid, toResume>>

-----------------------------------------------------------------------------
(* The event pump of a session: relayEvent.                                *)

RelayReady(s) ==
  /\ queue[s] # <<>> /\ Head(queue[s]) = "ready"
  /\ queue' = [queue EXCEPT ![s] = Tail(@)]
  /\ view' = [view EXCEPT ![s] = portal[s]]
  /\ UNCHANGED <<process, server, app, caller, mesh, once, portal, ending, stored>>

RelayClosed(s) ==
  /\ queue[s] # <<>> /\ Head(queue[s]) = "closed"
  /\ queue' = [queue EXCEPT ![s] = Tail(@)]
  /\ Unmap(s)
  /\ rows' = Without(view[s])
  /\ UNCHANGED <<process, server, caller, mesh, once, portal, view, ending, toResume>>

\* pumpSession takes Done instead: what is queued is never relayed.
PumpEnds(s) ==
  /\ once[s] /\ queue[s] # <<>>
  /\ queue' = [queue EXCEPT ![s] = <<>>]
  /\ UNCHANGED <<process, server, app, caller, mesh, once, portal, view, ending, stored>>

\* SwitchPortal.
SwitchPortal(s) ==
  /\ UserActs /\ s \in sessions /\ active # s
  /\ active' = s
  /\ UNCHANGED <<process, server, used, sessions, caller, net, ending, stored>>

-----------------------------------------------------------------------------
(* The server.                                                             *)

\* The run loop of a closed mesh may end before it hears of the portal, and
\* what it hears need not reach the pump any more.
Enters(s, p) ==
  /\ portal' = [portal EXCEPT ![s] = p]
  /\ \/ /\ mesh' = [mesh EXCEPT ![s] = "in"]
        /\ queue' = [queue EXCEPT ![s] = Append(@, "ready")]
     \/ /\ once[s]
        /\ \E m \in {"in", "deaf"} : mesh' = [mesh EXCEPT ![s] = m]
        /\ UNCHANGED queue

ServerAdmits(s) ==
  /\ mesh[s] = "asked"
  /\ \/ /\ kind[s] = "owner"
        /\ \E p \in Own \ issued :
             issued' = issued \union {p} /\ up' = up \union {p} /\ Enters(s, p)
     \/ /\ kind[s] = "joiner" /\ target[s] \in up
        /\ Enters(s, target[s])
        /\ UNCHANGED server
  /\ UNCHANGED <<process, app, caller, once, view, ending, stored>>

ServerRefuses(s) ==
  /\ mesh[s] = "asked"
  /\ mesh' = [mesh EXCEPT ![s] =
                IF kind[s] = "joiner" /\ target[s] \notin up THEN "gone" ELSE "refused"]
  /\ UNCHANGED <<process, server, app, caller, once, portal, queue, view, ending, stored>>

\* The run loop of a closed mesh has ended by then.
ServerClosesPortal(p) ==
  /\ p \in up
  /\ up' = up \ {p}
  /\ queue' = [s \in Sid |-> IF mesh[s] = "in" /\ ~once[s] /\ portal[s] = p
                             THEN Append(queue[s], "closed") ELSE queue[s]]
  /\ UNCHANGED <<issued, process, app, caller, mesh, once, portal, view, ending, stored>>

-----------------------------------------------------------------------------
(* The process.                                                            *)

Launch ==
  /\ phase = "off" /\ launches < MaxLaunches
  /\ phase' = "up" /\ launches' = launches + 1 /\ locked' = TRUE
  /\ closer' = [s \in Sid |-> IF closer[s] = "left" THEN "left" ELSE "none"]
  /\ UNCHANGED <<server, app, caller, net, pid, leavingAll, stored>>

\* Unlocking the vault calls ResumeActiveSessions.
SignIn ==
  /\ phase = "up" /\ locked
  /\ locked' = FALSE
  /\ toResume' = toResume \union {<<p, rows[p]>> : p \in {q \in Portal : rows[q] # "none"}}
  /\ leavingAll' = IF leavingAll = "done" THEN "no" ELSE leavingAll
  /\ UNCHANGED <<phase, launches, server, app, caller, net, closer, pid, rows>>

\* The process is gone, and with it every mesh; the rows stay.
Dies ==
  /\ phase' = "off"
  /\ sessions' = {} /\ active' = NoSid /\ toResume' = {}
  /\ call' = [s \in Sid |-> IF InFlight(s) THEN "dead" ELSE call[s]]
  /\ mesh' = [s \in Sid |-> IF s <= used THEN "closed" ELSE mesh[s]]
  /\ once' = [s \in Sid |-> s <= used \/ once[s]]
  /\ queue' = [s \in Sid |-> <<>>]
  /\ closer' = [s \in Sid |-> CASE closer[s] \in {"quit", "quitClosed"} -> "quitClosed"
                              [] closer[s] = "left" -> "left"
                              [] OTHER -> "none"]
  /\ up' = up \ {portal[s] : s \in {t \in Sid : kind[t] = "owner"}}
  /\ leavingAll' = "no"
  /\ UNCHANGED <<launches, locked, issued, used, kind, target, row, gone, portal, view, pid, rows>>

Exit ==
  /\ phase = "closing" /\ \A s \in Sid : closer[s] # "quit"
  /\ Dies

Crash == phase # "off" /\ Dies

-----------------------------------------------------------------------------
Caller(s) ==
  \/ Dial(s) \/ SeesReady(s) \/ SeesRefused(s) \/ TimesOut(s)
  \/ Record(s) \/ ForgetReplaced(s) \/ DropSession(s) \/ CloseDropped(s) \/ Fail(s)

Closer(s) == Close(s) \/ ForgetLeft(s)
Pump(s) == RelayReady(s) \/ RelayClosed(s) \/ PumpEnds(s)
User(s) == LeavePortal(s) \/ SwitchPortal(s)
Serves(s) == ServerAdmits(s) \/ ServerRefuses(s)

Next ==
  \/ \E s \in Sid : Caller(s) \/ Closer(s) \/ Pump(s) \/ User(s) \/ Serves(s)
  \/ \E p \in Foreign : UserJoins(p) \/ ServerClosesPortal(p)
  \/ \E x \in toResume : ResumeOne(x)
  \/ UserCreates \/ SignIn \/ SignOut \/ LeaveAll \/ ClearRows
  \/ Shutdown \/ Launch \/ Exit \/ Crash

\* Goroutines that are not blocked run.
Fairness == \A s \in Sid : WF_vars(Caller(s)) /\ WF_vars(Closer(s)) /\ WF_vars(Pump(s))

Spec == Init /\ [][Next]_vars
FairSpec == Spec /\ Fairness

-----------------------------------------------------------------------------
TypeOK ==
  /\ phase \in {"off", "up", "closing"} /\ launches \in 0..MaxLaunches /\ locked \in BOOLEAN
  /\ up \subseteq Portal /\ issued \subseteq Own
  /\ used \in 0..MaxSessions /\ sessions \subseteq 1..used /\ active \in 0..used
  /\ call \in [Sid -> {"none", "starting", "waiting", "entered", "recorded",
                       "failing", "dropped", "closing", "failed", "done", "dead"}]
  /\ kind \in [Sid -> {"owner", "joiner"}]
  /\ target \in [Sid -> Portal \union {NoPortal}]
  /\ row \in [Sid -> Portal \union {NoPortal}]
  /\ gone \in [Sid -> BOOLEAN]
  /\ mesh \in [Sid -> {"new", "asked", "in", "deaf", "gone", "refused", "linked", "closed"}]
  /\ once \in [Sid -> BOOLEAN]
  /\ portal \in [Sid -> Portal \union {NoPortal}]
  /\ queue \in [Sid -> Seq({"ready", "closed"})]
  /\ view \in [Sid -> Portal \union {NoPortal}]
  /\ closer \in [Sid -> {"none", "leave", "leaveClosed", "left", "all", "allClosed",
                         "quit", "quitClosed"}]
  /\ pid \in [Sid -> Portal \union {NoPortal}]
  /\ leavingAll \in {"no", "closing", "done"}
  /\ rows \in [Portal -> {"none", "owner", "joiner"}]
  /\ toResume \subseteq Portal \X {"owner", "joiner"}

(***************************************************************************)
(* The foreground session is a live one: whoever takes a session out of    *)
(* the map (LeavePortal, a failed call, the pump, sign-out) also takes it  *)
(* out of the foreground, or the UI would keep rendering a dead portal.    *)
(***************************************************************************)
ActiveIsLive == active # NoSid => active \in sessions

(***************************************************************************)
(* LeavePortal's promise: an explicit X means "don't bring this back next  *)
(* launch".  When it has returned, the row of the portal that session was  *)
(* in is gone, and stays gone, unless a later session entered it again.    *)
(***************************************************************************)
LeftIsForgotten ==
  \A s \in Sid : closer[s] = "left" /\ portal[s] # NoPortal =>
    \/ rows[portal[s]] = "none"
    \/ \E t \in Sid : t > s /\ portal[t] = portal[s]

(***************************************************************************)
(* persistEnter's promise: a portal the app is in can be restored after a  *)
(* restart.  Whatever the other sessions do (leave, fail, get resumed or   *)
(* replaced), the row of a connected session is there.                     *)
(***************************************************************************)
LiveHasRow ==
  phase = "up" =>
    \A s \in sessions : Settled(s) /\ queue[s] = <<>> => rows[portal[s]] # "none"

(***************************************************************************)
(* Quitting is not leaving: Leave and Close on every session make the      *)
(* meshes report their portals closed, and none of these late events may   *)
(* cost a connected portal its row.                                        *)
(***************************************************************************)
KeptForNextLaunch ==
  \A s \in Sid : closer[s] \in {"quit", "quitClosed"} /\ pid[s] # NoPortal =>
    rows[pid[s]] # "none"

(***************************************************************************)
(* A call that failed (dropSession: "a stillborn session doesn't linger in *)
(* the active-portals strip") leaves nothing behind: no session in the map *)
(* and a mesh that is closed, or, if a leave or a quit spent its Close     *)
(* while it dialed, one that has left its portal and keeps only a bare     *)
(* signaling link.                                                         *)
(***************************************************************************)
FailureLeavesNothing ==
  \A s \in Sid : call[s] = "failed" =>
    /\ s \notin sessions
    /\ \/ mesh[s] = "closed"
       \/ mesh[s] = "linked" /\ closer[s] \in {"leaveClosed", "left", "allClosed", "quitClosed"}

(***************************************************************************)
(* Every call returns, admitted, refused, unanswered or left meanwhile.    *)
(***************************************************************************)
EveryCallReturns ==
  \A s \in Sid : call[s] = "starting" ~> call[s] \in {"done", "failed", "dead"}

(***************************************************************************)
(* No mesh stays in a portal that the app cannot reach and nobody is       *)
(* closing, whatever call, leave and pump get in each other's way - except *)
(* in a portal the server has ended: relayEvent then forgets the session   *)
(* and closes nothing (app.go: "the mesh has already torn itself down");   *)
(* and except a mesh closed before its call had dialed, which came in all  *)
(* the same: its call is still under way, and takes the mesh out again if  *)
(* it fails, or it has returned success for a session nobody can reach.    *)
(***************************************************************************)
CameInClosed(s) ==
  once[s] /\ (call[s] \in {"waiting", "entered", "recorded"} \/ (call[s] = "done" /\ mesh[s] = "in"))

OrphanOnlyAtEnd ==
  \A s \in Sid : mesh[s] \in {"in", "deaf"} =>
    \/ s \in sessions \/ call[s] \in {"failing", "dropped"}
    \/ closer[s] \in {"leave", "all", "quit"}
    \/ portal[s] \notin up
    \/ CameInClosed(s)

=============================================================================
