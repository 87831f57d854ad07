---------------------------- MODULE MeshSession ----------------------------
(***************************************************************************)
(* The life of one mesh.Manager (client/mesh/manager.go): it enters a      *)
(* portal over a signaling connection, redials when that connection drops, *)
(* and is left and closed.  The session is published before its manager    *)
(* has dialed, so that Leave and Close may come at any point of the call   *)
(* that enters and of a reconnect.  The threads that touch the manager are *)
(* the call that enters (which leaves and closes it again when it fails),  *)
(* the user's Leave and Close, the run loop (run, attemptReconnect and the *)
(* event handlers) and the read pump of each signaling client.             *)
(*                                                                         *)
(* The signaling server is external: a portal that is up or not, one seat  *)
(* per session, requests handled in order, answers pushed in order.        *)
(***************************************************************************)
EXTENDS Naturals, Sequences

CONSTANTS Remote,       \* the other peers of the portal
          OwnerChoices, \* which of {TRUE, FALSE} the run explores: create or join
          MaxSessions,  \* bound on signaling connections dialed
          MaxAttempts,  \* maxAttempts of attemptReconnect (8 in the code)
          QueueBound    \* bound on events pushed but not handled

ASSUME MeshSessionAssumption ==
  /\ OwnerChoices \subseteq BOOLEAN
  /\ MaxSessions \in Nat \ {0}
  /\ MaxAttempts \in Nat \ {0}
  /\ QueueBound \in Nat \ {0}

VARIABLES
  \* server
  portalUp, others, seat, requests, pushed,
  \* signaling clients
  dialed, link,
  \* manager
  sig, wasOwner, wantPortal, portal, peers, peersNil, closed,
  \* threads
  enter, run, attempt, app, crashed,
  \* history: what the Close met, what the first Leave met, and the rejoin
  \* requests sent since that Leave
  overtaken, left, again

server == <<portalUp, others, seat, requests, pushed>>
client == <<dialed, link>>
state  == <<sig, wasOwner, wantPortal, portal, peers, peersNil, closed>>
threads == <<enter, run, attempt, app, crashed>>
history == <<overtaken, left, again>>
vars   == <<server, client, state, threads, history>>

\* Who leaves and closes: the user (LeavePortal, Shutdown), or the call that
\* entered and failed (dropSession).
Closer == {"user", "caller"}

Session == 1..MaxSessions

\* Events the server pushes.  A roster comes with joined, a peer with the
\* peer events.
Event == [type: {"created", "joined", "peer_joined", "peer_left", "closed", "error"},
          who: SUBSET Remote]
Ev(type, who) == [type |-> type, who |-> who]

NoPeers == [r \in Remote |-> 0]

Init ==
  /\ portalUp \in BOOLEAN
  /\ others \in SUBSET Remote
  /\ seat = [k \in Session |-> FALSE]
  /\ requests = [k \in Session |-> <<>>]
  /\ pushed = [k \in Session |-> <<>>]
  /\ dialed = 0
  /\ link = [k \in Session |-> "none"]
  /\ sig = 0
  /\ wasOwner \in OwnerChoices
  /\ wasOwner => ~portalUp
  /\ wantPortal = FALSE
  /\ portal = FALSE
  /\ peers = NoPeers        \* peers[r]: the session in which r's entry was made
  /\ peersNil = FALSE
  /\ closed = FALSE
  /\ run = "off"
  /\ attempt = 0
  /\ enter = "start"
  /\ app = [c \in Closer |-> "idle"]
  /\ crashed = FALSE
  /\ overtaken = "no"
  /\ left = "no"
  /\ again = 0

-----------------------------------------------------------------------------
(* The server and the network.                                             *)

\* A push over a dead connection is lost.
Push(k, e) ==
  pushed' = IF link[k] = "open" THEN [pushed EXCEPT ![k] = Append(@, e)] ELSE pushed

\* Of what was under way on a connection that ends, a prefix still arrives.
Cut(k) ==
  \E n \in 0..Len(pushed[k]) : pushed' = [pushed EXCEPT ![k] = SubSeq(@, 1, n)]

\* What the server still does about a connection that has ended never reaches
\* this manager: its seat and its pending requests end with it, and with an
\* owner's seat the portal.
Forgets(k) ==
  /\ seat' = [seat EXCEPT ![k] = FALSE]
  /\ requests' = [requests EXCEPT ![k] = <<>>]
  /\ portalUp' = (portalUp /\ ~(wasOwner /\ seat[k]))

\* What is pushed to a session that is still connected.
PushAll(e) ==
  pushed' = [k \in Session |->
               IF seat[k] /\ link[k] = "open" THEN Append(pushed[k], e) ELSE pushed[k]]

HasRoom == \A k \in Session : Len(pushed[k]) < QueueBound

ServerHandles(k) ==
  /\ requests[k] # <<>>
  /\ requests' = [requests EXCEPT ![k] = Tail(@)]
  /\ UNCHANGED <<client, state, threads, history>>
  /\ LET q == Head(requests[k]) IN
     \/ /\ q = "create"
        /\ portalUp' = TRUE
        /\ others' = {}
        /\ seat' = [seat EXCEPT ![k] = TRUE]
        /\ Push(k, Ev("created", {}))
     \/ /\ q = "join" /\ portalUp
        /\ seat' = [seat EXCEPT ![k] = TRUE]
        /\ Push(k, Ev("joined", others))
        /\ UNCHANGED <<portalUp, others>>
     \/ /\ q = "join" /\ ~portalUp
        /\ Push(k, Ev("error", {}))
        /\ UNCHANGED <<portalUp, others, seat>>
     \/ /\ q = "leave"
        /\ seat' = [seat EXCEPT ![k] = FALSE]
        /\ portalUp' = (portalUp /\ ~wasOwner)
        /\ UNCHANGED <<others, pushed>>

\* A peer joins or leaves; every seat hears of it.
ServerPeer(r) ==
  /\ portalUp /\ HasRoom
  /\ \/ r \notin others /\ others' = others \union {r} /\ PushAll(Ev("peer_joined", {r}))
     \/ r \in others /\ others' = others \ {r} /\ PushAll(Ev("peer_left", {r}))
  /\ UNCHANGED <<portalUp, seat, requests, client, state, threads, history>>

\* The portal goes away under a joiner: its owner left.
ServerClosesPortal ==
  /\ portalUp /\ ~wasOwner /\ HasRoom
  /\ portalUp' = FALSE
  /\ seat' = [k \in Session |-> FALSE]
  /\ PushAll(Ev("closed", {}))
  /\ UNCHANGED <<others, requests, client, state, threads, history>>

\* The WebSocket drops: the read pump ends and closes Events.
LinkDrops(k) ==
  /\ link[k] = "open"
  /\ link' = [link EXCEPT ![k] = "dropped"]
  /\ Cut(k) /\ Forgets(k)
  /\ UNCHANGED <<others, dialed, state, threads, history>>

-----------------------------------------------------------------------------
(* The signaling client (signaling.Client).                                *)

\* Dial succeeds: one more client, its read pump running.
DialOK ==
  /\ dialed < MaxSessions
  /\ dialed' = dialed + 1
  /\ link' = [link EXCEPT ![dialed + 1] = "open"]

\* Client.Close.
Closes(k) == [link EXCEPT ![k] = IF @ = "none" THEN @ ELSE "closed"]

\* Client.send: refused once the client is closed, lost with a dead link.
SendsOn(k, q) ==
  requests' = IF k # 0 /\ link[k] = "open"
              THEN [requests EXCEPT ![k] = Append(@, q)] ELSE requests

-----------------------------------------------------------------------------
(* CreatePortal / JoinPortal, on a session that is published already.      *)

\* dial installs the new client without looking at closed.
EnterDials ==
  /\ enter = "start" /\ ~crashed
  /\ \/ /\ DialOK
        /\ sig' = dialed + 1
        /\ enter' = "dialed"
     \/ /\ enter' = "failed"
        /\ UNCHANGED <<client, sig>>
  /\ UNCHANGED <<server, wasOwner, wantPortal, portal, peers, peersNil, closed,
                 run, attempt, app, crashed, history>>

\* The bookkeeping for reconnects, whatever a Leave said meanwhile.
EnterWants ==
  /\ enter = "dialed" /\ ~crashed
  /\ wantPortal' = TRUE
  /\ enter' = "wanting"
  /\ UNCHANGED <<server, client, sig, wasOwner, portal, peers, peersNil, closed,
                 run, attempt, app, crashed, history>>

\* The request: a write on a dead link is lost or fails.
EnterRequests ==
  /\ enter = "wanting" /\ ~crashed
  /\ \/ /\ link[sig] # "closed"
        /\ SendsOn(sig, IF wasOwner THEN "create" ELSE "join")
        /\ enter' = "requested"
     \/ /\ link[sig] # "open"
        /\ enter' = "failed"
        /\ UNCHANGED requests
  /\ UNCHANGED <<portalUp, others, seat, pushed, client, state,
                 run, attempt, app, crashed, history>>

\* startRuntime, also of a manager that is closed by now.
StartRuntime ==
  /\ enter = "requested" /\ ~crashed
  /\ run' = "select"
  /\ enter' = "awaiting"
  /\ UNCHANGED <<server, client, state, attempt, app, crashed, history>>

\* waitPortalReady: the portal is there, or an error or the deadline is.
EnterReturns ==
  /\ enter = "awaiting" /\ ~crashed
  /\ enter' \in (IF portal THEN {"entered"} ELSE {}) \union {"failed"}
  /\ UNCHANGED <<server, client, state, run, attempt, app, crashed, history>>

-----------------------------------------------------------------------------
(* Leave and Close: closeSession runs them one after the other, for each   *)
(* of the two that may close.                                              *)

Redialing == {"backoff", "dialing", "dialed", "swapped"}

App(c, pc) == app' = [app EXCEPT ![c] = pc]

\* Leave, first half: no reconnect from here on, unless the entering call
\* has yet to say that it wants the portal.
Leave(c) ==
  /\ app[c] = "idle" /\ ~crashed
  /\ c = "caller" => enter = "failed"
  /\ wantPortal' = FALSE
  /\ App(c, "leaving")
  /\ left' = IF left # "no" \/ enter \in {"start", "dialed"} THEN left
             ELSE IF run \in Redialing THEN "reconnecting" ELSE "resting"
  /\ UNCHANGED <<server, client, sig, wasOwner, portal, peers, peersNil, closed,
                 enter, run, attempt, crashed, overtaken, again>>

\* Leave, second half: portal.leave over whatever client is current.
LeaveSend(c) ==
  /\ app[c] = "leaving" /\ ~crashed
  /\ SendsOn(sig, "leave")
  /\ App(c, "left")
  /\ UNCHANGED <<portalUp, others, seat, pushed, client, state, enter, run, attempt,
                 crashed, history>>

\* closeOnce: nobody has begun to close.
Unclosed == ~closed /\ \A c \in Closer : app[c] \notin {"sigClosed", "peersClosed"}

\* Close: the signaling client first, if there is one by now.  What is about
\* to install another one, or to want one, is overtaken.  The mutant leaves
\* the link open.
Overtaken ==
  IF enter = "start" THEN "enter"
  ELSE IF run \in Redialing THEN "redial"
  ELSE IF wantPortal /\ (run # "off" \/ enter = "requested") THEN "wanted" ELSE "no"

CloseSigForgotten(c) ==
  /\ app[c] = "left" /\ ~crashed
  /\ Unclosed
  /\ overtaken' = Overtaken
  /\ App(c, "sigClosed")
  /\ UNCHANGED <<server, client, state, enter, run, attempt, crashed, left, again>>

CloseSig(c) ==
  /\ app[c] = "left" /\ ~crashed
  /\ Unclosed
  /\ IF sig = 0 THEN UNCHANGED <<link, pushed, seat, requests, portalUp>>
                ELSE link' = Closes(sig) /\ Cut(sig) /\ Forgets(sig)
  /\ overtaken' = Overtaken
  /\ App(c, "sigClosed")
  /\ UNCHANGED <<others, dialed, state, enter, run, attempt, crashed, left, again>>

\* Close: then every peer connection, and the map itself becomes nil.
ClosePeers(c) ==
  /\ app[c] = "sigClosed" /\ ~crashed
  /\ peers' = NoPeers
  /\ peersNil' = TRUE
  /\ App(c, "peersClosed")
  /\ UNCHANGED <<server, client, sig, wasOwner, wantPortal, portal, closed,
                 enter, run, attempt, crashed, history>>

\* Close: then the closed channel, on which every goroutine selects.
NeverSignalled(c) ==
  /\ app[c] = "peersClosed" /\ ~crashed
  /\ App(c, "waiting")
  /\ UNCHANGED <<server, client, state, enter, run, attempt, crashed, history>>

SignalClosed(c) ==
  /\ app[c] = "peersClosed" /\ ~crashed
  /\ closed' = TRUE
  /\ App(c, "waiting")
  /\ UNCHANGED <<server, client, sig, wasOwner, wantPortal, portal, peers, peersNil,
                 enter, run, attempt, crashed, history>>

\* A second Close finds closeOnce spent: it only waits.
CloseAgain(c) ==
  /\ app[c] = "left" /\ closed /\ ~crashed
  /\ App(c, "waiting")
  /\ UNCHANGED <<server, client, state, enter, run, attempt, crashed, history>>

\* Close: wg.Wait returns when the run loop has ended or was not started
\* (the other goroutines end on closed without doing anything the model can
\* see).
CloseReturns(c) ==
  /\ app[c] = "waiting" /\ ~crashed
  /\ run \in {"off", "done"}
  /\ App(c, "returned")
  /\ UNCHANGED <<server, client, state, enter, run, attempt, crashed, history>>

-----------------------------------------------------------------------------
(* The run loop.                                                           *)

\* onPeerJoinedWithRoster: known peers keep their entry.  Writing to the nil
\* map that Close leaves behind panics.
Enters(who) ==
  IF peersNil /\ who # {}
  THEN crashed' = TRUE /\ UNCHANGED peers
  ELSE /\ peers' = [r \in Remote |-> IF r \in who /\ peers[r] = 0 THEN sig ELSE peers[r]]
       /\ UNCHANGED crashed

\* handleSignalingEvent.  An error or a closed portal changes nothing here:
\* the first is reported on initialErr or as an event, the second as an event.
HandleEvent ==
  /\ run = "select" /\ ~crashed
  /\ sig # 0 /\ pushed[sig] # <<>>
  /\ pushed' = [pushed EXCEPT ![sig] = Tail(@)]
  /\ LET e == Head(pushed[sig]) IN
     \/ /\ e.type \in {"created", "joined"}
        /\ portal' = TRUE
        /\ Enters(e.who)
     \/ /\ e.type = "peer_joined"
        /\ Enters(e.who)
        /\ UNCHANGED portal
     \/ /\ e.type = "peer_left"
        /\ peers' = [r \in Remote |-> IF r \in e.who THEN 0 ELSE peers[r]]
        /\ UNCHANGED <<portal, crashed>>
     \/ /\ e.type \in {"closed", "error"}
        /\ UNCHANGED <<portal, peers, crashed>>
  /\ UNCHANGED <<portalUp, others, seat, requests, client, sig, wasOwner, wantPortal,
                 peersNil, closed, enter, run, attempt, app, history>>

\* shouldReconnect.
AlwaysReconnect == TRUE

ShouldReconnect == wantPortal

\* Events is closed and drained: reconnect, give up, or report the end.
EventsClosed ==
  /\ run = "select" /\ ~crashed
  /\ sig # 0 /\ link[sig] # "open" /\ pushed[sig] = <<>>
  /\ \/ /\ ShouldReconnect /\ ~wasOwner
        /\ run' = "backoff"
     \/ /\ ShouldReconnect /\ wasOwner
        /\ run' = "done"
     \/ /\ ~ShouldReconnect
        /\ run' = "done"
  /\ attempt' = 0
  /\ UNCHANGED <<server, client, state, enter, app, crashed, history>>

\* The select on closed: in run it is one ready case among others and Go picks
\* any of them; in the backoff of attemptReconnect it beats the timer.
SeesClosed ==
  /\ run \in {"select", "backoff"} /\ closed /\ ~crashed
  /\ run' = "done"
  /\ UNCHANGED <<server, client, state, enter, attempt, app, crashed, history>>

BackoffElapses ==
  /\ run = "backoff" /\ ~closed /\ ~crashed
  /\ run' = "dialing"
  /\ UNCHANGED <<server, client, state, enter, attempt, app, crashed, history>>

\* One attempt failed: the next one, or the end of the budget.  The mutant
\* does not count.
AttemptsUncounted ==
  /\ attempt' = 0
  /\ run' = "backoff"

NextAttempt ==
  /\ attempt' = attempt + 1
  /\ IF attempt + 1 = MaxAttempts
     THEN run' = "done"
     ELSE run' = "backoff"

RedialFails ==
  /\ run = "dialing" /\ ~crashed
  /\ NextAttempt
  /\ UNCHANGED <<server, client, state, enter, app, crashed, history>>

Redials ==
  /\ run = "dialing" /\ ~crashed
  /\ DialOK
  /\ run' = "dialed"
  /\ UNCHANGED <<server, state, enter, attempt, app, crashed, history>>

\* The new client replaces the old one, which is closed.  Nobody looks at
\* wantPortal or closed again.
SwapClient ==
  /\ run = "dialed" /\ ~crashed
  /\ sig' = dialed
  /\ link' = Closes(sig)
  /\ run' = "swapped"
  /\ UNCHANGED <<server, dialed, wasOwner, wantPortal, portal, peers, peersNil, closed,
                 enter, attempt, app, crashed, history>>

\* A write on a dead link is lost or fails; a failed one closes the client.
SendRejoin ==
  /\ run = "swapped" /\ ~crashed
  /\ \/ /\ link[sig] # "closed"
        /\ SendsOn(sig, "join")
        /\ run' = "rejoining"
        /\ again' = IF left = "no" THEN again ELSE again + 1
        /\ UNCHANGED <<link, attempt>>
     \/ /\ link[sig] # "open"
        /\ link' = Closes(sig)
        /\ NextAttempt
        /\ UNCHANGED <<requests, again>>
  /\ UNCHANGED <<portalUp, others, seat, pushed, dialed, state, enter, app, crashed,
                 overtaken, left>>

\* The entries of the old session go before any event of the new one is
\* handled; EventReconnected is emitted.  The mutant keeps them.
KeepPeers ==
  /\ run = "rejoining" /\ ~crashed
  /\ run' = "select"
  /\ UNCHANGED <<server, client, state, enter, attempt, app, crashed, history>>

ClearPeers ==
  /\ run = "rejoining" /\ ~crashed
  /\ peers' = NoPeers
  /\ run' = "select"
  /\ UNCHANGED <<server, client, sig, wasOwner, wantPortal, portal, peersNil, closed,
                 enter, attempt, app, crashed, history>>

-----------------------------------------------------------------------------
Reconnect ==
  \/ BackoffElapses \/ RedialFails \/ Redials
  \/ SwapClient \/ SendRejoin \/ ClearPeers

RunLoop == HandleEvent \/ EventsClosed \/ SeesClosed \/ Reconnect

Enter == EnterDials \/ EnterWants \/ EnterRequests \/ StartRuntime \/ EnterReturns

CloseSteps(c) ==
  \/ LeaveSend(c)
  \/ CloseSig(c) \/ ClosePeers(c) \/ SignalClosed(c) \/ CloseAgain(c) \/ CloseReturns(c)

Server ==
  \/ ServerClosesPortal
  \/ \E r \in Remote : ServerPeer(r)
  \/ \E k \in Session : ServerHandles(k) \/ LinkDrops(k)

Next ==
  \/ Server
  \/ Enter
  \/ \E c \in Closer : Leave(c) \/ CloseSteps(c)
  \/ RunLoop

\* The run loop and a leave that has begun keep going, and a select that keeps
\* finding closed ready picks it in the end.
Fairness ==
  /\ WF_vars(RunLoop)
  /\ WF_vars(SeesClosed)
  /\ \A c \in Closer : WF_vars(CloseSteps(c))

Spec == Init /\ [][Next]_vars
FairSpec == Spec /\ Fairness

-----------------------------------------------------------------------------
TypeOK ==
  /\ portalUp \in BOOLEAN /\ others \subseteq Remote
  /\ seat \in [Session -> BOOLEAN]
  /\ requests \in [Session -> Seq({"create", "join", "leave"})]
  /\ pushed \in [Session -> Seq(Event)]
  /\ dialed \in 0..MaxSessions
  /\ link \in [Session -> {"none", "open", "dropped", "closed"}]
  /\ sig \in 0..dialed
  /\ wasOwner \in BOOLEAN /\ wantPortal \in BOOLEAN /\ portal \in BOOLEAN
  /\ peers \in [Remote -> 0..MaxSessions]
  /\ peersNil \in BOOLEAN /\ closed \in BOOLEAN
  /\ enter \in {"start", "dialed", "wanting", "requested", "awaiting", "entered", "failed"}
  /\ run \in {"off", "select", "backoff", "dialing", "dialed", "swapped", "rejoining", "done"}
  /\ attempt \in 0..MaxAttempts
  /\ app \in [Closer -> {"idle", "leaving", "left", "sigClosed", "peersClosed",
                         "waiting", "returned"}]
  /\ crashed \in BOOLEAN
  /\ overtaken \in {"no", "enter", "redial", "wanted"}
  /\ left \in {"no", "resting", "reconnecting"}
  /\ again \in Nat

(***************************************************************************)
(* The events of a session are only ever handled next to entries of that   *)
(* same session: no peer of the dropped session survives into the new one, *)
(* where its ID means nothing any more (attemptReconnect's "drop existing  *)
(* peer entries so the joining flow rebuilds them").                       *)
(***************************************************************************)
EntriesOfThisSession ==
  run = "select" => \A r \in Remote : peers[r] \in {0, sig}

(***************************************************************************)
(* When Close has returned, nothing of the manager is left behind: no      *)
(* signaling link, no peer connection (manager.go:445, "Close terminates   *)
(* all peer connections and the signaling link").  It holds unless the     *)
(* Close overtook a thread that went on to install a client: the call that *)
(* enters before its dial, and for a joiner a redial under way or one that *)
(* the entering call asked for after the Leave.  An owner never redials,   *)
(* so for it only the first dial counts.                                   *)
(***************************************************************************)
ClosedMeansGone ==
  /\ \A k \in Session : link[k] # "open"
  /\ \A r \in Remote : peers[r] = 0

CloseLeavesNothing ==
  \A c \in Closer :
    app[c] = "returned" /\ (overtaken = "no" \/ (wasOwner /\ overtaken # "enter"))
      => ClosedMeansGone

(***************************************************************************)
(* Leave "clears wantPortal so a subsequent signaling drop won't trigger   *)
(* reconnect" (manager.go:1013): a user who leaves while no reconnect is   *)
(* under way is not brought back by any later drop; one who leaves during  *)
(* a reconnect is brought back at most once, by that reconnect.  A Leave   *)
(* that comes before the entering call has said that it wants the portal   *)
(* is undone by it, and is not counted here.                               *)
(***************************************************************************)
LeaveSticks ==
  /\ left = "resting" => again = 0
  /\ left = "reconnecting" => again <= 1

(***************************************************************************)
(* closeSession comes to its end, for the user and for a failed call,      *)
(* whatever the run loop was doing (handling events, backing off, dialing  *)
(* or rejoining) and whichever of the two closes first.                    *)
(***************************************************************************)
CloseTerminates ==
  \A c \in Closer : app[c] = "leaving" ~> (app[c] = "returned" \/ crashed)

(***************************************************************************)
(* A reconnect comes to an end: the loop listens to a new session, or has  *)
(* given up.                                                               *)
(***************************************************************************)
ReconnectEnds == run = "backoff" ~> (run \in {"select", "done"} \/ crashed)

=============================================================================
