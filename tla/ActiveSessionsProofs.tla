------------------------ MODULE ActiveSessionsProofs ------------------------
(***************************************************************************)
(* What holds of the portal sessions for every number of sessions and      *)
(* launches and every set of portals.                                      *)
(*                                                                         *)
(* Whatever the user does: the foreground session is a live one; a failed  *)
(* call leaves no session, and no mesh but, after a leave or a quit that   *)
(* overtook its dial, the bare link of one that has left its portal; and   *)
(* no mesh stays in a portal unseen but where OrphanOnlyAtEnd says so.     *)
(* For a user who waits for each call: leaving forgets the row of the      *)
(* portal left, and only that one, and quitting forgets none.              *)
(***************************************************************************)
EXTENDS ActiveSessions, SequenceTheorems, TLAPS

\* A session whose call has failed is out of the map before its mesh is
\* closed, and nobody puts it back.
DroppedIsGone ==
  \A s \in Sid : call[s] \in {"dropped", "closing", "failed"} => s \notin sessions

IInv ==
  /\ TypeOK
  /\ ActiveIsLive
  /\ DroppedIsGone

Calls == {"none", "starting", "waiting", "entered", "recorded",
          "failing", "dropped", "closing", "failed", "done", "dead"}
Meshes == {"new", "asked", "in", "deaf", "gone", "refused", "linked", "closed"}
Closers == {"none", "leave", "leaveClosed", "left", "all", "allClosed", "quit", "quitClosed"}
Rows == [Portal -> {"none", "owner", "joiner"}]
Queues == [Sid -> Seq({"ready", "closed"})]

-----------------------------------------------------------------------------
(* The helpers keep the type of what they change.                          *)

LEMMA WithoutType ==
  ASSUME rows \in Rows, NEW p PROVE Without(p) \in Rows
  BY DEF Without, Rows

LEMMA AppendType ==
  ASSUME queue \in Queues, NEW s \in Sid, NEW e \in {"ready", "closed"}
  PROVE  [queue EXCEPT ![s] = Append(@, e)] \in Queues
  BY DEF Queues

LEMMA CloseSessionType ==
  ASSUME TypeOK, NEW s \in Sid, CloseSession(s)
  PROVE  /\ mesh' \in [Sid -> Meshes] /\ once' \in [Sid -> BOOLEAN]
         /\ up' \subseteq Portal
         /\ queue' \in Queues
  <1>1. queue \in Queues
    BY DEF TypeOK, Queues
  <1>2. queue' \in Queues
    BY <1>1, AppendType DEF CloseSession
  <1>3. up' \subseteq Portal
    BY DEF CloseSession, TypeOK
  <1> QED BY <1>2, <1>3 DEF CloseSession, TypeOK, Meshes

LEMMA UnmapType ==
  ASSUME IInv, NEW s \in Sid, Unmap(s), \A t \in Sid : call'[t] = call[t] \/ t = s
  PROVE  /\ used' \in 0..MaxSessions /\ sessions' \subseteq 1..used' /\ active' \in 0..used'
         /\ sessions' \subseteq sessions /\ s \notin sessions'
         /\ ActiveIsLive' /\ DroppedIsGone'
  <1>1. used \in 0..MaxSessions /\ sessions \subseteq 1..used /\ active \in 0..used
    BY DEF IInv, TypeOK
  <1>2. used' = used /\ sessions' = sessions \ {s} /\ active' = IF active = s THEN 0 ELSE active
    BY DEF Unmap, NoSid
  <1>3. used' \in 0..MaxSessions /\ sessions' \subseteq 1..used' /\ active' \in 0..used'
    <2>1. 0 \in 0..used
      BY <1>1, ActiveSessionsAssumption
    <2> QED BY <1>1, <1>2, <2>1
  <1>4. ActiveIsLive'
    BY <1>1, <1>2 DEF IInv, ActiveIsLive, NoSid
  <1>5. DroppedIsGone'
    BY <1>2 DEF IInv, DroppedIsGone
  <1> QED BY <1>2, <1>3, <1>4, <1>5

LEMMA ClosedType ==
  ASSUME NEW c \in {"leave", "all", "quit"} PROVE Closed(c) \in Closers
  BY DEF Closed, Closers

LEMMA BeginLeaveType ==
  ASSUME IInv, NEW s \in Sid, BeginLeave(s), UNCHANGED call
  PROVE  /\ used' \in 0..MaxSessions /\ sessions' \subseteq 1..used' /\ active' \in 0..used'
         /\ sessions' \subseteq sessions
         /\ ActiveIsLive' /\ DroppedIsGone'
         /\ closer' \in [Sid -> Closers] /\ pid' \in [Sid -> Portal \union {NoPortal}]
  <1>1. closer' \in [Sid -> Closers] /\ pid' \in [Sid -> Portal \union {NoPortal}]
    BY DEF BeginLeave, IInv, TypeOK, Closers
  <1> QED BY <1>1, UnmapType DEF BeginLeave

LEMMA BringUpType ==
  ASSUME IInv, NEW k \in {"owner", "joiner"}, NEW p \in Portal \union {NoPortal},
         NEW r \in Portal \union {NoPortal}, NEW f \in BOOLEAN, BringUp(k, p, r, f)
  PROVE  /\ used' \in 0..MaxSessions /\ sessions' \subseteq 1..used' /\ active' \in 0..used'
         /\ call' \in [Sid -> Calls] /\ kind' \in [Sid -> {"owner", "joiner"}]
         /\ target' \in [Sid -> Portal \union {NoPortal}]
         /\ row' \in [Sid -> Portal \union {NoPortal}]
  <1>1. used \in 0..MaxSessions /\ sessions \subseteq 1..used /\ active \in 0..used
    BY DEF IInv, TypeOK
  <1>2. used' = used + 1 /\ used + 1 <= MaxSessions /\ sessions' = sessions \union {used + 1}
        /\ active' \in {used + 1, active}
    BY DEF BringUp, NewSessionID
  <1>3. used' \in 0..MaxSessions /\ sessions' \subseteq 1..used' /\ active' \in 0..used'
    BY <1>1, <1>2, ActiveSessionsAssumption
  <1>4. call' \in [Sid -> Calls] /\ kind' \in [Sid -> {"owner", "joiner"}]
    BY DEF BringUp, IInv, TypeOK, Calls
  <1>5. target' \in [Sid -> Portal \union {NoPortal}] /\ row' \in [Sid -> Portal \union {NoPortal}]
    BY DEF BringUp, IInv, TypeOK
  <1> QED BY <1>3, <1>4, <1>5

-----------------------------------------------------------------------------
LEMMA InitIInv == Init => IInv
  <1> SUFFICES ASSUME Init PROVE IInv
    OBVIOUS
  <1>1. <<>> \in Seq({"ready", "closed"})
    BY EmptySeq
  <1>2. queue \in [Sid -> Seq({"ready", "closed"})]
    BY <1>1 DEF Init
  <1>3. up \subseteq Portal /\ rows \in [Portal -> {"none", "owner", "joiner"}]
    BY DEF Init, Portal
  <1>4. used \in 0..MaxSessions /\ launches \in 0..MaxLaunches
    BY ActiveSessionsAssumption DEF Init
  <1>5. TypeOK
    BY <1>2, <1>3, <1>4 DEF Init, TypeOK, NoSid
  <1> QED BY <1>5 DEF Init, IInv, ActiveIsLive, DroppedIsGone

LEMMA NextIInv == IInv /\ [Next]_vars => IInv'
  <1> SUFFICES ASSUME IInv, [Next]_vars PROVE IInv'
    OBVIOUS
  <1> USE ActiveSessionsAssumption DEF process, server, app, caller, net, ending, stored
  <1>1. ASSUME NEW s \in Sid, Dial(s) PROVE IInv'
    <2>1. TypeOK'
      BY <1>1 DEF Dial, TypeOK, IInv
    <2>2. ActiveIsLive'
      BY <1>1 DEF Dial, IInv, ActiveIsLive
    <2>3. DroppedIsGone'
      BY <1>1 DEF Dial, TypeOK, IInv, DroppedIsGone
    <2> QED BY <2>1, <2>2, <2>3 DEF IInv
  <1>2. ASSUME NEW s \in Sid, SeesReady(s) PROVE IInv'
    <2>1. TypeOK'
      BY <1>2 DEF SeesReady, TypeOK, IInv
    <2>2. ActiveIsLive' /\ DroppedIsGone'
      BY <1>2 DEF SeesReady, TypeOK, IInv,
                   ActiveIsLive, DroppedIsGone
    <2> QED BY <2>1, <2>2 DEF IInv
  <1>3. ASSUME NEW s \in Sid, SeesRefused(s) PROVE IInv'
    <2>1. TypeOK'
      BY <1>3 DEF SeesRefused, TypeOK, IInv
    <2>2. ActiveIsLive' /\ DroppedIsGone'
      BY <1>3 DEF SeesRefused, TypeOK, IInv,
                   ActiveIsLive, DroppedIsGone
    <2> QED BY <2>1, <2>2 DEF IInv
  <1>4. ASSUME NEW s \in Sid, TimesOut(s) PROVE IInv'
    <2>1. TypeOK'
      BY <1>4 DEF TimesOut, TypeOK, IInv
    <2>2. ActiveIsLive' /\ DroppedIsGone'
      BY <1>4 DEF TimesOut, TypeOK, IInv,
                   ActiveIsLive, DroppedIsGone
    <2> QED BY <2>1, <2>2 DEF IInv
  <1>5. ASSUME NEW s \in Sid, Record(s) PROVE IInv'
    <2>1. TypeOK'
      BY <1>5 DEF Record, StoreOpen, TypeOK, IInv
    <2>2. ActiveIsLive' /\ DroppedIsGone'
      BY <1>5 DEF Record, StoreOpen, TypeOK, IInv,
                   ActiveIsLive, DroppedIsGone
    <2> QED BY <2>1, <2>2 DEF IInv
  <1>6. ASSUME NEW s \in Sid, ForgetReplaced(s) PROVE IInv'
    <2>1. TypeOK'
      <3>1. rows' \in Rows
        BY <1>6, WithoutType DEF ForgetReplaced, TypeOK, IInv, Rows
      <3> QED BY <1>6, <3>1 DEF ForgetReplaced, TypeOK, IInv, Rows
    <2>2. ActiveIsLive' /\ DroppedIsGone'
      BY <1>6 DEF ForgetReplaced, TypeOK, IInv,
                   ActiveIsLive, DroppedIsGone
    <2> QED BY <2>1, <2>2 DEF IInv
  <1>7. ASSUME NEW s \in Sid, DropSession(s) PROVE IInv'
    <2>1. /\ used' \in 0..MaxSessions /\ sessions' \subseteq 1..used' /\ active' \in 0..used'
          /\ sessions' \subseteq sessions /\ ActiveIsLive' /\ DroppedIsGone'
      <3>1. \A t \in Sid : call'[t] = call[t] \/ t = s
        BY <1>7 DEF DropSession, IInv, TypeOK
      <3> QED BY <1>7, <3>1, UnmapType DEF DropSession
    <2>2. TypeOK'
      BY <1>7, <2>1 DEF DropSession, TypeOK, IInv
    <2> QED BY <2>1, <2>2 DEF IInv
  <1>8. ASSUME NEW s \in Sid, CloseDropped(s) PROVE IInv'
    <2>1. /\ mesh' \in [Sid -> Meshes] /\ once' \in [Sid -> BOOLEAN]
          /\ up' \subseteq Portal
          /\ queue' \in Queues
      BY <1>8, CloseSessionType DEF CloseDropped, IInv
    <2>2. TypeOK'
      BY <1>8, <2>1 DEF CloseDropped, TypeOK, IInv, Meshes, Queues
    <2>3. ActiveIsLive' /\ DroppedIsGone'
      BY <1>8, <2>1 DEF CloseDropped, TypeOK, IInv, ActiveIsLive, DroppedIsGone
    <2> QED BY <2>2, <2>3 DEF IInv
  <1>9. ASSUME NEW s \in Sid, Fail(s) PROVE IInv'
    <2>1. TypeOK'
      <3>1. rows' \in Rows
        BY <1>9, WithoutType DEF Fail, TypeOK, IInv, Rows
      <3> QED BY <1>9, <3>1 DEF Fail, TypeOK, IInv, Rows
    <2>2. ActiveIsLive' /\ DroppedIsGone'
      BY <1>9 DEF Fail, PumpDone, TypeOK, IInv,
                   ActiveIsLive, DroppedIsGone
    <2> QED BY <2>1, <2>2 DEF IInv
  <1>10. ASSUME NEW s \in Sid, Close(s) PROVE IInv'
    <2>1. /\ mesh' \in [Sid -> Meshes] /\ once' \in [Sid -> BOOLEAN]
          /\ up' \subseteq Portal
          /\ queue' \in Queues
      BY <1>10, CloseSessionType DEF Close, IInv
    <2>2. TypeOK'
      <3>1. closer' \in [Sid -> Closers]
        BY <1>10, ClosedType DEF Close, TypeOK, IInv, Closers
      <3> QED BY <1>10, <2>1, <3>1 DEF Close, TypeOK, IInv, Meshes, Queues, Closers
    <2>3. ActiveIsLive' /\ DroppedIsGone'
      BY <1>10, <2>1 DEF Close, TypeOK, IInv, ActiveIsLive, DroppedIsGone
    <2> QED BY <2>2, <2>3 DEF IInv
  <1>11. ASSUME NEW s \in Sid, ForgetLeft(s) PROVE IInv'
    <2>1. TypeOK'
      <3>1. rows' \in Rows
        BY <1>11, WithoutType DEF ForgetLeft, TypeOK, IInv, Rows
      <3> QED BY <1>11, <3>1 DEF ForgetLeft, TypeOK, IInv, Rows
    <2>2. ActiveIsLive' /\ DroppedIsGone'
      BY <1>11 DEF ForgetLeft, PumpDone, TypeOK, IInv,
                   ActiveIsLive, DroppedIsGone
    <2> QED BY <2>1, <2>2 DEF IInv
  <1>12. ASSUME NEW s \in Sid, RelayReady(s) PROVE IInv'
    <2>1. TypeOK'
      BY <1>12 DEF RelayReady, TypeOK, IInv
    <2>2. ActiveIsLive' /\ DroppedIsGone'
      BY <1>12 DEF RelayReady, TypeOK, IInv,
                   ActiveIsLive, DroppedIsGone
    <2> QED BY <2>1, <2>2 DEF IInv
  <1>13. ASSUME NEW s \in Sid, RelayClosed(s) PROVE IInv'
    <2>1. /\ used' \in 0..MaxSessions /\ sessions' \subseteq 1..used' /\ active' \in 0..used'
          /\ sessions' \subseteq sessions /\ ActiveIsLive' /\ DroppedIsGone'
      BY <1>13, UnmapType DEF RelayClosed
    <2>2. TypeOK'
      <3>1. rows' \in Rows
        BY <1>13, WithoutType DEF RelayClosed, TypeOK, IInv, Rows
      <3>2. queue' \in [Sid -> Seq({"ready", "closed"})]
        BY <1>13 DEF RelayClosed, TypeOK, IInv
      <3> QED BY <1>13, <2>1, <3>1, <3>2 DEF RelayClosed, TypeOK, IInv, Rows
    <2> QED BY <2>1, <2>2 DEF IInv
  <1>14. ASSUME NEW s \in Sid, PumpEnds(s) PROVE IInv'
    <2>1. TypeOK'
      BY <1>14 DEF PumpEnds, TypeOK, IInv
    <2>2. ActiveIsLive' /\ DroppedIsGone'
      BY <1>14 DEF PumpEnds, TypeOK, IInv,
                   ActiveIsLive, DroppedIsGone
    <2> QED BY <2>1, <2>2 DEF IInv
  <1>15. ASSUME NEW s \in Sid, LeavePortal(s) PROVE IInv'
    <2>1. /\ used' \in 0..MaxSessions /\ sessions' \subseteq 1..used' /\ active' \in 0..used'
          /\ sessions' \subseteq sessions /\ ActiveIsLive' /\ DroppedIsGone'
          /\ closer' \in [Sid -> Closers] /\ pid' \in [Sid -> Portal \union {NoPortal}]
      BY <1>15, BeginLeaveType DEF LeavePortal
    <2>2. TypeOK'
      BY <1>15, <2>1 DEF LeavePortal, TypeOK, IInv, Closers
    <2> QED BY <2>1, <2>2 DEF IInv
  <1>16. ASSUME NEW s \in Sid, SwitchPortal(s) PROVE IInv'
    <2>1. TypeOK'
      <3>1. used \in 0..MaxSessions /\ sessions \subseteq 1..used /\ s \in sessions /\ active' = s
            /\ UNCHANGED <<used, sessions>>
        BY <1>16 DEF SwitchPortal, TypeOK, IInv
      <3>2. active' \in 0..used'
        BY <3>1
      <3> QED BY <1>16, <3>1, <3>2 DEF SwitchPortal, TypeOK, IInv
    <2>2. ActiveIsLive' /\ DroppedIsGone'
      BY <1>16 DEF SwitchPortal, TypeOK, IInv,
                   ActiveIsLive, DroppedIsGone
    <2> QED BY <2>1, <2>2 DEF IInv
  <1>17. ASSUME NEW s \in Sid, ServerAdmits(s) PROVE IInv'
    <2>1. TypeOK'
      <3>0. PICK p \in Portal \union {NoPortal} : Enters(s, p)
        BY <1>17 DEF ServerAdmits, Portal, TypeOK, IInv
      <3>1. queue' \in Queues
        <4>1. queue \in Queues
          BY DEF TypeOK, IInv, Queues
        <4> QED BY <3>0, <4>1, AppendType DEF Enters
      <3>2. up' \subseteq Portal /\ issued' \subseteq Own
        BY <1>17 DEF ServerAdmits, TypeOK, IInv, Portal
      <3>3. portal' \in [Sid -> Portal \union {NoPortal}] /\ mesh' \in [Sid -> Meshes]
        <4>1. PICK m \in {"in", "deaf"} : mesh' = [mesh EXCEPT ![s] = m]
          BY <3>0 DEF Enters
        <4>2. mesh' \in [Sid -> Meshes]
          BY <4>1 DEF TypeOK, IInv, Meshes
        <4> QED BY <3>0, <4>2 DEF Enters, TypeOK, IInv
      <3> QED BY <1>17, <3>1, <3>2, <3>3 DEF ServerAdmits, TypeOK, IInv, Queues, Meshes
    <2>2. ActiveIsLive' /\ DroppedIsGone'
      BY <1>17 DEF ServerAdmits, Enters, TypeOK, IInv,
                   ActiveIsLive, DroppedIsGone
    <2> QED BY <2>1, <2>2 DEF IInv
  <1>18. ASSUME NEW s \in Sid, ServerRefuses(s) PROVE IInv'
    <2>1. TypeOK'
      BY <1>18 DEF ServerRefuses, TypeOK, IInv
    <2>2. ActiveIsLive' /\ DroppedIsGone'
      BY <1>18 DEF ServerRefuses, TypeOK, IInv,
                   ActiveIsLive, DroppedIsGone
    <2> QED BY <2>1, <2>2 DEF IInv
  <1>19. ASSUME NEW p \in Foreign, UserJoins(p) PROVE IInv'
    <2>1. TypeOK'
      <3>1. PICK f \in BOOLEAN : BringUp("joiner", p, NoPortal, f)
        BY <1>19 DEF UserJoins
      <3>2. p \in Portal
        BY DEF Portal
      <3>3. leavingAll' \in {"no", "closing", "done"} /\ toResume' \subseteq Portal \X {"owner", "joiner"}
        BY <1>19 DEF UserJoins, TypeOK, IInv
      <3>4. UNCHANGED <<phase, launches, locked, up, issued, gone, mesh, once, portal, queue, view,
                        closer, pid, rows>>
        BY <3>1 DEF BringUp
      <3> HIDE DEF process, server, app, caller, net, ending, stored
      <3>5. /\ used' \in 0..MaxSessions /\ sessions' \subseteq 1..used' /\ active' \in 0..used'
            /\ call' \in [Sid -> Calls] /\ kind' \in [Sid -> {"owner", "joiner"}]
            /\ target' \in [Sid -> Portal \union {NoPortal}]
            /\ row' \in [Sid -> Portal \union {NoPortal}]
        BY <3>1, <3>2, BringUpType
      <3> QED BY <3>3, <3>4, <3>5 DEF TypeOK, IInv, Calls
    <2>2. ActiveIsLive' /\ DroppedIsGone'
      BY <1>19 DEF UserJoins, BringUp, NewSessionID, Portal, TypeOK, IInv,
                   ActiveIsLive, DroppedIsGone
    <2> QED BY <2>1, <2>2 DEF IInv
  <1>20. ASSUME NEW p \in Foreign, ServerClosesPortal(p) PROVE IInv'
    <2>1. TypeOK'
      BY <1>20 DEF ServerClosesPortal, TypeOK, IInv
    <2>2. ActiveIsLive' /\ DroppedIsGone'
      BY <1>20 DEF ServerClosesPortal, TypeOK, IInv,
                   ActiveIsLive, DroppedIsGone
    <2> QED BY <2>1, <2>2 DEF IInv
  <1>21. ASSUME NEW x \in toResume, ResumeOne(x) PROVE IInv'
    <2>1. TypeOK'
      <3>1. BringUp(x[2], IF x[2] = "owner" THEN NoPortal ELSE x[1], x[1], FALSE)
        BY <1>21 DEF ResumeOne
      <3>2. x[1] \in Portal /\ x[2] \in {"owner", "joiner"}
        BY DEF TypeOK, IInv
      <3>3. leavingAll' \in {"no", "closing", "done"} /\ toResume' \subseteq Portal \X {"owner", "joiner"}
        BY <1>21 DEF ResumeOne, TypeOK, IInv
      <3>4. UNCHANGED <<phase, launches, locked, up, issued, gone, mesh, once, portal, queue, view,
                        closer, pid, rows>>
        BY <3>1 DEF BringUp
      <3> HIDE DEF process, server, app, caller, net, ending, stored
      <3>5. /\ used' \in 0..MaxSessions /\ sessions' \subseteq 1..used' /\ active' \in 0..used'
            /\ call' \in [Sid -> Calls] /\ kind' \in [Sid -> {"owner", "joiner"}]
            /\ target' \in [Sid -> Portal \union {NoPortal}]
            /\ row' \in [Sid -> Portal \union {NoPortal}]
        BY <3>1, <3>2, BringUpType
      <3> QED BY <3>3, <3>4, <3>5 DEF TypeOK, IInv, Calls
    <2>2. ActiveIsLive' /\ DroppedIsGone'
      BY <1>21 DEF ResumeOne, BringUp, NewSessionID, TypeOK, IInv,
                   ActiveIsLive, DroppedIsGone
    <2> QED BY <2>1, <2>2 DEF IInv
  <1>22. CASE UserCreates
    <2>1. TypeOK'
      <3>1. PICK f \in BOOLEAN : BringUp("owner", NoPortal, NoPortal, f)
        BY <1>22 DEF UserCreates
      <3>2. NoPortal \in Portal \union {NoPortal}
        BY DEF Portal
      <3>3. leavingAll' \in {"no", "closing", "done"} /\ toResume' \subseteq Portal \X {"owner", "joiner"}
        BY <1>22 DEF UserCreates, TypeOK, IInv
      <3>4. UNCHANGED <<phase, launches, locked, up, issued, gone, mesh, once, portal, queue, view,
                        closer, pid, rows>>
        BY <3>1 DEF BringUp
      <3> HIDE DEF process, server, app, caller, net, ending, stored
      <3>5. /\ used' \in 0..MaxSessions /\ sessions' \subseteq 1..used' /\ active' \in 0..used'
            /\ call' \in [Sid -> Calls] /\ kind' \in [Sid -> {"owner", "joiner"}]
            /\ target' \in [Sid -> Portal \union {NoPortal}]
            /\ row' \in [Sid -> Portal \union {NoPortal}]
        BY <3>1, <3>2, BringUpType
      <3> QED BY <3>3, <3>4, <3>5 DEF TypeOK, IInv, Calls
    <2>2. ActiveIsLive' /\ DroppedIsGone'
      BY <1>22 DEF UserCreates, BringUp, NewSessionID, TypeOK, IInv,
                   ActiveIsLive, DroppedIsGone
    <2> QED BY <2>1, <2>2 DEF IInv
  <1>23. CASE SignIn
    <2>1. TypeOK'
      <3>1. leavingAll' \in {"no", "closing", "done"}
        BY <1>23 DEF SignIn, TypeOK, IInv
      <3>2. toResume' \subseteq Portal \X {"owner", "joiner"}
        <4>1. \A p \in Portal : rows[p] # "none" => rows[p] \in {"owner", "joiner"}
          BY DEF TypeOK, IInv
        <4> QED BY <1>23, <4>1 DEF SignIn, TypeOK, IInv
      <3> QED BY <1>23, <3>1, <3>2 DEF SignIn, TypeOK, IInv
    <2>2. ActiveIsLive' /\ DroppedIsGone'
      BY <1>23 DEF SignIn, TypeOK, IInv,
                   ActiveIsLive, DroppedIsGone
    <2> QED BY <2>1, <2>2 DEF IInv
  <1>24. CASE SignOut
    <2>1. /\ used' \in 0..MaxSessions /\ sessions' \subseteq 1..used' /\ active' \in 0..used'
          /\ sessions' \subseteq sessions /\ ActiveIsLive' /\ DroppedIsGone'
          /\ closer' \in [Sid -> Closers] /\ pid' \in [Sid -> Portal \union {NoPortal}]
      <3>1. CASE active \in sessions
        <4>1. active \in Sid
          BY <3>1, ActiveSessionsAssumption DEF TypeOK, IInv, Sid
        <4> QED BY <1>24, <3>1, <4>1, BeginLeaveType DEF SignOut
      <3>2. CASE active \notin sessions
        <4>1. UNCHANGED <<used, sessions, active, call, closer, pid>>
          BY <1>24, <3>2 DEF SignOut
        <4>2. ActiveIsLive' /\ DroppedIsGone'
          BY <4>1 DEF IInv, ActiveIsLive, DroppedIsGone
        <4> QED BY <4>1, <4>2 DEF TypeOK, IInv, Closers
      <3> QED BY <3>1, <3>2
    <2>2. TypeOK'
      BY <1>24, <2>1 DEF SignOut, TypeOK, IInv, Closers
    <2> QED BY <2>1, <2>2 DEF IInv
  <1>25. CASE LeaveAll
    <2>1. TypeOK'
      BY <1>25 DEF LeaveAll, NoSid, TypeOK, IInv
    <2>2. ActiveIsLive' /\ DroppedIsGone'
      BY <1>25 DEF LeaveAll, NoSid, TypeOK, IInv,
                   ActiveIsLive, DroppedIsGone
    <2> QED BY <2>1, <2>2 DEF IInv
  <1>26. CASE ClearRows
    <2>1. TypeOK'
      BY <1>26 DEF ClearRows, TypeOK, IInv
    <2>2. ActiveIsLive' /\ DroppedIsGone'
      BY <1>26 DEF ClearRows, TypeOK, IInv,
                   ActiveIsLive, DroppedIsGone
    <2> QED BY <2>1, <2>2 DEF IInv
  <1>27. CASE Shutdown
    <2>1. TypeOK'
      BY <1>27 DEF Shutdown, NoSid, TypeOK, IInv
    <2>2. ActiveIsLive' /\ DroppedIsGone'
      BY <1>27 DEF Shutdown, NoSid, TypeOK, IInv,
                   ActiveIsLive, DroppedIsGone
    <2> QED BY <2>1, <2>2 DEF IInv
  <1>28. CASE Launch
    <2>1. TypeOK'
      BY <1>28 DEF Launch, TypeOK, IInv
    <2>2. ActiveIsLive' /\ DroppedIsGone'
      BY <1>28 DEF Launch, TypeOK, IInv,
                   ActiveIsLive, DroppedIsGone
    <2> QED BY <2>1, <2>2 DEF IInv
  <1>29. CASE Exit
    <2>1. TypeOK'
      BY <1>29 DEF Exit, Dies, NoSid, TypeOK, IInv
    <2>2. ActiveIsLive' /\ DroppedIsGone'
      BY <1>29 DEF Exit, Dies, NoSid, TypeOK, IInv,
                   ActiveIsLive, DroppedIsGone
    <2> QED BY <2>1, <2>2 DEF IInv
  <1>30. CASE Crash
    <2>1. TypeOK'
      BY <1>30 DEF Crash, Dies, NoSid, TypeOK, IInv
    <2>2. ActiveIsLive' /\ DroppedIsGone'
      BY <1>30 DEF Crash, Dies, NoSid, TypeOK, IInv,
                   ActiveIsLive, DroppedIsGone
    <2> QED BY <2>1, <2>2 DEF IInv
  <1>31. CASE UNCHANGED vars
    BY <1>31 DEF vars, TypeOK, IInv, ActiveIsLive, DroppedIsGone
  <1> QED
    BY <1>1, <1>2, <1>3, <1>4, <1>5, <1>6, <1>7, <1>8, <1>9, <1>10, <1>11, <1>12, <1>13, <1>14, <1>15,
      <1>16, <1>17, <1>18, <1>19, <1>20, <1>21, <1>22, <1>23, <1>24, <1>25, <1>26, <1>27, <1>28, <1>29,
      <1>30, <1>31
    DEF Next, Caller, Closer, Pump, User, Serves

(***************************************************************************)
(* Type correctness: session IDs stay within what was minted.              *)
(***************************************************************************)
THEOREM TypeCorrect == Spec => []TypeOK
  <1>1. IInv => TypeOK
    BY DEF IInv
  <1> QED BY <1>1, InitIInv, NextIInv, PTL DEF Spec

(***************************************************************************)
(* The UI never renders a session that is no longer in the map.            *)
(***************************************************************************)
THEOREM ActiveIsLiveHolds == Spec => []ActiveIsLive
  <1>1. IInv => ActiveIsLive
    BY DEF IInv
  <1> QED BY <1>1, InitIInv, NextIInv, PTL DEF Spec

-----------------------------------------------------------------------------
(***************************************************************************)
(* FailureLeavesNothing and OrphanOnlyAtEnd.  A session leaves the map in  *)
(* a failed call, in a leave or when its pump relays the end of its        *)
(* portal.  The third closes no mesh, so the invariant follows the end of  *)
(* a portal from the server through the queue to the pump.  The first two  *)
(* do, but a Close that comes before the dial is spent in vain, so it also *)
(* says how far the call of a mesh may be, and who has spent its Close.    *)
(***************************************************************************)

\* A session that was never brought up has no state at all.
UnusedIsBlank ==
  \A s \in Sid : s > used =>
    /\ call[s] = "none" /\ mesh[s] = "new" /\ ~once[s] /\ queue[s] = <<>> /\ closer[s] = "none"
    /\ portal[s] = NoPortal /\ view[s] = NoPortal /\ pid[s] = NoPortal
    /\ target[s] = NoPortal /\ row[s] = NoPortal

\* Nothing runs and no mesh is open while the app is not running.
OffIsQuiet ==
  phase = "off" =>
    /\ sessions = {} /\ toResume = {}
    /\ \A s \in Sid :
         /\ s <= used => mesh[s] = "closed"
         /\ queue[s] = <<>> /\ ~InFlight(s)
         /\ closer[s] \in {"none", "left", "quitClosed"}

EarlyIsEmpty ==
  \A s \in Sid : mesh[s] \in {"new", "asked", "gone", "refused"} \/ call[s] = "starting" =>
    queue[s] = <<>> /\ portal[s] = NoPortal

ClosedOnes == {"leaveClosed", "left", "allClosed", "quitClosed"}

\* Only the call of a mesh dials it, and a mesh that hears no answer holds
\* its call until the deadline.
CallMesh ==
  \A s \in Sid :
    /\ call[s] = "starting" => mesh[s] \in {"new", "closed"}
    /\ mesh[s] \in {"asked", "gone", "refused", "deaf"} => call[s] \in {"waiting", "failing", "dropped"}
    /\ mesh[s] = "in" => call[s] \in {"waiting", "entered", "recorded", "done", "failing", "dropped"}
    /\ call[s] \in {"closing", "failed"} => mesh[s] \in {"closed", "linked"}

\* The one Close of a mesh is spent by who took its session down, and that
\* session is out of the map.
OnceRules ==
  \A s \in Sid :
    /\ mesh[s] = "new" => ~once[s]
    /\ mesh[s] \in {"deaf", "linked", "closed"} => once[s]
    /\ once[s] => \/ closer[s] \in ClosedOnes \/ call[s] \in {"closing", "failed"}
                  \/ mesh[s] = "closed" /\ ~InFlight(s)
    /\ mesh[s] = "linked" => closer[s] \in ClosedOnes
    /\ once[s] \/ closer[s] # "none" => s \notin sessions

\* The pump has the end of a portal before it.
Ended(q) == \E i \in 1..Len(q) : q[i] = "closed"
EndOnlyLast(q) == \A i \in 1..Len(q) : q[i] = "closed" => i = Len(q)

\* The end of the portal of an open mesh is the last thing before its pump,
\* and only there if the server has ended that portal.
QueueOfOpen ==
  \A s \in Sid : mesh[s] = "in" =>
    /\ portal[s] # NoPortal /\ EndOnlyLast(queue[s])
    /\ Ended(queue[s]) => portal[s] \notin up

\* A portal this app created has an ID the server issued, one it joined is
\* somebody else's; neither kind of ID is ever issued again.
PortalOfSession ==
  \A s \in Sid :
    /\ portal[s] # NoPortal =>
         \/ kind[s] = "owner" /\ portal[s] \in issued
         \/ kind[s] = "joiner" /\ portal[s] = target[s]
    /\ target[s] # NoPortal => target[s] \in Foreign /\ kind[s] = "joiner"
    /\ call[s] # "none" /\ kind[s] = "joiner" => target[s] # NoPortal
    /\ row[s] # NoPortal => row[s] = target[s] \/ (kind[s] = "owner" /\ row[s] \in issued)
    /\ view[s] = NoPortal \/ view[s] = portal[s]

RowKinds ==
  /\ \A p \in Portal :
       (rows[p] = "joiner" => p \in Foreign) /\ (rows[p] = "owner" => p \in issued)
  /\ \A x \in toResume :
       (x[2] = "joiner" => x[1] \in Foreign) /\ (x[2] = "owner" => x[1] \in issued)

\* Until it is admitted, a session is in the map, being taken down, or one
\* whose Close is spent.
Reachable ==
  \A s \in Sid : mesh[s] \in {"new", "asked", "gone", "refused"} /\ s <= used =>
    \/ s \in sessions \/ call[s] \in {"failing", "dropped"} \/ closer[s] \in {"leave", "all", "quit"}
    \/ once[s]

\* What OrphanOnlyAtEnd says of the meshes whose Close is not spent.
OpenIsSeen ==
  \A s \in Sid : mesh[s] = "in" /\ ~once[s] =>
    \/ s \in sessions \/ call[s] \in {"failing", "dropped"} \/ closer[s] \in {"leave", "all", "quit"}
    \/ portal[s] \notin up

MeshInv ==
  /\ IInv
  /\ UnusedIsBlank
  /\ OffIsQuiet
  /\ EarlyIsEmpty
  /\ CallMesh
  /\ OnceRules
  /\ QueueOfOpen
  /\ PortalOfSession
  /\ RowKinds
  /\ Reachable
  /\ OpenIsSeen

LEMMA QueueFacts ==
  ASSUME NEW q \in Seq({"ready", "closed"})
  PROVE  /\ Ended(Append(q, "ready")) => Ended(q)
         /\ q # <<>> => (Ended(Tail(q)) => Ended(q))
         /\ q # <<>> /\ Head(q) = "closed" => Ended(q)
         /\ ~Ended(<<>>) /\ EndOnlyLast(<<>>)
         /\ ~Ended(q) => EndOnlyLast(Append(q, "ready")) /\ EndOnlyLast(Append(q, "closed"))
         /\ EndOnlyLast(q) /\ q # <<>> => EndOnlyLast(Tail(q))
         /\ EndOnlyLast(q) /\ q # <<>> /\ Head(q) = "closed" => Tail(q) = <<>>
  <1>1. Ended(Append(q, "ready")) => Ended(q)
    <2> SUFFICES ASSUME NEW i \in 1..Len(Append(q, "ready")), Append(q, "ready")[i] = "closed"
                 PROVE  i \in 1..Len(q) /\ q[i] = "closed"
      BY DEF Ended
    <2> QED OBVIOUS
  <1>2. ASSUME q # <<>>, Ended(Tail(q)) PROVE Ended(q)
    <2>1. PICK i \in 1..Len(Tail(q)) : Tail(q)[i] = "closed"
      BY <1>2 DEF Ended
    <2>2. i + 1 \in 1..Len(q) /\ q[i + 1] = "closed"
      BY <1>2, <2>1
    <2> QED BY <2>2 DEF Ended
  <1>3. ASSUME q # <<>>, Head(q) = "closed" PROVE Ended(q)
    <2>1. 1 \in 1..Len(q) /\ q[1] = "closed"
      BY <1>3
    <2> QED BY <2>1 DEF Ended
  <1>4. ~Ended(<<>>) /\ EndOnlyLast(<<>>)
    BY DEF Ended, EndOnlyLast
  <1>5. ASSUME ~Ended(q), NEW e \in {"ready", "closed"} PROVE EndOnlyLast(Append(q, e))
    BY <1>5 DEF Ended, EndOnlyLast
  <1>6. ASSUME EndOnlyLast(q), q # <<>> PROVE EndOnlyLast(Tail(q))
    <2> SUFFICES ASSUME NEW i \in 1..Len(Tail(q)), Tail(q)[i] = "closed" PROVE i = Len(Tail(q))
      BY DEF EndOnlyLast
    <2>1. /\ Len(Tail(q)) = Len(q) - 1 /\ Len(q) \in Nat
          /\ \A j \in 1..Len(Tail(q)) : Tail(q)[j] = q[j + 1]
      BY <1>6, HeadTailProperties
    <2>2. PICK j \in 1..Len(q) : j = i + 1 /\ q[j] = "closed"
      BY <2>1
    <2>3. j = Len(q)
      BY <1>6, <2>2 DEF EndOnlyLast
    <2> QED BY <2>1, <2>2, <2>3
  <1>7. ASSUME EndOnlyLast(q), q # <<>>, Head(q) = "closed" PROVE Tail(q) = <<>>
    <2>1. 1 \in 1..Len(q) /\ q[1] = "closed"
      BY <1>7
    <2>2. Len(q) = 1
      BY <1>7, <2>1 DEF EndOnlyLast
    <2>3. Tail(q) \in Seq({"ready", "closed"}) /\ Len(Tail(q)) = 0
      BY <1>7, <2>2
    <2> QED BY <2>3
  <1> QED BY <1>1, <1>2, <1>3, <1>4, <1>5, <1>6, <1>7

LEMMA SidFacts ==
  TypeOK =>
    /\ used \in Nat /\ active \in Nat
    /\ \A t \in Sid : t \in Nat /\ (t \in sessions => t <= used)
    /\ \A t \in sessions : t \in Sid /\ t # NoSid
  <1> SUFFICES ASSUME TypeOK
               PROVE  /\ used \in Nat /\ active \in Nat
                      /\ \A t \in Sid : t \in Nat /\ (t \in sessions => t <= used)
                      /\ \A t \in sessions : t \in Sid /\ t # NoSid
    OBVIOUS
  <1>1. used \in 0..MaxSessions /\ sessions \subseteq 1..used /\ active \in 0..used /\ MaxSessions \in Nat
    BY ActiveSessionsAssumption DEF TypeOK
  <1>2. used \in Nat /\ active \in Nat
    BY <1>1
  <1>3. \A t \in Sid : t \in Nat /\ (t \in sessions => t <= used)
    BY <1>1, <1>2 DEF Sid
  <1>4. \A t \in sessions : t \in Sid /\ t # NoSid
    BY <1>1, <1>2 DEF Sid, NoSid
  <1> QED BY <1>2, <1>3, <1>4

LEMMA OffIsClosed ==
  ASSUME MeshInv, phase = "off", NEW t \in Sid
  PROVE  mesh[t] \in {"new", "closed"}
  <1>0. TypeOK
    BY DEF MeshInv, IInv
  <1>1. t \in Nat /\ used \in Nat
    BY <1>0, SidFacts
  <1> QED BY <1>1 DEF MeshInv, OffIsQuiet, UnusedIsBlank

\* closeSession disturbs its own session only.
LEMMA CloseFacts ==
  ASSUME TypeOK, NEW s \in Sid, CloseSession(s)
  PROVE  /\ mesh'[s] = IF once[s] /\ mesh[s] # "closed" THEN "linked" ELSE "closed"
         /\ once'[s]
         /\ up' \subseteq up
         /\ queue'[s] = queue[s] \/ (~once[s] /\ mesh[s] \in {"asked", "in", "gone", "refused"})
         /\ \A t \in Sid : t # s =>
              mesh'[t] = mesh[t] /\ once'[t] = once[t] /\ queue'[t] = queue[t]
  <1>1. /\ mesh'[s] = IF once[s] /\ mesh[s] # "closed" THEN "linked" ELSE "closed"
        /\ \A t \in Sid : t # s => mesh'[t] = mesh[t]
    BY DEF CloseSession, TypeOK
  <1>2. once'[s] /\ \A t \in Sid : t # s => once'[t] = once[t]
    BY DEF CloseSession, TypeOK
  <1>3. /\ queue'[s] = queue[s] \/ (~once[s] /\ mesh[s] \in {"asked", "in", "gone", "refused"})
        /\ \A t \in Sid : t # s => queue'[t] = queue[t]
    BY DEF CloseSession, TypeOK
  <1> QED BY <1>1, <1>2, <1>3 DEF CloseSession

LEMMA InitMeshInv == Init => MeshInv
  <1> SUFFICES ASSUME Init PROVE MeshInv
    OBVIOUS
  <1>1. IInv
    BY InitIInv
  <1>2. UnusedIsBlank /\ OffIsQuiet /\ EarlyIsEmpty
    BY DEF Init, UnusedIsBlank, OffIsQuiet, EarlyIsEmpty, InFlight
  <1>3. QueueOfOpen /\ PortalOfSession /\ RowKinds /\ OpenIsSeen
    BY DEF Init, QueueOfOpen, PortalOfSession, RowKinds, OpenIsSeen
  <1>4. Reachable
    BY DEF Init, Reachable, Sid
  <1>5. CallMesh /\ OnceRules
    BY DEF Init, CallMesh, OnceRules
  <1> QED BY <1>1, <1>2, <1>3, <1>4, <1>5 DEF MeshInv

\* A new session starts from the blank state of its number.
LEMMA BringUpFacts ==
  ASSUME TypeOK, NEW k, NEW p, NEW r, NEW f \in BOOLEAN, BringUp(k, p, r, f)
  PROVE  /\ used + 1 \in Sid /\ used \in Nat /\ used' = used + 1 /\ used' > used
         /\ sessions' = sessions \union {used + 1}
         /\ \A t \in Sid :
              /\ call'[t] = IF t = used + 1 THEN "starting" ELSE call[t]
              /\ kind'[t] = IF t = used + 1 THEN k ELSE kind[t]
              /\ target'[t] = IF t = used + 1 THEN p ELSE target[t]
              /\ row'[t] = IF t = used + 1 THEN r ELSE row[t]
         /\ UNCHANGED <<gone, phase, launches, locked, up, issued, mesh, once, portal, queue,
                        view, closer, pid, rows>>
  <1>1. used \in Nat
    BY ActiveSessionsAssumption DEF TypeOK
  <1>2. used + 1 \in Sid /\ used' = used + 1
    BY <1>1, ActiveSessionsAssumption DEF BringUp, NewSessionID, Sid
  <1>3. /\ sessions' = sessions \union {used + 1}
        /\ UNCHANGED <<gone, phase, launches, locked, up, issued, mesh, once, portal, queue,
                       view, closer, pid, rows>>
    BY DEF BringUp, process, server, net
  <1>4. \A t \in Sid :
          /\ call'[t] = IF t = used + 1 THEN "starting" ELSE call[t]
          /\ kind'[t] = IF t = used + 1 THEN k ELSE kind[t]
          /\ target'[t] = IF t = used + 1 THEN p ELSE target[t]
          /\ row'[t] = IF t = used + 1 THEN r ELSE row[t]
    BY <1>2 DEF BringUp, TypeOK
  <1> QED BY <1>1, <1>2, <1>3, <1>4

LEMMA BringUpMeshInv ==
  ASSUME MeshInv, IInv', phase # "off", toResume' \subseteq toResume,
         NEW k \in {"owner", "joiner"}, NEW p \in Foreign \union {NoPortal},
         NEW r \in Portal \union {NoPortal}, NEW f \in BOOLEAN, BringUp(k, p, r, f),
         k = "joiner" <=> p # NoPortal,
         r # NoPortal => r = p \/ (k = "owner" /\ r \in issued)
  PROVE  MeshInv'
  <1>1. /\ used + 1 \in Sid /\ used \in Nat /\ used' = used + 1 /\ used' > used
        /\ sessions' = sessions \union {used + 1}
        /\ \A t \in Sid :
             /\ call'[t] = IF t = used + 1 THEN "starting" ELSE call[t]
             /\ kind'[t] = IF t = used + 1 THEN k ELSE kind[t]
             /\ target'[t] = IF t = used + 1 THEN p ELSE target[t]
             /\ row'[t] = IF t = used + 1 THEN r ELSE row[t]
        /\ UNCHANGED <<gone, phase, launches, locked, up, issued, mesh, once, portal, queue,
                       view, closer, pid, rows>>
    BY BringUpFacts DEF MeshInv, IInv
  <1>2. /\ portal[used + 1] = NoPortal /\ view[used + 1] = NoPortal
        /\ mesh[used + 1] = "new" /\ ~once[used + 1] /\ queue[used + 1] = <<>>
        /\ closer[used + 1] = "none"
    BY <1>1 DEF MeshInv, UnusedIsBlank
  <1>3. UnusedIsBlank'
    <2> SUFFICES ASSUME NEW t \in Sid, t > used' PROVE t > used /\ t # used + 1
      BY <1>1 DEF MeshInv, UnusedIsBlank
    <2> QED BY <1>1 DEF Sid
  <1>4. OffIsQuiet' /\ EarlyIsEmpty' /\ QueueOfOpen'
    BY <1>1, <1>2 DEF MeshInv, OffIsQuiet, EarlyIsEmpty, QueueOfOpen
  <1>5. PortalOfSession'
    <2> SUFFICES ASSUME NEW t \in Sid
                 PROVE  /\ portal[t] # NoPortal =>
                             \/ kind'[t] = "owner" /\ portal[t] \in issued
                             \/ kind'[t] = "joiner" /\ portal[t] = target'[t]
                        /\ target'[t] # NoPortal => target'[t] \in Foreign /\ kind'[t] = "joiner"
                        /\ call'[t] # "none" /\ kind'[t] = "joiner" => target'[t] # NoPortal
                        /\ row'[t] # NoPortal =>
                             row'[t] = target'[t] \/ (kind'[t] = "owner" /\ row'[t] \in issued)
                        /\ view[t] = NoPortal \/ view[t] = portal[t]
      BY <1>1 DEF PortalOfSession
    <2>1. CASE t = used + 1
      BY <1>1, <1>2, <2>1
    <2>2. CASE t # used + 1
      BY <1>1, <2>2 DEF MeshInv, PortalOfSession
    <2> QED BY <2>1, <2>2
  <1>6. RowKinds'
    BY <1>1 DEF MeshInv, RowKinds
  <1>7. OpenIsSeen'
    BY <1>1, <1>2 DEF MeshInv, OpenIsSeen
  <1>8. CallMesh'
    BY <1>1, <1>2 DEF MeshInv, CallMesh
  <1>9. OnceRules'
    BY <1>1, <1>2 DEF MeshInv, OnceRules, InFlight
  <1>10. Reachable'
    <2> SUFFICES ASSUME NEW t \in Sid, mesh[t] \in {"new", "asked", "gone", "refused"}, t <= used'
                 PROVE  \/ t \in sessions' \/ call'[t] \in {"failing", "dropped"}
                        \/ closer[t] \in {"leave", "all", "quit"} \/ once[t]
      BY <1>1 DEF Reachable
    <2>1. CASE t = used + 1
      BY <1>1, <2>1
    <2>2. CASE t # used + 1
      <3>1. t <= used
        BY <1>1, <2>2 DEF Sid
      <3> QED BY <1>1, <2>2, <3>1 DEF MeshInv, Reachable
    <2> QED BY <2>1, <2>2
  <1> QED BY <1>3, <1>4, <1>5, <1>6, <1>7, <1>8, <1>9, <1>10 DEF MeshInv

LEMMA AdmitsFacts ==
  ASSUME MeshInv, NEW s \in Sid, ServerAdmits(s)
  PROVE  /\ mesh[s] = "asked" /\ s <= used /\ phase # "off" /\ queue[s] = <<>>
         /\ UNCHANGED <<process, app, caller, once, view, ending, stored>>
         /\ \E p \in Portal :
              /\ \/ /\ kind[s] = "owner" /\ p \in Own \ issued
                    /\ issued' = issued \union {p} /\ up' = up \union {p}
                 \/ /\ kind[s] = "joiner" /\ p \in up /\ p = target[s] /\ p \in Foreign
                    /\ UNCHANGED <<issued, up>>
              /\ \A t \in Sid :
                   /\ t # s => mesh'[t] = mesh[t] /\ portal'[t] = portal[t] /\ queue'[t] = queue[t]
                   /\ t = s => \/ portal'[t] = p /\ mesh'[t] = "in" /\ queue'[t] = Append(<<>>, "ready")
                               \/ /\ portal'[t] = p /\ mesh'[t] \in {"in", "deaf"}
                                  /\ queue'[t] = <<>> /\ once[t]
  <1>1. mesh[s] = "asked" /\ UNCHANGED <<process, app, caller, once, view, ending, stored>>
    BY DEF ServerAdmits
  <1>2. s <= used
    BY <1>1, ActiveSessionsAssumption DEF MeshInv, UnusedIsBlank, IInv, TypeOK, Sid
  <1>3. phase # "off" /\ queue[s] = <<>>
    BY <1>1, <1>2 DEF MeshInv, OffIsQuiet, EarlyIsEmpty
  <1>4. ASSUME NEW p, Enters(s, p)
        PROVE  \A t \in Sid :
                 /\ t # s => mesh'[t] = mesh[t] /\ portal'[t] = portal[t] /\ queue'[t] = queue[t]
                 /\ t = s => \/ portal'[t] = p /\ mesh'[t] = "in" /\ queue'[t] = Append(<<>>, "ready")
                             \/ /\ portal'[t] = p /\ mesh'[t] \in {"in", "deaf"}
                                /\ queue'[t] = <<>> /\ once[t]
    BY <1>3, <1>4 DEF Enters, MeshInv, IInv, TypeOK
  <1>5. PICK p : /\ Enters(s, p)
                 /\ \/ /\ kind[s] = "owner" /\ p \in Own \ issued
                       /\ issued' = issued \union {p} /\ up' = up \union {p}
                    \/ /\ kind[s] = "joiner" /\ p \in up /\ p = target[s]
                       /\ UNCHANGED <<issued, up>>
    BY DEF ServerAdmits, server
  <1>6. p \in Portal /\ (p = target[s] /\ p \in up => p \in Foreign)
    BY <1>5, ActiveSessionsAssumption DEF MeshInv, PortalOfSession, IInv, TypeOK, Portal
  <1> QED BY <1>1, <1>2, <1>3, <1>4, <1>5, <1>6

LEMMA NextMeshInv == MeshInv /\ IInv' /\ [Next]_vars => MeshInv'
  <1> SUFFICES ASSUME MeshInv, IInv', [Next]_vars PROVE MeshInv'
    OBVIOUS
  <1> USE ActiveSessionsAssumption DEF process, server, app, caller, net, ending, stored
  <1>1. ASSUME NEW s \in Sid, Dial(s) PROVE MeshInv'
    <2>1. RowKinds'
      BY <1>1 DEF Dial, MeshInv, RowKinds
    <2>2. UnusedIsBlank'
      BY <1>1 DEF Dial, TypeOK, IInv, MeshInv, UnusedIsBlank
    <2>3. OffIsQuiet'
      BY <1>1 DEF Dial, MeshInv, OffIsQuiet, InFlight
    <2>4. EarlyIsEmpty'
      BY <1>1 DEF Dial, TypeOK, IInv, MeshInv, EarlyIsEmpty
    <2>5. QueueOfOpen'
      BY <1>1 DEF Dial, TypeOK, IInv, MeshInv, QueueOfOpen
    <2>6. PortalOfSession'
      BY <1>1 DEF Dial, TypeOK, IInv, MeshInv, PortalOfSession
    <2>7. Reachable'
      <3>1. \A t \in Sid : call[t] \in {"failing", "dropped"} => call'[t] = call[t]
        BY <1>1 DEF Dial, TypeOK, IInv, MeshInv
      <3>2. \A t \in Sid : mesh'[t] \in {"new", "asked", "gone", "refused"} =>
              mesh[t] \in {"new", "asked", "gone", "refused"} \/ once[t]
        BY <1>1 DEF Dial, TypeOK, IInv, MeshInv, CallMesh, OnceRules
      <3> QED BY <1>1, <3>1, <3>2 DEF Dial, MeshInv, Reachable
    <2>8. OpenIsSeen'
      <3>1. \A t \in Sid : call[t] \in {"failing", "dropped"} => call'[t] = call[t]
        BY <1>1 DEF Dial, TypeOK, IInv, MeshInv
      <3>2. \A t \in Sid : mesh'[t] = "in" => mesh[t] = "in"
        BY <1>1 DEF Dial, TypeOK, IInv, MeshInv
      <3> QED BY <1>1, <3>1, <3>2 DEF Dial, MeshInv, OpenIsSeen
    <2>9. CallMesh'
      BY <1>1 DEF Dial, TypeOK, IInv, MeshInv, CallMesh, EarlyIsEmpty
    <2>10. OnceRules'
      BY <1>1 DEF Dial, TypeOK, IInv, MeshInv, OnceRules, CallMesh, InFlight
    <2> QED BY <2>1, <2>2, <2>3, <2>4, <2>5, <2>6, <2>7, <2>8, <2>9, <2>10 DEF MeshInv
  <1>2. ASSUME NEW s \in Sid, SeesReady(s) PROVE MeshInv'
    <2>1. EarlyIsEmpty' /\ QueueOfOpen' /\ RowKinds'
      BY <1>2 DEF SeesReady, MeshInv, EarlyIsEmpty, QueueOfOpen, RowKinds
    <2>2. UnusedIsBlank'
      BY <1>2 DEF SeesReady, MeshInv, UnusedIsBlank
    <2>3. OffIsQuiet'
      BY <1>2 DEF SeesReady, MeshInv, OffIsQuiet, InFlight
    <2>4. PortalOfSession'
      BY <1>2 DEF SeesReady, MeshInv, PortalOfSession
    <2>5. Reachable'
      BY <1>2 DEF SeesReady, MeshInv, Reachable
    <2>6. OpenIsSeen'
      BY <1>2 DEF SeesReady, MeshInv, OpenIsSeen
    <2>7. CallMesh'
      BY <1>2 DEF SeesReady, TypeOK, IInv, MeshInv, CallMesh, EarlyIsEmpty
    <2>8. OnceRules'
      BY <1>2 DEF SeesReady, TypeOK, IInv, MeshInv, OnceRules, CallMesh, InFlight
    <2> QED BY <2>1, <2>2, <2>3, <2>4, <2>5, <2>6, <2>7, <2>8 DEF MeshInv
  <1>3. ASSUME NEW s \in Sid, SeesRefused(s) PROVE MeshInv'
    <2>1. EarlyIsEmpty' /\ QueueOfOpen' /\ RowKinds'
      BY <1>3 DEF SeesRefused, MeshInv, EarlyIsEmpty, QueueOfOpen, RowKinds
    <2>2. UnusedIsBlank'
      BY <1>3 DEF SeesRefused, MeshInv, UnusedIsBlank
    <2>3. OffIsQuiet'
      BY <1>3 DEF SeesRefused, MeshInv, OffIsQuiet, InFlight
    <2>4. PortalOfSession'
      BY <1>3 DEF SeesRefused, MeshInv, PortalOfSession
    <2>5. Reachable'
      BY <1>3 DEF SeesRefused, MeshInv, Reachable
    <2>6. OpenIsSeen'
      BY <1>3 DEF SeesRefused, MeshInv, OpenIsSeen
    <2>7. CallMesh'
      BY <1>3 DEF SeesRefused, TypeOK, IInv, MeshInv, CallMesh, EarlyIsEmpty
    <2>8. OnceRules'
      BY <1>3 DEF SeesRefused, TypeOK, IInv, MeshInv, OnceRules, CallMesh, InFlight
    <2> QED BY <2>1, <2>2, <2>3, <2>4, <2>5, <2>6, <2>7, <2>8 DEF MeshInv
  <1>4. ASSUME NEW s \in Sid, TimesOut(s) PROVE MeshInv'
    <2>1. EarlyIsEmpty' /\ QueueOfOpen' /\ RowKinds'
      BY <1>4 DEF TimesOut, MeshInv, EarlyIsEmpty, QueueOfOpen, RowKinds
    <2>2. UnusedIsBlank'
      BY <1>4 DEF TimesOut, MeshInv, UnusedIsBlank
    <2>3. OffIsQuiet'
      BY <1>4 DEF TimesOut, MeshInv, OffIsQuiet, InFlight
    <2>4. PortalOfSession'
      BY <1>4 DEF TimesOut, MeshInv, PortalOfSession
    <2>5. Reachable'
      BY <1>4 DEF TimesOut, MeshInv, Reachable
    <2>6. OpenIsSeen'
      BY <1>4 DEF TimesOut, MeshInv, OpenIsSeen
    <2>7. CallMesh'
      BY <1>4 DEF TimesOut, TypeOK, IInv, MeshInv, CallMesh, EarlyIsEmpty
    <2>8. OnceRules'
      BY <1>4 DEF TimesOut, TypeOK, IInv, MeshInv, OnceRules, CallMesh, InFlight
    <2> QED BY <2>1, <2>2, <2>3, <2>4, <2>5, <2>6, <2>7, <2>8 DEF MeshInv
  <1>5. ASSUME NEW s \in Sid, Record(s) PROVE MeshInv'
    <2>1. EarlyIsEmpty' /\ QueueOfOpen'
      BY <1>5 DEF Record, MeshInv, EarlyIsEmpty, QueueOfOpen
    <2>2. UnusedIsBlank'
      BY <1>5 DEF Record, StoreOpen, MeshInv, UnusedIsBlank
    <2>3. OffIsQuiet'
      BY <1>5 DEF Record, StoreOpen, MeshInv, OffIsQuiet, InFlight
    <2>4. PortalOfSession'
      BY <1>5 DEF Record, StoreOpen, MeshInv, PortalOfSession
    <2>5. RowKinds'
      <3>1. portal[s] # NoPortal =>
              (kind[s] = "joiner" => portal[s] \in Foreign) /\ (kind[s] = "owner" => portal[s] \in issued)
        BY DEF MeshInv, PortalOfSession
      <3>2. \A q \in Portal : rows'[q] = rows[q] \/ (q = portal[s] /\ rows'[q] = kind[s])
        BY <1>5 DEF Record, MeshInv, IInv, TypeOK
      <3> QED BY <1>5, <3>1, <3>2, ActiveSessionsAssumption DEF Record, MeshInv, RowKinds
    <2>6. Reachable'
      BY <1>5 DEF Record, StoreOpen, MeshInv, Reachable
    <2>7. OpenIsSeen'
      BY <1>5 DEF Record, StoreOpen, MeshInv, OpenIsSeen
    <2>8. CallMesh'
      BY <1>5 DEF Record, TypeOK, IInv, MeshInv, CallMesh, EarlyIsEmpty
    <2>9. OnceRules'
      BY <1>5 DEF Record, TypeOK, IInv, MeshInv, OnceRules, CallMesh, InFlight
    <2> QED BY <2>1, <2>2, <2>3, <2>4, <2>5, <2>6, <2>7, <2>8, <2>9 DEF MeshInv
  <1>6. ASSUME NEW s \in Sid, ForgetReplaced(s) PROVE MeshInv'
    <2>1. EarlyIsEmpty' /\ QueueOfOpen'
      BY <1>6 DEF ForgetReplaced, MeshInv, EarlyIsEmpty, QueueOfOpen
    <2>2. UnusedIsBlank'
      BY <1>6 DEF ForgetReplaced, Without, StoreOpen, MeshInv, UnusedIsBlank
    <2>3. OffIsQuiet'
      BY <1>6 DEF ForgetReplaced, Without, StoreOpen, MeshInv, OffIsQuiet, InFlight
    <2>4. PortalOfSession'
      BY <1>6 DEF ForgetReplaced, Without, StoreOpen, MeshInv, PortalOfSession
    <2>5. RowKinds'
      BY <1>6 DEF ForgetReplaced, Without, StoreOpen, MeshInv, RowKinds
    <2>6. Reachable'
      BY <1>6 DEF ForgetReplaced, Without, StoreOpen, MeshInv, Reachable
    <2>7. OpenIsSeen'
      BY <1>6 DEF ForgetReplaced, Without, StoreOpen, MeshInv, OpenIsSeen
    <2>8. CallMesh'
      BY <1>6 DEF ForgetReplaced, TypeOK, IInv, MeshInv, CallMesh, EarlyIsEmpty
    <2>9. OnceRules'
      BY <1>6 DEF ForgetReplaced, TypeOK, IInv, MeshInv, OnceRules, CallMesh, InFlight
    <2> QED BY <2>1, <2>2, <2>3, <2>4, <2>5, <2>6, <2>7, <2>8, <2>9 DEF MeshInv
  <1>7. ASSUME NEW s \in Sid, DropSession(s) PROVE MeshInv'
    <2>1. EarlyIsEmpty' /\ QueueOfOpen' /\ RowKinds'
      BY <1>7 DEF DropSession, MeshInv, EarlyIsEmpty, QueueOfOpen, RowKinds, Unmap
    <2>2. UnusedIsBlank'
      BY <1>7 DEF DropSession, Unmap, MeshInv, UnusedIsBlank
    <2>3. OffIsQuiet'
      BY <1>7 DEF DropSession, Unmap, MeshInv, OffIsQuiet, InFlight
    <2>4. PortalOfSession'
      BY <1>7 DEF DropSession, Unmap, MeshInv, PortalOfSession
    <2>5. Reachable'
      BY <1>7 DEF DropSession, Unmap, MeshInv, Reachable
    <2>6. OpenIsSeen'
      BY <1>7 DEF DropSession, Unmap, MeshInv, OpenIsSeen
    <2>7. CallMesh'
      BY <1>7 DEF DropSession, Unmap, TypeOK, IInv, MeshInv, CallMesh, EarlyIsEmpty
    <2>8. OnceRules'
      BY <1>7 DEF DropSession, Unmap, TypeOK, IInv, MeshInv, OnceRules, CallMesh, InFlight
    <2> QED BY <2>1, <2>2, <2>3, <2>4, <2>5, <2>6, <2>7, <2>8 DEF MeshInv
  <1>8. ASSUME NEW s \in Sid, CloseDropped(s) PROVE MeshInv'
    <2>0. /\ call[s] = "dropped" /\ UNCHANGED <<used, sessions, closer>>
          /\ mesh'[s] = IF once[s] /\ mesh[s] # "closed" THEN "linked" ELSE "closed"
          /\ once'[s] /\ \A t \in Sid : t # s => mesh'[t] = mesh[t] /\ once'[t] = once[t]
          /\ \A t \in Sid : call'[t] = IF t = s THEN "closing" ELSE call[t]
      <3>1. TypeOK /\ CloseSession(s)
        BY <1>8 DEF CloseDropped, MeshInv, IInv
      <3> QED BY <1>8, <3>1, CloseFacts DEF CloseDropped, TypeOK
    <2>1. RowKinds'
      BY <1>8 DEF CloseDropped, MeshInv, RowKinds, CloseSession
    <2>2. UnusedIsBlank'
      BY <1>8 DEF CloseDropped, CloseSession, TypeOK, IInv, MeshInv, UnusedIsBlank
    <2>3. OffIsQuiet'
      BY <1>8 DEF CloseDropped, CloseSession, MeshInv, OffIsQuiet, InFlight
    <2>4. EarlyIsEmpty'
      BY <1>8 DEF CloseDropped, CloseSession, TypeOK, IInv, MeshInv, EarlyIsEmpty
    <2>5. QueueOfOpen'
      BY <1>8 DEF CloseDropped, CloseSession, TypeOK, IInv, MeshInv, QueueOfOpen
    <2>6. PortalOfSession'
      BY <1>8 DEF CloseDropped, CloseSession, MeshInv, PortalOfSession
    <2>7. Reachable'
      BY <1>8 DEF CloseDropped, CloseSession, TypeOK, IInv, MeshInv, Reachable
    <2>8. OpenIsSeen'
      BY <1>8 DEF CloseDropped, CloseSession, TypeOK, IInv, MeshInv, OpenIsSeen
    <2>9. CallMesh'
      BY <2>0 DEF MeshInv, CallMesh
    <2>10. OnceRules'
      <3>1. s \notin sessions /\ (once[s] => closer[s] \in ClosedOnes)
        BY <2>0 DEF MeshInv, IInv, DroppedIsGone, OnceRules, InFlight
      <3> QED BY <2>0, <3>1 DEF MeshInv, OnceRules, InFlight
    <2> QED BY <2>1, <2>2, <2>3, <2>4, <2>5, <2>6, <2>7, <2>8, <2>9, <2>10 DEF MeshInv
  <1>9. ASSUME NEW s \in Sid, Fail(s) PROVE MeshInv'
    <2>1. EarlyIsEmpty' /\ QueueOfOpen'
      BY <1>9 DEF Fail, MeshInv, EarlyIsEmpty, QueueOfOpen
    <2>2. UnusedIsBlank'
      BY <1>9 DEF Fail, PumpDone, Without, StoreOpen, MeshInv, UnusedIsBlank
    <2>3. OffIsQuiet'
      BY <1>9 DEF Fail, PumpDone, Without, StoreOpen, MeshInv, OffIsQuiet, InFlight
    <2>4. PortalOfSession'
      BY <1>9 DEF Fail, PumpDone, Without, StoreOpen, MeshInv, PortalOfSession
    <2>5. RowKinds'
      BY <1>9 DEF Fail, PumpDone, Without, StoreOpen, MeshInv, RowKinds
    <2>6. Reachable'
      BY <1>9 DEF Fail, PumpDone, Without, StoreOpen, MeshInv, Reachable
    <2>7. OpenIsSeen'
      BY <1>9 DEF Fail, PumpDone, Without, StoreOpen, MeshInv, OpenIsSeen
    <2>8. CallMesh'
      BY <1>9 DEF Fail, TypeOK, IInv, MeshInv, CallMesh, EarlyIsEmpty
    <2>9. OnceRules'
      BY <1>9 DEF Fail, TypeOK, IInv, MeshInv, OnceRules, CallMesh, InFlight
    <2> QED BY <2>1, <2>2, <2>3, <2>4, <2>5, <2>6, <2>7, <2>8, <2>9 DEF MeshInv
  <1>10. ASSUME NEW s \in Sid, Close(s) PROVE MeshInv'
    <2>0. /\ closer[s] \in {"leave", "all", "quit"} /\ UNCHANGED <<used, sessions, call, portal>>
          /\ mesh'[s] = "closed" /\ once'[s]
          /\ queue'[s] = queue[s] \/ mesh[s] \in {"asked", "in", "gone", "refused"}
          /\ closer'[s] \in ClosedOnes
          /\ \A t \in Sid : t # s => /\ mesh'[t] = mesh[t] /\ once'[t] = once[t]
                                    /\ queue'[t] = queue[t] /\ closer'[t] = closer[t]
      <3>1. TypeOK /\ CloseSession(s) /\ closer[s] \in {"leave", "all", "quit"}
        BY <1>10 DEF Close, MeshInv, IInv
      <3>2. once[s] => mesh[s] = "closed"
        BY <3>1 DEF MeshInv, OnceRules, CallMesh, ClosedOnes
      <3>3. closer'[s] \in ClosedOnes /\ \A t \in Sid : t # s => closer'[t] = closer[t]
        BY <1>10, <3>1 DEF Close, Closed, ClosedOnes, TypeOK
      <3> QED BY <1>10, <3>1, <3>2, <3>3, CloseFacts DEF Close
    <2>1. PortalOfSession' /\ RowKinds'
      BY <1>10 DEF Close, MeshInv, PortalOfSession, RowKinds, CloseSession
    <2>2. UnusedIsBlank'
      BY <1>10 DEF Close, CloseSession, Closed, TypeOK, IInv, MeshInv, UnusedIsBlank
    <2>3. OffIsQuiet'
      BY <1>10 DEF Close, CloseSession, Closed, MeshInv, OffIsQuiet
    <2>4. EarlyIsEmpty'
      BY <2>0 DEF MeshInv, EarlyIsEmpty, CallMesh
    <2>5. QueueOfOpen'
      BY <1>10 DEF Close, CloseSession, Closed, TypeOK, IInv, MeshInv, QueueOfOpen
    <2>6. Reachable'
      BY <1>10 DEF Close, CloseSession, Closed, TypeOK, IInv, MeshInv, Reachable
    <2>7. OpenIsSeen'
      BY <1>10 DEF Close, CloseSession, Closed, TypeOK, IInv, MeshInv, OpenIsSeen
    <2>8. CallMesh'
      BY <2>0 DEF MeshInv, CallMesh
    <2>9. OnceRules'
      <3>1. s \notin sessions
        BY <2>0 DEF MeshInv, OnceRules
      <3> QED BY <2>0, <3>1 DEF MeshInv, OnceRules, InFlight
    <2> QED BY <2>1, <2>2, <2>3, <2>4, <2>5, <2>6, <2>7, <2>8, <2>9 DEF MeshInv
  <1>11. ASSUME NEW s \in Sid, ForgetLeft(s) PROVE MeshInv'
    <2>1. EarlyIsEmpty' /\ QueueOfOpen' /\ PortalOfSession'
      BY <1>11 DEF ForgetLeft, MeshInv, EarlyIsEmpty, QueueOfOpen, PortalOfSession
    <2>2. UnusedIsBlank'
      BY <1>11 DEF ForgetLeft, PumpDone, Without, StoreOpen, MeshInv, UnusedIsBlank
    <2>3. OffIsQuiet'
      BY <1>11 DEF ForgetLeft, PumpDone, Without, StoreOpen, MeshInv, OffIsQuiet
    <2>4. RowKinds'
      BY <1>11 DEF ForgetLeft, PumpDone, Without, StoreOpen, MeshInv, RowKinds
    <2>5. Reachable'
      BY <1>11 DEF ForgetLeft, PumpDone, Without, StoreOpen, MeshInv, Reachable
    <2>6. OpenIsSeen'
      BY <1>11 DEF ForgetLeft, PumpDone, Without, StoreOpen, MeshInv, OpenIsSeen
    <2>7. CallMesh'
      BY <1>11 DEF ForgetLeft, TypeOK, IInv, MeshInv, CallMesh, EarlyIsEmpty
    <2>8. OnceRules'
      <3>1. /\ closer[s] = "leaveClosed" /\ UNCHANGED <<mesh, once, sessions, call>>
            /\ \A t \in Sid : closer'[t] = IF t = s THEN "left" ELSE closer[t]
        BY <1>11 DEF ForgetLeft, MeshInv, IInv, TypeOK
      <3> QED BY <3>1 DEF MeshInv, OnceRules, InFlight, ClosedOnes
    <2> QED BY <2>1, <2>2, <2>3, <2>4, <2>5, <2>6, <2>7, <2>8 DEF MeshInv
  <1>12. ASSUME NEW s \in Sid, RelayReady(s) PROVE MeshInv'
    <2>1. RowKinds' /\ Reachable' /\ OpenIsSeen'
      BY <1>12 DEF RelayReady, MeshInv, RowKinds, Reachable, OpenIsSeen
    <2>2. UnusedIsBlank'
      BY <1>12 DEF RelayReady, MeshInv, UnusedIsBlank
    <2>3. OffIsQuiet'
      BY <1>12 DEF RelayReady, MeshInv, OffIsQuiet
    <2>4. EarlyIsEmpty'
      BY <1>12 DEF RelayReady, MeshInv, EarlyIsEmpty
    <2>5. QueueOfOpen'
      <3>1. /\ UNCHANGED <<mesh, portal, up>> /\ queue[s] # <<>>
            /\ \A t \in Sid : queue'[t] = IF t = s THEN Tail(queue[s]) ELSE queue[t]
        BY <1>12 DEF RelayReady, MeshInv, IInv, TypeOK
      <3>2. queue[s] \in Seq({"ready", "closed"})
        BY DEF MeshInv, IInv, TypeOK
      <3>3. \A t \in Sid : (Ended(queue'[t]) => Ended(queue[t]))
                         /\ (EndOnlyLast(queue[t]) => EndOnlyLast(queue'[t]))
        BY <3>1, <3>2, QueueFacts
      <3> QED BY <3>1, <3>3 DEF MeshInv, QueueOfOpen
    <2>6. PortalOfSession'
      BY <1>12 DEF RelayReady, MeshInv, PortalOfSession
    <2>7. CallMesh'
      BY <1>12 DEF RelayReady, MeshInv, CallMesh, EarlyIsEmpty
    <2>8. OnceRules'
      BY <1>12 DEF RelayReady, MeshInv, OnceRules, CallMesh, InFlight
    <2> QED BY <2>1, <2>2, <2>3, <2>4, <2>5, <2>6, <2>7, <2>8 DEF MeshInv
  <1>13. ASSUME NEW s \in Sid, RelayClosed(s) PROVE MeshInv'
    <2>1. PortalOfSession'
      BY <1>13 DEF RelayClosed, MeshInv, PortalOfSession, Unmap
    <2>2. UnusedIsBlank'
      BY <1>13 DEF RelayClosed, Unmap, Without, StoreOpen, MeshInv, UnusedIsBlank
    <2>3. OffIsQuiet'
      BY <1>13 DEF RelayClosed, Unmap, Without, StoreOpen, MeshInv, OffIsQuiet
    <2>4. EarlyIsEmpty'
      BY <1>13 DEF RelayClosed, Unmap, Without, StoreOpen, MeshInv, EarlyIsEmpty
    <2>5. QueueOfOpen'
      <3>1. /\ UNCHANGED <<mesh, portal, up>> /\ queue[s] # <<>>
            /\ \A t \in Sid : queue'[t] = IF t = s THEN Tail(queue[s]) ELSE queue[t]
        BY <1>13 DEF RelayClosed, MeshInv, IInv, TypeOK
      <3>2. queue[s] \in Seq({"ready", "closed"})
        BY DEF MeshInv, IInv, TypeOK
      <3>3. \A t \in Sid : (Ended(queue'[t]) => Ended(queue[t]))
                         /\ (EndOnlyLast(queue[t]) => EndOnlyLast(queue'[t]))
        BY <3>1, <3>2, QueueFacts
      <3> QED BY <3>1, <3>3 DEF MeshInv, QueueOfOpen
    <2>6. RowKinds'
      BY <1>13 DEF RelayClosed, Unmap, Without, StoreOpen, MeshInv, RowKinds
    <2>7. Reachable'
      <3>1. UNCHANGED <<mesh, once, used, call, closer>> /\ sessions' = sessions \ {s} /\ queue[s] # <<>>
        BY <1>13 DEF RelayClosed, Unmap
      <3> QED BY <3>1 DEF MeshInv, Reachable, EarlyIsEmpty
    <2>8. OpenIsSeen'
      <3>1. /\ UNCHANGED <<mesh, once, portal, up, call, closer>> /\ sessions' = sessions \ {s}
            /\ queue[s] # <<>> /\ Head(queue[s]) = "closed"
        BY <1>13 DEF RelayClosed, Unmap
      <3>2. queue[s] \in Seq({"ready", "closed"})
        BY DEF MeshInv, IInv, TypeOK
      <3>3. mesh[s] = "in" => portal[s] \notin up
        BY <3>1, <3>2, QueueFacts DEF MeshInv, QueueOfOpen
      <3> QED BY <3>1, <3>3 DEF MeshInv, OpenIsSeen
    <2>9. CallMesh'
      BY <1>13 DEF RelayClosed, Unmap, MeshInv, CallMesh, EarlyIsEmpty
    <2>10. OnceRules'
      BY <1>13 DEF RelayClosed, Unmap, MeshInv, OnceRules, CallMesh, InFlight
    <2> QED BY <2>1, <2>2, <2>3, <2>4, <2>5, <2>6, <2>7, <2>8, <2>9, <2>10 DEF MeshInv
  <1>14. ASSUME NEW s \in Sid, PumpEnds(s) PROVE MeshInv'
    <2>1. PortalOfSession' /\ RowKinds' /\ Reachable' /\ OpenIsSeen'
      BY <1>14 DEF PumpEnds, MeshInv, PortalOfSession, RowKinds, Reachable, OpenIsSeen
    <2>2. UnusedIsBlank'
      BY <1>14 DEF PumpEnds, MeshInv, UnusedIsBlank
    <2>3. OffIsQuiet'
      BY <1>14 DEF PumpEnds, MeshInv, OffIsQuiet
    <2>4. EarlyIsEmpty'
      BY <1>14 DEF PumpEnds, MeshInv, EarlyIsEmpty
    <2>5. QueueOfOpen'
      <3>1. <<>> \in Seq({"ready", "closed"})
        BY EmptySeq
      <3>2. ~Ended(<<>>) /\ EndOnlyLast(<<>>)
        BY <3>1, QueueFacts
      <3>3. /\ UNCHANGED <<mesh, portal, up>>
            /\ \A t \in Sid : queue'[t] = IF t = s THEN <<>> ELSE queue[t]
        BY <1>14 DEF PumpEnds, MeshInv, IInv, TypeOK
      <3> QED BY <3>2, <3>3 DEF MeshInv, QueueOfOpen
    <2>6. CallMesh'
      BY <1>14 DEF PumpEnds, MeshInv, CallMesh, EarlyIsEmpty
    <2>7. OnceRules'
      BY <1>14 DEF PumpEnds, MeshInv, OnceRules, CallMesh, InFlight
    <2> QED BY <2>1, <2>2, <2>3, <2>4, <2>5, <2>6, <2>7 DEF MeshInv
  <1>15. ASSUME NEW s \in Sid, LeavePortal(s) PROVE MeshInv'
    <2>1. EarlyIsEmpty' /\ QueueOfOpen' /\ PortalOfSession' /\ RowKinds'
      BY <1>15 DEF LeavePortal, MeshInv, EarlyIsEmpty, QueueOfOpen, PortalOfSession, RowKinds, Unmap,
        BeginLeave
    <2>2. UnusedIsBlank'
      BY <1>15 DEF LeavePortal, BeginLeave, Unmap, TypeOK, IInv, MeshInv, UnusedIsBlank
    <2>3. OffIsQuiet'
      BY <1>15 DEF LeavePortal, BeginLeave, Unmap, MeshInv, OffIsQuiet
    <2>4. Reachable'
      BY <1>15 DEF LeavePortal, BeginLeave, Unmap, TypeOK, IInv, MeshInv, Reachable
    <2>5. OpenIsSeen'
      BY <1>15 DEF LeavePortal, BeginLeave, Unmap, TypeOK, IInv, MeshInv, OpenIsSeen
    <2>6. CallMesh'
      BY <1>15 DEF LeavePortal, BeginLeave, Unmap, TypeOK, IInv, MeshInv, CallMesh, EarlyIsEmpty
    <2>7. OnceRules'
      BY <1>15 DEF LeavePortal, BeginLeave, Unmap, TypeOK, IInv, MeshInv, OnceRules, CallMesh, InFlight
    <2> QED BY <2>1, <2>2, <2>3, <2>4, <2>5, <2>6, <2>7 DEF MeshInv
  <1>16. ASSUME NEW s \in Sid, SwitchPortal(s) PROVE MeshInv'
    <2>1. UnusedIsBlank' /\ OffIsQuiet' /\ EarlyIsEmpty' /\ QueueOfOpen' /\ PortalOfSession'
          /\ RowKinds' /\ Reachable' /\ OpenIsSeen'
      BY <1>16 DEF SwitchPortal, MeshInv, UnusedIsBlank, OffIsQuiet, EarlyIsEmpty, QueueOfOpen,
        PortalOfSession, RowKinds, Reachable, OpenIsSeen, InFlight
    <2>2. CallMesh'
      BY <1>16 DEF SwitchPortal, MeshInv, CallMesh, EarlyIsEmpty
    <2>3. OnceRules'
      BY <1>16 DEF SwitchPortal, MeshInv, OnceRules, CallMesh, InFlight
    <2> QED BY <2>1, <2>2, <2>3 DEF MeshInv
  <1>17. ASSUME NEW s \in Sid, ServerAdmits(s) PROVE MeshInv'
    <2>1. /\ mesh[s] = "asked" /\ s <= used /\ phase # "off" /\ queue[s] = <<>>
          /\ UNCHANGED <<process, app, caller, once, view, ending, stored>>
      BY <1>17, AdmitsFacts
    <2>2. PICK p \in Portal :
            /\ \/ /\ kind[s] = "owner" /\ p \in Own \ issued
                  /\ issued' = issued \union {p} /\ up' = up \union {p}
               \/ /\ kind[s] = "joiner" /\ p \in up /\ p = target[s] /\ p \in Foreign
                  /\ UNCHANGED <<issued, up>>
            /\ \A t \in Sid :
                 /\ t # s => mesh'[t] = mesh[t] /\ portal'[t] = portal[t] /\ queue'[t] = queue[t]
                 /\ t = s => \/ portal'[t] = p /\ mesh'[t] = "in" /\ queue'[t] = Append(<<>>, "ready")
                             \/ /\ portal'[t] = p /\ mesh'[t] \in {"in", "deaf"}
                                /\ queue'[t] = <<>> /\ once[t]
      BY <1>17, AdmitsFacts
    <2>3. p # NoPortal /\ used \in Nat
      BY ActiveSessionsAssumption DEF MeshInv, IInv, TypeOK
    <2>4. UnusedIsBlank'
      <3>1. \A t \in Sid : t > used => t # s
        BY <2>1, <2>3 DEF Sid
      <3> QED BY <2>1, <2>2, <3>1 DEF MeshInv, UnusedIsBlank
    <2>5. OffIsQuiet' /\ EarlyIsEmpty'
      BY <2>1, <2>2 DEF MeshInv, OffIsQuiet, EarlyIsEmpty, CallMesh
    <2>6. \A t \in Sid : t # s /\ portal[t] # NoPortal =>
            (portal[t] \in up' => portal[t] \in up) /\ (portal[t] \in issued => portal[t] \in issued')
      BY <2>2, ActiveSessionsAssumption DEF MeshInv, PortalOfSession, Portal
    <2>7. QueueOfOpen'
      <3>1. <<>> \in Seq({"ready", "closed"})
        BY EmptySeq
      <3>2. /\ ~Ended(Append(<<>>, "ready")) /\ EndOnlyLast(Append(<<>>, "ready"))
            /\ ~Ended(<<>>) /\ EndOnlyLast(<<>>)
        BY <3>1, QueueFacts
      <3> QED BY <2>2, <2>3, <2>6, <3>2 DEF MeshInv, QueueOfOpen
    <2>8. PortalOfSession'
      <3>1. portal[s] = NoPortal /\ view[s] = NoPortal
        BY <2>1 DEF MeshInv, EarlyIsEmpty, PortalOfSession
      <3>2. issued \subseteq issued'
        BY <2>2
      <3> SUFFICES ASSUME NEW t \in Sid
                   PROVE  /\ portal'[t] # NoPortal =>
                               \/ kind[t] = "owner" /\ portal'[t] \in issued'
                               \/ kind[t] = "joiner" /\ portal'[t] = target[t]
                          /\ target[t] # NoPortal => target[t] \in Foreign /\ kind[t] = "joiner"
                          /\ call[t] # "none" /\ kind[t] = "joiner" => target[t] # NoPortal
                          /\ row[t] # NoPortal =>
                               row[t] = target[t] \/ (kind[t] = "owner" /\ row[t] \in issued')
                          /\ view[t] = NoPortal \/ view[t] = portal'[t]
        BY <2>1 DEF PortalOfSession
      <3>3. CASE t = s
        BY <2>2, <3>1, <3>2, <3>3 DEF MeshInv, PortalOfSession
      <3>4. CASE t # s
        BY <2>2, <3>2, <3>4 DEF MeshInv, PortalOfSession
      <3> QED BY <3>3, <3>4
    <2>9. RowKinds'
      BY <2>1, <2>2 DEF MeshInv, RowKinds
    <2>10. OpenIsSeen'
      <3>1. \/ s \in sessions \/ call[s] \in {"failing", "dropped"}
            \/ closer[s] \in {"leave", "all", "quit"} \/ once[s]
        BY <2>1 DEF MeshInv, Reachable
      <3> QED BY <2>1, <2>2, <2>6, <3>1 DEF MeshInv, OpenIsSeen, QueueOfOpen
    <2>11. Reachable'
      BY <2>1, <2>2 DEF MeshInv, Reachable
    <2>12. call[s] \in {"waiting", "failing", "dropped"}
      BY <2>1 DEF MeshInv, CallMesh
    <2>13. CallMesh'
      BY <2>1, <2>2, <2>12 DEF MeshInv, CallMesh
    <2>14. OnceRules'
      BY <2>1, <2>2, <2>12 DEF MeshInv, OnceRules, InFlight
    <2> QED BY <2>4, <2>5, <2>7, <2>8, <2>9, <2>10, <2>11, <2>13, <2>14 DEF MeshInv
  <1>18. ASSUME NEW s \in Sid, ServerRefuses(s) PROVE MeshInv'
    <2>1. PortalOfSession' /\ RowKinds'
      BY <1>18 DEF ServerRefuses, MeshInv, PortalOfSession, RowKinds
    <2>2. UnusedIsBlank'
      BY <1>18 DEF ServerRefuses, MeshInv, UnusedIsBlank
    <2>3. OffIsQuiet'
      BY <1>18 DEF ServerRefuses, MeshInv, OffIsQuiet, InFlight
    <2>4. EarlyIsEmpty'
      BY <1>18 DEF ServerRefuses, MeshInv, EarlyIsEmpty
    <2>5. QueueOfOpen'
      BY <1>18 DEF ServerRefuses, MeshInv, QueueOfOpen
    <2>6. Reachable'
      BY <1>18 DEF ServerRefuses, MeshInv, Reachable
    <2>7. OpenIsSeen'
      BY <1>18 DEF ServerRefuses, MeshInv, OpenIsSeen
    <2>8. CallMesh'
      BY <1>18 DEF ServerRefuses, TypeOK, IInv, MeshInv, CallMesh, EarlyIsEmpty
    <2>9. OnceRules'
      BY <1>18 DEF ServerRefuses, TypeOK, IInv, MeshInv, OnceRules, CallMesh, InFlight
    <2> QED BY <2>1, <2>2, <2>3, <2>4, <2>5, <2>6, <2>7, <2>8, <2>9 DEF MeshInv
  <1>19. ASSUME NEW p \in Foreign, UserJoins(p) PROVE MeshInv'
    <2>1. PICK f \in BOOLEAN : BringUp("joiner", p, NoPortal, f)
      BY <1>19 DEF UserJoins
    <2>2. phase # "off" /\ toResume' = toResume /\ p # NoPortal /\ NoPortal \in Portal \union {NoPortal}
      BY <1>19 DEF UserJoins, UserActs, Portal
    <2> QED BY <2>1, <2>2, BringUpMeshInv
  <1>20. ASSUME NEW p \in Foreign, ServerClosesPortal(p) PROVE MeshInv'
    <2>1. PortalOfSession' /\ RowKinds' /\ Reachable'
      BY <1>20 DEF ServerClosesPortal, MeshInv, PortalOfSession, RowKinds, Reachable
    <2>2. UnusedIsBlank'
      BY <1>20 DEF ServerClosesPortal, MeshInv, UnusedIsBlank
    <2>3. OffIsQuiet'
      <3>1. /\ UNCHANGED <<phase, sessions, toResume, used, mesh, call, closer>>
            /\ \A t \in Sid : mesh[t] # "in" => queue'[t] = queue[t]
        BY <1>20 DEF ServerClosesPortal
      <3>2. phase = "off" => \A t \in Sid : mesh[t] # "in"
        BY OffIsClosed
      <3> QED BY <3>1, <3>2 DEF MeshInv, OffIsQuiet, InFlight
    <2>4. EarlyIsEmpty'
      BY <1>20 DEF ServerClosesPortal, MeshInv, EarlyIsEmpty, CallMesh
    <2>5. QueueOfOpen'
      <3>1. /\ UNCHANGED <<mesh, portal>> /\ up' = up \ {p} /\ p \in up
            /\ \A t \in Sid : queue'[t] = IF mesh[t] = "in" /\ ~once[t] /\ portal[t] = p
                                         THEN Append(queue[t], "closed") ELSE queue[t]
        BY <1>20 DEF ServerClosesPortal
      <3>2. \A t \in Sid : queue[t] \in Seq({"ready", "closed"})
        BY DEF MeshInv, IInv, TypeOK
      <3>3. \A t \in Sid : mesh[t] = "in" => EndOnlyLast(queue'[t])
        BY <3>1, <3>2, QueueFacts DEF MeshInv, QueueOfOpen
      <3> QED BY <3>1, <3>3 DEF MeshInv, QueueOfOpen
    <2>6. OpenIsSeen'
      BY <1>20 DEF ServerClosesPortal, MeshInv, OpenIsSeen
    <2>7. CallMesh'
      BY <1>20 DEF ServerClosesPortal, MeshInv, CallMesh, EarlyIsEmpty
    <2>8. OnceRules'
      BY <1>20 DEF ServerClosesPortal, MeshInv, OnceRules, CallMesh, InFlight
    <2> QED BY <2>1, <2>2, <2>3, <2>4, <2>5, <2>6, <2>7, <2>8 DEF MeshInv
  <1>21. ASSUME NEW x \in toResume, ResumeOne(x) PROVE MeshInv'
    <2> DEFINE p == IF x[2] = "owner" THEN NoPortal ELSE x[1]
    <2>1. BringUp(x[2], p, x[1], FALSE) /\ phase # "off" /\ toResume' \subseteq toResume
      BY <1>21 DEF ResumeOne
    <2>2. /\ x[2] \in {"owner", "joiner"} /\ x[1] \in Portal
          /\ x[2] = "joiner" => x[1] \in Foreign
          /\ x[2] = "owner" => x[1] \in issued
      BY DEF MeshInv, RowKinds, IInv, TypeOK
    <2>3. p \in Foreign \union {NoPortal} /\ (x[2] = "joiner" <=> p # NoPortal)
      BY <2>2 DEF Portal
    <2> HIDE DEF p
    <2>4. x[1] # NoPortal => x[1] = p \/ (x[2] = "owner" /\ x[1] \in issued)
      BY <2>2 DEF p
    <2> QED BY <2>1, <2>2, <2>3, <2>4, BringUpMeshInv
  <1>22. CASE UserCreates
    <2>1. PICK f \in BOOLEAN : BringUp("owner", NoPortal, NoPortal, f)
      BY <1>22 DEF UserCreates
    <2>2. phase # "off" /\ toResume' = toResume /\ NoPortal \in Portal \union {NoPortal}
      BY <1>22 DEF UserCreates, UserActs
    <2> QED BY <2>1, <2>2, BringUpMeshInv
  <1>23. CASE SignIn
    <2>1. UnusedIsBlank' /\ EarlyIsEmpty' /\ QueueOfOpen' /\ PortalOfSession' /\ Reachable'
          /\ OpenIsSeen'
      BY <1>23 DEF SignIn, MeshInv, UnusedIsBlank, EarlyIsEmpty, QueueOfOpen, PortalOfSession,
        Reachable, OpenIsSeen
    <2>2. OffIsQuiet'
      BY <1>23 DEF SignIn, OffIsQuiet
    <2>3. RowKinds'
      BY <1>23 DEF SignIn, MeshInv, RowKinds
    <2>4. CallMesh'
      BY <1>23 DEF SignIn, MeshInv, CallMesh, EarlyIsEmpty
    <2>5. OnceRules'
      BY <1>23 DEF SignIn, MeshInv, OnceRules, CallMesh, InFlight
    <2> QED BY <2>1, <2>2, <2>3, <2>4, <2>5 DEF MeshInv
  <1>24. CASE SignOut
    <2>1. EarlyIsEmpty' /\ QueueOfOpen' /\ PortalOfSession' /\ RowKinds'
      BY <1>24 DEF SignOut, MeshInv, EarlyIsEmpty, QueueOfOpen, PortalOfSession, RowKinds, Unmap, BeginLeave
    <2>2. UnusedIsBlank'
      BY <1>24 DEF SignOut, BeginLeave, Unmap, TypeOK, IInv, MeshInv, UnusedIsBlank
    <2>3. OffIsQuiet'
      BY <1>24 DEF SignOut, BeginLeave, Unmap, OffIsQuiet
    <2>4. Reachable'
      <3>1. UNCHANGED <<mesh, once, used, call>>
        BY <1>24 DEF SignOut, BeginLeave, Unmap
      <3>2. \A t \in Sid : t \in sessions => t \in sessions' \/ closer'[t] = "leave"
        BY <1>24 DEF SignOut, BeginLeave, Unmap, TypeOK, IInv, MeshInv
      <3>3. \A t \in Sid : closer[t] \in {"leave", "all", "quit"} => closer'[t] \in {"leave", "all", "quit"}
        BY <1>24 DEF SignOut, BeginLeave, Unmap, TypeOK, IInv, MeshInv
      <3> QED BY <3>1, <3>2, <3>3 DEF MeshInv, Reachable
    <2>5. OpenIsSeen'
      <3>1. UNCHANGED <<mesh, once, used, call, portal, up>>
        BY <1>24 DEF SignOut, BeginLeave, Unmap
      <3>2. \A t \in Sid : t \in sessions => t \in sessions' \/ closer'[t] = "leave"
        BY <1>24 DEF SignOut, BeginLeave, Unmap, TypeOK, IInv, MeshInv
      <3>3. \A t \in Sid : closer[t] \in {"leave", "all", "quit"} => closer'[t] \in {"leave", "all", "quit"}
        BY <1>24 DEF SignOut, BeginLeave, Unmap, TypeOK, IInv, MeshInv
      <3> QED BY <3>1, <3>2, <3>3 DEF MeshInv, OpenIsSeen
    <2>6. CallMesh'
      BY <1>24 DEF SignOut, BeginLeave, Unmap, TypeOK, IInv, MeshInv, CallMesh, EarlyIsEmpty
    <2>7. OnceRules'
      BY <1>24 DEF SignOut, BeginLeave, Unmap, TypeOK, IInv, MeshInv, OnceRules, CallMesh, InFlight
    <2> QED BY <2>1, <2>2, <2>3, <2>4, <2>5, <2>6, <2>7 DEF MeshInv
  <1>25. CASE LeaveAll
    <2>1. EarlyIsEmpty' /\ QueueOfOpen' /\ PortalOfSession' /\ RowKinds'
      BY <1>25 DEF LeaveAll, MeshInv, EarlyIsEmpty, QueueOfOpen, PortalOfSession, RowKinds
    <2>2. UnusedIsBlank'
      <3>. TypeOK
        BY DEF MeshInv, IInv
      <3>0. used \in Nat /\ \A t \in Sid : t \in Nat /\ (t \in sessions => t <= used)
        BY SidFacts
      <3>1. \A t \in Sid : t > used => t \notin sessions
        BY <3>0
      <3> QED BY <1>25, <3>1 DEF LeaveAll, Settled, MeshInv, UnusedIsBlank
    <2>3. OffIsQuiet'
      BY <1>25 DEF LeaveAll, MeshInv, OffIsQuiet, InFlight
    <2>4. Reachable'
      BY <1>25 DEF LeaveAll, MeshInv, Reachable
    <2>5. OpenIsSeen'
      BY <1>25 DEF LeaveAll, MeshInv, OpenIsSeen
    <2>6. CallMesh'
      BY <1>25 DEF LeaveAll, MeshInv, CallMesh, EarlyIsEmpty
    <2>7. OnceRules'
      BY <1>25 DEF LeaveAll, MeshInv, OnceRules, CallMesh, InFlight
    <2> QED BY <2>1, <2>2, <2>3, <2>4, <2>5, <2>6, <2>7 DEF MeshInv
  <1>26. CASE ClearRows
    <2>1. UnusedIsBlank' /\ OffIsQuiet' /\ EarlyIsEmpty' /\ QueueOfOpen' /\ PortalOfSession'
          /\ Reachable' /\ OpenIsSeen'
      BY <1>26 DEF ClearRows, MeshInv, UnusedIsBlank, OffIsQuiet, EarlyIsEmpty, QueueOfOpen,
        PortalOfSession, Reachable, OpenIsSeen, InFlight
    <2>2. RowKinds'
      BY <1>26 DEF ClearRows, StoreOpen, MeshInv, RowKinds
    <2>3. CallMesh'
      BY <1>26 DEF ClearRows, MeshInv, CallMesh, EarlyIsEmpty
    <2>4. OnceRules'
      BY <1>26 DEF ClearRows, MeshInv, OnceRules, CallMesh, InFlight
    <2> QED BY <2>1, <2>2, <2>3, <2>4 DEF MeshInv
  <1>27. CASE Shutdown
    <2>1. EarlyIsEmpty' /\ QueueOfOpen' /\ PortalOfSession' /\ RowKinds'
      BY <1>27 DEF Shutdown, MeshInv, EarlyIsEmpty, QueueOfOpen, PortalOfSession, RowKinds
    <2>2. UnusedIsBlank'
      <3>. TypeOK
        BY DEF MeshInv, IInv
      <3>0. used \in Nat /\ \A t \in Sid : t \in Nat /\ (t \in sessions => t <= used)
        BY SidFacts
      <3>1. \A t \in Sid : t > used => t \notin sessions
        BY <3>0
      <3> QED BY <1>27, <3>1 DEF Shutdown, Settled, MeshInv, UnusedIsBlank
    <2>3. OffIsQuiet'
      BY <1>27 DEF Shutdown, OffIsQuiet
    <2>4. Reachable'
      BY <1>27 DEF Shutdown, MeshInv, Reachable
    <2>5. OpenIsSeen'
      BY <1>27 DEF Shutdown, MeshInv, OpenIsSeen
    <2>6. CallMesh'
      BY <1>27 DEF Shutdown, MeshInv, CallMesh, EarlyIsEmpty
    <2>7. OnceRules'
      BY <1>27 DEF Shutdown, MeshInv, OnceRules, CallMesh, InFlight
    <2> QED BY <2>1, <2>2, <2>3, <2>4, <2>5, <2>6, <2>7 DEF MeshInv
  <1>28. CASE Launch
    <2>1. EarlyIsEmpty' /\ QueueOfOpen' /\ PortalOfSession' /\ RowKinds'
      BY <1>28 DEF Launch, MeshInv, EarlyIsEmpty, QueueOfOpen, PortalOfSession, RowKinds
    <2>2. UnusedIsBlank'
      BY <1>28 DEF Launch, MeshInv, UnusedIsBlank
    <2>3. OffIsQuiet'
      BY <1>28 DEF Launch, OffIsQuiet
    <2>4. Reachable'
      <3>1. UNCHANGED <<mesh, used>> /\ phase = "off"
        BY <1>28 DEF Launch
      <3> QED BY <3>1 DEF MeshInv, Reachable, OffIsQuiet
    <2>5. OpenIsSeen'
      <3>1. UNCHANGED mesh /\ phase = "off"
        BY <1>28 DEF Launch
      <3>2. phase = "off" => \A t \in Sid : mesh[t] # "in"
        BY OffIsClosed
      <3> QED BY <3>1, <3>2 DEF OpenIsSeen
    <2>6. CallMesh'
      BY <1>28 DEF Launch, MeshInv, CallMesh, EarlyIsEmpty
    <2>7. OnceRules'
      <3>1. /\ UNCHANGED <<mesh, once, sessions, call>> /\ sessions = {}
            /\ \A t \in Sid : mesh[t] \in {"new", "closed"} /\ ~InFlight(t)
        BY <1>28, OffIsClosed DEF Launch, MeshInv, OffIsQuiet
      <3> QED BY <3>1 DEF MeshInv, OnceRules, InFlight
    <2> QED BY <2>1, <2>2, <2>3, <2>4, <2>5, <2>6, <2>7 DEF MeshInv
  <1>29. CASE Dies
    <2>0. /\ sessions' = {} /\ \A t \in Sid : ~InFlight(t)'
          /\ \A t \in Sid : \/ mesh'[t] = "closed" /\ once'[t]
                            \/ mesh'[t] = "new" /\ ~once'[t] /\ call'[t] = "none"
      <3>1. sessions' = {} /\ \A t \in Sid : ~InFlight(t)'
        BY <1>29 DEF Dies, InFlight
      <3>2. used \in Nat /\ \A t \in Sid : t \in Nat
        BY SidFacts DEF MeshInv, IInv
      <3> SUFFICES ASSUME NEW t \in Sid
                   PROVE  \/ mesh'[t] = "closed" /\ once'[t]
                          \/ mesh'[t] = "new" /\ ~once'[t] /\ call'[t] = "none"
        BY <3>1
      <3>3. CASE t <= used
        BY <1>29, <3>3 DEF Dies
      <3>4. CASE ~(t <= used)
        <4>1. mesh[t] = "new" /\ ~once[t] /\ call[t] = "none"
          BY <3>2, <3>4 DEF MeshInv, UnusedIsBlank
        <4> QED BY <1>29, <3>4, <4>1 DEF Dies, InFlight
      <3> QED BY <3>3, <3>4
    <2>1. UnusedIsBlank'
      <3>1. \A t \in Sid : t > used => ~(t <= used)
        BY DEF MeshInv, IInv, TypeOK, Sid
      <3> SUFFICES ASSUME NEW t \in Sid, t > used
                   PROVE  /\ call'[t] = "none" /\ mesh'[t] = "new" /\ ~once'[t]
                          /\ queue'[t] = <<>> /\ closer'[t] = "none"
                          /\ portal[t] = NoPortal /\ view[t] = NoPortal /\ pid[t] = NoPortal
                          /\ target[t] = NoPortal /\ row[t] = NoPortal
        BY <1>29 DEF Dies, UnusedIsBlank
      <3>2. call[t] = "none" /\ closer[t] = "none" /\ mesh[t] = "new" /\ ~once[t]
        BY DEF MeshInv, UnusedIsBlank
      <3>3. ~InFlight(t)
        BY <3>2 DEF InFlight
      <3>4. call'[t] = "none" /\ mesh'[t] = "new" /\ ~once'[t] /\ queue'[t] = <<>>
        BY <1>29, <3>1, <3>2, <3>3 DEF Dies
      <3>5. closer'[t] = "none"
        BY <1>29, <3>2 DEF Dies
      <3> QED BY <3>4, <3>5 DEF MeshInv, UnusedIsBlank
    <2>2. OffIsQuiet'
      BY <1>29 DEF Dies, OffIsQuiet, InFlight
    <2>3. EarlyIsEmpty'
      BY <1>29 DEF Dies, MeshInv, EarlyIsEmpty
    <2>4. QueueOfOpen'
      <3>1. \A t \in Sid : mesh'[t] # "in"
        BY <2>0
      <3> QED BY <3>1 DEF QueueOfOpen
    <2>5. PortalOfSession'
      <3>1. \A t \in Sid : call'[t] # "none" => call[t] # "none"
        BY <1>29 DEF Dies, InFlight
      <3> QED BY <1>29, <3>1 DEF Dies, MeshInv, PortalOfSession
    <2>6. RowKinds'
      BY <1>29 DEF Dies, MeshInv, RowKinds
    <2>7. Reachable'
      BY <1>29 DEF Dies, Reachable
    <2>8. OpenIsSeen'
      <3>1. \A t \in Sid : mesh'[t] # "in"
        BY <2>0
      <3> QED BY <3>1 DEF OpenIsSeen
    <2>9. CallMesh'
      BY <2>0 DEF CallMesh, InFlight
    <2>10. OnceRules'
      BY <2>0 DEF OnceRules
    <2> QED BY <2>1, <2>2, <2>3, <2>4, <2>5, <2>6, <2>7, <2>8, <2>9, <2>10 DEF MeshInv
  <1>30. CASE UNCHANGED vars
    <2>1. UnusedIsBlank' /\ OffIsQuiet' /\ EarlyIsEmpty' /\ QueueOfOpen' /\ PortalOfSession'
          /\ RowKinds' /\ Reachable' /\ OpenIsSeen'
      BY <1>30 DEF vars, MeshInv, UnusedIsBlank, OffIsQuiet, EarlyIsEmpty, QueueOfOpen,
        PortalOfSession, RowKinds, Reachable, OpenIsSeen, InFlight
    <2>2. CallMesh'
      BY <1>30 DEF vars, MeshInv, CallMesh, EarlyIsEmpty
    <2>3. OnceRules'
      BY <1>30 DEF vars, MeshInv, OnceRules, CallMesh, InFlight
    <2> QED BY <2>1, <2>2, <2>3 DEF MeshInv
  <1> QED BY <1>1, <1>2, <1>3, <1>4, <1>5, <1>6, <1>7, <1>8, <1>9, <1>10, <1>11, <1>12, <1>13,
      <1>14, <1>15, <1>16, <1>17, <1>18, <1>19, <1>20, <1>21, <1>22, <1>23, <1>24, <1>25, <1>26,
      <1>27, <1>28, <1>29, <1>30
    DEF Next, Caller, Closer, Pump, User, Serves, Exit, Crash

LEMMA MeshInvHolds == Spec => []MeshInv
  <1>1. Init => MeshInv
    BY InitMeshInv
  <1>2. MeshInv /\ [Next]_vars => MeshInv'
    BY NextIInv, NextMeshInv DEF MeshInv
  <1> QED BY <1>1, <1>2, PTL DEF Spec

(***************************************************************************)
(* A call that returned an error left no session and no open mesh, however *)
(* it interleaves with leaves, sign-outs, shutdown and the server, but for *)
(* the bare link of a mesh whose Close a leave or a quit had spent.        *)
(***************************************************************************)
THEOREM FailureLeavesNothingHolds == Spec => []FailureLeavesNothing
  <1>1. MeshInv => FailureLeavesNothing
    BY DEF MeshInv, IInv, DroppedIsGone, CallMesh, OnceRules, ClosedOnes, FailureLeavesNothing
  <1> QED BY <1>1, MeshInvHolds, PTL

(***************************************************************************)
(* No mesh stays in a portal that nobody can reach or is closing, except   *)
(* where the server has ended the portal or the mesh came in closed.       *)
(***************************************************************************)
THEOREM OrphanOnlyAtEndHolds == Spec => []OrphanOnlyAtEnd
  <1>1. MeshInv => OrphanOnlyAtEnd
    BY DEF MeshInv, OpenIsSeen, CallMesh, OnceRules, OrphanOnlyAtEnd, CameInClosed
  <1> QED BY <1>1, MeshInvHolds, PTL

-----------------------------------------------------------------------------
(***************************************************************************)
(* LeaveAllPortals, for a user who waits for each call: it finds every     *)
(* call returned and every row already resumed, and nothing can enter a    *)
(* portal before it has cleared the rows.                                  *)
(***************************************************************************)
NobodyIn ==
  leavingAll # "no" => sessions = {} /\ toResume = {} /\ \A s \in Sid : ~InFlight(s)
LeavesWhileUp == leavingAll = "closing" => phase = "up" /\ ~locked

LeavingInv ==
  /\ IInv
  /\ NobodyIn
  /\ LeavesWhileUp

LEMMA InitLeavingInv == Init => LeavingInv
  BY InitIInv DEF Init, LeavingInv, NobodyIn, LeavesWhileUp

LEMMA NextLeavingInv == LeavingInv /\ "cancels" \notin Habits /\ IInv' /\ [Next]_vars => LeavingInv'
  <1> SUFFICES ASSUME LeavingInv, "cancels" \notin Habits, IInv', [Next]_vars PROVE LeavingInv'
    OBVIOUS
  <1> USE ActiveSessionsAssumption DEF process, server, app, caller, net, ending, stored
  <1>1. ASSUME NEW s \in Sid, Dial(s) PROVE LeavingInv'
    <2>1. LeavesWhileUp'
      BY <1>1 DEF Dial, LeavingInv, LeavesWhileUp
    <2>2. NobodyIn'
      BY <1>1 DEF Dial, LeavingInv, NobodyIn, InFlight
    <2> QED BY <2>1, <2>2 DEF LeavingInv
  <1>2. ASSUME NEW s \in Sid, SeesReady(s) PROVE LeavingInv'
    <2>1. LeavesWhileUp'
      BY <1>2 DEF SeesReady, LeavingInv, LeavesWhileUp
    <2>2. NobodyIn'
      BY <1>2 DEF SeesReady, LeavingInv, NobodyIn, InFlight
    <2> QED BY <2>1, <2>2 DEF LeavingInv
  <1>3. ASSUME NEW s \in Sid, SeesRefused(s) PROVE LeavingInv'
    <2>1. LeavesWhileUp'
      BY <1>3 DEF SeesRefused, LeavingInv, LeavesWhileUp
    <2>2. NobodyIn'
      BY <1>3 DEF SeesRefused, LeavingInv, NobodyIn, InFlight
    <2> QED BY <2>1, <2>2 DEF LeavingInv
  <1>4. ASSUME NEW s \in Sid, TimesOut(s) PROVE LeavingInv'
    <2>1. LeavesWhileUp'
      BY <1>4 DEF TimesOut, LeavingInv, LeavesWhileUp
    <2>2. NobodyIn'
      BY <1>4 DEF TimesOut, LeavingInv, NobodyIn, InFlight
    <2> QED BY <2>1, <2>2 DEF LeavingInv
  <1>5. ASSUME NEW s \in Sid, Record(s) PROVE LeavingInv'
    <2>1. LeavesWhileUp'
      BY <1>5 DEF Record, LeavingInv, LeavesWhileUp
    <2>2. NobodyIn'
      BY <1>5 DEF Record, StoreOpen, LeavingInv, NobodyIn, InFlight
    <2> QED BY <2>1, <2>2 DEF LeavingInv
  <1>6. ASSUME NEW s \in Sid, ForgetReplaced(s) PROVE LeavingInv'
    <2>1. LeavesWhileUp'
      BY <1>6 DEF ForgetReplaced, LeavingInv, LeavesWhileUp
    <2>2. NobodyIn'
      BY <1>6 DEF ForgetReplaced, Without, StoreOpen, LeavingInv, NobodyIn, InFlight
    <2> QED BY <2>1, <2>2 DEF LeavingInv
  <1>7. ASSUME NEW s \in Sid, DropSession(s) PROVE LeavingInv'
    <2>1. LeavesWhileUp'
      BY <1>7 DEF DropSession, LeavingInv, LeavesWhileUp, Unmap
    <2>2. NobodyIn'
      BY <1>7 DEF DropSession, Unmap, LeavingInv, NobodyIn, InFlight
    <2> QED BY <2>1, <2>2 DEF LeavingInv
  <1>8. ASSUME NEW s \in Sid, CloseDropped(s) PROVE LeavingInv'
    <2>1. LeavesWhileUp'
      BY <1>8 DEF CloseDropped, LeavingInv, LeavesWhileUp, CloseSession
    <2>2. NobodyIn'
      BY <1>8 DEF CloseDropped, CloseSession, LeavingInv, NobodyIn, InFlight
    <2> QED BY <2>1, <2>2 DEF LeavingInv
  <1>9. ASSUME NEW s \in Sid, Fail(s) PROVE LeavingInv'
    <2>1. LeavesWhileUp'
      BY <1>9 DEF Fail, LeavingInv, LeavesWhileUp
    <2>2. NobodyIn'
      BY <1>9 DEF Fail, PumpDone, Without, StoreOpen, LeavingInv, NobodyIn, InFlight
    <2> QED BY <2>1, <2>2 DEF LeavingInv
  <1>10. ASSUME NEW s \in Sid, Close(s) PROVE LeavingInv'
    <2>1. NobodyIn' /\ LeavesWhileUp'
      BY <1>10 DEF Close, LeavingInv, NobodyIn, LeavesWhileUp, InFlight, CloseSession
    <2> QED BY <2>1 DEF LeavingInv
  <1>11. ASSUME NEW s \in Sid, ForgetLeft(s) PROVE LeavingInv'
    <2>1. NobodyIn' /\ LeavesWhileUp'
      BY <1>11 DEF ForgetLeft, LeavingInv, NobodyIn, LeavesWhileUp, InFlight
    <2> QED BY <2>1 DEF LeavingInv
  <1>12. ASSUME NEW s \in Sid, RelayReady(s) PROVE LeavingInv'
    <2>1. NobodyIn' /\ LeavesWhileUp'
      BY <1>12 DEF RelayReady, LeavingInv, NobodyIn, LeavesWhileUp, InFlight
    <2> QED BY <2>1 DEF LeavingInv
  <1>13. ASSUME NEW s \in Sid, RelayClosed(s) PROVE LeavingInv'
    <2>1. LeavesWhileUp'
      BY <1>13 DEF RelayClosed, LeavingInv, LeavesWhileUp, Unmap
    <2>2. NobodyIn'
      BY <1>13 DEF RelayClosed, Unmap, Without, StoreOpen, LeavingInv, NobodyIn, InFlight
    <2> QED BY <2>1, <2>2 DEF LeavingInv
  <1>14. ASSUME NEW s \in Sid, PumpEnds(s) PROVE LeavingInv'
    <2>1. NobodyIn' /\ LeavesWhileUp'
      BY <1>14 DEF PumpEnds, LeavingInv, NobodyIn, LeavesWhileUp, InFlight
    <2> QED BY <2>1 DEF LeavingInv
  <1>15. ASSUME NEW s \in Sid, LeavePortal(s) PROVE LeavingInv'
    <2>1. LeavesWhileUp'
      BY <1>15 DEF LeavePortal, LeavingInv, LeavesWhileUp, Unmap, BeginLeave
    <2>2. NobodyIn'
      BY <1>15 DEF LeavePortal, BeginLeave, Unmap, LeavingInv, NobodyIn
    <2> QED BY <2>1, <2>2 DEF LeavingInv
  <1>16. ASSUME NEW s \in Sid, SwitchPortal(s) PROVE LeavingInv'
    <2>1. NobodyIn' /\ LeavesWhileUp'
      BY <1>16 DEF SwitchPortal, LeavingInv, NobodyIn, LeavesWhileUp, InFlight
    <2> QED BY <2>1 DEF LeavingInv
  <1>17. ASSUME NEW s \in Sid, ServerAdmits(s) PROVE LeavingInv'
    <2>1. NobodyIn' /\ LeavesWhileUp'
      BY <1>17 DEF ServerAdmits, LeavingInv, NobodyIn, LeavesWhileUp, InFlight, Enters
    <2> QED BY <2>1 DEF LeavingInv
  <1>18. ASSUME NEW s \in Sid, ServerRefuses(s) PROVE LeavingInv'
    <2>1. NobodyIn' /\ LeavesWhileUp'
      BY <1>18 DEF ServerRefuses, LeavingInv, NobodyIn, LeavesWhileUp, InFlight
    <2> QED BY <2>1 DEF LeavingInv
  <1>19. ASSUME NEW p \in Foreign, UserJoins(p) PROVE LeavingInv'
    <2>1. NobodyIn'
      BY <1>19 DEF UserJoins, BringUp, NewSessionID, LeavingInv, NobodyIn
    <2>2. LeavesWhileUp'
      BY <1>19 DEF UserJoins, BringUp, NewSessionID, LeavingInv, LeavesWhileUp
    <2> QED BY <2>1, <2>2 DEF LeavingInv
  <1>20. ASSUME NEW p \in Foreign, ServerClosesPortal(p) PROVE LeavingInv'
    <2>1. NobodyIn' /\ LeavesWhileUp'
      BY <1>20 DEF ServerClosesPortal, LeavingInv, NobodyIn, LeavesWhileUp, InFlight
    <2> QED BY <2>1 DEF LeavingInv
  <1>21. ASSUME NEW x \in toResume, ResumeOne(x) PROVE LeavingInv'
    <2>1. LeavesWhileUp'
      BY <1>21 DEF ResumeOne, LeavingInv, LeavesWhileUp, BringUp
    <2>2. NobodyIn'
      BY <1>21 DEF ResumeOne, BringUp, NewSessionID, LeavingInv, NobodyIn
    <2> QED BY <2>1, <2>2 DEF LeavingInv
  <1>22. CASE UserCreates
    <2>1. NobodyIn'
      BY <1>22 DEF UserCreates, BringUp, NewSessionID, LeavingInv, NobodyIn
    <2>2. LeavesWhileUp'
      BY <1>22 DEF UserCreates, BringUp, NewSessionID, LeavingInv, LeavesWhileUp
    <2> QED BY <2>1, <2>2 DEF LeavingInv
  <1>23. CASE SignIn
    <2>1. NobodyIn'
      BY <1>23 DEF SignIn, TypeOK, IInv, LeavingInv, NobodyIn, LeavesWhileUp
    <2>2. LeavesWhileUp'
      BY <1>23 DEF SignIn, LeavingInv, LeavesWhileUp, NobodyIn
    <2> QED BY <2>1, <2>2 DEF LeavingInv
  <1>24. CASE SignOut
    <2>1. NobodyIn'
      BY <1>24 DEF SignOut, BeginLeave, Unmap, LeavingInv, NobodyIn, InFlight
    <2>2. LeavesWhileUp'
      BY <1>24 DEF SignOut, BeginLeave, Unmap, LeavingInv, LeavesWhileUp, Quiet, NobodyLeaves
    <2> QED BY <2>1, <2>2 DEF LeavingInv
  <1>25. CASE LeaveAll
    <2>1. NobodyIn'
      BY <1>25 DEF LeaveAll, LeavingInv, NobodyIn, InFlight, Quiet
    <2>2. LeavesWhileUp'
      BY <1>25 DEF LeaveAll, LeavingInv, LeavesWhileUp, UserActs
    <2> QED BY <2>1, <2>2 DEF LeavingInv
  <1>26. CASE ClearRows
    <2>1. NobodyIn'
      BY <1>26 DEF ClearRows, StoreOpen, LeavingInv, NobodyIn, InFlight
    <2>2. LeavesWhileUp'
      BY <1>26 DEF ClearRows, StoreOpen, LeavingInv, LeavesWhileUp
    <2> QED BY <2>1, <2>2 DEF LeavingInv
  <1>27. CASE Shutdown
    <2>1. NobodyIn'
      BY <1>27 DEF Shutdown, LeavingInv, NobodyIn, InFlight
    <2>2. LeavesWhileUp'
      BY <1>27 DEF Shutdown, LeavingInv, LeavesWhileUp, NobodyLeaves
    <2> QED BY <2>1, <2>2 DEF LeavingInv
  <1>28. CASE Launch
    <2>1. NobodyIn'
      BY <1>28 DEF Launch, LeavingInv, NobodyIn, InFlight
    <2>2. LeavesWhileUp'
      BY <1>28 DEF Launch, LeavingInv, LeavesWhileUp
    <2> QED BY <2>1, <2>2 DEF LeavingInv
  <1>29. CASE Dies
    <2>1. NobodyIn'
      BY <1>29 DEF Dies, LeavingInv, NobodyIn
    <2>2. LeavesWhileUp'
      BY <1>29 DEF Dies, LeavingInv, LeavesWhileUp
    <2> QED BY <2>1, <2>2 DEF LeavingInv
  <1>30. CASE UNCHANGED vars
    <2>1. NobodyIn' /\ LeavesWhileUp'
      BY <1>30 DEF vars, LeavingInv, NobodyIn, LeavesWhileUp, InFlight
    <2> QED BY <2>1 DEF LeavingInv
  <1> QED BY <1>1, <1>2, <1>3, <1>4, <1>5, <1>6, <1>7, <1>8, <1>9, <1>10, <1>11, <1>12, <1>13,
      <1>14, <1>15, <1>16, <1>17, <1>18, <1>19, <1>20, <1>21, <1>22, <1>23, <1>24, <1>25, <1>26,
      <1>27, <1>28, <1>29, <1>30
    DEF Next, Caller, Closer, Pump, User, Serves, Exit, Crash

-----------------------------------------------------------------------------
(***************************************************************************)
(* LeftIsForgotten, LiveHasRow and KeptForNextLaunch, for a user who waits *)
(* for each call, joins no portal twice and does not sign out.  A row is   *)
(* shared by all sessions of a portal, past and present, so each of them   *)
(* must be done before the next begins: what a leave, a failed call or the *)
(* end of a portal forgets is never the row of another live session.       *)
(***************************************************************************)

\* Somebody still has to do something about s.
Engaged(s) == s \in sessions \/ InFlight(s) \/ closer[s] \in Leaving

\* The pump of s has somebody to report to.
Attended(s) ==
  s \in sessions \/ call[s] \in {"failing", "dropped", "closing"} \/ closer[s] \in Leaving

CloserRules ==
  \A s \in Sid :
    /\ s \in sessions => closer[s] = "none" /\ pid[s] = NoPortal
    /\ closer[s] \in Leaving => phase = "up"
    /\ closer[s] = "all" => leavingAll = "closing"
    /\ closer[s] \in {"leave", "leaveClosed", "left", "all", "allClosed"} => ~InFlight(s)
    /\ closer[s] \in {"leave", "leaveClosed", "left"} => pid[s] = portal[s] /\ portal[s] # NoPortal
    /\ closer[s] \in {"quit", "quitClosed"} => phase # "up"

CallRules ==
  \A s \in Sid :
    /\ call[s] \in {"entered", "recorded", "done"} => portal[s] # NoPortal
    /\ call[s] = "recorded" => kind[s] = "owner" /\ row[s] # NoPortal

LockedIsQuiet == locked /\ phase = "up" => toResume = {} /\ \A s \in Sid : ~Engaged(s)

\* A portal of somebody else is joined again only when nothing is left of
\* the sessions before; a row waits for its resume only then, too.
JoinedOnce ==
  \A s, t \in Sid : t < s /\ target[t] = target[s] /\ target[s] # NoPortal => ~Engaged(t)
ResumedOnce == \A x \in toResume : \A t \in Sid : target[t] = x[1] => ~Engaged(t)

OwnersApart ==
  \A s, t \in Sid : s # t /\ kind[s] = "owner" /\ portal[s] # NoPortal => portal[s] # portal[t]

\* A created portal that is resumed gets a new ID: no session is in the old one.
OldRows ==
  /\ \A x \in toResume : x[2] = "owner" => \A s \in sessions : portal[s] # x[1]
  /\ \A t \in Sid : InFlight(t) /\ kind[t] = "owner" /\ row[t] # NoPortal =>
       \A s \in sessions : portal[s] # row[t]

QueueAttended ==
  phase = "up" => \A s \in Sid : queue[s] # <<>> =>
    Attended(s) \/ (leavingAll = "closing" /\ closer[s] = "allClosed")

OpenMesh == \A s \in sessions : mesh[s] # "closed"

RowOfLive ==
  phase = "up" => \A s \in sessions : call[s] \in {"recorded", "done"} => rows[portal[s]] # "none"

SteadyInv ==
  /\ MeshInv
  /\ LeavingInv
  /\ CloserRules
  /\ CallRules
  /\ LockedIsQuiet
  /\ JoinedOnce
  /\ ResumedOnce
  /\ OwnersApart
  /\ OldRows
  /\ QueueAttended
  /\ OpenMesh
  /\ RowOfLive
  /\ LeftIsForgotten
  /\ KeptForNextLaunch

LEMMA InitSteadyInv == Init => SteadyInv
  <1> SUFFICES ASSUME Init PROVE SteadyInv
    OBVIOUS
  <1>1. MeshInv /\ LeavingInv
    BY InitMeshInv, InitLeavingInv
  <1>2. CloserRules /\ CallRules /\ LockedIsQuiet /\ JoinedOnce /\ ResumedOnce
    BY DEF Init, CloserRules, CallRules, LockedIsQuiet, JoinedOnce, ResumedOnce, Leaving, Engaged, InFlight
  <1>3. OwnersApart /\ OldRows /\ QueueAttended /\ OpenMesh
    BY DEF Init, OwnersApart, OldRows, QueueAttended, OpenMesh
  <1>4. RowOfLive /\ LeftIsForgotten /\ KeptForNextLaunch
    BY DEF Init, RowOfLive, LeftIsForgotten, KeptForNextLaunch
  <1> QED BY <1>1, <1>2, <1>3, <1>4 DEF SteadyInv

LEMMA RowsFacts ==
  ASSUME TypeOK, NEW p
  PROVE  /\ phase # "up" => Without(p) = rows
         /\ \A q \in Portal : Without(p)[q] = rows[q] \/ (q = p /\ Without(p)[q] = "none")
         /\ phase = "up" /\ p \in Portal => Without(p)[p] = "none"
  BY DEF Without, StoreOpen, TypeOK

LEMMA OnePerTarget ==
  ASSUME SteadyInv, NEW s \in Sid, NEW t \in Sid, s # t, Engaged(s), Engaged(t), target[s] # NoPortal
  PROVE  target[s] # target[t]
  <1>1. s < t \/ t < s
    BY DEF Sid
  <1> QED BY <1>1 DEF SteadyInv, JoinedOnce

LEMMA OnePerPortal ==
  ASSUME SteadyInv, NEW s \in Sid, NEW t \in Sid, s # t, Engaged(s), Engaged(t), portal[s] # NoPortal
  PROVE  portal[s] # portal[t]
  <1> SUFFICES ASSUME portal[s] = portal[t] PROVE FALSE
    OBVIOUS
  <1>1. kind[s] # "owner" /\ kind[t] # "owner"
    BY DEF SteadyInv, OwnersApart
  <1>2. portal[s] = target[s] /\ portal[t] = target[t]
    BY <1>1 DEF SteadyInv, MeshInv, PortalOfSession
  <1> QED BY <1>2, OnePerTarget

\* The row of a live session survives what is forgotten for somebody else.
LEMMA RowOfLiveKept ==
  ASSUME SteadyInv, TypeOK, NEW p, rows' \in {rows, Without(p)}, UNCHANGED <<phase, portal>>,
         sessions' \subseteq sessions,
         \A t \in sessions' : call'[t] \in {"recorded", "done"} =>
           call[t] \in {"recorded", "done"} /\ portal[t] # p
  PROVE  RowOfLive'
  <1>1. \A q \in Portal : rows'[q] = rows[q] \/ q = p
    BY RowsFacts
  <1>2. \A t \in sessions : call[t] \in {"recorded", "done"} => portal[t] \in Portal
    BY SidFacts DEF SteadyInv, CallRules, TypeOK
  <1> QED BY <1>1, <1>2 DEF SteadyInv, RowOfLive

\* Once Shutdown has taken the store away, no row changes.
LEMMA KeptWithoutStore ==
  ASSUME SteadyInv, phase # "up" => rows' = rows, UNCHANGED pid,
         \A t \in Sid : closer'[t] \in {"quit", "quitClosed"} => closer[t] \in {"quit", "quitClosed"}
  PROVE  KeptForNextLaunch'
  <1> SUFFICES ASSUME NEW t \in Sid, closer'[t] \in {"quit", "quitClosed"}, pid[t] # NoPortal
               PROVE  rows'[pid[t]] # "none"
    BY DEF KeptForNextLaunch
  <1>1. phase # "up"
    BY DEF SteadyInv, CloserRules
  <1> QED BY <1>1 DEF SteadyInv, KeptForNextLaunch

LEMMA NextSteadyInv == SteadyInv /\ Habits = {} /\ MeshInv' /\ LeavingInv' /\ IInv' /\ [Next]_vars => SteadyInv'
  <1> SUFFICES ASSUME SteadyInv, Habits = {}, MeshInv', LeavingInv', IInv', [Next]_vars PROVE SteadyInv'
    OBVIOUS
  <1> USE ActiveSessionsAssumption DEF process, server, app, caller, net, ending, stored
  <1>1. ASSUME NEW s \in Sid, Dial(s) PROVE SteadyInv'
    <2>1. OwnersApart' /\ LeftIsForgotten' /\ KeptForNextLaunch'
      BY <1>1 DEF Dial, SteadyInv, OwnersApart, LeftIsForgotten, KeptForNextLaunch
    <2>2. CloserRules'
      BY <1>1 DEF Dial, TypeOK, IInv, SteadyInv, CloserRules, InFlight
    <2>3. CallRules'
      BY <1>1 DEF Dial, TypeOK, IInv, SteadyInv, CallRules
    <2>4. LockedIsQuiet'
      BY <1>1 DEF Dial, SteadyInv, LockedIsQuiet, Engaged, InFlight
    <2>5. JoinedOnce'
      BY <1>1 DEF Dial, TypeOK, IInv, SteadyInv, JoinedOnce, Engaged, InFlight
    <2>6. ResumedOnce'
      BY <1>1 DEF Dial, TypeOK, IInv, SteadyInv, ResumedOnce, Engaged, InFlight
    <2>7. OldRows'
      <3>1. UNCHANGED <<phase, sessions, toResume, closer, leavingAll, portal, kind, row, rows, queue>>
        BY <1>1 DEF Dial
      <3>2. \A t \in Sid : InFlight(t)' => InFlight(t)
        BY <1>1 DEF Dial, SteadyInv, MeshInv, IInv, TypeOK, InFlight
      <3> QED BY <3>1, <3>2 DEF SteadyInv, OldRows
    <2>8. QueueAttended'
      <3>1. UNCHANGED <<phase, sessions, toResume, closer, leavingAll, portal, kind, row, rows, queue>>
        BY <1>1 DEF Dial
      <3>2. \A t \in Sid : call[t] \in {"failing", "dropped", "closing"} => call'[t] = call[t]
        BY <1>1 DEF Dial, SteadyInv, MeshInv, IInv, TypeOK, InFlight
      <3> QED BY <3>1, <3>2 DEF SteadyInv, QueueAttended, Attended
    <2>9. OpenMesh'
      <3>1. UNCHANGED sessions
        BY <1>1 DEF Dial
      <3>2. \A t \in sessions : t \in Sid
        BY SidFacts DEF SteadyInv, MeshInv, IInv
      <3>3. \A t \in Sid : mesh'[t] = "closed" => mesh[t] = "closed"
        BY <1>1 DEF Dial, SteadyInv, MeshInv, IInv, TypeOK
      <3> QED BY <3>1, <3>2, <3>3 DEF SteadyInv, OpenMesh
    <2>10. RowOfLive'
      <3>1. UNCHANGED <<phase, sessions, portal, rows>>
        BY <1>1 DEF Dial
      <3>2. \A t \in sessions : t \in Sid
        BY SidFacts DEF SteadyInv, MeshInv, IInv
      <3>3. \A t \in Sid : call'[t] \in {"recorded", "done"} => call[t] = call'[t]
        BY <1>1 DEF Dial, SteadyInv, MeshInv, IInv, TypeOK
      <3> QED BY <3>1, <3>2, <3>3 DEF SteadyInv, RowOfLive
    <2> QED BY <2>1, <2>2, <2>3, <2>4, <2>5, <2>6, <2>7, <2>8, <2>9, <2>10 DEF SteadyInv
  <1>2. ASSUME NEW s \in Sid, SeesReady(s) PROVE SteadyInv'
    <2>1. OwnersApart' /\ OpenMesh' /\ LeftIsForgotten' /\ KeptForNextLaunch'
      BY <1>2 DEF SeesReady, SteadyInv, OwnersApart, OpenMesh, LeftIsForgotten, KeptForNextLaunch
    <2>2. CloserRules'
      BY <1>2 DEF SeesReady, SteadyInv, CloserRules, InFlight
    <2>3. CallRules'
      BY <1>2 DEF SeesReady, SteadyInv, CallRules
    <2>4. LockedIsQuiet'
      BY <1>2 DEF SeesReady, SteadyInv, LockedIsQuiet, Engaged, InFlight
    <2>5. JoinedOnce'
      BY <1>2 DEF SeesReady, SteadyInv, JoinedOnce, Engaged, InFlight
    <2>6. ResumedOnce'
      BY <1>2 DEF SeesReady, SteadyInv, ResumedOnce, Engaged, InFlight
    <2>7. OldRows'
      BY <1>2 DEF SeesReady, SteadyInv, OldRows, InFlight
    <2>8. QueueAttended'
      BY <1>2 DEF SeesReady, SteadyInv, QueueAttended, Attended
    <2>9. RowOfLive'
      BY <1>2 DEF SeesReady, SteadyInv, RowOfLive
    <2> QED BY <2>1, <2>2, <2>3, <2>4, <2>5, <2>6, <2>7, <2>8, <2>9 DEF SteadyInv
  <1>3. ASSUME NEW s \in Sid, SeesRefused(s) PROVE SteadyInv'
    <2>1. OwnersApart' /\ OpenMesh' /\ LeftIsForgotten' /\ KeptForNextLaunch'
      BY <1>3 DEF SeesRefused, SteadyInv, OwnersApart, OpenMesh, LeftIsForgotten, KeptForNextLaunch
    <2>2. CloserRules'
      BY <1>3 DEF SeesRefused, SteadyInv, CloserRules, InFlight
    <2>3. CallRules'
      BY <1>3 DEF SeesRefused, SteadyInv, CallRules
    <2>4. LockedIsQuiet'
      BY <1>3 DEF SeesRefused, SteadyInv, LockedIsQuiet, Engaged, InFlight
    <2>5. JoinedOnce'
      BY <1>3 DEF SeesRefused, SteadyInv, JoinedOnce, Engaged, InFlight
    <2>6. ResumedOnce'
      BY <1>3 DEF SeesRefused, SteadyInv, ResumedOnce, Engaged, InFlight
    <2>7. OldRows'
      BY <1>3 DEF SeesRefused, SteadyInv, OldRows, InFlight
    <2>8. QueueAttended'
      BY <1>3 DEF SeesRefused, SteadyInv, QueueAttended, Attended
    <2>9. RowOfLive'
      BY <1>3 DEF SeesRefused, SteadyInv, RowOfLive
    <2> QED BY <2>1, <2>2, <2>3, <2>4, <2>5, <2>6, <2>7, <2>8, <2>9 DEF SteadyInv
  <1>4. ASSUME NEW s \in Sid, TimesOut(s) PROVE SteadyInv'
    <2>1. OwnersApart' /\ OpenMesh' /\ LeftIsForgotten' /\ KeptForNextLaunch'
      BY <1>4 DEF TimesOut, SteadyInv, OwnersApart, OpenMesh, LeftIsForgotten, KeptForNextLaunch
    <2>2. CloserRules'
      BY <1>4 DEF TimesOut, SteadyInv, CloserRules, InFlight
    <2>3. CallRules'
      BY <1>4 DEF TimesOut, SteadyInv, CallRules
    <2>4. LockedIsQuiet'
      BY <1>4 DEF TimesOut, SteadyInv, LockedIsQuiet, Engaged, InFlight
    <2>5. JoinedOnce'
      BY <1>4 DEF TimesOut, SteadyInv, JoinedOnce, Engaged, InFlight
    <2>6. ResumedOnce'
      BY <1>4 DEF TimesOut, SteadyInv, ResumedOnce, Engaged, InFlight
    <2>7. OldRows'
      BY <1>4 DEF TimesOut, SteadyInv, OldRows, InFlight
    <2>8. QueueAttended'
      BY <1>4 DEF TimesOut, SteadyInv, QueueAttended, Attended
    <2>9. RowOfLive'
      BY <1>4 DEF TimesOut, SteadyInv, RowOfLive
    <2> QED BY <2>1, <2>2, <2>3, <2>4, <2>5, <2>6, <2>7, <2>8, <2>9 DEF SteadyInv
  <1>5. ASSUME NEW s \in Sid, Record(s) PROVE SteadyInv'
    <2>1. OwnersApart' /\ OpenMesh'
      BY <1>5 DEF Record, SteadyInv, OwnersApart, OpenMesh
    <2>2. CloserRules'
      BY <1>5 DEF Record, StoreOpen, SteadyInv, CloserRules, InFlight
    <2>3. CallRules'
      BY <1>5 DEF Record, StoreOpen, SteadyInv, CallRules
    <2>4. LockedIsQuiet'
      BY <1>5 DEF Record, StoreOpen, SteadyInv, LockedIsQuiet, Engaged, InFlight
    <2>5. JoinedOnce'
      BY <1>5 DEF Record, StoreOpen, SteadyInv, JoinedOnce, Engaged, InFlight
    <2>6. ResumedOnce'
      BY <1>5 DEF Record, StoreOpen, SteadyInv, ResumedOnce, Engaged, InFlight
    <2>7. OldRows'
      BY <1>5 DEF Record, StoreOpen, SteadyInv, OldRows, InFlight
    <2>8. QueueAttended'
      BY <1>5 DEF Record, StoreOpen, SteadyInv, QueueAttended, Attended
    <2>9. RowOfLive'
      BY <1>5 DEF Record, StoreOpen, TypeOK, IInv, SteadyInv, RowOfLive
    <2>10. LeftIsForgotten'
      <3>1. /\ UNCHANGED <<closer, portal>> /\ InFlight(s) /\ portal[s] \in Portal
            /\ \A q \in Portal : rows'[q] = rows[q] \/ q = portal[s]
        BY <1>5 DEF Record, InFlight, SteadyInv, CallRules, MeshInv, IInv, TypeOK
      <3> SUFFICES ASSUME NEW t \in Sid, closer[t] = "left", portal[t] # NoPortal,
                          \A u \in Sid : ~(u > t /\ portal[u] = portal[t])
                   PROVE  rows'[portal[t]] = "none"
        BY <3>1 DEF LeftIsForgotten
      <3>2. rows[portal[t]] = "none" /\ portal[t] \in Portal
        BY DEF SteadyInv, LeftIsForgotten, MeshInv, IInv, TypeOK
      <3>3. portal[t] # portal[s]
        <4> SUFFICES ASSUME portal[t] = portal[s] PROVE FALSE
          OBVIOUS
        <4>1. s # t /\ ~(s > t)
          BY <3>1 DEF SteadyInv, CloserRules
        <4>2. s < t
          BY <4>1 DEF Sid
        <4>3. kind[s] # "owner" /\ kind[t] # "owner"
          BY <4>1 DEF SteadyInv, OwnersApart
        <4>4. portal[s] = target[s] /\ portal[t] = target[t]
          BY <4>3 DEF SteadyInv, MeshInv, PortalOfSession
        <4> QED BY <3>1, <4>2, <4>4 DEF SteadyInv, JoinedOnce, Engaged
      <3> QED BY <3>1, <3>2, <3>3
    <2>11. KeptForNextLaunch'
      BY <1>5 DEF Record, StoreOpen, TypeOK, IInv, SteadyInv, KeptForNextLaunch
    <2> QED BY <2>1, <2>2, <2>3, <2>4, <2>5, <2>6, <2>7, <2>8, <2>9, <2>10, <2>11 DEF SteadyInv
  <1>6. ASSUME NEW s \in Sid, ForgetReplaced(s) PROVE SteadyInv'
    <2>1. OwnersApart' /\ OpenMesh'
      BY <1>6 DEF ForgetReplaced, SteadyInv, OwnersApart, OpenMesh
    <2>2. CloserRules'
      BY <1>6 DEF ForgetReplaced, Without, StoreOpen, SteadyInv, CloserRules, InFlight
    <2>3. CallRules'
      BY <1>6 DEF ForgetReplaced, Without, StoreOpen, SteadyInv, CallRules
    <2>4. LockedIsQuiet'
      BY <1>6 DEF ForgetReplaced, Without, StoreOpen, SteadyInv, LockedIsQuiet, Engaged, InFlight
    <2>5. JoinedOnce'
      BY <1>6 DEF ForgetReplaced, Without, StoreOpen, SteadyInv, JoinedOnce, Engaged, InFlight
    <2>6. ResumedOnce'
      BY <1>6 DEF ForgetReplaced, Without, StoreOpen, SteadyInv, ResumedOnce, Engaged, InFlight
    <2>7. OldRows'
      BY <1>6 DEF ForgetReplaced, Without, StoreOpen, SteadyInv, OldRows, InFlight
    <2>8. QueueAttended'
      BY <1>6 DEF ForgetReplaced, Without, StoreOpen, SteadyInv, QueueAttended, Attended
    <2>9. RowOfLive'
      <3>1. /\ InFlight(s) /\ kind[s] = "owner" /\ row[s] # NoPortal
            /\ UNCHANGED <<phase, portal, sessions>> /\ rows' \in {rows, Without(row[s])}
        BY <1>6 DEF ForgetReplaced, InFlight, SteadyInv, CallRules
      <3>2. \A t \in sessions : t \in Sid /\ portal[t] # row[s]
        BY <3>1, SidFacts DEF SteadyInv, OldRows, MeshInv, IInv
      <3>3. \A t \in Sid : call'[t] \in {"recorded", "done"} => call[t] \in {"recorded", "done"}
        BY <1>6 DEF ForgetReplaced, SteadyInv, MeshInv, IInv, TypeOK
      <3> QED BY <3>1, <3>2, <3>3, RowOfLiveKept DEF SteadyInv, MeshInv, IInv
    <2>10. LeftIsForgotten'
      BY <1>6 DEF ForgetReplaced, Without, StoreOpen, SteadyInv, LeftIsForgotten
    <2>11. KeptForNextLaunch'
      <3>1. (phase # "up" => rows' = rows) /\ UNCHANGED pid
        BY <1>6 DEF ForgetReplaced, Without, StoreOpen
      <3>2. \A t \in Sid : closer'[t] \in {"quit", "quitClosed"} => closer[t] \in {"quit", "quitClosed"}
        BY <1>6 DEF ForgetReplaced, SteadyInv, MeshInv, IInv, TypeOK
      <3> QED BY <3>1, <3>2, KeptWithoutStore
    <2> QED BY <2>1, <2>2, <2>3, <2>4, <2>5, <2>6, <2>7, <2>8, <2>9, <2>10, <2>11 DEF SteadyInv
  <1>7. ASSUME NEW s \in Sid, DropSession(s) PROVE SteadyInv'
    <2>1. OwnersApart' /\ LeftIsForgotten' /\ KeptForNextLaunch'
      BY <1>7 DEF DropSession, SteadyInv, OwnersApart, LeftIsForgotten, KeptForNextLaunch, Unmap
    <2>2. CloserRules'
      BY <1>7 DEF DropSession, Unmap, SteadyInv, CloserRules, InFlight
    <2>3. CallRules'
      BY <1>7 DEF DropSession, Unmap, SteadyInv, CallRules
    <2>4. LockedIsQuiet'
      BY <1>7 DEF DropSession, Unmap, SteadyInv, LockedIsQuiet, Engaged, InFlight
    <2>5. JoinedOnce'
      BY <1>7 DEF DropSession, Unmap, SteadyInv, JoinedOnce, Engaged, InFlight
    <2>6. ResumedOnce'
      BY <1>7 DEF DropSession, Unmap, SteadyInv, ResumedOnce, Engaged, InFlight
    <2>7. OldRows'
      BY <1>7 DEF DropSession, Unmap, SteadyInv, OldRows, InFlight
    <2>8. QueueAttended'
      BY <1>7 DEF DropSession, Unmap, SteadyInv, QueueAttended, Attended
    <2>9. OpenMesh'
      BY <1>7 DEF DropSession, Unmap, SteadyInv, OpenMesh
    <2>10. RowOfLive'
      BY <1>7 DEF DropSession, Unmap, SteadyInv, RowOfLive
    <2> QED BY <2>1, <2>2, <2>3, <2>4, <2>5, <2>6, <2>7, <2>8, <2>9, <2>10 DEF SteadyInv
  <1>8. ASSUME NEW s \in Sid, CloseDropped(s) PROVE SteadyInv'
    <2>1. OwnersApart' /\ LeftIsForgotten' /\ KeptForNextLaunch'
      BY <1>8 DEF CloseDropped, SteadyInv, OwnersApart, LeftIsForgotten, KeptForNextLaunch, CloseSession
    <2>2. CloserRules'
      BY <1>8 DEF CloseDropped, CloseSession, SteadyInv, CloserRules, InFlight
    <2>3. CallRules'
      BY <1>8 DEF CloseDropped, CloseSession, SteadyInv, CallRules
    <2>4. LockedIsQuiet'
      BY <1>8 DEF CloseDropped, CloseSession, SteadyInv, LockedIsQuiet, Engaged, InFlight
    <2>5. JoinedOnce'
      BY <1>8 DEF CloseDropped, CloseSession, SteadyInv, JoinedOnce, Engaged, InFlight
    <2>6. ResumedOnce'
      BY <1>8 DEF CloseDropped, CloseSession, SteadyInv, ResumedOnce, Engaged, InFlight
    <2>7. OldRows'
      BY <1>8 DEF CloseDropped, CloseSession, SteadyInv, OldRows, InFlight
    <2>8. QueueAttended'
      BY <1>8 DEF CloseDropped, CloseSession, TypeOK, IInv, SteadyInv, QueueAttended, Attended
    <2>9. OpenMesh'
      BY <1>8 DEF CloseDropped, CloseSession, IInv, SteadyInv, OpenMesh, DroppedIsGone
    <2>10. RowOfLive'
      BY <1>8 DEF CloseDropped, CloseSession, SteadyInv, RowOfLive
    <2> QED BY <2>1, <2>2, <2>3, <2>4, <2>5, <2>6, <2>7, <2>8, <2>9, <2>10 DEF SteadyInv
  <1>9. ASSUME NEW s \in Sid, Fail(s) PROVE SteadyInv'
    <2>1. OwnersApart' /\ OpenMesh'
      BY <1>9 DEF Fail, SteadyInv, OwnersApart, OpenMesh
    <2>2. CloserRules'
      BY <1>9 DEF Fail, PumpDone, Without, StoreOpen, SteadyInv, CloserRules, InFlight
    <2>3. CallRules'
      BY <1>9 DEF Fail, PumpDone, Without, StoreOpen, SteadyInv, CallRules
    <2>4. LockedIsQuiet'
      BY <1>9 DEF Fail, PumpDone, Without, StoreOpen, SteadyInv, LockedIsQuiet, Engaged, InFlight
    <2>5. JoinedOnce'
      BY <1>9 DEF Fail, PumpDone, Without, StoreOpen, SteadyInv, JoinedOnce, Engaged, InFlight
    <2>6. ResumedOnce'
      BY <1>9 DEF Fail, PumpDone, Without, StoreOpen, SteadyInv, ResumedOnce, Engaged, InFlight
    <2>7. OldRows'
      BY <1>9 DEF Fail, PumpDone, Without, StoreOpen, SteadyInv, OldRows, InFlight
    <2>8. QueueAttended'
      BY <1>9 DEF Fail, PumpDone, Without, StoreOpen, SteadyInv, QueueAttended, Attended
    <2>9. RowOfLive'
      <3>1. /\ call[s] = "closing" /\ UNCHANGED <<phase, portal, sessions>> /\ rows' \in {rows, Without(row[s])}
            /\ rows' # rows => kind[s] = "joiner"
        BY <1>9 DEF Fail
      <3>2. \A t \in Sid : call'[t] \in {"recorded", "done"} => call[t] = call'[t]
        BY <1>9 DEF Fail, SteadyInv, MeshInv, IInv, TypeOK
      <3>3. ASSUME NEW t \in sessions, rows' # rows, call[t] \in {"recorded", "done"} PROVE portal[t] # row[s]
        <4> SUFFICES ASSUME portal[t] = row[s] PROVE FALSE
          OBVIOUS
        <4>1. t \in Sid /\ portal[t] # NoPortal
          BY <3>3, SidFacts DEF SteadyInv, CallRules, MeshInv, IInv
        <4>2. row[s] = target[s] /\ target[s] \in Foreign
          BY <3>1, <3>3, <4>1 DEF SteadyInv, MeshInv, PortalOfSession
        <4>3. portal[t] = target[t]
          BY <4>1, <4>2, ActiveSessionsAssumption DEF SteadyInv, MeshInv, PortalOfSession, IInv, TypeOK
        <4>4. s # t /\ Engaged(s) /\ Engaged(t)
          BY <3>1 DEF SteadyInv, MeshInv, IInv, DroppedIsGone, Engaged, InFlight
        <4> QED BY <4>1, <4>2, <4>3, <4>4, OnePerTarget
      <3>4. CASE rows' = rows
        BY <3>1, <3>2, <3>4, SidFacts DEF SteadyInv, RowOfLive, MeshInv, IInv
      <3>5. CASE rows' # rows
        BY <3>1, <3>2, <3>3, <3>5, SidFacts, RowOfLiveKept DEF SteadyInv, MeshInv, IInv
      <3> QED BY <3>4, <3>5
    <2>10. LeftIsForgotten'
      BY <1>9 DEF Fail, PumpDone, Without, StoreOpen, SteadyInv, LeftIsForgotten
    <2>11. KeptForNextLaunch'
      <3>1. (phase # "up" => rows' = rows) /\ UNCHANGED pid
        BY <1>9 DEF Fail, Without, StoreOpen
      <3>2. \A t \in Sid : closer'[t] \in {"quit", "quitClosed"} => closer[t] \in {"quit", "quitClosed"}
        BY <1>9 DEF Fail, SteadyInv, MeshInv, IInv, TypeOK
      <3> QED BY <3>1, <3>2, KeptWithoutStore
    <2> QED BY <2>1, <2>2, <2>3, <2>4, <2>5, <2>6, <2>7, <2>8, <2>9, <2>10, <2>11 DEF SteadyInv
  <1>10. ASSUME NEW s \in Sid, Close(s) PROVE SteadyInv'
    <2>1. CallRules' /\ OwnersApart' /\ OldRows' /\ RowOfLive'
      BY <1>10 DEF Close, SteadyInv, CallRules, OwnersApart, OldRows, RowOfLive, InFlight, CloseSession
    <2>2. CloserRules'
      BY <1>10 DEF Close, CloseSession, Closed, SteadyInv, CloserRules, InFlight, Leaving
    <2>3. LockedIsQuiet'
      BY <1>10 DEF Close, CloseSession, Closed, SteadyInv, LockedIsQuiet, Engaged, InFlight, Leaving
    <2>4. JoinedOnce'
      BY <1>10 DEF Close, CloseSession, Closed, SteadyInv, JoinedOnce, Engaged, InFlight, Leaving
    <2>5. ResumedOnce'
      BY <1>10 DEF Close, CloseSession, Closed, SteadyInv, ResumedOnce, Engaged, InFlight, Leaving
    <2>6. QueueAttended'
      <3>1. /\ UNCHANGED <<phase, sessions, call, leavingAll>> /\ closer[s] \in {"leave", "all", "quit"}
            /\ closer'[s] = IF closer[s] = "leave" THEN "leaveClosed"
                            ELSE IF closer[s] = "all" THEN "allClosed" ELSE "quitClosed"
            /\ \A t \in Sid : t # s => queue'[t] = queue[t] /\ closer'[t] = closer[t]
        BY <1>10 DEF Close, CloseSession, Closed, SteadyInv, MeshInv, IInv, TypeOK
      <3> SUFFICES ASSUME NEW t \in Sid, phase = "up", queue'[t] # <<>>
                   PROVE  Attended(t)' \/ (leavingAll = "closing" /\ closer'[t] = "allClosed")
        BY <3>1 DEF QueueAttended
      <3>2. CASE t = s
        BY <3>1, <3>2 DEF SteadyInv, CloserRules, Attended, Leaving
      <3>3. CASE t # s
        BY <3>1, <3>3 DEF SteadyInv, QueueAttended, Attended
      <3> QED BY <3>2, <3>3
    <2>7. OpenMesh'
      BY <1>10 DEF Close, CloseSession, Closed, SteadyInv, OpenMesh, CloserRules
    <2>8. LeftIsForgotten'
      BY <1>10 DEF Close, CloseSession, Closed, SteadyInv, LeftIsForgotten
    <2>9. KeptForNextLaunch'
      BY <1>10 DEF Close, CloseSession, Closed, SteadyInv, KeptForNextLaunch
    <2> QED BY <2>1, <2>2, <2>3, <2>4, <2>5, <2>6, <2>7, <2>8, <2>9 DEF SteadyInv
  <1>11. ASSUME NEW s \in Sid, ForgetLeft(s) PROVE SteadyInv'
    <2>1. CallRules' /\ OwnersApart' /\ OldRows' /\ OpenMesh'
      BY <1>11 DEF ForgetLeft, SteadyInv, CallRules, OwnersApart, OldRows, OpenMesh, InFlight
    <2>2. CloserRules'
      BY <1>11 DEF ForgetLeft, PumpDone, Without, StoreOpen, SteadyInv, CloserRules, InFlight, Leaving
    <2>3. LockedIsQuiet'
      BY <1>11 DEF ForgetLeft, PumpDone, Without, StoreOpen, SteadyInv, LockedIsQuiet, Engaged, Leaving
    <2>4. JoinedOnce'
      BY <1>11 DEF ForgetLeft, PumpDone, Without, StoreOpen, SteadyInv, JoinedOnce, Engaged, InFlight,
        Leaving
    <2>5. ResumedOnce'
      BY <1>11 DEF ForgetLeft, PumpDone, Without, StoreOpen, SteadyInv, ResumedOnce, Engaged, InFlight,
        Leaving
    <2>6. QueueAttended'
      BY <1>11 DEF ForgetLeft, PumpDone, Without, StoreOpen, SteadyInv, QueueAttended, Attended
    <2>7. RowOfLive'
      <3>1. /\ closer[s] = "leaveClosed" /\ UNCHANGED <<phase, portal, sessions, call>> /\ rows' = Without(pid[s])
        BY <1>11 DEF ForgetLeft
      <3>2. pid[s] = portal[s] /\ portal[s] # NoPortal /\ Engaged(s) /\ s \notin sessions
        BY <3>1 DEF SteadyInv, CloserRules, Engaged, Leaving
      <3>3. \A t \in sessions : t \in Sid /\ Engaged(t) /\ t # s
        BY <3>2, SidFacts DEF SteadyInv, MeshInv, IInv, Engaged
      <3>4. \A t \in sessions : portal[t] # pid[s]
        BY <3>2, <3>3, OnePerPortal
      <3> QED BY <3>1, <3>4, RowOfLiveKept DEF SteadyInv, MeshInv, IInv
    <2>8. LeftIsForgotten'
      <3>1. /\ closer[s] = "leaveClosed" /\ UNCHANGED portal /\ rows' = Without(pid[s])
            /\ \A t \in Sid : closer'[t] = "left" => closer[t] = "left" \/ t = s
        BY <1>11 DEF ForgetLeft, SteadyInv, MeshInv, IInv, TypeOK
      <3>2. pid[s] = portal[s] /\ portal[s] \in Portal /\ phase = "up"
        BY <3>1 DEF SteadyInv, CloserRules, Leaving, MeshInv, IInv, TypeOK
      <3>3. \A t \in Sid : portal[t] # NoPortal => portal[t] \in Portal
        BY DEF SteadyInv, MeshInv, IInv, TypeOK
      <3>4. rows'[portal[s]] = "none" /\ \A q \in Portal : rows[q] = "none" => rows'[q] = "none"
        BY <3>1, <3>2, RowsFacts DEF SteadyInv, MeshInv, IInv
      <3> QED BY <3>1, <3>3, <3>4 DEF SteadyInv, LeftIsForgotten
    <2>9. KeptForNextLaunch'
      <3>1. (phase # "up" => rows' = rows) /\ UNCHANGED pid
        BY <1>11 DEF ForgetLeft, Without, StoreOpen
      <3>2. \A t \in Sid : closer'[t] \in {"quit", "quitClosed"} => closer[t] \in {"quit", "quitClosed"}
        BY <1>11 DEF ForgetLeft, SteadyInv, MeshInv, IInv, TypeOK
      <3> QED BY <3>1, <3>2, KeptWithoutStore
    <2> QED BY <2>1, <2>2, <2>3, <2>4, <2>5, <2>6, <2>7, <2>8, <2>9 DEF SteadyInv
  <1>12. ASSUME NEW s \in Sid, RelayReady(s) PROVE SteadyInv'
    <2>1. CloserRules' /\ CallRules' /\ LockedIsQuiet' /\ JoinedOnce' /\ ResumedOnce'
          /\ OwnersApart' /\ OldRows' /\ OpenMesh' /\ RowOfLive' /\ LeftIsForgotten'
          /\ KeptForNextLaunch'
      BY <1>12 DEF RelayReady, SteadyInv, CloserRules, CallRules, LockedIsQuiet, JoinedOnce,
        ResumedOnce, OwnersApart, OldRows, OpenMesh, RowOfLive, LeftIsForgotten, KeptForNextLaunch,
        Engaged, InFlight, Leaving
    <2>2. QueueAttended'
      BY <1>12 DEF RelayReady, SteadyInv, QueueAttended, Attended
    <2> QED BY <2>1, <2>2 DEF SteadyInv
  <1>13. ASSUME NEW s \in Sid, RelayClosed(s) PROVE SteadyInv'
    <2>1. CallRules' /\ OwnersApart'
      BY <1>13 DEF RelayClosed, SteadyInv, CallRules, OwnersApart, Unmap
    <2>2. CloserRules'
      BY <1>13 DEF RelayClosed, Unmap, Without, StoreOpen, SteadyInv, CloserRules, InFlight
    <2>3. LockedIsQuiet'
      BY <1>13 DEF RelayClosed, Unmap, Without, StoreOpen, SteadyInv, LockedIsQuiet, Engaged, InFlight
    <2>4. JoinedOnce'
      BY <1>13 DEF RelayClosed, Unmap, Without, StoreOpen, SteadyInv, JoinedOnce, Engaged, InFlight
    <2>5. ResumedOnce'
      BY <1>13 DEF RelayClosed, Unmap, Without, StoreOpen, SteadyInv, ResumedOnce, Engaged, InFlight
    <2>6. OldRows'
      BY <1>13 DEF RelayClosed, Unmap, Without, StoreOpen, SteadyInv, OldRows, InFlight
    <2>7. QueueAttended'
      <3>1. /\ UNCHANGED <<phase, mesh, call, closer, leavingAll>> /\ sessions' = sessions \ {s}
            /\ queue[s] # <<>> /\ Head(queue[s]) = "closed"
            /\ \A t \in Sid : queue'[t] = IF t = s THEN Tail(queue[s]) ELSE queue[t]
        BY <1>13 DEF RelayClosed, Unmap, SteadyInv, MeshInv, IInv, TypeOK
      <3> SUFFICES ASSUME NEW t \in Sid, phase = "up", queue'[t] # <<>>
                   PROVE  Attended(t)' \/ (leavingAll = "closing" /\ closer[t] = "allClosed")
        BY <3>1 DEF QueueAttended
      <3>2. CASE t = s
        <4>1. queue[s] \in Seq({"ready", "closed"})
          BY DEF SteadyInv, MeshInv, IInv, TypeOK
        <4>2. mesh[s] # "in"
          BY <3>1, <3>2, <4>1, QueueFacts DEF SteadyInv, MeshInv, QueueOfOpen
        <4>3. mesh[s] \in {"deaf", "linked", "closed"}
          BY <3>1, <4>2 DEF SteadyInv, MeshInv, EarlyIsEmpty, IInv, TypeOK
        <4>4. s \notin sessions
          BY <4>3 DEF SteadyInv, MeshInv, OnceRules
        <4> QED BY <3>1, <3>2, <4>4 DEF SteadyInv, QueueAttended, Attended
      <3>3. CASE t # s
        BY <3>1, <3>3 DEF SteadyInv, QueueAttended, Attended
      <3> QED BY <3>2, <3>3
    <2>8. OpenMesh'
      BY <1>13 DEF RelayClosed, Unmap, Without, StoreOpen, SteadyInv, OpenMesh
    <2>9. RowOfLive'
      <3>1. /\ UNCHANGED <<phase, portal, call>> /\ sessions' = sessions \ {s} /\ queue[s] # <<>>
            /\ rows' = Without(view[s])
        BY <1>13 DEF RelayClosed, Unmap
      <3>2. CASE phase # "up"
        BY <3>1, <3>2 DEF RowOfLive
      <3>3. CASE phase = "up"
        <4>1. ASSUME NEW t \in sessions, t # s, call[t] \in {"recorded", "done"} PROVE portal[t] # view[s]
          <5>1. t \in Sid /\ Engaged(t) /\ portal[t] # NoPortal
            BY <4>1, SidFacts DEF SteadyInv, CallRules, MeshInv, IInv, Engaged
          <5>2. Attended(s)
            BY <3>1, <3>3 DEF SteadyInv, QueueAttended, LeavingInv, NobodyIn
          <5>3. Engaged(s)
            BY <5>2 DEF Attended, Engaged, InFlight
          <5>4. view[s] = NoPortal \/ view[s] = portal[s]
            BY DEF SteadyInv, MeshInv, PortalOfSession
          <5> QED BY <4>1, <5>1, <5>3, <5>4, OnePerPortal
        <4> QED BY <3>1, <4>1, RowOfLiveKept DEF SteadyInv, MeshInv, IInv
      <3> QED BY <3>2, <3>3
    <2>10. LeftIsForgotten'
      BY <1>13 DEF RelayClosed, Unmap, Without, StoreOpen, SteadyInv, LeftIsForgotten
    <2>11. KeptForNextLaunch'
      <3>1. (phase # "up" => rows' = rows) /\ UNCHANGED pid
        BY <1>13 DEF RelayClosed, Without, StoreOpen
      <3>2. \A t \in Sid : closer'[t] \in {"quit", "quitClosed"} => closer[t] \in {"quit", "quitClosed"}
        BY <1>13 DEF RelayClosed, SteadyInv, MeshInv, IInv, TypeOK
      <3> QED BY <3>1, <3>2, KeptWithoutStore
    <2> QED BY <2>1, <2>2, <2>3, <2>4, <2>5, <2>6, <2>7, <2>8, <2>9, <2>10, <2>11 DEF SteadyInv
  <1>14. ASSUME NEW s \in Sid, PumpEnds(s) PROVE SteadyInv'
    <2>1. CloserRules' /\ CallRules' /\ LockedIsQuiet' /\ JoinedOnce' /\ ResumedOnce'
          /\ OwnersApart' /\ OldRows' /\ OpenMesh' /\ RowOfLive' /\ LeftIsForgotten'
          /\ KeptForNextLaunch'
      BY <1>14 DEF PumpEnds, SteadyInv, CloserRules, CallRules, LockedIsQuiet, JoinedOnce, ResumedOnce,
        OwnersApart, OldRows, OpenMesh, RowOfLive, LeftIsForgotten, KeptForNextLaunch, Engaged,
        InFlight, Leaving
    <2>2. QueueAttended'
      BY <1>14 DEF PumpEnds, SteadyInv, QueueAttended, Attended
    <2> QED BY <2>1, <2>2 DEF SteadyInv
  <1>15. ASSUME NEW s \in Sid, LeavePortal(s) PROVE SteadyInv'
    <2>1. CallRules' /\ OwnersApart'
      BY <1>15 DEF LeavePortal, SteadyInv, CallRules, OwnersApart, Unmap, BeginLeave
    <2>2. CloserRules'
      BY <1>15 DEF LeavePortal, BeginLeave, Unmap, TypeOK, IInv, SteadyInv, CloserRules, InFlight,
        UserActs, Settled, MeshInv, PortalOfSession
    <2>3. LockedIsQuiet'
      BY <1>15 DEF LeavePortal, BeginLeave, Unmap, SteadyInv, LockedIsQuiet, UserActs
    <2>4. JoinedOnce'
      BY <1>15 DEF LeavePortal, BeginLeave, Unmap, SteadyInv, JoinedOnce, Engaged, InFlight
    <2>5. ResumedOnce'
      BY <1>15 DEF LeavePortal, BeginLeave, Unmap, SteadyInv, ResumedOnce, Engaged, InFlight
    <2>6. OldRows'
      BY <1>15 DEF LeavePortal, BeginLeave, Unmap, SteadyInv, OldRows, InFlight
    <2>7. QueueAttended'
      BY <1>15 DEF LeavePortal, BeginLeave, Unmap, TypeOK, IInv, SteadyInv, QueueAttended, Attended,
        Leaving, Settled
    <2>8. OpenMesh'
      BY <1>15 DEF LeavePortal, BeginLeave, Unmap, SteadyInv, OpenMesh
    <2>9. RowOfLive'
      BY <1>15 DEF LeavePortal, BeginLeave, Unmap, SteadyInv, RowOfLive
    <2>10. LeftIsForgotten'
      BY <1>15 DEF LeavePortal, BeginLeave, Unmap, SteadyInv, LeftIsForgotten
    <2>11. KeptForNextLaunch'
      BY <1>15 DEF LeavePortal, BeginLeave, Unmap, SteadyInv, KeptForNextLaunch, CloserRules
    <2> QED BY <2>1, <2>2, <2>3, <2>4, <2>5, <2>6, <2>7, <2>8, <2>9, <2>10, <2>11 DEF SteadyInv
  <1>16. ASSUME NEW s \in Sid, SwitchPortal(s) PROVE SteadyInv'
    <2>1. CloserRules' /\ CallRules' /\ LockedIsQuiet' /\ JoinedOnce' /\ ResumedOnce'
          /\ OwnersApart' /\ OldRows' /\ QueueAttended' /\ OpenMesh' /\ RowOfLive'
          /\ LeftIsForgotten' /\ KeptForNextLaunch'
      BY <1>16 DEF SwitchPortal, SteadyInv, CloserRules, CallRules, LockedIsQuiet, JoinedOnce,
        ResumedOnce, OwnersApart, OldRows, QueueAttended, OpenMesh, RowOfLive, LeftIsForgotten,
        KeptForNextLaunch, Attended, Engaged, InFlight, Leaving
    <2> QED BY <2>1 DEF SteadyInv
  <1>17. ASSUME NEW s \in Sid, ServerAdmits(s) PROVE SteadyInv'
    <2>1. /\ mesh[s] = "asked" /\ s <= used
          /\ UNCHANGED <<process, app, caller, once, view, ending, stored>>
      BY <1>17, AdmitsFacts DEF SteadyInv
    <2>2. PICK p \in Portal :
            /\ \/ /\ kind[s] = "owner" /\ p \in Own \ issued
                  /\ issued' = issued \union {p} /\ up' = up \union {p}
               \/ /\ kind[s] = "joiner" /\ p \in up /\ p = target[s] /\ p \in Foreign
                  /\ UNCHANGED <<issued, up>>
            /\ \A t \in Sid :
                 /\ t # s => mesh'[t] = mesh[t] /\ portal'[t] = portal[t] /\ queue'[t] = queue[t]
                 /\ t = s => \/ portal'[t] = p /\ mesh'[t] = "in" /\ queue'[t] = Append(<<>>, "ready")
                             \/ /\ portal'[t] = p /\ mesh'[t] \in {"in", "deaf"}
                                /\ queue'[t] = <<>> /\ once[t]
      BY <1>17, AdmitsFacts DEF SteadyInv
    <2>3. /\ p # NoPortal /\ portal[s] = NoPortal
          /\ \A t \in sessions : t \in Sid
      BY <2>1, ActiveSessionsAssumption, SidFacts DEF SteadyInv, MeshInv, EarlyIsEmpty, IInv
    <2>4. closer[s] \notin {"leave", "leaveClosed", "left"}
      BY <2>3 DEF SteadyInv, CloserRules
    <2>5. call[s] \notin {"entered", "recorded", "done"}
      BY <2>3 DEF SteadyInv, CallRules
    <2>6. CloserRules'
      BY <2>1, <2>2, <2>4 DEF SteadyInv, CloserRules, InFlight
    <2>7. CallRules'
      BY <2>1, <2>2, <2>3 DEF SteadyInv, CallRules
    <2>8. LockedIsQuiet' /\ JoinedOnce' /\ ResumedOnce'
      BY <2>1 DEF SteadyInv, LockedIsQuiet, JoinedOnce, ResumedOnce, Engaged, InFlight
    <2>9. \A t \in Sid : portal[t] = p /\ portal[t] # NoPortal => kind[s] = "joiner" /\ kind[t] = "joiner"
      BY <2>2, ActiveSessionsAssumption DEF SteadyInv, MeshInv, PortalOfSession, IInv, TypeOK
    <2>10. OwnersApart'
      <3> SUFFICES ASSUME NEW t \in Sid, NEW u \in Sid, t # u, kind[t] = "owner", portal'[t] # NoPortal
                   PROVE  portal'[t] # portal'[u]
        BY <2>1 DEF OwnersApart
      <3>1. CASE t = s
        BY <2>2, <2>3, <2>9, <3>1
      <3>2. CASE u = s
        BY <2>2, <2>3, <2>9, <3>2
      <3>3. CASE t # s /\ u # s
        BY <2>2, <3>3 DEF SteadyInv, OwnersApart
      <3> QED BY <3>1, <3>2, <3>3
    <2>11. OldRows'
      <3>1. \A x \in toResume : x[2] = "owner" => p # x[1]
        BY <2>2, ActiveSessionsAssumption DEF SteadyInv, MeshInv, RowKinds, IInv, TypeOK
      <3>2. \A t \in Sid : kind[t] = "owner" /\ row[t] # NoPortal => p # row[t]
        BY <2>2, ActiveSessionsAssumption DEF SteadyInv, MeshInv, PortalOfSession, IInv, TypeOK
      <3> QED BY <2>1, <2>2, <2>3, <3>1, <3>2 DEF SteadyInv, OldRows, InFlight
    <2>12. QueueAttended'
      <3>1. call[s] \in {"waiting", "failing", "dropped"}
        BY <2>1 DEF SteadyInv, MeshInv, CallMesh
      <3>2. once[s] => phase # "up"
        BY <2>1, <3>1 DEF SteadyInv, CloserRules, InFlight, MeshInv, OnceRules, ClosedOnes
      <3>3. phase = "up" => Attended(s)
        BY <2>1, <3>2 DEF SteadyInv, MeshInv, Reachable, CloserRules, Attended, Leaving
      <3> QED BY <2>1, <2>2, <3>3 DEF SteadyInv, QueueAttended, Attended
    <2>13. OpenMesh'
      BY <2>1, <2>2, <2>3 DEF SteadyInv, OpenMesh
    <2>14. RowOfLive'
      BY <2>1, <2>2, <2>3, <2>5 DEF SteadyInv, RowOfLive
    <2>15. LeftIsForgotten'
      BY <2>1, <2>2, <2>3, <2>4 DEF SteadyInv, LeftIsForgotten
    <2>16. KeptForNextLaunch'
      BY <2>1 DEF SteadyInv, KeptForNextLaunch
    <2> QED BY <2>6, <2>7, <2>8, <2>10, <2>11, <2>12, <2>13, <2>14, <2>15, <2>16 DEF SteadyInv
  <1>18. ASSUME NEW s \in Sid, ServerRefuses(s) PROVE SteadyInv'
    <2>1. CloserRules' /\ CallRules' /\ LockedIsQuiet' /\ JoinedOnce' /\ ResumedOnce'
          /\ OwnersApart' /\ OldRows' /\ QueueAttended' /\ RowOfLive' /\ LeftIsForgotten'
          /\ KeptForNextLaunch'
      BY <1>18 DEF ServerRefuses, SteadyInv, CloserRules, CallRules, LockedIsQuiet, JoinedOnce,
        ResumedOnce, OwnersApart, OldRows, QueueAttended, RowOfLive, LeftIsForgotten,
        KeptForNextLaunch, Attended, Engaged, InFlight, Leaving
    <2>2. OpenMesh'
      <3>1. UNCHANGED sessions
        BY <1>18 DEF ServerRefuses
      <3>2. \A t \in sessions : t \in Sid
        BY SidFacts DEF SteadyInv, MeshInv, IInv
      <3>3. \A t \in Sid : mesh'[t] = "closed" => mesh[t] = "closed"
        BY <1>18 DEF ServerRefuses, SteadyInv, MeshInv, IInv, TypeOK
      <3> QED BY <3>1, <3>2, <3>3 DEF SteadyInv, OpenMesh
    <2> QED BY <2>1, <2>2 DEF SteadyInv
  <1>19. ASSUME NEW p \in Foreign, UserJoins(p) PROVE SteadyInv'
    <2>1. LeftIsForgotten' /\ KeptForNextLaunch'
      BY <1>19 DEF UserJoins, SteadyInv, LeftIsForgotten, KeptForNextLaunch, BringUp
    <2>2. CloserRules'
      BY <1>19 DEF UserJoins, BringUp, NewSessionID, TypeOK, IInv, SteadyInv, CloserRules, InFlight,
        UserActs, MeshInv, UnusedIsBlank
    <2>3. CallRules'
      BY <1>19 DEF UserJoins, BringUp, NewSessionID, TypeOK, IInv, SteadyInv, CallRules
    <2>4. LockedIsQuiet'
      BY <1>19 DEF UserJoins, BringUp, NewSessionID, SteadyInv, LockedIsQuiet, UserActs
    <2>5. JoinedOnce'
      BY <1>19 DEF UserJoins, BringUp, NewSessionID, SteadyInv, JoinedOnce, Engaged, InFlight, MeshInv,
        UnusedIsBlank
    <2>6. ResumedOnce'
      BY <1>19 DEF UserJoins, BringUp, NewSessionID, TypeOK, IInv, SteadyInv, ResumedOnce, Engaged, InFlight
    <2>7. OwnersApart'
      BY <1>19 DEF UserJoins, BringUp, NewSessionID, SteadyInv, OwnersApart
    <2>8. OldRows'
      BY <1>19 DEF UserJoins, BringUp, NewSessionID, TypeOK, IInv, SteadyInv, OldRows, InFlight,
        MeshInv, UnusedIsBlank
    <2>9. QueueAttended'
      BY <1>19 DEF UserJoins, BringUp, NewSessionID, SteadyInv, QueueAttended, Attended, UserActs
    <2>10. OpenMesh'
      BY <1>19 DEF UserJoins, BringUp, NewSessionID, TypeOK, IInv, SteadyInv, OpenMesh, MeshInv,
        UnusedIsBlank
    <2>11. RowOfLive'
      BY <1>19 DEF UserJoins, BringUp, NewSessionID, TypeOK, IInv, SteadyInv, RowOfLive
    <2> QED BY <2>1, <2>2, <2>3, <2>4, <2>5, <2>6, <2>7, <2>8, <2>9, <2>10, <2>11 DEF SteadyInv
  <1>20. ASSUME NEW p \in Foreign, ServerClosesPortal(p) PROVE SteadyInv'
    <2>1. CloserRules' /\ CallRules' /\ LockedIsQuiet' /\ JoinedOnce' /\ ResumedOnce'
          /\ OwnersApart' /\ OldRows' /\ OpenMesh' /\ RowOfLive' /\ LeftIsForgotten'
          /\ KeptForNextLaunch'
      BY <1>20 DEF ServerClosesPortal, SteadyInv, CloserRules, CallRules, LockedIsQuiet, JoinedOnce,
        ResumedOnce, OwnersApart, OldRows, OpenMesh, RowOfLive, LeftIsForgotten, KeptForNextLaunch,
        Engaged, InFlight, Leaving
    <2>2. QueueAttended'
      <3>1. /\ UNCHANGED <<phase, sessions, call, closer, leavingAll>> /\ p \in up
            /\ \A t \in Sid : queue'[t] # queue[t] => mesh[t] = "in" /\ ~once[t] /\ portal[t] = p
        BY <1>20 DEF ServerClosesPortal
      <3>2. \A t \in Sid : mesh[t] = "in" /\ ~once[t] /\ portal[t] = p /\ phase = "up" => Attended(t)
        BY <3>1 DEF SteadyInv, MeshInv, OpenIsSeen, Attended, Leaving, CloserRules
      <3> QED BY <3>1, <3>2 DEF SteadyInv, QueueAttended, Attended
    <2> QED BY <2>1, <2>2 DEF SteadyInv
  <1>21. ASSUME NEW x \in toResume, ResumeOne(x) PROVE SteadyInv'
    <2>1. LeftIsForgotten' /\ KeptForNextLaunch'
      BY <1>21 DEF ResumeOne, SteadyInv, LeftIsForgotten, KeptForNextLaunch, BringUp
    <2>2. CloserRules'
      BY <1>21 DEF ResumeOne, BringUp, NewSessionID, TypeOK, IInv, SteadyInv, CloserRules, InFlight,
        MeshInv, UnusedIsBlank
    <2>3. CallRules'
      BY <1>21 DEF ResumeOne, BringUp, NewSessionID, TypeOK, IInv, SteadyInv, CallRules
    <2>4. LockedIsQuiet'
      BY <1>21 DEF ResumeOne, BringUp, NewSessionID, SteadyInv, LockedIsQuiet
    <2>5. JoinedOnce'
      BY <1>21 DEF ResumeOne, BringUp, NewSessionID, SteadyInv, JoinedOnce, Engaged, InFlight, MeshInv,
        UnusedIsBlank, ResumedOnce
    <2>6. ResumedOnce'
      <3> DEFINE p == IF x[2] = "owner" THEN NoPortal ELSE x[1]
      <3>1. BringUp(x[2], p, x[1], FALSE) /\ toResume' = toResume \ {x}
        BY <1>21 DEF ResumeOne
      <3> HIDE DEF p
      <3>2. /\ used + 1 \in Sid /\ sessions' = sessions \union {used + 1} /\ UNCHANGED closer
            /\ \A t \in Sid : /\ call'[t] = IF t = used + 1 THEN "starting" ELSE call[t]
                              /\ target'[t] = IF t = used + 1 THEN p ELSE target[t]
        <4>1. TypeOK
          BY DEF SteadyInv, MeshInv, IInv
        <4>2. used \in Nat
          BY <4>1, SidFacts
        <4>3. /\ used + 1 \in Sid /\ sessions' = sessions \union {used + 1} /\ UNCHANGED closer
              /\ call' = [call EXCEPT ![used + 1] = "starting"]
              /\ target' = [target EXCEPT ![used + 1] = p]
          BY <3>1, <4>2 DEF BringUp, NewSessionID, Sid
        <4> QED BY <4>1, <4>3 DEF TypeOK
      <3>3. ASSUME NEW y \in toResume, y # x, x[2] # "owner" PROVE y[1] # x[1]
        <4>1. x = <<x[1], x[2]>> /\ y = <<y[1], y[2]>>
          BY DEF SteadyInv, MeshInv, IInv, TypeOK
        <4>2. x[2] = "joiner" /\ x[1] \in Foreign /\ y[2] \in {"owner", "joiner"}
          BY <3>3 DEF SteadyInv, MeshInv, RowKinds, IInv, TypeOK
        <4>3. y[2] = "owner" => y[1] \in Own
          BY DEF SteadyInv, MeshInv, RowKinds, IInv, TypeOK
        <4> QED BY <3>3, <4>1, <4>2, <4>3, ActiveSessionsAssumption
      <3> SUFFICES ASSUME NEW y \in toResume', NEW t \in Sid, target'[t] = y[1] PROVE ~Engaged(t)'
        BY DEF ResumedOnce
      <3>4. t # used + 1
        <4>1. y[1] # NoPortal
          BY <3>1, ActiveSessionsAssumption DEF SteadyInv, MeshInv, IInv, TypeOK
        <4> QED BY <3>1, <3>2, <3>3, <4>1 DEF p
      <3> QED BY <3>1, <3>2, <3>4 DEF SteadyInv, ResumedOnce, Engaged, InFlight
    <2>7. OwnersApart'
      BY <1>21 DEF ResumeOne, BringUp, NewSessionID, TypeOK, IInv, SteadyInv, OwnersApart, MeshInv,
        UnusedIsBlank
    <2>8. OldRows'
      BY <1>21 DEF ResumeOne, BringUp, NewSessionID, TypeOK, IInv, SteadyInv, OldRows, InFlight,
        MeshInv, UnusedIsBlank
    <2>9. QueueAttended'
      BY <1>21 DEF ResumeOne, BringUp, NewSessionID, SteadyInv, QueueAttended, Attended
    <2>10. OpenMesh'
      BY <1>21 DEF ResumeOne, BringUp, NewSessionID, TypeOK, IInv, SteadyInv, OpenMesh, MeshInv,
        UnusedIsBlank, OldRows
    <2>11. RowOfLive'
      BY <1>21 DEF ResumeOne, BringUp, NewSessionID, TypeOK, IInv, SteadyInv, RowOfLive
    <2> QED BY <2>1, <2>2, <2>3, <2>4, <2>5, <2>6, <2>7, <2>8, <2>9, <2>10, <2>11 DEF SteadyInv
  <1>22. CASE UserCreates
    <2>1. LeftIsForgotten' /\ KeptForNextLaunch'
      BY <1>22 DEF UserCreates, SteadyInv, LeftIsForgotten, KeptForNextLaunch, BringUp
    <2>2. CloserRules'
      BY <1>22 DEF UserCreates, BringUp, NewSessionID, TypeOK, IInv, SteadyInv, CloserRules, InFlight,
        UserActs, MeshInv, UnusedIsBlank
    <2>3. CallRules'
      BY <1>22 DEF UserCreates, BringUp, NewSessionID, TypeOK, IInv, SteadyInv, CallRules
    <2>4. LockedIsQuiet'
      BY <1>22 DEF UserCreates, BringUp, NewSessionID, SteadyInv, LockedIsQuiet, UserActs
    <2>5. JoinedOnce'
      BY <1>22 DEF UserCreates, BringUp, NewSessionID, SteadyInv, JoinedOnce, Engaged, InFlight,
        MeshInv, UnusedIsBlank
    <2>6. ResumedOnce'
      BY <1>22 DEF UserCreates, BringUp, NewSessionID, TypeOK, IInv, SteadyInv, ResumedOnce, Engaged,
        InFlight
    <2>7. OwnersApart'
      BY <1>22 DEF UserCreates, BringUp, NewSessionID, TypeOK, IInv, SteadyInv, OwnersApart, MeshInv,
        UnusedIsBlank
    <2>8. OldRows'
      BY <1>22 DEF UserCreates, BringUp, NewSessionID, TypeOK, IInv, SteadyInv, OldRows, InFlight,
        UserActs, MeshInv, UnusedIsBlank
    <2>9. QueueAttended'
      BY <1>22 DEF UserCreates, BringUp, NewSessionID, SteadyInv, QueueAttended, Attended, UserActs
    <2>10. OpenMesh'
      BY <1>22 DEF UserCreates, BringUp, NewSessionID, TypeOK, IInv, SteadyInv, OpenMesh, MeshInv,
        UnusedIsBlank
    <2>11. RowOfLive'
      BY <1>22 DEF UserCreates, BringUp, NewSessionID, TypeOK, IInv, SteadyInv, RowOfLive
    <2> QED BY <2>1, <2>2, <2>3, <2>4, <2>5, <2>6, <2>7, <2>8, <2>9, <2>10, <2>11 DEF SteadyInv
  <1>23. CASE SignIn
    <2>1. CallRules' /\ JoinedOnce' /\ OwnersApart' /\ OpenMesh' /\ RowOfLive'
          /\ LeftIsForgotten' /\ KeptForNextLaunch'
      BY <1>23 DEF SignIn, SteadyInv, CallRules, JoinedOnce, OwnersApart, OpenMesh, RowOfLive,
        LeftIsForgotten, KeptForNextLaunch, Engaged, InFlight, Leaving
    <2>2. CloserRules'
      BY <1>23 DEF SignIn, SteadyInv, CloserRules, InFlight
    <2>3. LockedIsQuiet'
      BY <1>23 DEF SignIn, SteadyInv, LockedIsQuiet
    <2>4. ResumedOnce'
      BY <1>23 DEF SignIn, SteadyInv, ResumedOnce, Engaged, InFlight, LockedIsQuiet
    <2>5. OldRows'
      <3>1. sessions = {}
        BY <1>23, SidFacts DEF SignIn, SteadyInv, LockedIsQuiet, Engaged, MeshInv, IInv
      <3> QED BY <1>23, <3>1 DEF SignIn, OldRows
    <2>6. QueueAttended'
      BY <1>23 DEF SignIn, SteadyInv, QueueAttended, Attended
    <2> QED BY <2>1, <2>2, <2>3, <2>4, <2>5, <2>6 DEF SteadyInv
  <1>24. CASE SignOut
    <2>1. CallRules' /\ OwnersApart'
      BY <1>24 DEF SignOut, SteadyInv, CallRules, OwnersApart, Unmap, BeginLeave
    <2>2. CloserRules'
      BY <1>24 DEF SignOut, BeginLeave, Unmap, SteadyInv, CloserRules
    <2>3. LockedIsQuiet'
      BY <1>24 DEF SignOut, BeginLeave, Unmap, SteadyInv, LockedIsQuiet
    <2>4. JoinedOnce'
      BY <1>24 DEF SignOut, BeginLeave, Unmap, SteadyInv, JoinedOnce
    <2>5. ResumedOnce'
      BY <1>24 DEF SignOut, BeginLeave, Unmap, SteadyInv, ResumedOnce
    <2>6. OldRows'
      BY <1>24 DEF SignOut, BeginLeave, Unmap, SteadyInv, OldRows
    <2>7. QueueAttended'
      BY <1>24 DEF SignOut, BeginLeave, Unmap, SteadyInv, QueueAttended, Attended
    <2>8. OpenMesh'
      BY <1>24 DEF SignOut, BeginLeave, Unmap, SteadyInv, OpenMesh
    <2>9. RowOfLive'
      BY <1>24 DEF SignOut, BeginLeave, Unmap, SteadyInv, RowOfLive
    <2>10. LeftIsForgotten'
      BY <1>24 DEF SignOut, BeginLeave, Unmap, SteadyInv, LeftIsForgotten
    <2>11. KeptForNextLaunch'
      BY <1>24 DEF SignOut, BeginLeave, Unmap, SteadyInv, KeptForNextLaunch
    <2> QED BY <2>1, <2>2, <2>3, <2>4, <2>5, <2>6, <2>7, <2>8, <2>9, <2>10, <2>11 DEF SteadyInv
  <1>25. CASE LeaveAll
    <2>1. CallRules' /\ OwnersApart'
      BY <1>25 DEF LeaveAll, SteadyInv, CallRules, OwnersApart
    <2>2. CloserRules'
      BY <1>25 DEF LeaveAll, SteadyInv, CloserRules, InFlight, UserActs, Quiet
    <2>3. LockedIsQuiet'
      BY <1>25 DEF LeaveAll, SteadyInv, LockedIsQuiet, UserActs
    <2>4. JoinedOnce'
      BY <1>25 DEF LeaveAll, SteadyInv, JoinedOnce, Engaged, InFlight
    <2>5. ResumedOnce'
      BY <1>25 DEF LeaveAll, SteadyInv, ResumedOnce, Quiet
    <2>6. OldRows'
      BY <1>25 DEF LeaveAll, SteadyInv, OldRows
    <2>7. QueueAttended'
      BY <1>25 DEF LeaveAll, SteadyInv, QueueAttended, Attended, Leaving
    <2>8. OpenMesh'
      BY <1>25 DEF LeaveAll, SteadyInv, OpenMesh
    <2>9. RowOfLive'
      BY <1>25 DEF LeaveAll, SteadyInv, RowOfLive
    <2>10. LeftIsForgotten'
      BY <1>25 DEF LeaveAll, SteadyInv, LeftIsForgotten
    <2>11. KeptForNextLaunch'
      BY <1>25 DEF LeaveAll, SteadyInv, KeptForNextLaunch
    <2> QED BY <2>1, <2>2, <2>3, <2>4, <2>5, <2>6, <2>7, <2>8, <2>9, <2>10, <2>11 DEF SteadyInv
  <1>26. CASE ClearRows
    <2>1. CallRules' /\ LockedIsQuiet' /\ JoinedOnce' /\ ResumedOnce' /\ OwnersApart'
          /\ OldRows' /\ OpenMesh'
      BY <1>26 DEF ClearRows, SteadyInv, CallRules, LockedIsQuiet, JoinedOnce, ResumedOnce,
        OwnersApart, OldRows, OpenMesh, Engaged, InFlight, Leaving
    <2>2. CloserRules'
      <3>1. UNCHANGED <<sessions, closer, pid, phase, call, portal>> /\ \A t \in Sid : closer[t] # "all"
        BY <1>26 DEF ClearRows, AllDone
      <3> QED BY <3>1 DEF SteadyInv, CloserRules, InFlight
    <2>3. QueueAttended'
      <3>1. /\ UNCHANGED <<phase, queue, sessions, call, closer>>
            /\ \A t \in Sid : closer[t] = "allClosed" => queue[t] = <<>>
        BY <1>26 DEF ClearRows, AllDone, PumpDone
      <3> QED BY <3>1 DEF SteadyInv, QueueAttended, Attended
    <2>4. RowOfLive'
      <3>1. UNCHANGED sessions /\ sessions = {}
        BY <1>26 DEF ClearRows, SteadyInv, LeavingInv, NobodyIn
      <3> QED BY <3>1 DEF RowOfLive
    <2>5. LeftIsForgotten'
      BY <1>26 DEF ClearRows, StoreOpen, TypeOK, IInv, SteadyInv, LeftIsForgotten
    <2>6. KeptForNextLaunch'
      <3>1. (phase # "up" => rows' = rows) /\ UNCHANGED pid
        BY <1>26 DEF ClearRows, Without, StoreOpen
      <3>2. \A t \in Sid : closer'[t] \in {"quit", "quitClosed"} => closer[t] \in {"quit", "quitClosed"}
        BY <1>26 DEF ClearRows, SteadyInv, MeshInv, IInv, TypeOK
      <3> QED BY <3>1, <3>2, KeptWithoutStore
    <2> QED BY <2>1, <2>2, <2>3, <2>4, <2>5, <2>6 DEF SteadyInv
  <1>27. CASE Shutdown
    <2>1. CallRules' /\ OwnersApart'
      BY <1>27 DEF Shutdown, SteadyInv, CallRules, OwnersApart
    <2>2. CloserRules'
      BY <1>27 DEF Shutdown, SteadyInv, CloserRules, InFlight, Leaving, NobodyLeaves, Settled
    <2>3. LockedIsQuiet'
      BY <1>27 DEF Shutdown, SteadyInv, LockedIsQuiet
    <2>4. JoinedOnce'
      BY <1>27 DEF Shutdown, SteadyInv, JoinedOnce, Engaged, InFlight
    <2>5. ResumedOnce'
      BY <1>27 DEF Shutdown, SteadyInv, ResumedOnce, Engaged, InFlight
    <2>6. OldRows'
      BY <1>27 DEF Shutdown, SteadyInv, OldRows
    <2>7. QueueAttended'
      BY <1>27 DEF Shutdown, SteadyInv, QueueAttended, Attended
    <2>8. OpenMesh'
      BY <1>27 DEF Shutdown, SteadyInv, OpenMesh
    <2>9. RowOfLive'
      BY <1>27 DEF Shutdown, SteadyInv, RowOfLive
    <2>10. LeftIsForgotten'
      BY <1>27 DEF Shutdown, SteadyInv, LeftIsForgotten
    <2>11. KeptForNextLaunch'
      <3>1. /\ phase = "up" /\ UNCHANGED rows
            /\ \A t \in Sid : /\ closer'[t] = IF t \in sessions THEN "quit" ELSE closer[t]
                              /\ pid'[t] = IF Settled(t) THEN view[t] ELSE pid[t]
        BY <1>27 DEF Shutdown, SteadyInv, MeshInv, IInv, TypeOK
      <3> SUFFICES ASSUME NEW t \in Sid, closer'[t] \in {"quit", "quitClosed"}, pid'[t] # NoPortal
                   PROVE  rows[pid'[t]] # "none"
        BY <3>1 DEF KeptForNextLaunch
      <3>2. t \in sessions
        BY <3>1 DEF SteadyInv, CloserRules
      <3>3. Settled(t)
        BY <3>1, <3>2 DEF SteadyInv, CloserRules
      <3>4. pid'[t] = portal[t] /\ call[t] = "done"
        BY <3>1, <3>3 DEF Settled, SteadyInv, MeshInv, PortalOfSession
      <3> QED BY <3>1, <3>2, <3>4 DEF SteadyInv, RowOfLive
    <2> QED BY <2>1, <2>2, <2>3, <2>4, <2>5, <2>6, <2>7, <2>8, <2>9, <2>10, <2>11 DEF SteadyInv
  <1>28. CASE Launch
    <2>1. CallRules' /\ OwnersApart' /\ OldRows' /\ OpenMesh'
      BY <1>28 DEF Launch, SteadyInv, CallRules, OwnersApart, OldRows, OpenMesh, InFlight
    <2>2. CloserRules'
      BY <1>28 DEF Launch, SteadyInv, CloserRules, InFlight
    <2>3. LockedIsQuiet'
      BY <1>28 DEF Launch, SteadyInv, LockedIsQuiet, Engaged, InFlight, Leaving, MeshInv, OffIsQuiet
    <2>4. JoinedOnce'
      BY <1>28 DEF Launch, SteadyInv, JoinedOnce, Engaged, InFlight, Leaving
    <2>5. ResumedOnce'
      BY <1>28 DEF Launch, SteadyInv, ResumedOnce, MeshInv, OffIsQuiet
    <2>6. QueueAttended'
      BY <1>28 DEF Launch, SteadyInv, QueueAttended, Attended, MeshInv, OffIsQuiet
    <2>7. RowOfLive'
      BY <1>28 DEF Launch, SteadyInv, RowOfLive, MeshInv, OffIsQuiet
    <2>8. LeftIsForgotten'
      BY <1>28 DEF Launch, SteadyInv, LeftIsForgotten
    <2>9. KeptForNextLaunch'
      BY <1>28 DEF Launch, SteadyInv, KeptForNextLaunch
    <2> QED BY <2>1, <2>2, <2>3, <2>4, <2>5, <2>6, <2>7, <2>8, <2>9 DEF SteadyInv
  <1>29. CASE Dies
    <2>1. OwnersApart'
      BY <1>29 DEF Dies, SteadyInv, OwnersApart
    <2>2. CloserRules'
      BY <1>29 DEF Dies, SteadyInv, CloserRules, InFlight, Leaving
    <2>3. CallRules'
      BY <1>29 DEF Dies, SteadyInv, CallRules
    <2>4. LockedIsQuiet'
      BY <1>29 DEF Dies, SteadyInv, LockedIsQuiet
    <2>5. JoinedOnce'
      BY <1>29 DEF Dies, SteadyInv, JoinedOnce, Engaged, InFlight, Leaving
    <2>6. ResumedOnce'
      BY <1>29 DEF Dies, SteadyInv, ResumedOnce
    <2>7. OldRows'
      BY <1>29 DEF Dies, SteadyInv, OldRows
    <2>8. QueueAttended'
      BY <1>29 DEF Dies, SteadyInv, QueueAttended, Attended
    <2>9. OpenMesh'
      BY <1>29 DEF Dies, SteadyInv, OpenMesh
    <2>10. RowOfLive'
      BY <1>29 DEF Dies, SteadyInv, RowOfLive
    <2>11. LeftIsForgotten'
      BY <1>29 DEF Dies, SteadyInv, LeftIsForgotten
    <2>12. KeptForNextLaunch'
      BY <1>29 DEF Dies, SteadyInv, KeptForNextLaunch
    <2> QED BY <2>1, <2>2, <2>3, <2>4, <2>5, <2>6, <2>7, <2>8, <2>9, <2>10, <2>11, <2>12 DEF SteadyInv
  <1>30. CASE UNCHANGED vars
    <2>1. CloserRules' /\ CallRules' /\ LockedIsQuiet' /\ JoinedOnce' /\ ResumedOnce'
          /\ OwnersApart' /\ OldRows' /\ QueueAttended' /\ OpenMesh' /\ RowOfLive'
          /\ LeftIsForgotten' /\ KeptForNextLaunch'
      BY <1>30 DEF vars, SteadyInv, CloserRules, CallRules, LockedIsQuiet, JoinedOnce, ResumedOnce,
        OwnersApart, OldRows, QueueAttended, OpenMesh, RowOfLive, LeftIsForgotten, KeptForNextLaunch,
        Attended, Engaged, InFlight, Leaving
    <2> QED BY <2>1 DEF SteadyInv
  <1> QED BY <1>1, <1>2, <1>3, <1>4, <1>5, <1>6, <1>7, <1>8, <1>9, <1>10, <1>11, <1>12, <1>13,
      <1>14, <1>15, <1>16, <1>17, <1>18, <1>19, <1>20, <1>21, <1>22, <1>23, <1>24, <1>25, <1>26,
      <1>27, <1>28, <1>29, <1>30
    DEF Next, Caller, Closer, Pump, User, Serves, Exit, Crash

LEMMA SteadyInvHolds == ASSUME Habits = {} PROVE Spec => []SteadyInv
  <1>1. Init => SteadyInv
    BY InitSteadyInv
  <1>2. SteadyInv /\ [Next]_vars => SteadyInv'
    <2> SUFFICES ASSUME SteadyInv, [Next]_vars PROVE SteadyInv'
      OBVIOUS
    <2>1. IInv'
      BY NextIInv DEF SteadyInv, MeshInv
    <2>2. MeshInv'
      BY <2>1, NextMeshInv DEF SteadyInv
    <2>3. LeavingInv'
      BY <2>1, NextLeavingInv DEF SteadyInv
    <2> QED BY <2>1, <2>2, <2>3, NextSteadyInv
  <1> QED BY <1>1, <1>2, PTL DEF Spec

(***************************************************************************)
(* LeavePortal forgets the row of the portal it left, for good.            *)
(***************************************************************************)
THEOREM LeftIsForgottenHolds ==
  ASSUME Habits = {} PROVE Spec => []LeftIsForgotten
  <1>1. SteadyInv => LeftIsForgotten
    BY DEF SteadyInv
  <1> QED BY <1>1, SteadyInvHolds, PTL

(***************************************************************************)
(* A connected session has its row, whatever leaves, fails or is resumed   *)
(* beside it.                                                              *)
(***************************************************************************)
THEOREM LiveHasRowHolds ==
  ASSUME Habits = {} PROVE Spec => []LiveHasRow
  <1>1. SteadyInv => LiveHasRow
    BY DEF SteadyInv, RowOfLive, LiveHasRow, Settled
  <1> QED BY <1>1, SteadyInvHolds, PTL

(***************************************************************************)
(* No late event of a mesh that quits costs a connected portal its row.    *)
(***************************************************************************)
THEOREM KeptForNextLaunchHolds ==
  ASSUME Habits = {} PROVE Spec => []KeptForNextLaunch
  <1>1. SteadyInv => KeptForNextLaunch
    BY DEF SteadyInv
  <1> QED BY <1>1, SteadyInvHolds, PTL
=============================================================================
