---------------------------- MODULE AccountProofs ----------------------------
(***************************************************************************)
(* What Account promises, for any number of portals, identities and        *)
(* attempts.  The inductive invariant says whose data a call that is under *)
(* way may still find: while ResetVault runs, everything of the identity   *)
(* before (era - 1) that is left is either still to be deleted or recorded *)
(* as a slip.                                                              *)
(***************************************************************************)
EXTENDS Account, TLAPS

\* What a sign-up under way has written, and where it runs.
SigningUp ==
  call # None /\ call.op = "signup" =>
    /\ unlocked = "no" /\ user = era
    /\ call.at = "done" => hash = era

\* A reset has an identity before it, and what it has deleted is gone, unless
\* it slipped.
Deleted ==
  Resetting =>
    /\ era > 1
    /\ era - 1 \notin slips =>
         /\ user = 0
         /\ call.at # "hash" => hash = 0
         /\ call.at \in {"history", "front"} => \A r \in saved : r.by = era \/ r.late

\* Whose the stored name, hash and rows may be.
Owners ==
  /\ user <= era /\ hash <= era /\ (hash = era => user = era)
  /\ hash # 0 => \/ hash = era \/ hash \in replaced \union slips
                 \/ Resetting /\ call.at = "hash" /\ hash = era - 1
  /\ \A r \in saved : \/ r.by = era \/ r.late \/ r.by \in replaced \union slips
                      \/ Resetting /\ r.by = era - 1

\* A device that is locked is not remembered.
LockedForgets == unlocked = "no" => ~remembered

IInv == TypeOK /\ SigningUp /\ Deleted /\ Owners /\ LockedForgets /\ RememberedHasAccount

-----------------------------------------------------------------------------
\* Every call the invariant speaks of has a name and a place.
LEMMA CallFields ==
  ASSUME call \in Call
  PROVE  /\ call.op \in {"signup"} \union Resets
         /\ call.at \in {"hash", "rows", "history", "front", "done"}
         /\ call.op = "signup" => call.at \in {"hash", "done"}
         /\ call.op \in Resets => call.at \in {"hash", "rows", "history", "front"}
  BY DEF Call, Resets

\* A step of a reset goes to another step of it.
LEMMA NextCall ==
  ASSUME call \in Call, call.op \in Resets,
         NEW next \in {"hash", "rows", "history", "front"}
  PROVE  /\ [call EXCEPT !.at = next] \in Call
         /\ [call EXCEPT !.at = next].op = call.op
         /\ [call EXCEPT !.at = next].at = next
  BY DEF Call, Resets

LEMMA InitInv == Init => IInv
<1> SUFFICES ASSUME Init PROVE IInv
  OBVIOUS
<1> USE AccountAssumption, NoneAssumption DEF Init
<1>1. TypeOK
  <2>1. era \in Era /\ 0 \in 0..MaxAttempts - 1
    BY DEF Era
  <2> QED
    BY <2>1 DEF TypeOK
<1>2. ~Resetting
  BY DEF Resetting
<1>3. SigningUp /\ LockedForgets /\ RememberedHasAccount
  BY DEF SigningUp, LockedForgets, RememberedHasAccount
<1>4. Deleted /\ Owners
  BY <1>2 DEF Deleted, Owners
<1> QED
  BY <1>1, <1>3, <1>4 DEF IInv

LEMMA EnterInv ==
  ASSUME IInv, NEW p \in Portal, Enter(p)
  PROVE  IInv'
<1> USE AccountAssumption, NoneAssumption, CallFields DEF IInv, Enter, Dial
<1>1. TypeOK'
  BY NextCall DEF TypeOK, account, screens, Era, Row, Entry, Resetting, Call, Resets, HasAccount
<1>2. SigningUp'
  BY DEF TypeOK, SigningUp, account, screens, Resetting, Resets, Call
<1>3. Deleted'
  BY DEF TypeOK, Deleted, account, screens, Resetting, Resets, Call, Era
<1>4. Owners'
  BY DEF TypeOK, Owners, Deleted, SigningUp, account, screens, Resetting, Resets, Era, HasAccount, Call, Row, Entry
<1>5. LockedForgets' /\ RememberedHasAccount'
  BY DEF TypeOK, LockedForgets, RememberedHasAccount, SigningUp, account, screens, Resetting, HasAccount, Resets
<1> QED
  BY <1>1, <1>2, <1>3, <1>4, <1>5

LEMMA persistEnterInv ==
  ASSUME IInv, NEW e \in entering, persistEnter(e)
  PROVE  IInv'
<1> USE AccountAssumption, NoneAssumption, CallFields DEF IInv, persistEnter
<1>. DEFINE new == [portal |-> e.portal, by |-> e.by, late |-> e.by # era]
<1>a. e \in Entry /\ new \in Row
  BY DEF TypeOK, Entry, Row
<1>b. saved' \subseteq {r \in saved : r.portal # e.portal} \union {new} \/ saved' = saved
  OBVIOUS
<1>c. new.portal = e.portal /\ (new.by = era \/ new.late)
  OBVIOUS
<1> HIDE DEF new
<1>1. TypeOK'
  <2>1. saved' \subseteq Row /\ \A r, q \in saved' : r.portal = q.portal => r = q
    BY <1>a, <1>b, <1>c DEF TypeOK
  <2> QED
    BY <2>1 DEF TypeOK, account, screens
<1>2. SigningUp'
  BY DEF TypeOK, SigningUp, account, screens, Resetting, Resets, Call
<1>3. Deleted'
  BY <1>b, <1>c DEF TypeOK, Deleted, account, screens, Resetting
<1>4. Owners'
  BY <1>b, <1>c DEF TypeOK, Owners, account, screens, Resetting
<1>5. LockedForgets' /\ RememberedHasAccount'
  BY DEF TypeOK, LockedForgets, RememberedHasAccount, SigningUp, account, screens, Resetting, HasAccount, Resets
<1> QED
  BY <1>1, <1>2, <1>3, <1>4, <1>5

LEMMA DialFailsInv ==
  ASSUME IInv, NEW e \in entering, DialFails(e)
  PROVE  IInv'
<1> USE AccountAssumption, NoneAssumption, CallFields DEF IInv, DialFails
<1>1. TypeOK'
  BY NextCall DEF TypeOK, account, screens, Era, Row, Entry, Resetting, Call, Resets, HasAccount
<1>2. SigningUp'
  BY DEF TypeOK, SigningUp, account, screens, Resetting, Resets, Call
<1>3. Deleted'
  BY DEF TypeOK, Deleted, account, screens, Resetting, Resets, Call, Era
<1>4. Owners'
  BY DEF TypeOK, Owners, Deleted, SigningUp, account, screens, Resetting, Resets, Era, HasAccount, Call, Row, Entry
<1>5. LockedForgets' /\ RememberedHasAccount'
  BY DEF TypeOK, LockedForgets, RememberedHasAccount, SigningUp, account, screens, Resetting, HasAccount, Resets
<1> QED
  BY <1>1, <1>2, <1>3, <1>4, <1>5

LEMMA ResumeActiveSessionsInv ==
  ASSUME IInv, ResumeActiveSessions
  PROVE  IInv'
<1> USE AccountAssumption, NoneAssumption, CallFields DEF IInv, ResumeActiveSessions, Dial
<1>1. TypeOK'
  BY NextCall DEF TypeOK, account, screens, Era, Row, Entry, Resetting, Call, Resets, HasAccount
<1>2. SigningUp'
  BY DEF TypeOK, SigningUp, account, screens, Resetting, Resets, Call
<1>3. Deleted'
  BY DEF TypeOK, Deleted, account, screens, Resetting, Resets, Call, Era
<1>4. Owners'
  BY DEF TypeOK, Owners, Deleted, SigningUp, account, screens, Resetting, Resets, Era, HasAccount, Call, Row, Entry
<1>5. LockedForgets' /\ RememberedHasAccount'
  BY DEF TypeOK, LockedForgets, RememberedHasAccount, SigningUp, account, screens, Resetting, HasAccount, Resets
<1> QED
  BY <1>1, <1>2, <1>3, <1>4, <1>5

LEMMA SignInWrongInv ==
  ASSUME IInv, SignInWrong
  PROVE  IInv'
<1> USE AccountAssumption, NoneAssumption, CallFields DEF IInv, SignInWrong
<1>1. TypeOK'
  <2>1. call' \in Call \union {None}
    BY NextCall DEF TypeOK, Resetting, Call, screens
  <2>2. era' \in Era /\ replaced' \subseteq Era /\ slips' \subseteq Era
    BY DEF TypeOK, Resetting, Deleted, Era, account
  <2>3. user' \in {0} \union Era /\ hash' \in {0} \union Era
    BY <2>2 DEF TypeOK, account, SigningUp, Era
  <2>4. fails' \in 0..MaxAttempts - 1
    BY DEF TypeOK, account
  <2>5. locked' \in BOOLEAN /\ unlocked' \in {"no", "fresh", "yes"} /\ remembered' \in BOOLEAN
    BY DEF TypeOK, account, screens
  <2>6. saved' \subseteq Row /\ \A r, q \in saved' : r.portal = q.portal => r = q
    BY <2>2 DEF TypeOK
  <2>7. entering' \subseteq Entry
    BY DEF TypeOK
  <2> QED
    BY <2>1, <2>2, <2>3, <2>4, <2>5, <2>6, <2>7 DEF TypeOK
<1>2. SigningUp'
  BY DEF TypeOK, SigningUp, account, screens, Resetting, Resets, Call
<1>3. Deleted'
  BY DEF TypeOK, Deleted, account, screens, Resetting, Resets, Call, Era
<1>4. Owners'
  BY DEF TypeOK, Owners, Deleted, SigningUp, account, screens, Resetting, Resets, Era, HasAccount, Call, Row, Entry
<1>5. LockedForgets' /\ RememberedHasAccount'
  BY DEF TypeOK, LockedForgets, RememberedHasAccount, SigningUp, account, screens, Resetting, HasAccount, Resets
<1> QED
  BY <1>1, <1>2, <1>3, <1>4, <1>5

LEMMA SignInInv ==
  ASSUME IInv, SignIn
  PROVE  IInv'
<1> USE AccountAssumption, NoneAssumption, CallFields DEF IInv, SignIn, Unlock
<1>1. TypeOK'
  BY NextCall DEF TypeOK, account, screens, Era, Row, Entry, Resetting, Call, Resets, HasAccount
<1>2. SigningUp'
  BY DEF TypeOK, SigningUp, account, screens, Resetting, Resets, Call
<1>3. Deleted'
  BY DEF TypeOK, Deleted, account, screens, Resetting, Resets, Call, Era
<1>4. Owners'
  BY DEF TypeOK, Owners, Deleted, SigningUp, account, screens, Resetting, Resets, Era, HasAccount, Call, Row, Entry
<1>5. LockedForgets' /\ RememberedHasAccount'
  BY DEF TypeOK, LockedForgets, RememberedHasAccount, SigningUp, account, screens, Resetting, HasAccount, Resets
<1> QED
  BY <1>1, <1>2, <1>3, <1>4, <1>5

LEMMA LockoutEndsInv ==
  ASSUME IInv, LockoutEnds
  PROVE  IInv'
<1> USE AccountAssumption, NoneAssumption, CallFields DEF IInv, LockoutEnds
<1>1. TypeOK'
  BY NextCall DEF TypeOK, account, screens, Era, Row, Entry, Resetting, Call, Resets, HasAccount
<1>2. SigningUp'
  BY DEF TypeOK, SigningUp, account, screens, Resetting, Resets, Call
<1>3. Deleted'
  BY DEF TypeOK, Deleted, account, screens, Resetting, Resets, Call, Era
<1>4. Owners'
  BY DEF TypeOK, Owners, Deleted, SigningUp, account, screens, Resetting, Resets, Era, HasAccount, Call, Row, Entry
<1>5. LockedForgets' /\ RememberedHasAccount'
  BY DEF TypeOK, LockedForgets, RememberedHasAccount, SigningUp, account, screens, Resetting, HasAccount, Resets
<1> QED
  BY <1>1, <1>2, <1>3, <1>4, <1>5

LEMMA SignUpInv ==
  ASSUME IInv, SignUp
  PROVE  IInv'
<1> USE AccountAssumption, NoneAssumption, CallFields DEF IInv, SignUp
<1>1. TypeOK'
  BY NextCall DEF TypeOK, account, screens, Era, Row, Entry, Resetting, Call, Resets, HasAccount
<1>2. SigningUp'
  BY DEF TypeOK, SigningUp, account, screens, Resetting, Resets, Call
<1>3. Deleted'
  BY DEF TypeOK, Deleted, account, screens, Resetting, Resets, Call, Era
<1>4. Owners'
  BY DEF TypeOK, Owners, Deleted, SigningUp, account, screens, Resetting, Resets, Era, HasAccount, Call, Row, Entry
<1>5. LockedForgets' /\ RememberedHasAccount'
  BY DEF TypeOK, LockedForgets, RememberedHasAccount, SigningUp, account, screens, Resetting, HasAccount, Resets
<1> QED
  BY <1>1, <1>2, <1>3, <1>4, <1>5

LEMMA SignUpHashInv ==
  ASSUME IInv, SignUpHash
  PROVE  IInv'
<1> USE AccountAssumption, NoneAssumption, CallFields DEF IInv, SignUpHash
<1>1. TypeOK'
  <2>1. call' \in Call \union {None}
    BY NextCall DEF TypeOK, Resetting, Call, screens
  <2>2. era' \in Era /\ replaced' \subseteq Era /\ slips' \subseteq Era
    BY DEF TypeOK, Resetting, Deleted, Era, account
  <2>3. user' \in {0} \union Era /\ hash' \in {0} \union Era
    BY <2>2 DEF TypeOK, account, SigningUp, Era
  <2>4. fails' \in 0..MaxAttempts - 1
    BY DEF TypeOK, account
  <2>5. locked' \in BOOLEAN /\ unlocked' \in {"no", "fresh", "yes"} /\ remembered' \in BOOLEAN
    BY DEF TypeOK, account, screens
  <2>6. saved' \subseteq Row /\ \A r, q \in saved' : r.portal = q.portal => r = q
    BY <2>2 DEF TypeOK
  <2>7. entering' \subseteq Entry
    BY DEF TypeOK
  <2> QED
    BY <2>1, <2>2, <2>3, <2>4, <2>5, <2>6, <2>7 DEF TypeOK
<1>2. SigningUp'
  BY DEF TypeOK, SigningUp, account, screens, Resetting, Resets, Call
<1>3. Deleted'
  BY DEF TypeOK, Deleted, account, screens, Resetting, Resets, Call, Era
<1>4. Owners'
  BY DEF TypeOK, Owners, Deleted, SigningUp, account, screens, Resetting, Resets, Era, HasAccount, Call, Row, Entry
<1>5. LockedForgets'
  BY DEF TypeOK, LockedForgets, account, screens
<1>6. RememberedHasAccount'
  BY DEF TypeOK, LockedForgets, RememberedHasAccount, Deleted, SigningUp, account, screens, Resetting, HasAccount, Resets, Era
<1> QED
  BY <1>1, <1>2, <1>3, <1>4, <1>5, <1>6

LEMMA SignUpDoneInv ==
  ASSUME IInv, SignUpDone
  PROVE  IInv'
<1> USE AccountAssumption, NoneAssumption, CallFields DEF IInv, SignUpDone, Unlock
<1>1. TypeOK'
  <2>1. call' \in Call \union {None}
    BY NextCall DEF TypeOK, Resetting, Call, screens
  <2>2. era' \in Era /\ replaced' \subseteq Era /\ slips' \subseteq Era
    BY DEF TypeOK, Resetting, Deleted, Era, account
  <2>3. user' \in {0} \union Era /\ hash' \in {0} \union Era
    BY <2>2 DEF TypeOK, account, SigningUp, Era
  <2>4. fails' \in 0..MaxAttempts - 1
    BY DEF TypeOK, account
  <2>5. locked' \in BOOLEAN /\ unlocked' \in {"no", "fresh", "yes"} /\ remembered' \in BOOLEAN
    BY DEF TypeOK, account, screens
  <2>6. saved' \subseteq Row /\ \A r, q \in saved' : r.portal = q.portal => r = q
    BY <2>2 DEF TypeOK
  <2>7. entering' \subseteq Entry
    BY DEF TypeOK
  <2> QED
    BY <2>1, <2>2, <2>3, <2>4, <2>5, <2>6, <2>7 DEF TypeOK
<1>2. SigningUp'
  BY DEF TypeOK, SigningUp, account, screens, Resetting, Resets, Call
<1>3. Deleted'
  BY DEF TypeOK, Deleted, account, screens, Resetting, Resets, Call, Era
<1>4. Owners'
  BY DEF TypeOK, Owners, Deleted, SigningUp, account, screens, Resetting, Resets, Era, HasAccount, Call, Row, Entry
<1>5. LockedForgets'
  BY DEF TypeOK, LockedForgets, account, screens
<1>6. RememberedHasAccount'
  <2>1. user = era /\ hash = era /\ era # 0
    BY DEF TypeOK, SigningUp, Era, Call
  <2>2. HasAccount'
    BY <2>1 DEF HasAccount
  <2> QED
    BY <2>2 DEF RememberedHasAccount
<1> QED
  BY <1>1, <1>2, <1>3, <1>4, <1>5, <1>6

LEMMA SignOutInv ==
  ASSUME IInv, SignOut
  PROVE  IInv'
<1> USE AccountAssumption, NoneAssumption, CallFields DEF IInv, SignOut, Left
<1>1. TypeOK'
  <2>1. call' \in Call \union {None}
    BY NextCall DEF TypeOK, Resetting, Call, screens
  <2>2. era' \in Era /\ replaced' \subseteq Era /\ slips' \subseteq Era
    BY DEF TypeOK, Resetting, Deleted, Era, account
  <2>3. user' \in {0} \union Era /\ hash' \in {0} \union Era
    BY <2>2 DEF TypeOK, account, SigningUp, Era
  <2>4. fails' \in 0..MaxAttempts - 1
    BY DEF TypeOK, account
  <2>5. locked' \in BOOLEAN /\ unlocked' \in {"no", "fresh", "yes"} /\ remembered' \in BOOLEAN
    BY DEF TypeOK, account, screens
  <2>6. saved' \subseteq Row /\ \A r, q \in saved' : r.portal = q.portal => r = q
    BY <2>2 DEF TypeOK
  <2>7. entering' \subseteq Entry
    BY DEF TypeOK
  <2> QED
    BY <2>1, <2>2, <2>3, <2>4, <2>5, <2>6, <2>7 DEF TypeOK
<1>2. SigningUp'
  BY DEF TypeOK, SigningUp, account, screens, Resetting, Resets, Call
<1>3. Deleted'
  BY DEF TypeOK, Deleted, account, screens, Resetting, Resets, Call, Era
<1>4. Owners'
  BY DEF TypeOK, Owners, Deleted, SigningUp, account, screens, Resetting, Resets, Era, HasAccount, Call, Row, Entry
<1>5. LockedForgets' /\ RememberedHasAccount'
  BY DEF TypeOK, LockedForgets, RememberedHasAccount, SigningUp, account, screens, Resetting, HasAccount, Resets
<1> QED
  BY <1>1, <1>2, <1>3, <1>4, <1>5

LEMMA LeavePortalInv ==
  ASSUME IInv, LeavePortal
  PROVE  IInv'
<1> USE AccountAssumption, NoneAssumption, CallFields DEF IInv, LeavePortal, Left
<1>1. TypeOK'
  BY NextCall DEF TypeOK, account, screens, Era, Row, Entry, Resetting, Call, Resets, HasAccount
<1>2. SigningUp'
  BY DEF TypeOK, SigningUp, account, screens, Resetting, Resets, Call
<1>3. Deleted'
  BY DEF TypeOK, Deleted, account, screens, Resetting, Resets, Call, Era
<1>4. Owners'
  BY DEF TypeOK, Owners, Deleted, SigningUp, account, screens, Resetting, Resets, Era, HasAccount, Call, Row, Entry
<1>5. LockedForgets' /\ RememberedHasAccount'
  BY DEF TypeOK, LockedForgets, RememberedHasAccount, SigningUp, account, screens, Resetting, HasAccount, Resets
<1> QED
  BY <1>1, <1>2, <1>3, <1>4, <1>5

LEMMA ResetVaultInv ==
  ASSUME IInv, NEW op \in Resets, ResetVault(op)
  PROVE  IInv'
<1> USE AccountAssumption, NoneAssumption, CallFields DEF IInv, ResetVault, DeleteSetting, Left
<1>1. TypeOK'
  <2>1. call' \in Call \union {None}
    BY NextCall DEF TypeOK, Resetting, Call, screens
  <2>2. era' \in Era /\ replaced' \subseteq Era /\ slips' \subseteq Era
    BY DEF TypeOK, Resetting, Deleted, Era, account
  <2>3. user' \in {0} \union Era /\ hash' \in {0} \union Era
    BY <2>2 DEF TypeOK, account, SigningUp, Era
  <2>4. fails' \in 0..MaxAttempts - 1
    BY DEF TypeOK, account
  <2>5. locked' \in BOOLEAN /\ unlocked' \in {"no", "fresh", "yes"} /\ remembered' \in BOOLEAN
    BY DEF TypeOK, account, screens
  <2>6. saved' \subseteq Row /\ \A r, q \in saved' : r.portal = q.portal => r = q
    BY <2>2 DEF TypeOK
  <2>7. entering' \subseteq Entry
    BY DEF TypeOK
  <2> QED
    BY <2>1, <2>2, <2>3, <2>4, <2>5, <2>6, <2>7 DEF TypeOK
<1>2. SigningUp'
  BY DEF TypeOK, SigningUp, account, screens, Resetting, Resets, Call
<1>3. Deleted'
  BY DEF TypeOK, Deleted, account, screens, Resetting, Resets, Call, Era
<1>4. Owners'
  BY DEF TypeOK, Owners, Deleted, SigningUp, account, screens, Resetting, Resets, Era, HasAccount, Call, Row, Entry
<1>5. LockedForgets'
  BY DEF TypeOK, LockedForgets, account, screens
<1>6. RememberedHasAccount'
  <2>1. call' \in Call /\ call'.op \in Resets
    BY DEF Call, Resets
  <2>2. Resetting'
    BY <2>1 DEF Resetting
  <2> QED
    BY <2>2 DEF RememberedHasAccount
<1> QED
  BY <1>1, <1>2, <1>3, <1>4, <1>5, <1>6

LEMMA DeleteHashInv ==
  ASSUME IInv, DeleteHash
  PROVE  IInv'
<1> USE AccountAssumption, NoneAssumption, CallFields DEF IInv, DeleteHash, DeleteSetting, Slip, At
<1>1. TypeOK'
  <2>1. call' \in Call \union {None}
    BY NextCall DEF TypeOK, Resetting, Call, screens
  <2>2. era' \in Era /\ replaced' \subseteq Era /\ slips' \subseteq Era
    BY DEF TypeOK, Resetting, Deleted, Era, account
  <2>3. user' \in {0} \union Era /\ hash' \in {0} \union Era
    BY <2>2 DEF TypeOK, account, SigningUp, Era
  <2>4. fails' \in 0..MaxAttempts - 1
    BY DEF TypeOK, account
  <2>5. locked' \in BOOLEAN /\ unlocked' \in {"no", "fresh", "yes"} /\ remembered' \in BOOLEAN
    BY DEF TypeOK, account, screens
  <2>6. saved' \subseteq Row /\ \A r, q \in saved' : r.portal = q.portal => r = q
    BY <2>2 DEF TypeOK
  <2>7. entering' \subseteq Entry
    BY DEF TypeOK
  <2> QED
    BY <2>1, <2>2, <2>3, <2>4, <2>5, <2>6, <2>7 DEF TypeOK
<1>2. SigningUp'
  BY DEF TypeOK, SigningUp, account, screens, Resetting, Resets, Call
<1>3. Deleted'
  BY DEF TypeOK, Deleted, account, screens, Resetting, Resets, Call, Era
<1>4. Owners'
  BY DEF TypeOK, Owners, Deleted, SigningUp, account, screens, Resetting, Resets, Era, HasAccount, Call, Row, Entry
<1>5. LockedForgets'
  BY DEF TypeOK, LockedForgets, account, screens
<1>6. RememberedHasAccount'
  BY NextCall DEF TypeOK, LockedForgets, RememberedHasAccount, Deleted, SigningUp, account, screens, Resetting, HasAccount, Resets, Era
<1> QED
  BY <1>1, <1>2, <1>3, <1>4, <1>5, <1>6

LEMMA ClearActiveSessionsInv ==
  ASSUME IInv, ClearActiveSessions
  PROVE  IInv'
<1> USE AccountAssumption, NoneAssumption, CallFields DEF IInv, ClearActiveSessions, Slip, At
<1>1. TypeOK'
  <2>1. call' \in Call \union {None}
    BY NextCall DEF TypeOK, Resetting, Call, screens
  <2>2. era' \in Era /\ replaced' \subseteq Era /\ slips' \subseteq Era
    BY DEF TypeOK, Resetting, Deleted, Era, account
  <2>3. user' \in {0} \union Era /\ hash' \in {0} \union Era
    BY <2>2 DEF TypeOK, account, SigningUp, Era
  <2>4. fails' \in 0..MaxAttempts - 1
    BY DEF TypeOK, account
  <2>5. locked' \in BOOLEAN /\ unlocked' \in {"no", "fresh", "yes"} /\ remembered' \in BOOLEAN
    BY DEF TypeOK, account, screens
  <2>6. saved' \subseteq Row /\ \A r, q \in saved' : r.portal = q.portal => r = q
    BY <2>2 DEF TypeOK
  <2>7. entering' \subseteq Entry
    BY DEF TypeOK
  <2> QED
    BY <2>1, <2>2, <2>3, <2>4, <2>5, <2>6, <2>7 DEF TypeOK
<1>2. SigningUp'
  BY DEF TypeOK, SigningUp, account, screens, Resetting, Resets, Call
<1>3. Deleted'
  BY DEF TypeOK, Deleted, account, screens, Resetting, Resets, Call, Era
<1>4. Owners'
  BY DEF TypeOK, Owners, Deleted, SigningUp, account, screens, Resetting, Resets, Era, HasAccount, Call, Row, Entry
<1>5. LockedForgets'
  BY DEF TypeOK, LockedForgets, account, screens
<1>6. RememberedHasAccount'
  BY NextCall DEF TypeOK, LockedForgets, RememberedHasAccount, Deleted, SigningUp, account, screens, Resetting, HasAccount, Resets, Era
<1> QED
  BY <1>1, <1>2, <1>3, <1>4, <1>5, <1>6

LEMMA ClearHistoryInv ==
  ASSUME IInv, ClearHistory
  PROVE  IInv'
<1> USE AccountAssumption, NoneAssumption, CallFields DEF IInv, ClearHistory, Slip, At
<1>1. TypeOK'
  <2>1. call' \in Call \union {None}
    BY NextCall DEF TypeOK, Resetting, Call, screens
  <2>2. era' \in Era /\ replaced' \subseteq Era /\ slips' \subseteq Era
    BY DEF TypeOK, Resetting, Deleted, Era, account
  <2>3. user' \in {0} \union Era /\ hash' \in {0} \union Era
    BY <2>2 DEF TypeOK, account, SigningUp, Era
  <2>4. fails' \in 0..MaxAttempts - 1
    BY DEF TypeOK, account
  <2>5. locked' \in BOOLEAN /\ unlocked' \in {"no", "fresh", "yes"} /\ remembered' \in BOOLEAN
    BY DEF TypeOK, account, screens
  <2>6. saved' \subseteq Row /\ \A r, q \in saved' : r.portal = q.portal => r = q
    BY <2>2 DEF TypeOK
  <2>7. entering' \subseteq Entry
    BY DEF TypeOK
  <2> QED
    BY <2>1, <2>2, <2>3, <2>4, <2>5, <2>6, <2>7 DEF TypeOK
<1>2. SigningUp'
  BY DEF TypeOK, SigningUp, account, screens, Resetting, Resets, Call
<1>3. Deleted'
  BY DEF TypeOK, Deleted, account, screens, Resetting, Resets, Call, Era
<1>4. Owners'
  BY DEF TypeOK, Owners, Deleted, SigningUp, account, screens, Resetting, Resets, Era, HasAccount, Call, Row, Entry
<1>5. LockedForgets'
  BY DEF TypeOK, LockedForgets, account, screens
<1>6. RememberedHasAccount'
  BY NextCall DEF TypeOK, LockedForgets, RememberedHasAccount, Deleted, SigningUp, account, screens, Resetting, HasAccount, Resets, Era
<1> QED
  BY <1>1, <1>2, <1>3, <1>4, <1>5, <1>6

LEMMA ResetDoneInv ==
  ASSUME IInv, ResetDone
  PROVE  IInv'
<1> USE AccountAssumption, NoneAssumption, CallFields DEF IInv, ResetDone
<1>1. TypeOK'
  BY NextCall DEF TypeOK, account, screens, Era, Row, Entry, Resetting, Call, Resets, HasAccount
<1>2. SigningUp'
  BY DEF TypeOK, SigningUp, account, screens, Resetting, Resets, Call
<1>3. Deleted'
  BY DEF TypeOK, Deleted, account, screens, Resetting, Resets, Call, Era
<1>4. Owners'
  BY DEF TypeOK, Owners, Deleted, SigningUp, account, screens, Resetting, Resets, Era, HasAccount, Call, Row, Entry
<1>5. LockedForgets' /\ RememberedHasAccount'
  BY DEF TypeOK, LockedForgets, RememberedHasAccount, SigningUp, account, screens, Resetting, HasAccount, Resets
<1> QED
  BY <1>1, <1>2, <1>3, <1>4, <1>5

LEMMA RestartInv ==
  ASSUME IInv, Restart
  PROVE  IInv'
<1> USE AccountAssumption, NoneAssumption, CallFields DEF IInv, Restart, Slip
<1>1. TypeOK'
  <2>1. call' \in Call \union {None}
    BY NextCall DEF TypeOK, Resetting, Call, screens
  <2>2. era' \in Era /\ replaced' \subseteq Era /\ slips' \subseteq Era
    BY DEF TypeOK, Resetting, Deleted, Era, account
  <2>3. user' \in {0} \union Era /\ hash' \in {0} \union Era
    BY <2>2 DEF TypeOK, account, SigningUp, Era
  <2>4. fails' \in 0..MaxAttempts - 1
    BY DEF TypeOK, account
  <2>5. locked' \in BOOLEAN /\ unlocked' \in {"no", "fresh", "yes"} /\ remembered' \in BOOLEAN
    BY DEF TypeOK, account, screens
  <2>6. saved' \subseteq Row /\ \A r, q \in saved' : r.portal = q.portal => r = q
    BY <2>2 DEF TypeOK
  <2>7. entering' \subseteq Entry
    BY DEF TypeOK
  <2> QED
    BY <2>1, <2>2, <2>3, <2>4, <2>5, <2>6, <2>7 DEF TypeOK
<1>2. SigningUp'
  BY DEF TypeOK, SigningUp, account, screens, Resetting, Resets, Call
<1>3. Deleted'
  BY DEF TypeOK, Deleted, account, screens, Resetting, Resets, Call, Era
<1>4. Owners'
  BY DEF TypeOK, Owners, Deleted, SigningUp, account, screens, Resetting, Resets, Era, HasAccount, Call, Row, Entry
<1>5. LockedForgets' /\ RememberedHasAccount'
  BY DEF TypeOK, LockedForgets, RememberedHasAccount, SigningUp, account, screens, Resetting, HasAccount, Resets
<1> QED
  BY <1>1, <1>2, <1>3, <1>4, <1>5

-----------------------------------------------------------------------------
LEMMA StepInv == IInv /\ [Next]_vars => IInv'
<1> SUFFICES ASSUME IInv, [Next]_vars PROVE IInv'
  OBVIOUS
<1>1. ASSUME NEW p \in Portal, Enter(p) PROVE IInv'
  BY <1>1, EnterInv
<1>2. ASSUME NEW e \in entering, persistEnter(e) \/ DialFails(e) PROVE IInv'
  BY <1>2, persistEnterInv, DialFailsInv
<1>3. CASE ResumeActiveSessions
  BY <1>3, ResumeActiveSessionsInv
<1>4. CASE SignInWrong \/ SignIn \/ LockoutEnds
  BY <1>4, SignInWrongInv, SignInInv, LockoutEndsInv
<1>5. CASE SignUp \/ SignUpHash \/ SignUpDone
  BY <1>5, SignUpInv, SignUpHashInv, SignUpDoneInv
<1>6. CASE SignOut \/ LeavePortal
  BY <1>6, SignOutInv, LeavePortalInv
<1>7. ASSUME NEW op \in Resets, ResetVault(op) PROVE IInv'
  BY <1>7, ResetVaultInv
<1>8. CASE DeleteHash \/ ClearActiveSessions \/ ClearHistory \/ ResetDone
  BY <1>8, DeleteHashInv, ClearActiveSessionsInv, ClearHistoryInv, ResetDoneInv
<1>9. CASE Restart
  BY <1>9, RestartInv
<1>10. CASE UNCHANGED vars
  BY <1>10 DEF IInv, vars, account, screens, TypeOK, SigningUp, Deleted, Owners,
     LockedForgets, RememberedHasAccount, Resetting, HasAccount
<1> QED
  BY <1>1, <1>2, <1>3, <1>4, <1>5, <1>6, <1>7, <1>8, <1>9, <1>10 DEF Next

\* The invariant holds in every state the device can reach.
LEMMA Invariance == Spec => []IInv
<1>1. Init => IInv
  BY InitInv
<1>2. IInv /\ [Next]_vars => IInv'
  BY StepInv
<1> QED
  BY <1>1, <1>2, PTL DEF Spec

-----------------------------------------------------------------------------
\* The stored name and hash belong together, unless a reset slipped or a
\* sign-up took the account over without its password (auth.go:170-311): for
\* any number of portals, identities and attempts.
THEOREM AccountInvHolds == Spec => []AccountInv
<1>1. IInv => AccountInv
  BY DEF IInv, AccountInv, TypeOK, Deleted, Owners, OwnPassword, HasAccount, Resetting, Era
<1> QED
  BY <1>1, Invariance, PTL

\* Nobody is brought back to the portals of the identity before (auth.go:305),
\* but for the rows the property names.
THEOREM ForeignRowsHolds == Spec => []ForeignRows
<1>1. IInv => ForeignRows
  BY DEF IInv, Owners, ForeignRows
<1> QED
  BY <1>1, Invariance, PTL

\* A device that opens without a password has an account (Settings.tsx:160).
THEOREM RememberedHasAccountHolds == Spec => []RememberedHasAccount
<1>1. IInv => RememberedHasAccount
  BY DEF IInv
<1> QED
  BY <1>1, Invariance, PTL
=============================================================================
