------------------------------- MODULE Account -------------------------------
(***************************************************************************)
(* Who the device belongs to: the local account (client/auth.go) and what  *)
(* it shares a database with, the portals to bring back                    *)
(* (client/storage/active_sessions.go).  A call is several transactions,   *)
(* one action each: any of them may fail, and the app may stop between two *)
(* of them.  The screens make one account call at a time; entering a       *)
(* portal goes on beside it, in goroutines.  A portal is what the user     *)
(* means by it: the ID the server gives it, and the sessions, are in       *)
(* ActiveSessions.                                                         *)
(***************************************************************************)
EXTENDS Naturals, FiniteSets

CONSTANTS Portal,        \* the portals the users of the device enter
          MaxAttempts,   \* maxSignInAttempts
          MaxEras,       \* bound on the identities the device has had
          MaxEntering,   \* bound on the portals the user enters at a time
          None

ASSUME AccountAssumption ==
  /\ MaxAttempts \in Nat \ {0} /\ MaxEras \in Nat \ {0} /\ MaxEntering \in Nat

VARIABLES
  user, hash,             \* the settings auth_username and auth_hash: whose, or 0
  fails, locked,          \* signInLimit of the stored username
  unlocked, remembered,   \* the store of the frontend; the second outlives it
  call,                   \* the account call under way, or None
  saved,                  \* active_sessions
  entering,               \* the goroutines that enter a portal
  era,                    \* the identity in force: a reset and a replacement start a new one
  replaced, slips         \* eras ended by a new sign-up; by a reset cut short

account == <<user, hash, fails, locked, era, replaced, slips>>
screens == <<unlocked, remembered, call>>
vars == <<account, screens, saved, entering>>

Era == 1..MaxEras
Row == [portal : Portal, by : Era, late : BOOLEAN]
Entry == [portal : Portal, by : Era]
Resets == {"resetFromLock", "resetFromSettings"}
Call == [op : {"signup"}, at : {"hash", "done"}]
        \union [op : Resets, at : {"hash", "rows", "history", "front"}]

ASSUME NoneAssumption == None \notin Call

HasAccount == user # 0 /\ hash # 0
Resetting == call # None /\ call.op \in Resets

Init ==
  /\ user = 0 /\ hash = 0 /\ fails = 0 /\ locked = FALSE
  /\ unlocked = "no" /\ remembered = FALSE /\ call = None
  /\ saved = {} /\ entering = {}
  /\ era = 1 /\ replaced = {} /\ slips = {}

-----------------------------------------------------------------------------
(* Entering a portal: createPortal, joinPortal and resumeOne, as far as    *)
(* the rows go.                                                            *)

Dial(p) == [portal |-> p, by |-> era]

Enter(p) ==
  /\ unlocked # "no" /\ call = None /\ Cardinality(entering) < MaxEntering
  /\ entering' = entering \union {Dial(p)}
  /\ UNCHANGED <<account, screens, saved>>

\* The portal is ready.  A write that fails is ignored.
persistEnter(e) ==
  /\ entering' = entering \ {e}
  /\ \/ saved' = {r \in saved : r.portal # e.portal} \union
                 {[portal |-> e.portal, by |-> e.by, late |-> e.by # era]}
     \/ UNCHANGED saved
  /\ UNCHANGED <<account, screens>>

\* The row of a portal that is gone for good is dropped.
DialFails(e) ==
  /\ entering' = entering \ {e}
  /\ saved' \in {saved, {r \in saved : r.portal # e.portal}}
  /\ UNCHANGED <<account, screens>>

\* The effect of App.tsx on unlocking; the list may fail to be read.
ResumeActiveSessions ==
  /\ unlocked = "fresh" /\ unlocked' = "yes"
  /\ \/ entering' = entering \union {Dial(r.portal) : r \in saved}
     \/ UNCHANGED entering
  /\ UNCHANGED <<account, remembered, call, saved>>

-----------------------------------------------------------------------------
(* The account.                                                            *)

\* signInRecordFailure
SignInWrong ==
  /\ unlocked = "no" /\ call = None /\ ~locked
  /\ IF fails + 1 >= MaxAttempts THEN locked' = TRUE /\ fails' = 0
                                 ELSE fails' = fails + 1 /\ UNCHANGED locked
  /\ UNCHANGED <<user, hash, era, replaced, slips, screens, saved, entering>>

Unlock(how) == unlocked' = how /\ remembered' \in BOOLEAN

\* The stored name, and the password of the stored hash.
SignIn ==
  /\ unlocked = "no" /\ call = None /\ ~locked /\ HasAccount
  /\ fails' = 0 /\ Unlock("fresh")
  /\ UNCHANGED <<user, hash, locked, era, replaced, slips, call, saved, entering>>

LockoutEnds ==
  /\ locked /\ locked' = FALSE
  /\ UNCHANGED <<user, hash, fails, era, replaced, slips, screens, saved, entering>>

\* The sign-up screen may replace an account: it only warns.
SignUp ==
  /\ unlocked = "no" /\ call = None
  /\ IF HasAccount THEN era < MaxEras /\ era' = era + 1 /\ replaced' = replaced \union {era}
                   ELSE UNCHANGED <<era, replaced>>
  /\ user' = era' /\ call' = [op |-> "signup", at |-> "hash"]
  /\ UNCHANGED <<hash, fails, locked, slips, unlocked, remembered, saved, entering>>

SignUpHash ==
  /\ call = [op |-> "signup", at |-> "hash"]
  /\ \/ hash' = era /\ call' = [call EXCEPT !.at = "done"]
     \/ call' = None /\ UNCHANGED hash                  \* the error is returned
  /\ UNCHANGED <<user, fails, locked, era, replaced, slips, unlocked, remembered,
                 saved, entering>>

SignUpDone ==
  /\ call = [op |-> "signup", at |-> "done"]
  /\ fails' = 0 /\ locked' = FALSE /\ Unlock("fresh") /\ call' = None
  /\ UNCHANGED <<user, hash, era, replaced, slips, saved, entering>>

\* Leave, of the foreground portal: of none when all of them run in the background.
Left(s) == {s} \union {s \ {r} : r \in s}

SignOut ==
  /\ unlocked = "yes" /\ call = None
  /\ saved' \in Left(saved) /\ remembered' = FALSE /\ unlocked' = "no"
  /\ UNCHANGED <<account, call, entering>>

LeavePortal ==
  /\ unlocked = "yes" /\ saved' \in Left(saved) \ {saved}
  /\ UNCHANGED <<account, screens, entering>>

-----------------------------------------------------------------------------
(* ResetVault, a deletion at a time.  Only the last error is returned.     *)

DeleteSetting(v, ok) == IF ok THEN 0 ELSE v
Slip(ok) == slips' = IF ok THEN slips ELSE slips \union {era - 1}

ResetVault(op) ==
  /\ call = None /\ unlocked = IF op = "resetFromLock" THEN "no" ELSE "yes"
  /\ era < MaxEras /\ era' = era + 1
  /\ saved' \in IF op = "resetFromLock" THEN {saved} ELSE Left(saved)
  /\ \E ok \in BOOLEAN : /\ user' = DeleteSetting(user, ok)
                         /\ slips' = IF ok THEN slips ELSE slips \union {era}
  /\ call' = [op |-> op, at |-> "hash"]
  /\ UNCHANGED <<hash, fails, locked, replaced, unlocked, remembered, entering>>

At(step, next) == Resetting /\ call.at = step /\ call' = [call EXCEPT !.at = next]

\* Mutant: the password is kept.
KeepHash ==
  /\ At("hash", "rows") /\ fails' = 0 /\ locked' = FALSE
  /\ UNCHANGED <<user, hash, era, replaced, slips, unlocked, remembered, saved, entering>>

DeleteHash ==
  /\ At("hash", "rows") /\ fails' = 0 /\ locked' = FALSE
  /\ \E ok \in BOOLEAN : hash' = DeleteSetting(hash, ok) /\ Slip(ok)
  /\ UNCHANGED <<user, era, replaced, unlocked, remembered, saved, entering>>

\* Mutant: the portals to bring back are kept.
KeepActiveSessions ==
  /\ At("rows", "history")
  /\ UNCHANGED <<account, unlocked, remembered, saved, entering>>

ClearActiveSessions ==
  /\ At("rows", "history")
  /\ \E ok \in BOOLEAN : saved' = (IF ok THEN {} ELSE saved) /\ Slip(ok)
  /\ UNCHANGED <<user, hash, fails, locked, era, replaced, unlocked, remembered,
                 entering>>

ClearHistory ==
  /\ \/ At("history", "front") /\ UNCHANGED slips
     \/ Resetting /\ call.at = "history" /\ call' = None /\ Slip(FALSE)
  /\ UNCHANGED <<user, hash, fails, locked, era, replaced, unlocked, remembered,
                 saved, entering>>

\* Mutant: only the reset of the lock screen forgets that this device is remembered.
StayRemembered ==
  /\ Resetting /\ call.at = "front" /\ call' = None
  /\ unlocked' = "no"
  /\ remembered' = IF call.op = "resetFromLock" THEN FALSE ELSE remembered
  /\ IF era - 1 \in slips THEN UNCHANGED <<replaced, slips>> ELSE replaced' = {} /\ slips' = {}
  /\ UNCHANGED <<user, hash, fails, locked, era, saved, entering>>

\* The frontend goes on; a reset that lost nothing on its way leaves no trace.
ResetDone ==
  /\ Resetting /\ call.at = "front" /\ call' = None
  /\ unlocked' = "no" /\ remembered' = FALSE
  /\ IF era - 1 \in slips THEN UNCHANGED <<replaced, slips>> ELSE replaced' = {} /\ slips' = {}
  /\ UNCHANGED <<user, hash, fails, locked, era, saved, entering>>

-----------------------------------------------------------------------------
\* The app stops, at any moment, and is started again.
Restart ==
  /\ entering' = {} /\ call' = None /\ fails' = 0 /\ locked' = FALSE
  /\ unlocked' = IF remembered THEN "fresh" ELSE "no"
  /\ Slip(~Resetting)
  /\ UNCHANGED <<user, hash, era, replaced, remembered, saved>>

Next ==
  \/ \E p \in Portal : Enter(p)
  \/ \E e \in entering : persistEnter(e) \/ DialFails(e)
  \/ ResumeActiveSessions
  \/ SignInWrong \/ SignIn \/ LockoutEnds \/ SignUp \/ SignUpHash \/ SignUpDone
  \/ SignOut \/ LeavePortal
  \/ \E op \in Resets : ResetVault(op)
  \/ DeleteHash \/ ClearActiveSessions \/ ClearHistory \/ ResetDone
  \/ Restart

Spec == Init /\ [][Next]_vars

-----------------------------------------------------------------------------
\* Every variable keeps its type: in particular the count of failures restarts
\* at the lockout, and a portal has one row at most (its primary key).
TypeOK ==
  /\ user \in {0} \union Era /\ hash \in {0} \union Era
  /\ fails \in 0..MaxAttempts - 1 /\ locked \in BOOLEAN
  /\ unlocked \in {"no", "fresh", "yes"} /\ remembered \in BOOLEAN
  /\ call \in Call \union {None}
  /\ saved \subseteq Row /\ \A r, q \in saved : r.portal = q.portal => r = q
  /\ entering \subseteq Entry
  /\ era \in Era /\ replaced \subseteq Era /\ slips \subseteq Era

\* A name never comes with the password of somebody else, unless that person's
\* reset was cut short, or a sign-up took over and wrote the name only: SignUp
\* writes the name and the hash in two transactions, and ResetVault ignores the
\* errors of its deletions (auth.go).
OwnPassword == HasAccount /\ user # hash => hash \in replaced \union slips

\* The invariant of the account: the types, and that the stored name and hash
\* belong together whatever SignUp and ResetVault were doing (auth.go:170-311).
AccountInv == TypeOK /\ OwnPassword

\* After a reset, nobody's launch dials the portals of the identity before
\* ("wipe them so the next account's first launch doesn't silently re-dial",
\* auth.go), unless the reset was cut short, a sign-up replaced the account
\* without one, or a portal was still being entered when the reset began.
ForeignRows ==
  Resetting \/ \A r \in saved : r.by = era \/ r.late \/ r.by \in replaced \union slips

\* A device that opens without a password has an account to open, unless the
\* reset of that account was cut short: the frontend forgets that the device is
\* remembered only when ResetVault has returned without an error (Settings.tsx).
RememberedHasAccount == remembered => HasAccount \/ Resetting \/ era - 1 \in slips
=============================================================================
