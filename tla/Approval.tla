------------------------------ MODULE Approval ------------------------------
(***************************************************************************)
(* The gate in front of an exposed port (client/app.go, approvePeerOpen):  *)
(* the host's user is asked whether a peer may open it, and the answer is  *)
(* kept for the peer.  A peer's opens are handled one at a time by its     *)
(* message goroutine, so a peer has one request at a time; a request whose *)
(* time is up may still be on the screen when the next one is made.  The   *)
(* actions here are steps of the module that composes them.                *)
(***************************************************************************)
EXTENDS Naturals

CONSTANTS Asker,      \* the peers that open the port
          MaxPrompts  \* bound on the requests made for a peer

ASSUME ApprovalAssumption == MaxPrompts \in Nat

VARIABLES
  require,   \* exposed_services.require_approval of the port
  decided,   \* App.approvalDecided
  asked,     \* the number of the last request for a peer
  pending,   \* App.approvalPending
  wait,      \* the channel of the request that is out for a peer
  screen,    \* the requests the window shows
  leave      \* peers whose last request was allowed, since the last reset

gate == <<require, decided, asked, pending, wait, screen, leave>>

Request == Asker \X (1..MaxPrompts)
Answer == {"none", "allow", "deny"}
Last(a) == <<a, asked[a]>>

GateInit ==
  /\ require \in BOOLEAN
  /\ decided = [a \in Asker |-> "none"]
  /\ asked = [a \in Asker |-> 0]
  /\ pending = {} /\ screen = {} /\ leave = {}
  /\ wait = [a \in Asker |-> "none"]

\* Steps 1 and 2: "none" means that the user has to be asked.  A store that
\* cannot be read lets everybody in.
Verdict(a, readable) == IF require /\ readable THEN decided[a] ELSE "allow"

\* Step 3.
Prompt(a) ==
  /\ asked[a] < MaxPrompts
  /\ asked' = [asked EXCEPT ![a] = @ + 1]
  /\ pending' = pending \union {<<a, asked[a] + 1>>}
  /\ screen' = screen \union {<<a, asked[a] + 1>>}
  /\ UNCHANGED <<require, decided, wait, leave>>

\* The decision is kept for the next open.
Decided(a) ==
  /\ wait[a] # "none"
  /\ decided' = [decided EXCEPT ![a] = wait[a]]
  /\ wait' = [wait EXCEPT ![a] = "none"]
  /\ UNCHANGED <<require, asked, pending, screen, leave>>

\* A refusal for want of an answer is not kept.  When the answer is there as
\* well, the select takes either.
PromptTimesOut(a) ==
  /\ pending' = pending \ {Last(a)}
  /\ wait' = [wait EXCEPT ![a] = "none"]
  /\ UNCHANGED <<require, decided, asked, screen, leave>>

\* Mutant: an answer goes to the request that is out now.
ResolveLast(r, answer) ==
  /\ r \in screen
  /\ screen' = screen \ {r}
  /\ leave' = IF r # Last(r[1]) THEN leave
              ELSE IF answer = "allow" THEN leave \union {r[1]} ELSE leave \ {r[1]}
  /\ pending' = pending \ {Last(r[1])}
  /\ wait' = IF Last(r[1]) \in pending THEN [wait EXCEPT ![r[1]] = answer] ELSE wait
  /\ UNCHANGED <<require, decided, asked>>

\* ApproveServiceRequest, DenyServiceRequest: the user clicks.
resolveApproval(r, answer) ==
  /\ r \in screen
  /\ screen' = screen \ {r}
  /\ leave' = IF r # Last(r[1]) THEN leave
              ELSE IF answer = "allow" THEN leave \union {r[1]} ELSE leave \ {r[1]}
  /\ pending' = pending \ {r}
  /\ wait' = IF r \in pending THEN [wait EXCEPT ![r[1]] = answer] ELSE wait
  /\ UNCHANGED <<require, decided, asked>>

\* The event service:approval-cancelled reaches the window.
Dismiss(r) ==
  /\ r \in screen /\ r \notin pending
  /\ screen' = screen \ {r}
  /\ UNCHANGED <<require, decided, asked, pending, wait, leave>>

\* An answer that is in the channel of a request is kept after the reset.
ResetApprovalCache(asking) ==
  /\ decided' = [a \in Asker |-> "none"]
  /\ leave' = {a \in leave \intersect asking : wait[a] = "allow"}
  /\ UNCHANGED <<require, asked, pending, wait, screen>>

SetServiceApproval(on) ==
  /\ require # on
  /\ require' = on
  /\ UNCHANGED <<decided, asked, pending, wait, screen, leave>>

GateTypeOK ==
  /\ require \in BOOLEAN
  /\ decided \in [Asker -> Answer]
  /\ asked \in [Asker -> 0..MaxPrompts]
  /\ pending \subseteq Request /\ screen \subseteq Request /\ leave \subseteq Asker
  /\ wait \in [Asker -> Answer]
=============================================================================
