------------------------------ MODULE Delivery ------------------------------
(***************************************************************************)
(* What a file transfer promises to the peer that is offered a file        *)
(* (client/transfer/transfer.go, package comment and ProgressEvent):  each *)
(* offered file is reported saved or dropped at most once, what is saved   *)
(* is a part of that file and of no other, and the only parts that may be  *)
(* missing are those the connection is known to have dropped.              *)
(***************************************************************************)
EXTENDS Naturals

CONSTANTS Xfer,      \* the transfers there may be
          Part       \* positions in a file

VARIABLES fate,      \* none, open, saved or dropped: the last report
          copy,      \* the parts <<x, i>> in the report
          missed     \* the parts the connection dropped; 0: a message without one

vars == <<fate, copy, missed>>

Init ==
  /\ fate = [x \in Xfer |-> "none"]
  /\ copy = [x \in Xfer |-> {}]
  /\ missed = [x \in Xfer |-> {}]

\* The receiver is told of a file.
Offer(x) ==
  /\ fate[x] = "none"
  /\ fate' = [fate EXCEPT ![x] = "open"]
  /\ UNCHANGED <<copy, missed>>

\* The first n parts have been sent: what did not arrive was missed.
Save(x, n) ==
  /\ fate[x] = "open"
  /\ fate' = [fate EXCEPT ![x] = "saved"]
  /\ copy' = [copy EXCEPT ![x] = {<<x, i>> : i \in {j \in Part : j <= n} \ missed[x]}]
  /\ UNCHANGED missed

Drop(x) ==
  /\ fate[x] = "open"
  /\ fate' = [fate EXCEPT ![x] = "dropped"]
  /\ UNCHANGED <<copy, missed>>

Miss(x, i) ==
  /\ missed' = [missed EXCEPT ![x] = @ \union {i}]
  /\ UNCHANGED <<fate, copy>>

Next ==
  \E x \in Xfer :
    \/ Offer(x) \/ Drop(x)
    \/ \E n \in Part \union {0} : Save(x, n)
    \/ \E i \in Part \union {0} : Miss(x, i)

Spec == Init /\ [][Next]_vars
=============================================================================
