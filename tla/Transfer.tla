------------------------------ MODULE Transfer ------------------------------
(***************************************************************************)
(* File transfer between the peers of a portal                             *)
(* (client/transfer/transfer.go).                                          *)
(*                                                                         *)
(* Several senders send to one receiver.  A transfer <<s, n>> is the n-th  *)
(* of sender s; its pump is a goroutine that reads the file and writes     *)
(* chunks to the transfer channel of s, which is ordered and reliable      *)
(* (peer.channelDefs).  The receiver takes the frames of one sender one at *)
(* a time, those of different senders in goroutines of their own; a frame  *)
(* its message queue has no room for during two seconds is dropped.        *)
(***************************************************************************)
EXTENDS Naturals, Sequences, FiniteSets, FiniteSetsExt

CONSTANTS Sender,     \* the peers that send
          Name,       \* file names
          Xfer,       \* bound: the transfers <<s, n>> there may be
          MaxChunks,  \* bound on the chunks of a file
          Length,     \* the numbers of chunks that files have
          MaxQueued,  \* bound on the frames in one channel
          MaxDrops,   \* bound on the frames the receiver drops
          MaxCopies   \* the names ensureUniquePath tries: 1000 in the code

ASSUME TransferAssumption ==
  /\ Xfer \subseteq Sender \X (Nat \ {0})
  /\ MaxChunks \in Nat /\ Length \subseteq 0..MaxChunks /\ MaxQueued \in Nat /\ MaxDrops \in Nat
  /\ MaxCopies \in Nat \ {0}

From(x) == x[1]
Chunk == 1..MaxChunks
Body == Xfer \X Chunk
Path == Name \X (0..MaxCopies - 1)     \* <<name, i>>: name, or "name (i)"

Frame == [type : {"START", "CHUNK", "END", "ABORT"}, id : Nat, body : Body \union {<<>>}]

VARIABLES
  nextID, pump, pos,           \* the senders' engines: counter, pumps
  file,                        \* the file a transfer sends: its name, its chunks
  chan, up,                    \* the transfer channels
  recvs, got,                  \* the receiver's map, and the buffer of each entry
  saving,                      \* a handler between ensureUniquePath and WriteFile
  disk,                        \* the save directory: path -> whose file, or none
  report,                      \* the last ProgressEvent of the receiver
  told,                        \* the chunks in the event that reports it saved
  cancelled,                   \* transfers cancelled before their END
  missed                       \* the chunks dropped on the way in; 0: another frame

sending == <<nextID, pump, pos, file, cancelled>>
channel == <<chan, up>>
receiving == <<recvs, got, saving, disk, report, told>>
vars == <<sending, channel, receiving, missed>>

NoSave == <<>>
NoFile == <<>>
OldFile == <<"old", 0>>
NoName == <<>>

Init ==
  /\ nextID = [s \in Sender |-> 0]
  /\ pump = [x \in Xfer |-> "none"]
  /\ pos = [x \in Xfer |-> 0]
  /\ file = [x \in Xfer |-> [name |-> NoName, len |-> 0]]
  /\ chan = [s \in Sender |-> <<>>]
  /\ up = [s \in Sender |-> TRUE]
  /\ recvs = {}
  /\ got = [x \in Xfer |-> {}]
  /\ saving = [s \in Sender |-> NoSave]
  /\ \E old \in SUBSET Name :     \* what was in the directory before
       disk = [p \in Path |-> IF p[1] \in old /\ p[2] = 0 THEN OldFile ELSE NoFile]
  /\ report = [x \in Xfer |-> "none"]
  /\ told = [x \in Xfer |-> {}]
  /\ cancelled = {}
  /\ missed = [x \in Xfer |-> {}]

-----------------------------------------------------------------------------
(* Sending.                                                                *)

Room(s) == Len(chan[s]) < MaxQueued

Put(x, type, body) ==
  chan' = [chan EXCEPT ![From(x)] =
             Append(@, [type |-> type, id |-> x[2], body |-> body])]

\* sendFrame with its error ignored.
PutIfUp(x, type) ==
  IF up[From(x)] THEN Room(From(x)) /\ Put(x, type, <<>>) ELSE UNCHANGED chan

\* An ID is used up even if START cannot be sent.
SendFile(s, name, len) ==
  LET x == <<s, nextID[s] + 1>> IN
  /\ x \in Xfer
  /\ nextID' = [nextID EXCEPT ![s] = @ + 1]
  /\ IF up[s]
     THEN /\ Room(s) /\ Put(x, "START", <<>>)
          /\ file' = [file EXCEPT ![x] = [name |-> name, len |-> len]]
          /\ pump' = [pump EXCEPT ![x] = "reading"]
     ELSE UNCHANGED <<chan, file, pump>>
  /\ UNCHANGED <<pos, cancelled, up, receiving, missed>>

\* A chunk that cannot be sent ends the pump without an ABORT.
PumpChunk(x) ==
  /\ pump[x] = "reading" /\ pos[x] < file[x].len
  /\ IF up[From(x)]
     THEN /\ Room(From(x)) /\ Put(x, "CHUNK", <<x, pos[x] + 1>>)
          /\ pos' = [pos EXCEPT ![x] = @ + 1]
          /\ UNCHANGED pump
     ELSE /\ pump' = [pump EXCEPT ![x] = "failed"]
          /\ UNCHANGED <<chan, pos>>
  /\ UNCHANGED <<nextID, file, cancelled, up, receiving, missed>>

\* The error of sendFrame(END) is ignored: the sender reports success.
PumpEnd(x) ==
  /\ pump[x] = "reading" /\ pos[x] = file[x].len
  /\ PutIfUp(x, "END")
  /\ pump' = [pump EXCEPT ![x] = "done"]
  /\ UNCHANGED <<nextID, pos, file, cancelled, up, receiving, missed>>

\* Mutant: the pump leaves without a word.
ReadFailsSilently(x) ==
  /\ pump[x] = "reading"
  /\ pump' = [pump EXCEPT ![x] = "failed"]
  /\ UNCHANGED <<nextID, pos, file, cancelled, channel, receiving, missed>>

ReadFails(x) ==
  /\ pump[x] = "reading"
  /\ PutIfUp(x, "ABORT")
  /\ pump' = [pump EXCEPT ![x] = "failed"]
  /\ UNCHANGED <<nextID, pos, file, cancelled, up, receiving, missed>>

\* The pump is not told: it goes on to the end of the file.  (The map sends,
\* which the code empties here, is written and never read.)
CancelSend(x) ==
  /\ pump[x] = "reading" /\ x \notin cancelled
  /\ PutIfUp(x, "ABORT")
  /\ cancelled' = cancelled \union {x}
  /\ UNCHANGED <<nextID, pump, pos, file, up, receiving, missed>>

\* Some of what is under way may still be in the receiver's message queue.
Disconnect(s) ==
  /\ up[s]
  /\ up' = [up EXCEPT ![s] = FALSE]
  /\ \E n \in 0..Len(chan[s]) : chan' = [chan EXCEPT ![s] = SubSeq(@, 1, n)]
  /\ UNCHANGED <<sending, receiving, missed>>

-----------------------------------------------------------------------------
(* Receiving: HandleFrame.                                                 *)

\* The next frame of s is f, and the goroutine of s is free to take it.
Takes(s, f) ==
  /\ saving[s] = NoSave
  /\ chan[s] # <<>> /\ f = Head(chan[s])
  /\ chan' = [chan EXCEPT ![s] = Tail(@)]

HeadOf(s) == IF chan[s] = <<>> THEN {} ELSE {Head(chan[s])}

Reports(x, state, parts) ==
  /\ report' = [report EXCEPT ![x] = state]
  /\ told' = [told EXCEPT ![x] = parts]

onStart(s) ==
  \E f \in HeadOf(s) : LET x == <<s, f.id>> IN
  /\ f.type = "START" /\ Takes(s, f)
  /\ recvs' = recvs \union {x}
  /\ got' = [got EXCEPT ![x] = {}]
  /\ Reports(x, "open", {})
  /\ UNCHANGED <<sending, up, saving, disk, missed>>

\* Mutant: the map is keyed by the transfer alone.
onChunkAnywhere(s) ==
  \E f \in HeadOf(s), r \in Sender : LET x == <<r, f.id>> IN
  /\ f.type = "CHUNK" /\ Takes(s, f)
  /\ x \in recvs
  /\ got' = [got EXCEPT ![x] = @ \union {f.body}]
  /\ UNCHANGED <<sending, up, recvs, saving, disk, report, told, missed>>

\* A chunk of a transfer the map does not have is ignored.
onChunk(s) ==
  \E f \in HeadOf(s) : LET x == <<s, f.id>> IN
  /\ f.type = "CHUNK" /\ Takes(s, f)
  /\ got' = IF x \in recvs THEN [got EXCEPT ![x] = @ \union {f.body}] ELSE got
  /\ UNCHANGED <<sending, up, recvs, saving, disk, report, told, missed>>

\* ensureUniquePath: the plain path if every candidate is taken.
UniquePath(name) ==
  LET free == {i \in 0..MaxCopies - 1 : disk[<<name, i>>] = NoFile}
  IN <<name, IF free = {} THEN 0 ELSE Min(free)>>

\* Mutant: files are written where the manifest says.
PlainPath(name) == <<name, 0>>

\* The path the received file is written to.
SavePath(name) == UniquePath(name)

onEnd(s) ==
  \E f \in HeadOf(s) : LET x == <<s, f.id>> IN
  /\ f.type = "END" /\ Takes(s, f)
  /\ recvs' = recvs \ {x}
  /\ saving' = [saving EXCEPT ![s] =
                  IF x \in recvs THEN <<x, SavePath(file[x].name), got[x]>> ELSE NoSave]
  /\ got' = [got EXCEPT ![x] = {}]
  /\ UNCHANGED <<sending, up, disk, report, told, missed>>

\* os.WriteFile, and the report of it.
WriteFile(s) ==
  LET x == saving[s][1]
      p == saving[s][2]
  IN
  /\ saving[s] # NoSave
  /\ disk' = [disk EXCEPT ![p] = x]
  /\ Reports(x, "saved", saving[s][3])
  /\ saving' = [saving EXCEPT ![s] = NoSave]
  /\ UNCHANGED <<sending, channel, recvs, got, missed>>

\* Mutant: a write that failed is tried again.
WriteRetries(s) ==
  /\ saving[s] # NoSave
  /\ Reports(saving[s][1], "dropped", {})
  /\ UNCHANGED <<sending, channel, recvs, got, saving, disk, missed>>

\* A write that fails may leave a file behind.
WriteFails(s) ==
  /\ saving[s] # NoSave
  /\ disk' \in {disk, [disk EXCEPT ![saving[s][2]] = saving[s][1]]}
  /\ Reports(saving[s][1], "dropped", {})
  /\ saving' = [saving EXCEPT ![s] = NoSave]
  /\ UNCHANGED <<sending, channel, recvs, got, missed>>

\* Mutant: an aborted transfer stays in the map.
onAbortKeeps(s) ==
  \E f \in HeadOf(s) : LET x == <<s, f.id>> IN
  /\ f.type = "ABORT" /\ Takes(s, f)
  /\ IF x \in recvs THEN Reports(x, "dropped", {}) ELSE UNCHANGED <<report, told>>
  /\ UNCHANGED <<sending, up, recvs, got, saving, disk, missed>>

onAbort(s) ==
  \E f \in HeadOf(s) : LET x == <<s, f.id>> IN
  /\ f.type = "ABORT" /\ Takes(s, f)
  /\ recvs' = recvs \ {x}
  /\ IF x \in recvs THEN Reports(x, "dropped", {}) ELSE UNCHANGED <<report, told>>
  /\ got' = [got EXCEPT ![x] = {}]
  /\ UNCHANGED <<sending, up, saving, disk, missed>>

\* OnMessage gives up on a frame the consumer has no room for.
DropFrame(s) ==
  \E f \in HeadOf(s) :
  /\ Cardinality(UNION {{x} \X missed[x] : x \in Xfer}) < MaxDrops
  /\ chan' = [chan EXCEPT ![s] = Tail(@)]
  /\ missed' = [missed EXCEPT ![<<s, f.id>>] =
                  @ \union {IF f.type = "CHUNK" THEN f.body[2] ELSE 0}]
  /\ UNCHANGED <<sending, up, receiving>>

-----------------------------------------------------------------------------
HandleFrame(s) ==
  onStart(s) \/ onChunk(s) \/ onEnd(s) \/ WriteFile(s) \/ WriteFails(s) \/ onAbort(s)

Next ==
  \/ \E s \in Sender :
       \/ \E name \in Name, len \in Length : SendFile(s, name, len)
       \/ HandleFrame(s) \/ DropFrame(s) \/ Disconnect(s)
  \/ \E x \in Xfer : PumpChunk(x) \/ PumpEnd(x) \/ ReadFails(x) \/ CancelSend(x)

Spec == Init /\ [][Next]_vars

\* Pumps and message goroutines run; nobody sends, cancels or disconnects.
FairSpec ==
  /\ Spec
  /\ \A x \in Xfer : WF_vars(PumpChunk(x) \/ PumpEnd(x))
  /\ \A s \in Sender : WF_vars(HandleFrame(s))

-----------------------------------------------------------------------------
TypeOK ==
  /\ nextID \in [Sender -> Nat]
  /\ pump \in [Xfer -> {"none", "reading", "done", "failed"}]
  /\ pos \in [Xfer -> 0..MaxChunks]
  /\ file \in [Xfer -> [name : Name \union {NoName}, len : 0..MaxChunks]]
  /\ chan \in [Sender -> Seq(Frame)]
  /\ up \in [Sender -> BOOLEAN]
  /\ recvs \subseteq Xfer
  /\ got \in [Xfer -> SUBSET Body]
  /\ saving \in [Sender -> (Xfer \X Path \X SUBSET Body) \union {NoSave}]
  /\ disk \in [Path -> Xfer \union {OldFile, NoFile}]
  /\ report \in [Xfer -> {"none", "open", "saved", "dropped"}]
  /\ told \in [Xfer -> SUBSET Body]
  /\ cancelled \subseteq Xfer
  /\ missed \in [Xfer -> SUBSET (0..MaxChunks)]

\* A file that is reported saved holds every chunk of the file that was sent,
\* and of no other, except the chunks the connection dropped: END is accepted
\* without comparing sizes, so this rests on the order of the channel, the key
\* of the map and the pump (transfer.go:179-211, 255-283).
SavedWhole ==
  \A x \in Xfer : report[x] = "saved" =>
    told[x] = {<<x, i>> : i \in (1..file[x].len) \ missed[x]}

\* The invariant of the engines: the types, and what SavedWhole says of every
\* file HandleFrame writes at END (transfer.go:283-300).
TransferInv == TypeOK /\ SavedWhole

\* A file that was there before the engines, or that was saved from the same
\* peer, is not replaced, unless every candidate name was taken; one saved from
\* another peer is, if the two met between the look of ensureUniquePath and the
\* os.WriteFile after it (transfer.go:268-270, 374-389).
ReplacedByOthersOnly ==
  [][\A p \in Path : disk[p] # NoFile /\ disk'[p] # disk[p] =>
       \/ disk[p] # OldFile /\ From(disk'[p]) # From(disk[p])
       \/ \A i \in 0..MaxCopies - 1 : disk[<<p[1], i>>] # NoFile]_vars

\* The pump of a cancelled transfer goes on to its END, but the receiver does
\* not save the file, unless the ABORT itself was dropped (CancelSend: "tells
\* the receiver to discard a transfer in-flight", transfer.go:317).
CancelledIsNotSaved ==
  \A x \in cancelled : report[x] = "saved" => 0 \in missed[x]

\* A file that is offered is saved or dropped in the end, unless the peers are
\* disconnected or the END or ABORT was dropped: then the receiver keeps the
\* half file for ever (transfer.go:194-202, 290-301).
EveryOfferResolves ==
  \A x \in Xfer :
    report[x] = "open" ~>
      report[x] \in {"saved", "dropped"} \/ ~up[From(x)] \/ 0 \in missed[x]

\* The receiver keeps the promise of Delivery.
Promise == INSTANCE Delivery WITH Part <- Chunk, fate <- report, copy <- told

\* Every offered file is reported saved or dropped at most once, with the parts
\* that were sent and not missed (ProgressEvent, transfer.go:68-82).
Delivers == Promise!Spec
=============================================================================
