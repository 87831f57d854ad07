--------------------------- MODULE TransferProofs ---------------------------
(***************************************************************************)
(* That the receiver keeps the promise of Delivery, for any number of      *)
(* senders, files and chunks.  The argument: the frames of a transfer      *)
(* leave in order (START, each chunk once, END last) and the channel keeps *)
(* it; so when END is taken every chunk that was sent has been put in the  *)
(* buffer or was dropped on the way, and nothing of the transfer is under  *)
(* way any more.  A file replaces another only if its path was free when   *)
(* it was chosen, or no name was.  And a transfer that was cancelled has   *)
(* an ABORT before any END, or no entry that an END could save.            *)
(***************************************************************************)
EXTENDS Transfer, SequenceTheorems, WellFoundedInduction, NaturalsInduction, TLAPS

\* The frames under way from s, by their place in the channel.
At(s) == 1..Len(chan[s])

\* The transfer of the k-th of them.
Of(s, k) == <<s, chan[s][k].id>>

Under(x) == \E k \in At(From(x)) : Of(From(x), k) = x
UnderAs(x, type) == \E k \in At(From(x)) : Of(From(x), k) = x /\ chan[From(x)][k].type = type
Flying(x, i) == \E k \in At(From(x)) : chan[From(x)][k].type = "CHUNK" /\ chan[From(x)][k].body = <<x, i>>

\* The chunks of x that are not known to be lost, up to the n-th.
Sent(x, n) == {<<x, i>> : i \in (1..n) \ missed[x]}

FrameOK(s, k) ==
  LET f == chan[s][k]
      x == <<s, f.id>>
  IN
  /\ x \in Xfer /\ pump[x] # "none"
  /\ f.type = "START" => /\ report[x] = "none" /\ x \notin recvs
                         /\ \A l \in 1..k - 1 : chan[s][l].id # f.id
  /\ f.type = "CHUNK" =>
       /\ \E i \in 1..pos[x] : f.body = <<x, i>> /\ i \notin missed[x]
       /\ f.body \notin got[x]
       /\ \A l \in At(s) : chan[s][l].type = "CHUNK" /\ chan[s][l].body = f.body => l = k
  /\ f.type = "END" => /\ pump[x] = "done"
                       /\ \A l \in k + 1..Len(chan[s]) : chan[s][l].id # f.id

Frames == \A s \in Sender : \A k \in At(s) : FrameOK(s, k)

Pumps ==
  \A x \in Xfer :
    /\ x[2] > nextID[From(x)] => pump[x] = "none"
    /\ pump[x] = "none" => pos[x] = 0 /\ report[x] = "none" /\ x \notin recvs
    /\ pump[x] # "none" => file[x].name \in Name
    /\ pos[x] <= file[x].len /\ missed[x] \subseteq 0..pos[x]
    /\ pump[x] = "done" => pos[x] = file[x].len

Buffers ==
  \A x \in Xfer :
    /\ got[x] \subseteq Sent(x, pos[x])
    /\ x \in recvs => report[x] = "open"
    /\ x \notin recvs => got[x] = {}
    /\ report[x] # "saved" => told[x] = {}

\* What has been sent is in the buffer, was dropped, or is under way, while
\* the END that would find it there can come.
Complete ==
  \A x \in Xfer :
    /\ x \in recvs \/ UnderAs(x, "START")
    /\ up[From(x)] \/ UnderAs(x, "END")
    => \A i \in 1..pos[x] : i \in missed[x] \/ <<x, i>> \in got[x] \/ Flying(x, i)

\* The pump of x is through, and B is the whole of what it has sent.
Whole(x, B) == pump[x] = "done" /\ ~Under(x) /\ B = Sent(x, file[x].len)

Saving ==
  \A s \in Sender : saving[s] # NoSave =>
    LET x == saving[s][1] IN
      From(x) = s /\ x \notin recvs /\ report[x] = "open" /\ Whole(x, saving[s][3])

Saved == \A x \in Xfer : report[x] = "saved" => Whole(x, told[x])

IInv == TypeOK /\ Frames /\ Pumps /\ Buffers /\ Complete /\ Saving /\ Saved

-----------------------------------------------------------------------------
(* Lemmas about transfers, frames and paths.                               *)

LEMMA XferPair ==
  ASSUME NEW x \in Xfer
  PROVE  From(x) \in Sender /\ x[2] \in Nat /\ x[2] # 0 /\ x = <<From(x), x[2]>>
BY TransferAssumption DEF From

LEMMA PairXfer ==
  ASSUME NEW s, NEW n
  PROVE  From(<<s, n>>) = s /\ <<s, n>>[2] = n
BY DEF From

\* A handler that is about to write a file.
LEMMA SavingTuple ==
  ASSUME TypeOK, NEW s \in Sender, saving[s] # NoSave
  PROVE  saving[s][1] \in Xfer /\ saving[s][2] \in Path /\ saving[s][3] \subseteq Body
<1>1. saving[s] \in Xfer \X Path \X SUBSET Body
  BY DEF TypeOK
<1> QED
  BY <1>1

LEMMA FrameFields ==
  ASSUME NEW type \in {"START", "CHUNK", "END", "ABORT"}, NEW n \in Nat,
         NEW body \in Body \union {<<>>}
  PROVE  [type |-> type, id |-> n, body |-> body] \in Frame
BY DEF Frame

LEMMA FrameAt ==
  ASSUME TypeOK, NEW s \in Sender, NEW k \in At(s)
  PROVE  /\ Len(chan[s]) \in Nat /\ k \in Nat /\ chan[s][k] \in Frame
         /\ chan[s][k].id \in Nat
<1>1. chan[s] \in Seq(Frame)
  BY DEF TypeOK
<1>2. Len(chan[s]) \in Nat /\ k \in Nat /\ chan[s][k] \in Frame
  BY <1>1 DEF At
<1> QED
  BY <1>2 DEF Frame

\* One frame more at the end of a channel.
LEMMA PutAt ==
  ASSUME TypeOK, NEW x \in Xfer, NEW type \in {"START", "CHUNK", "END", "ABORT"},
         NEW body \in Body \union {<<>>}, Put(x, type, body)
  PROVE  /\ chan' \in [Sender -> Seq(Frame)]
         /\ Len(chan[From(x)]) \in Nat
         /\ Len(chan'[From(x)]) = Len(chan[From(x)]) + 1
         /\ \A k \in 1..Len(chan[From(x)]) : chan'[From(x)][k] = chan[From(x)][k]
         /\ chan'[From(x)][Len(chan[From(x)]) + 1] = [type |-> type, id |-> x[2], body |-> body]
         /\ \A r \in Sender : r # From(x) => chan'[r] = chan[r]
<1>1. From(x) \in Sender /\ [type |-> type, id |-> x[2], body |-> body] \in Frame
  BY XferPair, FrameFields
<1>2. chan[From(x)] \in Seq(Frame) /\ chan \in [Sender -> Seq(Frame)]
  BY <1>1 DEF TypeOK
<1>3. chan'[From(x)] = Append(chan[From(x)], [type |-> type, id |-> x[2], body |-> body])
  BY <1>1, <1>2 DEF Put
<1>4. \A r \in Sender : r # From(x) => chan'[r] = chan[r]
  BY <1>2 DEF Put
<1>5. chan' \in [Sender -> Seq(Frame)]
  BY <1>1, <1>2 DEF Put
<1> QED
  BY <1>1, <1>2, <1>3, <1>4, <1>5

\* The first frame of a channel is taken.
LEMMA TakeAt ==
  ASSUME TypeOK, NEW s \in Sender, chan[s] # <<>>, chan' = [chan EXCEPT ![s] = Tail(@)]
  PROVE  /\ chan' \in [Sender -> Seq(Frame)]
         /\ Len(chan[s]) \in Nat /\ Len(chan[s]) >= 1 /\ 1 \in At(s)
         /\ Head(chan[s]) = chan[s][1]
         /\ Len(chan'[s]) = Len(chan[s]) - 1
         /\ \A k \in 1..Len(chan[s]) - 1 : chan'[s][k] = chan[s][k + 1]
         /\ \A r \in Sender : r # s => chan'[r] = chan[r]
<1>1. chan[s] \in Seq(Frame) /\ chan'[s] = Tail(chan[s])
  BY DEF TypeOK
<1>2. Tail(chan[s]) \in Seq(Frame) /\ chan' \in [Sender -> Seq(Frame)]
  BY <1>1 DEF TypeOK
<1>3. \A r \in Sender : r # s => chan'[r] = chan[r]
  BY DEF TypeOK
<1> QED
  BY <1>1, <1>2, <1>3 DEF At

\* Only the first frames of a channel are left.
LEMMA CutAt ==
  ASSUME TypeOK, NEW s \in Sender, NEW n \in 0..Len(chan[s]),
         chan' = [chan EXCEPT ![s] = SubSeq(@, 1, n)]
  PROVE  /\ chan' \in [Sender -> Seq(Frame)]
         /\ Len(chan[s]) \in Nat /\ Len(chan'[s]) = n
         /\ \A k \in 1..n : chan'[s][k] = chan[s][k]
         /\ \A r \in Sender : r # s => chan'[r] = chan[r]
<1>1. chan[s] \in Seq(Frame) /\ chan'[s] = SubSeq(chan[s], 1, n)
  BY DEF TypeOK
<1>2. SubSeq(chan[s], 1, n) \in Seq(Frame) /\ chan' \in [Sender -> Seq(Frame)]
  BY <1>1 DEF TypeOK
<1>3. \A r \in Sender : r # s => chan'[r] = chan[r]
  BY DEF TypeOK
<1> QED
  BY <1>1, <1>2, <1>3

\* The path ensureUniquePath finds is free, unless every candidate is taken.
LEMMA PathOf ==
  ASSUME NEW name \in Name
  PROVE  /\ SavePath(name) \in Path
         /\ \/ disk[SavePath(name)] = NoFile
            \/ \A i \in 0..MaxCopies - 1 : disk[<<SavePath(name)[1], i>>] # NoFile
<1> DEFINE free == {i \in 0..MaxCopies - 1 : disk[<<name, i>>] = NoFile}
<1>1. CASE free = {}
  <2>1. SavePath(name) = <<name, 0>> /\ <<name, 0>>[1] = name
    BY <1>1 DEF SavePath, UniquePath
  <2> QED
    BY <2>1, <1>1, TransferAssumption DEF Path
<1>2. CASE free # {}
  <2> free \subseteq Nat
    BY TransferAssumption
  <2>1. PICK m \in free : \A y \in free : <<y, m>> \notin OpToRel(<, Nat)
    BY <1>2, NatLessThanWellFounded, WFMin, Zenon
  <2>2. ASSUME NEW y \in free PROVE m <= y
    <3>1. y \in Nat /\ m \in Nat
      OBVIOUS
    <3>2. <<y, m>> \notin {ss \in Nat \X Nat : ss[1] < ss[2]}
      BY <2>1 DEF OpToRel
    <3>3. ~(y < m)
      BY <3>1, <3>2
    <3> QED
      BY <3>1, <3>3
  <2>3. Min(free) \in free
    BY <2>2, Zenon DEF Min
  <2>4. SavePath(name) = <<name, Min(free)>>
    BY <1>2 DEF SavePath, UniquePath
  <2> QED
    BY <2>3, <2>4 DEF Path
<1> QED
  BY <1>1, <1>2

-----------------------------------------------------------------------------
(* What is under way after a change of a channel.                          *)

LEMMA AfterPut ==
  ASSUME TypeOK, NEW x \in Xfer, NEW type \in {"START", "CHUNK", "END", "ABORT"},
         NEW body \in Body \union {<<>>}, Put(x, type, body)
  PROVE  \A y \in Xfer :
           /\ Under(y)' => Under(y) \/ y = x
           /\ \A t \in {"START", "END"} : UnderAs(y, t)' => UnderAs(y, t) \/ (y = x /\ t = type)
           /\ \A i \in Chunk : Flying(y, i) => Flying(y, i)'
           /\ \A i \in Chunk : type = "CHUNK" /\ body = <<x, i>> => Flying(x, i)'
<1> DEFINE s == From(x)
           n == Len(chan[s])
<1>1. /\ s \in Sender /\ x = <<s, x[2]>> /\ n \in Nat
      /\ Len(chan'[s]) = n + 1
      /\ \A k \in 1..n : chan'[s][k] = chan[s][k]
      /\ chan'[s][n + 1] = [type |-> type, id |-> x[2], body |-> body]
      /\ \A r \in Sender : r # s => chan'[r] = chan[r]
  BY PutAt, XferPair
<1>2. At(s)' = At(s) \union {n + 1} /\ \A r \in Sender : r # s => At(r)' = At(r)
  BY <1>1 DEF At
<1>3. ASSUME NEW y \in Xfer PROVE From(y) \in Sender
  BY XferPair
<1>4. ASSUME NEW y \in Xfer, Under(y)', y # x PROVE Under(y)
  <2>1. CASE From(y) = s
    <3>1. PICK k \in At(s)' : <<s, chan'[s][k].id>> = y
      BY <2>1, <1>4 DEF Under, Of
    <3>2. k # n + 1
      BY <3>1, <1>1, <1>4
    <3> QED
      BY <3>1, <3>2, <2>1, <1>1, <1>2 DEF Under, Of, At
  <2>2. CASE From(y) # s
    BY <2>2, <1>1, <1>2, <1>3, <1>4 DEF Under, Of
  <2> QED
    BY <2>1, <2>2
<1>5. ASSUME NEW y \in Xfer, NEW t \in {"START", "END"}
      PROVE  UnderAs(y, t)' => UnderAs(y, t) \/ (y = x /\ t = type)
  <2> SUFFICES ASSUME UnderAs(y, t)', y # x \/ t # type PROVE UnderAs(y, t)
    OBVIOUS
  <2>1. CASE From(y) = s
    <3>1. PICK k \in At(s)' : <<s, chan'[s][k].id>> = y /\ chan'[s][k].type = t
      BY <2>1 DEF UnderAs, Of
    <3>2. k # n + 1
      BY <3>1, <1>1
    <3> QED
      BY <3>1, <3>2, <2>1, <1>1, <1>2 DEF UnderAs, Of, At
  <2>2. CASE From(y) # s
    BY <2>2, <1>1, <1>2, <1>3 DEF UnderAs, Of
  <2> QED
    BY <2>1, <2>2
<1>6. ASSUME NEW y \in Xfer, NEW i \in Chunk PROVE Flying(y, i) => Flying(y, i)'
  BY <1>1, <1>2, <1>3 DEF Flying, At
<1>7. ASSUME NEW i \in Chunk, type = "CHUNK", body = <<x, i>> PROVE Flying(x, i)'
  BY <1>1, <1>2, <1>7 DEF Flying
<1>8. ASSUME NEW y \in Xfer
      PROVE  /\ Under(y)' => Under(y) \/ y = x
             /\ \A t \in {"START", "END"} : UnderAs(y, t)' => UnderAs(y, t) \/ (y = x /\ t = type)
             /\ \A i \in Chunk : Flying(y, i) => Flying(y, i)'
             /\ \A i \in Chunk : type = "CHUNK" /\ body = <<x, i>> => Flying(x, i)'
  <2>1. Under(y)' => Under(y) \/ y = x
    BY <1>4
  <2>2. \A t \in {"START", "END"} : UnderAs(y, t)' => UnderAs(y, t) \/ (y = x /\ t = type)
    BY <1>5
  <2>3. \A i \in Chunk : Flying(y, i) => Flying(y, i)'
    BY <1>6
  <2>4. \A i \in Chunk : type = "CHUNK" /\ body = <<x, i>> => Flying(x, i)'
    BY <1>7
  <2> QED
    BY <2>1, <2>2, <2>3, <2>4
<1> QED
  BY <1>8

LEMMA AfterTake ==
  ASSUME TypeOK, Frames, NEW s \in Sender, NEW f, NEW x,
         chan[s] # <<>>, f = Head(chan[s]), x = <<s, f.id>>,
         chan' = [chan EXCEPT ![s] = Tail(@)]
  PROVE  /\ x \in Xfer /\ Under(x) /\ UnderAs(x, f.type)
         /\ FrameOK(s, 1) /\ f = chan[s][1] /\ f \in Frame
         /\ ~UnderAs(x, "START")'
         /\ f.type = "END" => ~Under(x)' /\ \A i \in Chunk : ~Flying(x, i)
         /\ \A y \in Xfer :
              /\ Under(y)' => Under(y)
              /\ \A t \in {"START", "END"} : UnderAs(y, t)' => UnderAs(y, t)
              /\ \A i \in Chunk : Flying(y, i) =>
                   Flying(y, i)' \/ (f.type = "CHUNK" /\ f.body = <<y, i>>)
<1> DEFINE n == Len(chan[s])
<1>1. /\ n \in Nat /\ n >= 1 /\ 1 \in At(s) /\ f = chan[s][1]
      /\ Len(chan'[s]) = n - 1
      /\ \A k \in 1..n - 1 : chan'[s][k] = chan[s][k + 1]
      /\ \A r \in Sender : r # s => chan'[r] = chan[r]
  BY TakeAt
<1>2. At(s) = 1..n /\ At(s)' = 1..n - 1 /\ \A r \in Sender : r # s => At(r)' = At(r)
  BY <1>1 DEF At
<1>3. FrameOK(s, 1) /\ x \in Xfer /\ f \in Frame
  BY <1>1, FrameAt DEF Frames, FrameOK
<1>4. From(x) = s /\ x[2] = f.id
  BY PairXfer
<1>5. Under(x) /\ UnderAs(x, f.type)
  BY <1>1, <1>4 DEF Under, UnderAs, Of
<1>6. ASSUME UnderAs(x, "START")' PROVE FALSE
  <2>1. PICK k \in 1..n - 1 : chan[s][k + 1].id = f.id /\ chan[s][k + 1].type = "START"
    <3>1. PICK k \in At(s)' : <<s, chan'[s][k].id>> = x /\ chan'[s][k].type = "START"
      BY <1>4, <1>6 DEF UnderAs, Of
    <3> QED
      BY <3>1, <1>1, <1>2
  <2>2. k + 1 \in At(s) /\ 1 \in 1..(k + 1) - 1
    BY <1>1, <1>2
  <2>3. FrameOK(s, k + 1)
    BY <2>2 DEF Frames
  <2> QED
    BY <2>1, <2>2, <2>3, <1>1 DEF FrameOK
<1>7. ASSUME f.type = "END" PROVE ~Under(x)' /\ \A i \in Chunk : ~Flying(x, i)
  <2>1. \A l \in 2..n : chan[s][l].id # f.id
    BY <1>1, <1>3, <1>7 DEF FrameOK
  <2>2. ASSUME Under(x)' PROVE FALSE
    <3>1. PICK k \in At(s)' : <<s, chan'[s][k].id>> = x
      BY <1>4, <2>2 DEF Under, Of
    <3>2. k + 1 \in 2..n /\ chan[s][k + 1].id = f.id
      BY <3>1, <1>1, <1>2
    <3> QED
      BY <3>2, <2>1
  <2>3. ASSUME NEW i \in Chunk, Flying(x, i) PROVE FALSE
    <3>1. PICK k \in At(s) : chan[s][k].type = "CHUNK" /\ chan[s][k].body = <<x, i>>
      BY <2>3, <1>4 DEF Flying
    <3>2. FrameOK(s, k)
      BY <3>1 DEF Frames
    <3>3. PICK j \in 1..pos[<<s, chan[s][k].id>>] : chan[s][k].body = <<<<s, chan[s][k].id>>, j>>
      BY <3>1, <3>2 DEF FrameOK
    <3>4. chan[s][k].id = f.id
      BY <3>1, <3>3
    <3> QED
      BY <3>1, <3>4, <2>1, <1>1, <1>2, <1>7
  <2> QED
    BY <2>2, <2>3
<1>8. ASSUME NEW y \in Xfer, Under(y)' PROVE Under(y)
  <2>1. CASE From(y) = s
    <3>1. PICK k \in At(s)' : <<s, chan'[s][k].id>> = y
      BY <2>1, <1>8 DEF Under, Of
    <3>2. k + 1 \in At(s) /\ <<s, chan[s][k + 1].id>> = y
      BY <3>1, <1>1, <1>2
    <3> QED
      BY <3>2, <2>1 DEF Under, Of
  <2>2. CASE From(y) # s
    BY <2>2, <1>1, <1>2, <1>8, XferPair DEF Under, Of
  <2> QED
    BY <2>1, <2>2
<1>9. ASSUME NEW y \in Xfer, NEW t \in {"START", "END"}, UnderAs(y, t)' PROVE UnderAs(y, t)
  <2>1. CASE From(y) = s
    <3>1. PICK k \in At(s)' : <<s, chan'[s][k].id>> = y /\ chan'[s][k].type = t
      BY <2>1, <1>9 DEF UnderAs, Of
    <3>2. k + 1 \in At(s) /\ <<s, chan[s][k + 1].id>> = y /\ chan[s][k + 1].type = t
      BY <3>1, <1>1, <1>2
    <3> QED
      BY <3>2, <2>1 DEF UnderAs, Of
  <2>2. CASE From(y) # s
    BY <2>2, <1>1, <1>2, <1>9, XferPair DEF UnderAs, Of
  <2> QED
    BY <2>1, <2>2
<1>10. ASSUME NEW y \in Xfer, NEW i \in Chunk
       PROVE  Flying(y, i) => Flying(y, i)' \/ (f.type = "CHUNK" /\ f.body = <<y, i>>)
  <2> SUFFICES ASSUME Flying(y, i), f.type # "CHUNK" \/ f.body # <<y, i>> PROVE Flying(y, i)'
    OBVIOUS
  <2>1. CASE From(y) = s
    <3>1. PICK k \in At(s) : chan[s][k].type = "CHUNK" /\ chan[s][k].body = <<y, i>>
      BY <2>1 DEF Flying
    <3>2. k # 1 /\ k - 1 \in 1..n - 1 /\ (k - 1) + 1 = k
      <4>1. k # 1
        BY <3>1, <1>1
      <4> QED
        BY <4>1, <3>1, <1>1, <1>2
    <3>3. k - 1 \in At(s)' /\ chan'[s][k - 1] = chan[s][k]
      BY <3>2, <1>1, <1>2
    <3> QED
      BY <3>1, <3>3, <2>1 DEF Flying
  <2>2. CASE From(y) # s
    BY <2>2, <1>1, <1>2, XferPair DEF Flying
  <2> QED
    BY <2>1, <2>2
<1>11. ASSUME NEW y \in Xfer
       PROVE  /\ Under(y)' => Under(y)
              /\ \A t \in {"START", "END"} : UnderAs(y, t)' => UnderAs(y, t)
              /\ \A i \in Chunk : Flying(y, i) =>
                   Flying(y, i)' \/ (f.type = "CHUNK" /\ f.body = <<y, i>>)
  <2>1. ASSUME NEW t \in {"START", "END"} PROVE UnderAs(y, t)' => UnderAs(y, t)
    BY <1>9, Zenon
  <2>2. ASSUME NEW i \in Chunk
        PROVE  Flying(y, i) => Flying(y, i)' \/ (f.type = "CHUNK" /\ f.body = <<y, i>>)
    BY <1>10
  <2>3. Under(y)' => Under(y)
    BY <1>8, Zenon
  <2> QED
    BY <2>1, <2>2, <2>3
<1>12. /\ x \in Xfer /\ Under(x) /\ UnderAs(x, f.type)
       /\ FrameOK(s, 1) /\ f = chan[s][1] /\ f \in Frame
       /\ ~UnderAs(x, "START")'
       /\ f.type = "END" => ~Under(x)' /\ \A i \in Chunk : ~Flying(x, i)
  BY <1>1, <1>3, <1>5, <1>6, <1>7
<1> QED
  BY <1>11, <1>12

LEMMA AfterCut ==
  ASSUME TypeOK, Frames, NEW s \in Sender, NEW n \in 0..Len(chan[s]),
         chan' = [chan EXCEPT ![s] = SubSeq(@, 1, n)]
  PROVE  \A y \in Xfer :
           /\ Under(y)' => Under(y)
           /\ \A t \in {"START", "END"} : UnderAs(y, t)' => UnderAs(y, t)
           /\ UnderAs(y, "END")' \/ From(y) # s =>
                \A i \in Chunk : Flying(y, i) => Flying(y, i)'
<1>1. /\ Len(chan[s]) \in Nat /\ Len(chan'[s]) = n
      /\ \A k \in 1..n : chan'[s][k] = chan[s][k]
      /\ \A r \in Sender : r # s => chan'[r] = chan[r]
  BY CutAt
<1>2. /\ At(s) = 1..Len(chan[s]) /\ At(s)' = 1..n /\ At(s)' \subseteq At(s)
      /\ \A r \in Sender : r # s => At(r)' = At(r)
  BY <1>1 DEF At
<1>3. ASSUME NEW y \in Xfer PROVE Under(y)' => Under(y)
  <2>1. CASE From(y) = s
    BY <2>1, <1>1, <1>2 DEF Under, Of
  <2>2. CASE From(y) # s
    BY <2>2, <1>1, <1>2, XferPair DEF Under, Of
  <2> QED
    BY <2>1, <2>2
<1>4. ASSUME NEW y \in Xfer, NEW t \in {"START", "END"} PROVE UnderAs(y, t)' => UnderAs(y, t)
  <2>1. CASE From(y) = s
    BY <2>1, <1>1, <1>2 DEF UnderAs, Of
  <2>2. CASE From(y) # s
    BY <2>2, <1>1, <1>2, XferPair DEF UnderAs, Of
  <2> QED
    BY <2>1, <2>2
<1>5. ASSUME NEW y \in Xfer, From(y) # s, NEW i \in Chunk, Flying(y, i) PROVE Flying(y, i)'
  BY <1>1, <1>2, <1>5, XferPair DEF Flying
<1>6. ASSUME NEW y \in Xfer, From(y) = s, UnderAs(y, "END")', NEW i \in Chunk, Flying(y, i)
      PROVE  Flying(y, i)'
  <2>1. PICK e \in 1..n : <<s, chan[s][e].id>> = y /\ chan[s][e].type = "END"
    BY <1>1, <1>2, <1>6 DEF UnderAs, Of
  <2>2. PICK k \in At(s) : chan[s][k].type = "CHUNK" /\ chan[s][k].body = <<y, i>>
    BY <1>6 DEF Flying
  <2>3. FrameOK(s, e) /\ FrameOK(s, k)
    BY <2>1, <2>2, <1>2 DEF Frames
  <2>4. PICK j \in 1..pos[<<s, chan[s][k].id>>] : chan[s][k].body = <<<<s, chan[s][k].id>>, j>>
    BY <2>2, <2>3 DEF FrameOK
  <2>5. chan[s][k].id = chan[s][e].id
    BY <2>1, <2>2, <2>4
  <2>6. k \notin e + 1..Len(chan[s])
    BY <2>1, <2>3, <2>5 DEF FrameOK
  <2>7. k \in 1..n
    BY <2>1, <2>2, <2>6, <1>1, <1>2
  <2> QED
    BY <2>2, <2>7, <1>1, <1>2, <1>6 DEF Flying
<1> QED
  BY <1>3, <1>4, <1>5, <1>6

-----------------------------------------------------------------------------
(* The frames of a channel stay in order.                                  *)

\* The pumps only go on, and the receiver does nothing.
Onward ==
  /\ UNCHANGED <<receiving, missed>>
  /\ \A y \in Xfer :
       /\ pump[y] # "none" => pump'[y] # "none"
       /\ pump[y] = "done" => pump'[y] = "done"
       /\ pos'[y] \in Nat /\ pos[y] <= pos'[y]

LEMMA OnwardFrames ==
  ASSUME IInv, Onward, NEW s \in Sender, chan'[s] = chan[s]
  PROVE  \A k \in At(s)' : FrameOK(s, k)'
<1> SUFFICES ASSUME NEW k \in At(s) PROVE FrameOK(s, k)'
  BY DEF At
<1> DEFINE f == chan[s][k]
           y == <<s, f.id>>
<1>1. FrameOK(s, k) /\ y \in Xfer
  BY DEF IInv, Frames, FrameOK
<1>2. pump'[y] # "none" /\ (pump[y] = "done" => pump'[y] = "done")
  BY <1>1 DEF Onward, FrameOK
<1>3. f.type = "CHUNK" => \E i \in 1..pos'[y] : f.body = <<y, i>> /\ i \notin missed[y]
  <2>1. pos[y] \in Nat /\ pos'[y] \in Nat /\ pos[y] <= pos'[y]
    BY <1>1 DEF IInv, TypeOK, Onward
  <2> QED
    BY <1>1, <2>1 DEF FrameOK
<1>4. UNCHANGED <<report, recvs, got, missed>>
  BY DEF Onward, receiving
<1> QED
  BY <1>1, <1>2, <1>3, <1>4 DEF FrameOK, At

LEMMA PutFrames ==
  ASSUME IInv, Onward,
         NEW x \in Xfer, NEW type \in {"START", "CHUNK", "END", "ABORT"},
         NEW body \in Body \union {<<>>}, Put(x, type, body),
         pump'[x] # "none", pump[x] # "done",
         type = "START" => pump[x] = "none",
         type = "CHUNK" => body = <<x, pos[x] + 1>> /\ pos'[x] = pos[x] + 1,
         type = "END" => pump'[x] = "done"
  PROVE  Frames'
<1> DEFINE s == From(x)
           n == Len(chan[s])
           g == [type |-> type, id |-> x[2], body |-> body]
<1>1. /\ s \in Sender /\ x = <<s, x[2]>> /\ n \in Nat
      /\ Len(chan'[s]) = n + 1
      /\ \A k \in 1..n : chan'[s][k] = chan[s][k]
      /\ chan'[s][n + 1] = g
      /\ \A r \in Sender : r # s => chan'[r] = chan[r]
  BY PutAt, XferPair DEF IInv
<1>2. At(s) = 1..n /\ At(s)' = 1..n + 1
  BY <1>1 DEF At
<1>3. UNCHANGED <<report, recvs, got, missed>>
  BY DEF Onward, receiving
<1>4. ASSUME NEW r \in Sender, r # s, NEW k \in At(r)' PROVE FrameOK(r, k)'
  BY <1>1, <1>4, OnwardFrames
<1>5. ASSUME NEW k \in 1..n PROVE FrameOK(s, k)'
  <2> DEFINE f == chan[s][k]
             y == <<s, f.id>>
  <2>1. FrameOK(s, k) /\ y \in Xfer /\ chan'[s][k] = f
    BY <1>1, <1>2 DEF IInv, Frames, FrameOK
  <2>2. pump'[y] # "none" /\ (pump[y] = "done" => pump'[y] = "done")
    BY <2>1 DEF Onward, FrameOK
  <2>3. pos[y] \in Nat /\ pos'[y] \in Nat /\ pos[y] <= pos'[y]
    BY <2>1 DEF IInv, TypeOK, Onward
  <2>4. f.type = "START" => /\ report[y] = "none" /\ y \notin recvs
                            /\ \A l \in 1..k - 1 : chan'[s][l].id # f.id
    BY <2>1, <1>1 DEF FrameOK
  <2>5. ASSUME f.type = "CHUNK"
        PROVE  /\ \E i \in 1..pos'[y] : f.body = <<y, i>> /\ i \notin missed[y]
               /\ f.body \notin got[y]
               /\ \A l \in 1..n + 1 : chan'[s][l].type = "CHUNK" /\ chan'[s][l].body = f.body => l = k
    <3>1. PICK i \in 1..pos[y] : f.body = <<y, i>> /\ i \notin missed[y]
      BY <2>1, <2>5 DEF FrameOK
    <3>2. ~(type = "CHUNK" /\ body = f.body)
      BY <3>1, <2>3
    <3>3. ASSUME NEW l \in 1..n + 1, chan'[s][l].type = "CHUNK", chan'[s][l].body = f.body
          PROVE  l = k
      <4>1. l # n + 1
        BY <3>2, <3>3, <1>1
      <4>2. l \in At(s) /\ chan[s][l].type = "CHUNK" /\ chan[s][l].body = f.body
        BY <4>1, <3>3, <1>1, <1>2
      <4> QED
        BY <4>2, <2>1, <2>5 DEF FrameOK
    <3>4. i \in 1..pos'[y]
      BY <2>3
    <3> QED
      BY <3>1, <3>3, <3>4, <2>1, <2>5 DEF FrameOK
  <2>6. f.type = "END" => /\ pump'[y] = "done"
                          /\ \A l \in k + 1..n + 1 : chan'[s][l].id # f.id
    <3> SUFFICES ASSUME f.type = "END" PROVE pump'[y] = "done" /\ \A l \in k + 1..n + 1 : chan'[s][l].id # f.id
      OBVIOUS
    <3>1. pump[y] = "done" /\ \A l \in k + 1..n : chan[s][l].id # f.id
      BY <2>1 DEF FrameOK
    <3>2. x[2] # f.id
      BY <3>1, <1>1
    <3>3. ASSUME NEW l \in k + 1..n + 1 PROVE chan'[s][l].id # f.id
      <4>1. CASE l = n + 1
        BY <4>1, <3>2, <1>1
      <4>2. CASE l \in k + 1..n
        <5>1. l \in 1..n /\ chan[s][l].id # f.id
          BY <4>2, <3>1, <1>1
        <5> QED
          BY <5>1, <1>1
      <4> QED
        BY <4>1, <4>2, <1>1
    <3> QED
      BY <3>1, <3>3, <2>2
  <2> QED
    BY <2>1, <2>2, <2>4, <2>5, <2>6, <1>1, <1>2, <1>3 DEF FrameOK
<1>6. ASSUME NEW k, k = n + 1 PROVE FrameOK(s, k)'
  <2>1. ASSUME NEW j \in 1..n, chan[s][j].id = x[2] PROVE pump[x] # "none"
    BY <2>1, <1>1, <1>2 DEF IInv, Frames, FrameOK
  <2>2. ASSUME type = "START"
        PROVE  report[x] = "none" /\ x \notin recvs /\ \A l \in 1..n : chan'[s][l].id # x[2]
    BY <2>1, <2>2, <1>1 DEF IInv, Pumps
  <2>3. ASSUME type = "CHUNK"
        PROVE  /\ \E i \in 1..pos'[x] : body = <<x, i>> /\ i \notin missed[x]
               /\ body \notin got[x]
               /\ \A l \in 1..n + 1 : chan'[s][l].type = "CHUNK" /\ chan'[s][l].body = body => l = n + 1
    <3>1. pos[x] \in Nat /\ pos'[x] = pos[x] + 1 /\ body = <<x, pos[x] + 1>>
      BY <2>3 DEF IInv, TypeOK
    <3>2. pos[x] + 1 \notin missed[x] /\ body \notin got[x]
      BY <3>1 DEF IInv, Pumps, Buffers, Sent
    <3>3. ASSUME NEW l \in 1..n, chan[s][l].type = "CHUNK", chan[s][l].body = body PROVE FALSE
      <4>1. PICK i \in 1..pos[<<s, chan[s][l].id>>] : body = <<<<s, chan[s][l].id>>, i>>
        BY <3>3, <1>1, <1>2 DEF IInv, Frames, FrameOK
      <4> QED
        BY <4>1, <3>1
    <3>4. ASSUME NEW l \in 1..n + 1, chan'[s][l].type = "CHUNK", chan'[s][l].body = body PROVE l = n + 1
      <4>1. CASE l \in 1..n
        BY <4>1, <3>3, <3>4, <1>1
      <4> QED
        BY <4>1, <1>1
    <3>5. pos[x] + 1 \in 1..pos'[x]
      BY <3>1
    <3> QED
      BY <3>1, <3>2, <3>4, <3>5
  <2> QED
    <3>1. chan'[s][k] = g /\ g.type = type /\ g.id = x[2] /\ g.body = body
      BY <1>1, <1>6
    <3>2. PICK h : h = chan'[s][k] /\ <<s, h.id>> = x /\ h.type = type /\ h.body = body /\ h.id = x[2]
      BY <3>1, <1>1
    <3>3. h.type = "START" => /\ report[x] = "none" /\ x \notin recvs
                              /\ \A l \in 1..k - 1 : chan'[s][l].id # h.id
      <4>1. k - 1 = n
        BY <1>1, <1>6
      <4> QED
        BY <4>1, <3>2, <2>2
    <3>4. h.type = "CHUNK" =>
            /\ \E i \in 1..pos'[x] : h.body = <<x, i>> /\ i \notin missed[x]
            /\ h.body \notin got[x]
            /\ \A l \in 1..k : chan'[s][l].type = "CHUNK" /\ chan'[s][l].body = h.body => l = k
      BY <3>2, <2>3, <1>6
    <3>5. h.type = "END" => pump'[x] = "done" /\ \A l \in k + 1..k : chan'[s][l].id # h.id
      BY <3>2, <1>1, <1>6
    <3>6. Len(chan'[s]) = k /\ At(s)' = 1..k
      BY <1>1, <1>2, <1>6
    <3> HIDE DEF s, n
    <3>7. pump'[x] # "none" /\ x \in Xfer
      OBVIOUS
    <3>8. FrameOK(s, k)' = 
      /\ x \in Xfer /\ pump'[x] # "none"
      /\ h.type = "START" => /\ report'[x] = "none" /\ x \notin recvs'
                              /\ \A l \in 1..k - 1 : chan'[s][l].id # h.id
      /\ h.type = "CHUNK" =>
            /\ \E i \in 1..pos'[x] : h.body = <<x, i>> /\ i \notin missed'[x]
            /\ h.body \notin got'[x]
            /\ \A l \in 1..k : chan'[s][l].type = "CHUNK" /\ chan'[s][l].body = h.body => l = k
      /\ h.type = "END" => pump'[x] = "done" /\ \A l \in k + 1..k : chan'[s][l].id # h.id
      BY <3>2, <3>6, Zenon DEF FrameOK
    <3> QED
      BY <3>3, <3>4, <3>5, <3>7, <3>8, <1>3
<1>7. ASSUME NEW k \in At(s)' PROVE FrameOK(s, k)'
  <2>1. k \in 1..n \/ k = n + 1
    BY <1>1, <1>2
  <2> QED
    BY <2>1, <1>5, <1>6
<1> QED
  BY <1>4, <1>7 DEF Frames

\* Taking f changes nothing but the transfer x, and adds to its buffer or to
\* what it has missed only the chunk that f carries.
Only(x, f) ==
  /\ \A y \in Xfer : y # x =>
       /\ report'[y] = report[y] /\ (y \in recvs' <=> y \in recvs)
       /\ got'[y] = got[y] /\ missed'[y] = missed[y]
  /\ \A b \in got'[x] : b \in got[x] \/ (f.type = "CHUNK" /\ b = f.body)
  /\ \A i \in missed'[x] :
       i \in missed[x] \/ i = 0 \/ (f.type = "CHUNK" /\ f.body = <<x, i>>)

LEMMA TakeFrames ==
  ASSUME IInv, NEW s \in Sender, NEW f, NEW x,
         chan[s] # <<>>, f = Head(chan[s]), x = <<s, f.id>>,
         chan' = [chan EXCEPT ![s] = Tail(@)], UNCHANGED sending,
         Only(x, f)
  PROVE  Frames'
<1> DEFINE n == Len(chan[s])
<1>1. /\ n \in Nat /\ n >= 1 /\ 1 \in At(s) /\ f = chan[s][1]
      /\ Len(chan'[s]) = n - 1
      /\ \A k \in 1..n - 1 : chan'[s][k] = chan[s][k + 1]
      /\ \A r \in Sender : r # s => chan'[r] = chan[r]
  BY TakeAt DEF IInv
<1>2. At(s) = 1..n /\ At(s)' = 1..n - 1
  BY <1>1 DEF At
<1>3. pump' = pump /\ pos' = pos
  BY DEF sending
<1>4. From(x) = s /\ FrameOK(s, 1)
  BY <1>1, PairXfer DEF IInv, Frames
<1>5. ASSUME NEW r \in Sender, r # s, NEW k \in At(r)' PROVE FrameOK(r, k)'
  <2> DEFINE y == <<r, chan[r][k].id>>
  <2>1. k \in At(r) /\ FrameOK(r, k) /\ chan'[r] = chan[r] /\ At(r)' = At(r)
    BY <1>1, <1>5 DEF IInv, Frames, At
  <2>2. y \in Xfer /\ y # x
    BY <2>1, <1>5 DEF FrameOK
  <2>3. /\ report'[y] = report[y] /\ (y \in recvs' <=> y \in recvs)
        /\ got'[y] = got[y] /\ missed'[y] = missed[y]
    BY <2>2 DEF Only
  <2> QED
    BY <2>1, <2>2, <2>3, <1>3 DEF FrameOK
<1>6. ASSUME NEW k \in 1..n - 1 PROVE FrameOK(s, k)'
  <2>1. PICK h : h = chan[s][k + 1] /\ h = chan'[s][k]
    BY <1>1
  <2>2. PICK y : y = <<s, h.id>>
    OBVIOUS
  <2>3. k + 1 \in At(s) /\ FrameOK(s, k + 1) /\ 1 \in 1..(k + 1) - 1
    BY <1>1, <1>2 DEF IInv, Frames
  <2>4. /\ y \in Xfer /\ pump[y] # "none"
        /\ h.type = "START" => /\ report[y] = "none" /\ y \notin recvs
                               /\ \A l \in 1..(k + 1) - 1 : chan[s][l].id # h.id
        /\ h.type = "CHUNK" =>
             /\ \E i \in 1..pos[y] : h.body = <<y, i>> /\ i \notin missed[y]
             /\ h.body \notin got[y]
             /\ \A l \in At(s) : chan[s][l].type = "CHUNK" /\ chan[s][l].body = h.body => l = k + 1
        /\ h.type = "END" => /\ pump[y] = "done"
                             /\ \A l \in (k + 1) + 1..n : chan[s][l].id # h.id
    BY <2>1, <2>2, <2>3 DEF FrameOK
  <2>5. h.type = "START" => /\ report'[y] = "none" /\ y \notin recvs'
                            /\ \A l \in 1..k - 1 : chan'[s][l].id # h.id
    <3> SUFFICES ASSUME h.type = "START"
                 PROVE  /\ report'[y] = "none" /\ y \notin recvs'
                        /\ \A l \in 1..k - 1 : chan'[s][l].id # h.id
      OBVIOUS
    <3>1. f.id # h.id
      BY <2>3, <2>4, <1>1
    <3>2. y # x
      BY <3>1, <2>2
    <3>3. ASSUME NEW l \in 1..k - 1 PROVE chan'[s][l].id # h.id
      <4>1. l + 1 \in 1..(k + 1) - 1 /\ l \in 1..n - 1
        BY <1>1
      <4> QED
        BY <4>1, <2>4, <1>1
    <3> QED
      BY <3>2, <3>3, <2>4 DEF Only
  <2>6. ASSUME h.type = "CHUNK"
        PROVE  /\ \E i \in 1..pos[y] : h.body = <<y, i>> /\ i \notin missed'[y]
               /\ h.body \notin got'[y]
               /\ \A l \in 1..n - 1 : chan'[s][l].type = "CHUNK" /\ chan'[s][l].body = h.body => l = k
    <3>1. PICK i \in 1..pos[y] : h.body = <<y, i>> /\ i \notin missed[y]
      BY <2>4, <2>6
    <3>2. ~(f.type = "CHUNK" /\ f.body = h.body)
      <4>1. 1 # k + 1
        OBVIOUS
      <4> QED
        BY <4>1, <2>4, <2>6, <1>1
    <3>3. i \in Nat /\ i # 0
      BY <2>4 DEF IInv, TypeOK
    <3>4. i \notin missed'[y] /\ h.body \notin got'[y]
      <4>1. CASE y = x
        BY <4>1, <3>1, <3>2, <3>3, <2>4, <2>6 DEF Only
      <4>2. CASE y # x
        BY <4>2, <3>1, <2>4, <2>6 DEF Only
      <4> QED
        BY <4>1, <4>2
    <3>5. ASSUME NEW l \in 1..n - 1, chan'[s][l].type = "CHUNK", chan'[s][l].body = h.body PROVE l = k
      <4>1. l + 1 \in At(s) /\ chan[s][l + 1] = chan'[s][l]
        BY <1>1, <1>2
      <4>2. l + 1 = k + 1
        BY <4>1, <3>5, <2>4, <2>6
      <4> QED
        BY <4>2
    <3> QED
      BY <3>1, <3>4, <3>5
  <2>7. h.type = "END" => pump[y] = "done" /\ \A l \in k + 1..n - 1 : chan'[s][l].id # h.id
    <3> SUFFICES ASSUME h.type = "END"
                 PROVE  pump[y] = "done" /\ \A l \in k + 1..n - 1 : chan'[s][l].id # h.id
      OBVIOUS
    <3>1. ASSUME NEW l \in k + 1..n - 1 PROVE chan'[s][l].id # h.id
      <4>1. l + 1 \in (k + 1) + 1..n /\ l \in 1..n - 1
        BY <1>1
      <4> QED
        BY <4>1, <2>4, <1>1
    <3> QED
      BY <3>1, <2>4
  <2>8. Len(chan'[s]) = n - 1 /\ At(s)' = 1..n - 1
    BY <1>1, <1>2
  <2> HIDE DEF n
  <2> QED
    <3>1. h.type = "START" => /\ report'[y] = "none" /\ y \notin recvs'
                              /\ \A l \in 1..k - 1 : chan'[s][l].id # h.id
      BY <2>5
    <3>2. h.type = "CHUNK" =>
            /\ \E i \in 1..pos'[y] : h.body = <<y, i>> /\ i \notin missed'[y]
            /\ h.body \notin got'[y]
            /\ \A l \in At(s)' : chan'[s][l].type = "CHUNK" /\ chan'[s][l].body = h.body => l = k
      BY <2>6, <2>8, <1>3
    <3>3. h.type = "END" => /\ pump'[y] = "done"
                            /\ \A l \in k + 1..Len(chan'[s]) : chan'[s][l].id # h.id
      BY <2>7, <2>8, <1>3
    <3>4. y \in Xfer /\ pump'[y] # "none" /\ h = chan'[s][k]
      BY <2>1, <2>4, <1>3
    <3> QED
      BY <3>1, <3>2, <3>3, <3>4, <2>2 DEF FrameOK
<1> QED
  BY <1>2, <1>5, <1>6 DEF Frames

LEMMA CutFrames ==
  ASSUME IInv, NEW s \in Sender, NEW n \in 0..Len(chan[s]),
         chan' = [chan EXCEPT ![s] = SubSeq(@, 1, n)],
         UNCHANGED <<sending, receiving, missed>>
  PROVE  Frames'
<1>1. /\ Len(chan[s]) \in Nat /\ Len(chan'[s]) = n
      /\ \A k \in 1..n : chan'[s][k] = chan[s][k]
      /\ \A r \in Sender : r # s => chan'[r] = chan[r]
  BY CutAt DEF IInv
<1>2. At(s) = 1..Len(chan[s]) /\ At(s)' = 1..n
  BY <1>1 DEF At
<1>3. UNCHANGED <<pump, pos, report, recvs, got, missed>>
  BY DEF sending, receiving
<1>4. ASSUME NEW r \in Sender, r # s PROVE \A k \in At(r)' : FrameOK(r, k)'
  <2>1. chan'[r] = chan[r]
    BY <1>1, <1>4
  <2>2. Onward
    BY <1>3 DEF Onward, sending, IInv, TypeOK
  <2> QED
    BY <2>1, <2>2, OnwardFrames
<1>5. ASSUME NEW k \in 1..n PROVE FrameOK(s, k)'
  <2>1. FrameOK(s, k) /\ \A l \in 1..n : chan'[s][l] = chan[s][l] /\ l \in At(s)
    BY <1>1, <1>2 DEF IInv, Frames
  <2>2. (\A l \in 1..k - 1 : l \in 1..n) /\ (\A l \in k + 1..n : l \in k + 1..Len(chan[s]) /\ l \in 1..n)
    BY <1>1
  <2>3. Len(chan'[s]) = n /\ At(s)' = 1..n
    BY <1>1, <1>2
  <2>4. PICK h : h = chan[s][k] /\ h = chan'[s][k]
    BY <1>1
  <2>5. PICK y : y = <<s, h.id>>
    OBVIOUS
  <2>6. /\ y \in Xfer /\ pump[y] # "none"
        /\ h.type = "START" => /\ report[y] = "none" /\ y \notin recvs
                               /\ \A l \in 1..k - 1 : chan[s][l].id # h.id
        /\ h.type = "CHUNK" =>
             /\ \E i \in 1..pos[y] : h.body = <<y, i>> /\ i \notin missed[y]
             /\ h.body \notin got[y]
             /\ \A l \in At(s) : chan[s][l].type = "CHUNK" /\ chan[s][l].body = h.body => l = k
        /\ h.type = "END" => /\ pump[y] = "done"
                             /\ \A l \in k + 1..Len(chan[s]) : chan[s][l].id # h.id
    BY <2>1, <2>4, <2>5 DEF FrameOK
  <2>7. h.type = "START" => /\ report'[y] = "none" /\ y \notin recvs'
                            /\ \A l \in 1..k - 1 : chan'[s][l].id # h.id
    BY <2>1, <2>2, <2>6, <1>3
  <2>8. h.type = "CHUNK" =>
          /\ \E i \in 1..pos'[y] : h.body = <<y, i>> /\ i \notin missed'[y]
          /\ h.body \notin got'[y]
          /\ \A l \in At(s)' : chan'[s][l].type = "CHUNK" /\ chan'[s][l].body = h.body => l = k
    BY <2>1, <2>3, <2>6, <1>3
  <2>9. h.type = "END" => /\ pump'[y] = "done"
                          /\ \A l \in k + 1..Len(chan'[s]) : chan'[s][l].id # h.id
    BY <2>1, <2>2, <2>3, <2>6, <1>3
  <2>10. y \in Xfer /\ pump'[y] # "none" /\ h = chan'[s][k]
    BY <2>4, <2>6, <1>3
  <2> QED
    BY <2>5, <2>7, <2>8, <2>9, <2>10 DEF FrameOK
<1> QED
  BY <1>2, <1>4, <1>5 DEF Frames

-----------------------------------------------------------------------------
(* The steps of the senders.                                               *)

\* The pumps go on by one frame of x, if any, and keep what was sent.
Puts(x, type) ==
  /\ Onward /\ UNCHANGED up
  /\ pump[x] # "done"
  /\ \A y \in Xfer : pump[y] # "none" => file'[y] = file[y]
  /\ \A y \in Xfer : pos'[y] = pos[y] \/ (y = x /\ type = "CHUNK" /\ pos'[x] = pos[x] + 1)
  /\ type = "START" => pump[x] = "none"
  /\ type = "END" => up[From(x)]

LEMMA PutRest ==
  ASSUME IInv, NEW x \in Xfer, NEW type \in {"START", "CHUNK", "END", "ABORT"},
         NEW body \in Body \union {<<>>}, Put(x, type, body), Puts(x, type),
         type = "CHUNK" => body = <<x, pos[x] + 1>> /\ pos[x] + 1 \in Chunk
  PROVE  Complete' /\ Saving' /\ Saved'
<1>1. \A y \in Xfer :
        /\ Under(y)' => Under(y) \/ y = x
        /\ \A t \in {"START", "END"} : UnderAs(y, t)' => UnderAs(y, t) \/ (y = x /\ t = type)
        /\ \A i \in Chunk : Flying(y, i) => Flying(y, i)'
        /\ \A i \in Chunk : type = "CHUNK" /\ body = <<x, i>> => Flying(x, i)'
  BY AfterPut DEF IInv
<1>2. UNCHANGED <<recvs, got, saving, report, told, missed, up>>
  BY DEF Puts, Onward, receiving
<1>3. Complete'
  <2> SUFFICES ASSUME NEW y \in Xfer, y \in recvs \/ UnderAs(y, "START")',
                      up[From(y)] \/ UnderAs(y, "END")', NEW i \in 1..pos'[y]
               PROVE  i \in missed[y] \/ <<y, i>> \in got[y] \/ Flying(y, i)'
    BY <1>2 DEF Complete
  <2>1. pos[y] \in 0..MaxChunks /\ pos'[y] \in Nat /\ pos[x] \in Nat
    BY TransferAssumption DEF IInv, TypeOK, Puts, Onward
  <2>2. CASE y = x /\ type = "START"
    BY <2>1, <2>2 DEF Puts, IInv, Pumps
  <2>3. CASE y = x /\ type = "CHUNK" /\ i = pos[x] + 1
    BY <2>3, <1>1
  <2>4. CASE ~(y = x /\ type = "START") /\ ~(y = x /\ type = "CHUNK" /\ i = pos[x] + 1)
    <3>1. i \in 1..pos[y] /\ i \in Chunk
      BY <2>1, <2>4, TransferAssumption DEF Puts, Chunk
    <3>2. y \in recvs \/ UnderAs(y, "START")
      BY <2>4, <1>1
    <3>3. up[From(y)] \/ UnderAs(y, "END")
      BY <2>4, <1>1 DEF Puts
    <3>4. i \in missed[y] \/ <<y, i>> \in got[y] \/ Flying(y, i)
      BY <3>1, <3>2, <3>3 DEF IInv, Complete
    <3> QED
      BY <3>1, <3>4, <1>1
  <2> QED
    BY <2>2, <2>3, <2>4
<1>4. ASSUME NEW y \in Xfer, NEW B, Whole(y, B) PROVE Whole(y, B)'
  <2>1. y # x /\ file'[y] = file[y] /\ pump'[y] = "done"
    BY <1>4 DEF Whole, Puts, Onward
  <2> QED
    BY <2>1, <1>1, <1>2, <1>4 DEF Whole, Sent
<1>5. Saving'
  <2> SUFFICES ASSUME NEW s \in Sender, saving[s] # NoSave, NEW y, y = saving[s][1], NEW B, B = saving[s][3]
               PROVE  From(y) = s /\ y \notin recvs /\ report[y] = "open" /\ Whole(y, B)'
    BY <1>2 DEF Saving
  <2>1. From(y) = s /\ y \notin recvs /\ report[y] = "open" /\ Whole(y, B)
    BY DEF IInv, Saving
  <2>2. y \in Xfer
    BY SavingTuple DEF IInv
  <2> QED
    BY <2>1, <2>2, <1>4
<1>6. Saved'
  BY <1>2, <1>4 DEF IInv, Saved
<1> QED
  BY <1>3, <1>5, <1>6

LEMMA QuietRest ==
  ASSUME IInv, NEW x \in Xfer, Puts(x, "ABORT"), UNCHANGED chan
  PROVE  Frames' /\ Complete' /\ Saving' /\ Saved'
<1>1. UNCHANGED <<recvs, got, saving, report, told, missed, up, chan>>
  BY DEF Puts, Onward, receiving
<1>2. Frames'
  BY OnwardFrames DEF Frames, Puts
<1>3. \A y \in Xfer : pos'[y] = pos[y]
  BY DEF Puts
<1>4. Complete'
  <2> SUFFICES ASSUME NEW y \in Xfer, y \in recvs \/ UnderAs(y, "START")',
                      up[From(y)] \/ UnderAs(y, "END")', NEW i \in 1..pos[y]
               PROVE  i \in missed[y] \/ <<y, i>> \in got[y] \/ Flying(y, i)'
    BY <1>1, <1>3 DEF Complete
  <2>1. UnderAs(y, "START")' = UnderAs(y, "START") /\ UnderAs(y, "END")' = UnderAs(y, "END")
        /\ Flying(y, i)' = Flying(y, i)
    BY <1>1 DEF UnderAs, Flying, Of, At
  <2> QED
    BY <2>1 DEF IInv, Complete
<1>5. ASSUME NEW y \in Xfer, NEW B, Whole(y, B) PROVE Whole(y, B)'
  BY <1>1, <1>5 DEF Whole, Sent, Under, Of, At, Puts, Onward
<1>6. Saving'
  <2> SUFFICES ASSUME NEW s \in Sender, saving[s] # NoSave, NEW y, y = saving[s][1], NEW B, B = saving[s][3]
               PROVE  From(y) = s /\ y \notin recvs /\ report[y] = "open" /\ Whole(y, B)'
    BY <1>1 DEF Saving
  <2>1. From(y) = s /\ y \notin recvs /\ report[y] = "open" /\ Whole(y, B)
    BY DEF IInv, Saving
  <2>2. y \in Xfer
    BY SavingTuple DEF IInv
  <2> QED
    BY <2>1, <2>2, <1>5
<1>7. Saved'
  BY <1>1, <1>5 DEF IInv, Saved
<1> QED
  BY <1>2, <1>4, <1>6, <1>7

LEMMA SendFileInv ==
  ASSUME IInv, NEW s \in Sender, NEW name \in Name, NEW len \in Length, SendFile(s, name, len)
  PROVE  IInv'
<1> DEFINE x == <<s, nextID[s] + 1>>
<1>1. /\ nextID[s] \in Nat /\ x \in Xfer /\ From(x) = s /\ x[2] = nextID[s] + 1
      /\ pump[x] = "none" /\ pos[x] = 0
  BY PairXfer DEF IInv, TypeOK, Pumps, SendFile
<1>2. UNCHANGED <<recvs, got, saving, disk, report, told, missed, up, pos, cancelled>>
  BY DEF SendFile, receiving
<1>3. nextID' = [nextID EXCEPT ![s] = @ + 1]
  BY DEF SendFile
<1>4. CASE up[s]
  <2>1. /\ Put(x, "START", <<>>)
        /\ file' = [file EXCEPT ![x] = [name |-> name, len |-> len]]
        /\ pump' = [pump EXCEPT ![x] = "reading"]
    BY <1>4 DEF SendFile
  <2>2. len \in 0..MaxChunks
    BY TransferAssumption
  <2>3. TypeOK'
    <3>1. chan' \in [Sender -> Seq(Frame)]
      BY <2>1, <1>1, PutAt DEF IInv
    <3>2. file' \in [Xfer -> [name : Name \union {NoName}, len : 0..MaxChunks]]
      BY <2>1, <2>2, <1>1 DEF IInv, TypeOK
    <3>3. pump' \in [Xfer -> {"none", "reading", "done", "failed"}] /\ nextID' \in [Sender -> Nat]
      BY <2>1, <1>1, <1>3 DEF IInv, TypeOK
    <3> QED
      BY <3>1, <3>2, <3>3, <1>2 DEF IInv, TypeOK
  <2>4. Onward /\ Puts(x, "START") /\ pump'[x] = "reading"
    <3>1. \A y \in Xfer : y # x => pump'[y] = pump[y] /\ file'[y] = file[y]
      BY <2>1 DEF IInv, TypeOK
    <3>2. pump'[x] = "reading" /\ \A y \in Xfer : pos[y] \in Nat /\ pos'[y] = pos[y]
      BY <2>1, <1>1, <1>2 DEF IInv, TypeOK
    <3>3. Onward
      BY <3>1, <3>2, <1>1, <1>2 DEF Onward, receiving
    <3> QED
      BY <3>1, <3>2, <3>3, <1>1, <1>2 DEF Puts
  <2>5. Frames'
    BY <2>1, <2>4, <1>1, PutFrames
  <2>6. Pumps'
    <3> SUFFICES ASSUME NEW y \in Xfer
                 PROVE  /\ y[2] > nextID'[From(y)] => pump'[y] = "none"
                        /\ pump'[y] = "none" => pos[y] = 0 /\ report[y] = "none" /\ y \notin recvs
                        /\ pump'[y] # "none" => file'[y].name \in Name
                        /\ pos[y] <= file'[y].len /\ missed[y] \subseteq 0..pos[y]
                        /\ pump'[y] = "done" => pos[y] = file'[y].len
      BY <1>2 DEF Pumps
    <3>1. y[2] \in Nat /\ nextID[From(y)] \in Nat /\ nextID'[From(y)] \in Nat
          /\ nextID'[From(y)] >= nextID[From(y)]
      BY <1>1, <1>3, XferPair DEF IInv, TypeOK
    <3>2. CASE y = x
      <4>1. file'[y].name = name /\ file'[y].len = len /\ pump'[y] = "reading" /\ nextID'[From(y)] = y[2]
        BY <3>2, <2>1, <1>1, <1>3 DEF IInv, TypeOK
      <4> QED
        BY <4>1, <3>1, <3>2, <2>2, <1>1 DEF IInv, Pumps
    <3>3. CASE y # x
      <4>1. file'[y] = file[y] /\ pump'[y] = pump[y]
        BY <3>3, <2>1 DEF IInv, TypeOK
      <4> QED
        BY <4>1, <3>1 DEF IInv, Pumps
    <3> QED
      BY <3>2, <3>3
  <2>7. Buffers'
    BY <1>2 DEF IInv, Buffers, Sent
  <2>8. Complete' /\ Saving' /\ Saved'
    BY <2>1, <2>4, <1>1, PutRest
  <2> QED
    BY <2>3, <2>5, <2>6, <2>7, <2>8 DEF IInv
<1>5. CASE ~up[s]
  <2>1. UNCHANGED <<chan, file, pump>>
    BY <1>5 DEF SendFile
  <2>2. TypeOK'
    <3>1. nextID' \in [Sender -> Nat]
      BY <1>1, <1>3 DEF IInv, TypeOK
    <3> QED
      BY <3>1, <2>1, <1>2 DEF IInv, TypeOK
  <2>3. Puts(x, "ABORT")
    BY <2>1, <1>1, <1>2 DEF IInv, TypeOK, Onward, Puts, receiving
  <2>4. Frames' /\ Complete' /\ Saving' /\ Saved'
    BY <2>1, <2>3, <1>1, QuietRest
  <2>5. Pumps'
    <3> SUFFICES ASSUME NEW y \in Xfer
                 PROVE  y[2] > nextID'[From(y)] => pump[y] = "none"
      BY <1>2, <2>1 DEF IInv, Pumps
    <3>1. y[2] \in Nat /\ nextID[From(y)] \in Nat /\ nextID'[From(y)] \in Nat
          /\ nextID'[From(y)] >= nextID[From(y)]
      BY <1>1, <1>3, XferPair DEF IInv, TypeOK
    <3> QED
      BY <3>1 DEF IInv, Pumps
  <2>6. Buffers'
    BY <1>2 DEF IInv, Buffers, Sent
  <2> QED
    BY <2>2, <2>4, <2>5, <2>6 DEF IInv
<1> QED
  BY <1>4, <1>5

LEMMA PumpChunkInv ==
  ASSUME IInv, NEW x \in Xfer, PumpChunk(x)
  PROVE  IInv'
<1>1. /\ From(x) \in Sender /\ pump[x] = "reading" /\ pos[x] \in Nat
      /\ pos[x] < file[x].len /\ file[x].len \in 0..MaxChunks
  BY XferPair, TransferAssumption DEF IInv, TypeOK, PumpChunk
<1>2. UNCHANGED <<nextID, file, cancelled, up, recvs, got, saving, disk, report, told, missed>>
  BY DEF PumpChunk, receiving
<1>3. CASE up[From(x)]
  <2>1. /\ Put(x, "CHUNK", <<x, pos[x] + 1>>) /\ pos' = [pos EXCEPT ![x] = @ + 1]
        /\ UNCHANGED pump
    BY <1>3 DEF PumpChunk
  <2>2. /\ pos[x] + 1 \in Chunk /\ pos[x] + 1 \in 0..MaxChunks
        /\ <<x, pos[x] + 1>> \in Body \union {<<>>}
    BY <1>1, TransferAssumption DEF Chunk, Body
  <2>3. pos'[x] = pos[x] + 1 /\ \A y \in Xfer : pos[y] \in Nat /\ (y # x => pos'[y] = pos[y])
    BY <2>1, TransferAssumption DEF IInv, TypeOK
  <2>4. TypeOK'
    <3>1. chan' \in [Sender -> Seq(Frame)]
      BY <2>1, <2>2, PutAt DEF IInv
    <3>2. pos' \in [Xfer -> 0..MaxChunks]
      BY <2>1, <2>2 DEF IInv, TypeOK
    <3> QED
      BY <3>1, <3>2, <2>1, <1>2 DEF IInv, TypeOK
  <2>5. Onward
    BY <2>1, <2>3, <1>2 DEF Onward, receiving
  <2>6. Puts(x, "CHUNK")
    BY <2>1, <2>3, <2>5, <1>1, <1>2 DEF Puts
  <2>7. Frames'
    <3>1. pump'[x] # "none" /\ pump[x] # "done" /\ pump[x] # "none"
      BY <2>1, <1>1
    <3> QED
      BY <3>1, <2>1, <2>2, <2>3, <2>5, PutFrames
  <2>8. Pumps'
    <3> SUFFICES ASSUME NEW y \in Xfer
                 PROVE  /\ pump[y] = "none" => pos'[y] = 0
                        /\ pos'[y] <= file[y].len /\ missed[y] \subseteq 0..pos'[y]
                        /\ pump[y] = "done" => pos'[y] = file[y].len
      BY <1>2, <2>1 DEF IInv, Pumps
    <3>1. CASE y = x
      BY <3>1, <2>3, <1>1 DEF IInv, Pumps
    <3>2. CASE y # x
      BY <3>2, <2>3 DEF IInv, Pumps
    <3> QED
      BY <3>1, <3>2
  <2>9. Buffers'
    <3> SUFFICES ASSUME NEW y \in Xfer PROVE got[y] \subseteq {<<y, i>> : i \in (1..pos'[y]) \ missed[y]}
      BY <1>2 DEF IInv, Buffers, Sent
    <3>1. pos[y] \in Nat /\ pos'[y] \in Nat /\ pos[y] <= pos'[y]
      BY <2>3
    <3> QED
      BY <3>1 DEF IInv, Buffers, Sent
  <2>10. Complete' /\ Saving' /\ Saved'
    BY <2>1, <2>2, <2>6, PutRest
  <2> QED
    BY <2>4, <2>7, <2>8, <2>9, <2>10 DEF IInv
<1>4. CASE ~up[From(x)]
  <2>1. pump' = [pump EXCEPT ![x] = "failed"] /\ UNCHANGED <<chan, pos>>
    BY <1>4 DEF PumpChunk
  <2>2. pump'[x] = "failed" /\ \A y \in Xfer : pos[y] \in Nat /\ (y # x => pump'[y] = pump[y])
    BY <2>1, TransferAssumption DEF IInv, TypeOK
  <2>3. TypeOK'
    BY <2>1, <1>2 DEF IInv, TypeOK
  <2>4. Onward
    BY <2>1, <2>2, <1>1, <1>2 DEF Onward, receiving
  <2>5. Puts(x, "ABORT")
    BY <2>1, <2>2, <2>4, <1>1, <1>2 DEF Puts
  <2>6. Frames' /\ Complete' /\ Saving' /\ Saved'
    BY <2>1, <2>5, QuietRest
  <2>7. Pumps'
    BY <2>1, <2>2, <1>1, <1>2 DEF IInv, Pumps
  <2>8. Buffers'
    BY <2>1, <1>2 DEF IInv, Buffers, Sent
  <2> QED
    BY <2>3, <2>6, <2>7, <2>8 DEF IInv
<1> QED
  BY <1>3, <1>4

\* A pump that ends, with or without a last word.
LEMMA LastWord ==
  ASSUME IInv, NEW x \in Xfer, NEW type \in {"END", "ABORT"}, NEW end \in {"done", "failed"},
         pump[x] = "reading", PutIfUp(x, type), pump' = [pump EXCEPT ![x] = end],
         type = "END" <=> end = "done", end = "done" => pos[x] = file[x].len,
         UNCHANGED <<nextID, pos, file, cancelled, up, receiving, missed>>
  PROVE  IInv'
<1>1. UNCHANGED <<nextID, pos, file, cancelled, up, recvs, got, saving, disk, report, told, missed>>
  BY DEF receiving
<1>2. From(x) \in Sender /\ pump'[x] = end
      /\ \A y \in Xfer : pos[y] \in Nat /\ (y # x => pump'[y] = pump[y])
  BY XferPair, TransferAssumption DEF IInv, TypeOK
<1>3. chan' \in [Sender -> Seq(Frame)]
  <2>1. CASE up[From(x)]
    BY <2>1, PutAt DEF PutIfUp, IInv
  <2>2. CASE ~up[From(x)]
    BY <2>2 DEF PutIfUp, IInv, TypeOK
  <2> QED
    BY <2>1, <2>2
<1>4. TypeOK'
  BY <1>1, <1>3 DEF IInv, TypeOK
<1>5. Onward
  BY <1>1, <1>2 DEF Onward, receiving
<1>6. Frames' /\ Complete' /\ Saving' /\ Saved'
  <2>1. CASE up[From(x)]
    <3>1. Put(x, type, <<>>) /\ Puts(x, type)
      BY <2>1, <1>1, <1>2, <1>5 DEF PutIfUp, Puts
    <3>2. Frames'
      <4>1. pump'[x] # "none" /\ pump[x] # "done" /\ (type = "END" => pump'[x] = "done")
        BY <1>2
      <4> QED
        BY <4>1, <3>1, <1>5, PutFrames
    <3> QED
      BY <3>1, <3>2, PutRest
  <2>2. CASE ~up[From(x)]
    <3>1. UNCHANGED chan /\ Puts(x, "ABORT")
      BY <2>2, <1>1, <1>2, <1>5 DEF PutIfUp, Puts
    <3> QED
      BY <3>1, QuietRest
  <2> QED
    BY <2>1, <2>2
<1>7. Pumps'
  <2> SUFFICES ASSUME NEW y \in Xfer
               PROVE  /\ y[2] > nextID[From(y)] => pump'[y] = "none"
                      /\ pump'[y] = "none" => pos[y] = 0 /\ report[y] = "none" /\ y \notin recvs
                      /\ pump'[y] # "none" => file[y].name \in Name
                      /\ pump'[y] = "done" => pos[y] = file[y].len
    BY <1>1 DEF IInv, Pumps
  <2>1. CASE y = x
    BY <2>1, <1>2 DEF IInv, Pumps
  <2>2. CASE y # x
    BY <2>2, <1>2 DEF IInv, Pumps
  <2> QED
    BY <2>1, <2>2
<1>8. Buffers'
  BY <1>1 DEF IInv, Buffers, Sent
<1> QED
  BY <1>4, <1>6, <1>7, <1>8 DEF IInv

LEMMA PumpEndInv ==
  ASSUME IInv, NEW x \in Xfer, PumpEnd(x)
  PROVE  IInv'
BY LastWord DEF PumpEnd

LEMMA ReadFailsInv ==
  ASSUME IInv, NEW x \in Xfer, ReadFails(x)
  PROVE  IInv'
BY LastWord DEF ReadFails

LEMMA CancelSendInv ==
  ASSUME IInv, NEW x \in Xfer, CancelSend(x)
  PROVE  IInv'
<1>1. UNCHANGED <<nextID, pump, pos, file, up, recvs, got, saving, disk, report, told, missed>>
  BY DEF CancelSend, receiving
<1>2. /\ From(x) \in Sender /\ pump[x] = "reading" /\ cancelled' \subseteq Xfer
      /\ PutIfUp(x, "ABORT") /\ \A y \in Xfer : pos[y] \in Nat
  BY XferPair, TransferAssumption DEF IInv, TypeOK, CancelSend
<1>3. chan' \in [Sender -> Seq(Frame)]
  BY <1>2, PutAt DEF PutIfUp, IInv, TypeOK
<1>4. TypeOK'
  BY <1>1, <1>2, <1>3 DEF IInv, TypeOK
<1>5. Onward /\ Puts(x, "ABORT")
  BY <1>1, <1>2 DEF Onward, Puts, receiving
<1>6. Frames' /\ Complete' /\ Saving' /\ Saved'
  <2>1. CASE up[From(x)]
    <3>1. Put(x, "ABORT", <<>>)
      BY <2>1, <1>2 DEF PutIfUp
    <3>2. Frames'
      BY <3>1, <1>1, <1>2, <1>5, PutFrames
    <3> QED
      BY <3>1, <3>2, <1>5, PutRest
  <2>2. CASE ~up[From(x)]
    BY <2>2, <1>2, <1>5, QuietRest DEF PutIfUp
  <2> QED
    BY <2>1, <2>2
<1>7. Pumps' /\ Buffers'
  BY <1>1 DEF IInv, Pumps, Buffers, Sent
<1> QED
  BY <1>4, <1>6, <1>7 DEF IInv

LEMMA DisconnectInv ==
  ASSUME IInv, NEW s \in Sender, Disconnect(s)
  PROVE  IInv'
<1>1. UNCHANGED <<nextID, pump, pos, file, cancelled, recvs, got, saving, disk, report, told, missed>>
      /\ up[s] /\ up' = [up EXCEPT ![s] = FALSE]
  BY DEF Disconnect, sending, receiving
<1>2. PICK n \in 0..Len(chan[s]) : chan' = [chan EXCEPT ![s] = SubSeq(@, 1, n)]
  BY DEF Disconnect
<1>3. \A y \in Xfer :
        /\ Under(y)' => Under(y)
        /\ \A t \in {"START", "END"} : UnderAs(y, t)' => UnderAs(y, t)
        /\ UnderAs(y, "END")' \/ From(y) # s =>
             \A i \in Chunk : Flying(y, i) => Flying(y, i)'
  BY <1>2, AfterCut DEF IInv
<1>4. TypeOK'
  <2>1. chan' \in [Sender -> Seq(Frame)]
    BY <1>2, CutAt DEF IInv
  <2>2. up' \in [Sender -> BOOLEAN]
    BY <1>1 DEF IInv, TypeOK
  <2> QED
    BY <2>1, <2>2, <1>1 DEF IInv, TypeOK
<1>5. Frames'
  BY <1>1, <1>2, CutFrames DEF sending, receiving
<1>6. Pumps' /\ Buffers'
  BY <1>1 DEF IInv, Pumps, Buffers, Sent
<1>7. Complete'
  <2> SUFFICES ASSUME NEW y \in Xfer, y \in recvs \/ UnderAs(y, "START")',
                      up'[From(y)] \/ UnderAs(y, "END")', NEW i \in 1..pos[y]
               PROVE  i \in missed[y] \/ <<y, i>> \in got[y] \/ Flying(y, i)'
    BY <1>1 DEF Complete
  <2>1. i \in Chunk /\ From(y) \in Sender
    BY XferPair, TransferAssumption DEF IInv, TypeOK, Chunk
  <2>2. UnderAs(y, "END")' \/ From(y) # s
    BY <2>1, <1>1 DEF IInv, TypeOK
  <2>3. up[From(y)] \/ UnderAs(y, "END")
    BY <2>1, <1>1, <1>3 DEF IInv, TypeOK
  <2>4. y \in recvs \/ UnderAs(y, "START")
    BY <1>3
  <2>5. i \in missed[y] \/ <<y, i>> \in got[y] \/ Flying(y, i)
    BY <2>3, <2>4 DEF IInv, Complete
  <2> QED
    BY <2>1, <2>2, <2>5, <1>3
<1>8. ASSUME NEW y \in Xfer, NEW B, Whole(y, B) PROVE Whole(y, B)'
  BY <1>1, <1>3, <1>8 DEF Whole, Sent
<1>9. Saving'
  <2> SUFFICES ASSUME NEW r \in Sender, saving[r] # NoSave, NEW y, y = saving[r][1], NEW B, B = saving[r][3]
               PROVE  From(y) = r /\ y \notin recvs /\ report[y] = "open" /\ Whole(y, B)'
    BY <1>1 DEF Saving
  <2>1. From(y) = r /\ y \notin recvs /\ report[y] = "open" /\ Whole(y, B)
    BY DEF IInv, Saving
  <2>2. y \in Xfer
    BY SavingTuple DEF IInv
  <2> QED
    BY <2>1, <2>2, <1>8
<1>10. Saved'
  BY <1>1, <1>8 DEF IInv, Saved
<1> QED
  BY <1>4, <1>5, <1>6, <1>7, <1>9, <1>10 DEF IInv

-----------------------------------------------------------------------------
(* The steps of the receiver.                                              *)

\* What holds of the frame that is taken.
LEMMA Taken ==
  ASSUME IInv, NEW s \in Sender, NEW f, NEW x, chan[s] # <<>>, f = Head(chan[s]),
         x = <<s, f.id>>, chan' = [chan EXCEPT ![s] = Tail(@)]
  PROVE  /\ chan' \in [Sender -> Seq(Frame)]
         /\ x \in Xfer /\ From(x) = s /\ pump[x] # "none"
         /\ f.type \in {"START", "CHUNK", "END", "ABORT"}
         /\ f.type = "START" => report[x] = "none" /\ x \notin recvs
         /\ f.type = "CHUNK" => \E i \in 1..pos[x] :
              f.body = <<x, i>> /\ i \notin missed[x] /\ f.body \notin got[x]
         /\ f.type = "END" => pump[x] = "done"
<1>1. TypeOK /\ Frames
  BY DEF IInv
<1>2. x \in Xfer /\ FrameOK(s, 1) /\ f = chan[s][1] /\ f \in Frame
  BY <1>1, AfterTake
<1>3. chan' \in [Sender -> Seq(Frame)]
  BY <1>1, TakeAt
<1>4. f.type \in {"START", "CHUNK", "END", "ABORT"} /\ From(x) = s
  BY <1>2, PairXfer DEF Frame
<1> QED
  BY <1>2, <1>3, <1>4 DEF FrameOK

\* Nothing is left behind in what is under way.
LEMMA LeftBehind ==
  ASSUME IInv, NEW s \in Sender, NEW f, NEW x, chan[s] # <<>>, f = Head(chan[s]),
         x = <<s, f.id>>, chan' = [chan EXCEPT ![s] = Tail(@)]
  PROVE  /\ Under(x) /\ UnderAs(x, f.type) /\ ~UnderAs(x, "START")'
         /\ f.type = "END" => ~Under(x)' /\ \A i \in Chunk : ~Flying(x, i)
         /\ \A y \in Xfer :
              /\ Under(y)' => Under(y)
              /\ \A t \in {"START", "END"} : UnderAs(y, t)' => UnderAs(y, t)
              /\ \A i \in Chunk : Flying(y, i) =>
                   Flying(y, i)' \/ (f.type = "CHUNK" /\ f.body = <<y, i>>)
<1>1. TypeOK /\ Frames
  BY DEF IInv
<1> QED
  BY <1>1, AfterTake

\* What was complete stays complete, if the buffer of x is kept as long as x is
\* in the map, the chunk that is taken is put in it or missed, and only a START
\* puts x in the map.
LEMMA TakeComplete ==
  ASSUME IInv, NEW s \in Sender, NEW f, NEW x, chan[s] # <<>>, f = Head(chan[s]),
         x = <<s, f.id>>, chan' = [chan EXCEPT ![s] = Tail(@)],
         UNCHANGED <<sending, up>>, Only(x, f),
         x \in recvs' => x \in recvs \/ f.type = "START",
         x \in recvs' => got[x] \subseteq got'[x],
         missed[x] \subseteq missed'[x],
         x \in recvs' /\ f.type = "CHUNK" => f.body \in got'[x] \/ f.body[2] \in missed'[x]
  PROVE  Complete'
<1>1. /\ UnderAs(x, f.type) /\ ~UnderAs(x, "START")'
      /\ \A y \in Xfer :
           /\ \A t \in {"START", "END"} : UnderAs(y, t)' => UnderAs(y, t)
           /\ \A i \in Chunk : Flying(y, i) =>
                Flying(y, i)' \/ (f.type = "CHUNK" /\ f.body = <<y, i>>)
  BY LeftBehind
<1>2. UNCHANGED <<pos, up>>
  BY DEF sending
<1> SUFFICES ASSUME NEW y \in Xfer, y \in recvs' \/ UnderAs(y, "START")',
                    up[From(y)] \/ UnderAs(y, "END")', NEW i \in 1..pos[y]
             PROVE  i \in missed'[y] \/ <<y, i>> \in got'[y] \/ Flying(y, i)'
  BY <1>2 DEF Complete
<1>3. i \in Chunk /\ f.type \in {"START", "CHUNK", "END", "ABORT"}
  <2>1. f.type \in {"START", "CHUNK", "END", "ABORT"}
    BY Taken
  <2>2. pos[y] \in 0..MaxChunks
    BY DEF IInv, TypeOK
  <2> QED
    BY <2>1, <2>2, TransferAssumption DEF Chunk
<1>4. up[From(y)] \/ UnderAs(y, "END")
  BY <1>1
<1>5. CASE y = x
  <2>1. x \in recvs'
    BY <1>1, <1>5
  <2>2. x \in recvs \/ UnderAs(x, "START")
    BY <2>1, <1>1
  <2>3. i \in missed[y] \/ <<y, i>> \in got[y] \/ Flying(y, i)
    BY <2>2, <1>4, <1>5 DEF IInv, Complete
  <2>4. CASE f.type = "CHUNK" /\ f.body = <<y, i>>
    <3>1. f.body[2] = i
      BY <2>4
    <3> QED
      BY <3>1, <2>1, <2>4, <1>5
  <2>5. CASE ~(f.type = "CHUNK" /\ f.body = <<y, i>>)
    <3>1. Flying(y, i) => Flying(y, i)'
      BY <2>5, <1>1, <1>3
    <3> QED
      BY <3>1, <2>1, <2>3, <1>5
  <2> QED
    BY <2>4, <2>5
<1>6. CASE y # x
  <2>1. missed'[y] = missed[y] /\ got'[y] = got[y] /\ (y \in recvs' <=> y \in recvs)
    BY <1>6 DEF Only
  <2>2. y \in recvs \/ UnderAs(y, "START")
    BY <2>1, <1>1
  <2>3. i \in missed[y] \/ <<y, i>> \in got[y] \/ Flying(y, i)
    BY <2>2, <1>4 DEF IInv, Complete
  <2>4. ~(f.type = "CHUNK" /\ f.body = <<y, i>>)
    <3> SUFFICES ASSUME f.type = "CHUNK", f.body = <<y, i>> PROVE FALSE
      OBVIOUS
    <3>1. PICK j \in 1..pos[x] : f.body = <<x, j>>
      BY Taken
    <3> QED
      BY <3>1, <1>6
  <2> QED
    BY <2>1, <2>3, <2>4, <1>1, <1>3
<1> QED
  BY <1>5, <1>6

\* A transfer that is whole, and of which something is under way, is not x.
LEMMA WholeStays ==
  ASSUME IInv, NEW s \in Sender, NEW f, NEW x, chan[s] # <<>>, f = Head(chan[s]),
         x = <<s, f.id>>, chan' = [chan EXCEPT ![s] = Tail(@)],
         UNCHANGED sending, Only(x, f),
         NEW y \in Xfer, NEW B, Whole(y, B)
  PROVE  y # x /\ Whole(y, B)'
<1>1. y # x /\ ~Under(y)'
  BY LeftBehind DEF Whole
<1>2. pump' = pump /\ file' = file /\ missed'[y] = missed[y]
  BY <1>1 DEF sending, Only
<1> QED
  BY <1>1, <1>2 DEF Whole, Sent

\* A report on a transfer whose START has been taken disturbs no frame.
LEMMA ReportFrames ==
  ASSUME IInv, NEW x, report[x] # "none", \A y \in Xfer : y # x => report'[y] = report[y],
         UNCHANGED <<pump, pos, chan, recvs, got, missed>>
  PROVE  Frames'
<1> SUFFICES ASSUME NEW s \in Sender, NEW k \in At(s) PROVE FrameOK(s, k)'
  BY DEF Frames, At
<1>1. FrameOK(s, k)
  BY DEF IInv, Frames
<1>2. chan[s][k].type = "START" => report'[<<s, chan[s][k].id>>] = "none"
  BY <1>1 DEF FrameOK
<1> QED
  BY <1>1, <1>2 DEF FrameOK, At

LEMMA SameComplete ==
  ASSUME IInv, UNCHANGED <<pos, chan, up, recvs, got, missed>>
  PROVE  Complete'
<1> SUFFICES ASSUME NEW y \in Xfer, y \in recvs \/ UnderAs(y, "START")',
                    up[From(y)] \/ UnderAs(y, "END")', NEW i \in 1..pos[y]
             PROVE  i \in missed[y] \/ <<y, i>> \in got[y] \/ Flying(y, i)'
  BY DEF Complete
<1>1. UnderAs(y, "START")' = UnderAs(y, "START") /\ UnderAs(y, "END")' = UnderAs(y, "END")
      /\ Flying(y, i)' = Flying(y, i)
  BY DEF UnderAs, Flying, Of, At
<1> QED
  BY <1>1 DEF IInv, Complete

LEMMA onStartInv ==
  ASSUME IInv, NEW s \in Sender, onStart(s)
  PROVE  IInv'
<1>1. PICK f \in HeadOf(s) :
        /\ chan[s] # <<>> /\ f = Head(chan[s]) /\ chan' = [chan EXCEPT ![s] = Tail(@)]
        /\ f.type = "START" /\ recvs' = recvs \union {<<s, f.id>>}
        /\ got' = [got EXCEPT ![<<s, f.id>>] = {}]
        /\ report' = [report EXCEPT ![<<s, f.id>>] = "open"]
        /\ told' = [told EXCEPT ![<<s, f.id>>] = {}]
  BY DEF onStart, Takes, Reports
<1> DEFINE x == <<s, f.id>>
<1>2. UNCHANGED <<nextID, pump, pos, file, cancelled, up, saving, disk, missed>> /\ UNCHANGED sending
  BY DEF onStart, sending
<1>3. /\ chan' \in [Sender -> Seq(Frame)] /\ x \in Xfer /\ From(x) = s /\ pump[x] # "none"
      /\ f.type = "START" => report[x] = "none" /\ x \notin recvs
      /\ f.type = "CHUNK" => \E i \in 1..pos[x] :
           f.body = <<x, i>> /\ i \notin missed[x] /\ f.body \notin got[x]
      /\ f.type = "END" => pump[x] = "done"
  BY <1>1, Taken
<1>4. /\ got'[x] = {} /\ report'[x] = "open" /\ told'[x] = {} /\ x \in recvs'
      /\ report[x] = "none" /\ x \notin recvs /\ got[x] = {}
      /\ \A y \in Xfer : y # x => /\ got'[y] = got[y] /\ report'[y] = report[y]
                                  /\ told'[y] = told[y] /\ (y \in recvs' <=> y \in recvs)
  BY <1>1, <1>3 DEF IInv, TypeOK, Buffers
<1>5. Only(x, f)
  BY <1>2, <1>4 DEF Only
<1>6. TypeOK'
  BY <1>1, <1>2, <1>3 DEF IInv, TypeOK
<1>7. Frames'
  BY <1>1, <1>2, <1>5, TakeFrames
<1>8. Pumps'
  BY <1>2, <1>3, <1>4 DEF IInv, Pumps
<1>9. Buffers'
  <2> SUFFICES ASSUME NEW y \in Xfer
               PROVE  /\ got'[y] \subseteq Sent(y, pos[y])
                      /\ y \in recvs' => report'[y] = "open"
                      /\ y \notin recvs' => got'[y] = {}
                      /\ report'[y] # "saved" => told'[y] = {}
    BY <1>2 DEF Buffers, Sent
  <2> QED
    BY <1>4 DEF IInv, Buffers
<1>10. Complete'
  BY <1>1, <1>2, <1>4, <1>5, TakeComplete
<1>11. ASSUME NEW y \in Xfer, NEW B, Whole(y, B) PROVE y # x /\ Whole(y, B)'
  BY <1>1, <1>2, <1>5, <1>11, WholeStays
<1>12. Saving'
  <2> SUFFICES ASSUME NEW r \in Sender, saving[r] # NoSave, NEW y, y = saving[r][1], NEW B, B = saving[r][3]
               PROVE  From(y) = r /\ y \notin recvs' /\ report'[y] = "open" /\ Whole(y, B)'
    BY <1>2 DEF Saving
  <2>1. From(y) = r /\ y \notin recvs /\ report[y] = "open" /\ Whole(y, B)
    BY DEF IInv, Saving
  <2>2. y \in Xfer
    BY SavingTuple DEF IInv
  <2>3. y # x /\ Whole(y, B)'
    BY <2>1, <2>2, <1>11
  <2> QED
    BY <2>1, <2>2, <2>3, <1>4
<1>13. Saved'
  <2> SUFFICES ASSUME NEW y \in Xfer, report'[y] = "saved", NEW B, B = told'[y] PROVE Whole(y, B)'
    BY DEF Saved
  <2>1. report[y] = "saved" /\ B = told[y]
    BY <1>4
  <2>2. Whole(y, B)
    BY <2>1 DEF IInv, Saved
  <2> QED
    BY <2>2, <1>11
<1> QED
  BY <1>6, <1>7, <1>8, <1>9, <1>10, <1>12, <1>13 DEF IInv

LEMMA onChunkInv ==
  ASSUME IInv, NEW s \in Sender, onChunk(s)
  PROVE  IInv'
<1>1. PICK f \in HeadOf(s) :
        /\ chan[s] # <<>> /\ f = Head(chan[s]) /\ chan' = [chan EXCEPT ![s] = Tail(@)]
        /\ f.type = "CHUNK" /\ saving[s] = NoSave
        /\ got' = IF <<s, f.id>> \in recvs THEN [got EXCEPT ![<<s, f.id>>] = @ \union {f.body}] ELSE got
  BY DEF onChunk, Takes, Reports, HeadOf
<1> DEFINE x == <<s, f.id>>
<1>2. UNCHANGED <<nextID, pump, pos, file, cancelled, up, recvs, saving, disk, report, told, missed>> /\ UNCHANGED sending
  BY DEF onChunk, sending, receiving
<1>3. /\ chan' \in [Sender -> Seq(Frame)] /\ x \in Xfer /\ From(x) = s /\ pump[x] # "none"
      /\ f.type = "START" => report[x] = "none" /\ x \notin recvs
      /\ f.type = "CHUNK" => \E i \in 1..pos[x] :
           f.body = <<x, i>> /\ i \notin missed[x] /\ f.body \notin got[x]
      /\ f.type = "END" => pump[x] = "done"
  BY <1>1, Taken
<1>4. /\ got'[x] = IF x \in recvs THEN got[x] \union {f.body} ELSE got[x]
      /\ \A y \in Xfer : y # x => got'[y] = got[y]
  BY <1>1, <1>3 DEF IInv, TypeOK
<1>5. Only(x, f)
  BY <1>1, <1>2, <1>4 DEF Only
<1>6. TypeOK'
  <2>1. f.body \in Body
    <3>1. PICK i \in 1..pos[x] : f.body = <<x, i>>
      BY <1>1, <1>3
    <3>2. i \in Chunk
      BY <1>3, TransferAssumption DEF IInv, TypeOK, Chunk
    <3>3. x \in Xfer
      BY <1>3
    <3> HIDE DEF x
    <3> QED
      BY <3>1, <3>2, <3>3 DEF Body
  <2>2. got' \in [Xfer -> SUBSET Body]
    BY <2>1, <1>1, <1>3 DEF IInv, TypeOK
  <2> QED
    BY <2>2, <1>2, <1>3 DEF IInv, TypeOK
<1>7. Frames'
  BY <1>1, <1>2, <1>5, TakeFrames
<1>8. Pumps'
  BY <1>2 DEF IInv, Pumps
<1>9. Buffers'
  <2> SUFFICES ASSUME NEW y \in Xfer
               PROVE  /\ got'[y] \subseteq Sent(y, pos[y])'
                      /\ y \in recvs' => report'[y] = "open"
                      /\ y \notin recvs' => got'[y] = {}
                      /\ report'[y] # "saved" => told'[y] = {}
    BY <1>2 DEF Buffers
  <2>1. CASE y = x /\ x \in recvs
    <3>1. f.body \in Sent(x, pos[x])
      BY <1>1, <1>3 DEF Sent
    <3> QED
      BY <3>1, <2>1, <1>2, <1>4 DEF IInv, Buffers, Sent
  <2>2. CASE ~(y = x /\ x \in recvs)
    BY <2>2, <1>2, <1>4 DEF IInv, Buffers, Sent
  <2> QED
    BY <2>1, <2>2
<1>10. Complete'
  <2>1. x \in recvs' => got[x] \subseteq got'[x] /\ f.body \in got'[x]
    BY <1>2, <1>4
  <2> QED
    BY <2>1, <1>1, <1>2, <1>5, TakeComplete
<1>11. ASSUME NEW y \in Xfer, NEW B, Whole(y, B) PROVE y # x /\ Whole(y, B)'
  BY <1>1, <1>2, <1>5, <1>11, WholeStays
<1>12. Saving'
  <2> SUFFICES ASSUME NEW r \in Sender, saving[r] # NoSave, NEW y, y = saving[r][1], NEW B, B = saving[r][3]
               PROVE  From(y) = r /\ y \notin recvs' /\ report'[y] = "open" /\ Whole(y, B)'
    BY <1>2 DEF Saving
  <2>1. From(y) = r /\ y \notin recvs /\ report[y] = "open" /\ Whole(y, B)
    BY DEF IInv, Saving
  <2>2. y \in Xfer
    BY SavingTuple DEF IInv
  <2>3. y # x /\ Whole(y, B)'
    BY <2>1, <2>2, <1>11
  <2> QED
    BY <2>1, <2>2, <2>3, <1>2, <1>4
<1>13. Saved'
  <2> SUFFICES ASSUME NEW y \in Xfer, report'[y] = "saved", NEW B, B = told'[y] PROVE Whole(y, B)'
    BY DEF Saved
  <2>1. report[y] = "saved" /\ B = told[y]
    BY <1>2, <1>4
  <2>2. Whole(y, B)
    BY <2>1 DEF IInv, Saved
  <2> QED
    BY <2>2, <1>11
<1> QED
  BY <1>6, <1>7, <1>8, <1>9, <1>10, <1>12, <1>13 DEF IInv


LEMMA onEndInv ==
  ASSUME IInv, NEW s \in Sender, onEnd(s)
  PROVE  IInv'
<1>1. PICK f \in HeadOf(s) :
        /\ chan[s] # <<>> /\ f = Head(chan[s]) /\ chan' = [chan EXCEPT ![s] = Tail(@)]
        /\ f.type = "END" /\ saving[s] = NoSave
        /\ recvs' = recvs \ {<<s, f.id>>}
        /\ got' = [got EXCEPT ![<<s, f.id>>] = {}]
        /\ saving' = [saving EXCEPT ![s] =
             IF <<s, f.id>> \in recvs
             THEN <<<<s, f.id>>, SavePath(file[<<s, f.id>>].name), got[<<s, f.id>>]>> ELSE NoSave]
  BY DEF onEnd, Takes, Reports, HeadOf
<1> DEFINE x == <<s, f.id>>
<1>2. UNCHANGED <<nextID, pump, pos, file, cancelled, up, disk, report, told, missed>> /\ UNCHANGED sending
  BY DEF onEnd, sending, receiving
<1>3. /\ chan' \in [Sender -> Seq(Frame)] /\ x \in Xfer /\ From(x) = s /\ pump[x] # "none"
      /\ f.type = "START" => report[x] = "none" /\ x \notin recvs
      /\ f.type = "CHUNK" => \E i \in 1..pos[x] :
           f.body = <<x, i>> /\ i \notin missed[x] /\ f.body \notin got[x]
      /\ f.type = "END" => pump[x] = "done"
  BY <1>1, Taken
<1>4. /\ got'[x] = {} /\ x \notin recvs' /\ pump[x] = "done" /\ ~Under(x)'
      /\ saving'[s] = IF x \in recvs THEN <<x, SavePath(file[x].name), got[x]>> ELSE NoSave
      /\ \A r \in Sender : r # s => saving'[r] = saving[r]
      /\ \A y \in Xfer : y # x => got'[y] = got[y] /\ (y \in recvs' <=> y \in recvs)
  <2>1. ~Under(x)'
    BY <1>1, LeftBehind
  <2> QED
    BY <2>1, <1>1, <1>3 DEF IInv, TypeOK
<1>5. Only(x, f)
  BY <1>1, <1>2, <1>4 DEF Only
<1>6. TypeOK'
  <2>1. file[x].name \in Name
    BY <1>3 DEF IInv, Pumps
  <2>2. SavePath(file[x].name) \in Path /\ got[x] \in SUBSET Body
    BY <2>1, <1>3, PathOf DEF IInv, TypeOK
  <2>3. <<x, SavePath(file[x].name), got[x]>> \in Xfer \X Path \X SUBSET Body
    BY <2>2, <1>3
  <2>4. saving' \in [Sender -> (Xfer \X Path \X SUBSET Body) \union {NoSave}]
    BY <2>3, <1>1 DEF IInv, TypeOK
  <2>5. got' \in [Xfer -> SUBSET Body] /\ recvs' \subseteq Xfer
    BY <1>1, <1>3 DEF IInv, TypeOK
  <2> QED
    BY <2>4, <2>5, <1>2, <1>3 DEF IInv, TypeOK
<1>7. Frames'
  BY <1>1, <1>2, <1>5, TakeFrames
<1>8. Pumps'
  BY <1>2, <1>3, <1>4 DEF IInv, Pumps
<1>9. Buffers'
  <2> SUFFICES ASSUME NEW y \in Xfer
               PROVE  /\ got'[y] \subseteq Sent(y, pos[y])'
                      /\ y \in recvs' => report'[y] = "open"
                      /\ y \notin recvs' => got'[y] = {}
                      /\ report'[y] # "saved" => told'[y] = {}
    BY <1>2 DEF Buffers
  <2> QED
    BY <1>2, <1>3, <1>4 DEF IInv, Buffers, Sent
<1>10. Complete'
  BY <1>1, <1>2, <1>4, <1>5, TakeComplete
<1>11. ASSUME NEW y \in Xfer, NEW B, Whole(y, B) PROVE y # x /\ Whole(y, B)'
  BY <1>1, <1>2, <1>5, <1>11, WholeStays
<1>12. Saving'
  <2> SUFFICES ASSUME NEW r \in Sender, saving'[r] # NoSave, NEW y, y = saving'[r][1], NEW B, B = saving'[r][3]
               PROVE  From(y) = r /\ y \notin recvs' /\ report'[y] = "open" /\ Whole(y, B)'
    BY DEF Saving
  <2>1. CASE r = s
    <3>1. x \in recvs /\ y = x /\ B = got[x]
      BY <2>1, <1>4
    <3>2. report[x] = "open" /\ got[x] \subseteq Sent(x, pos[x]) /\ pos[x] = file[x].len
      BY <3>1, <1>3, <1>4 DEF IInv, Buffers, Pumps
    <3>3. UnderAs(x, "END") /\ \A i \in Chunk : ~Flying(x, i)
      BY <1>1, LeftBehind
    <3>4. ASSUME NEW i \in 1..pos[x] PROVE i \in missed[x] \/ <<x, i>> \in got[x]
      <4>1. i \in missed[x] \/ <<x, i>> \in got[x] \/ Flying(x, i)
        BY <3>1, <3>3, <1>3 DEF IInv, Complete
      <4>2. i \in Chunk
        BY <1>3, TransferAssumption DEF IInv, TypeOK, Chunk
      <4> QED
        BY <4>1, <4>2, <3>3
    <3>5. B = {<<x, i>> : i \in (1..file[x].len) \ missed[x]}
      BY <3>1, <3>2, <3>4 DEF Sent
    <3>6. Whole(x, B)'
      BY <3>5, <1>2, <1>4 DEF Whole, Sent
    <3> QED
      BY <2>1, <3>1, <3>2, <3>6, <1>2, <1>3, <1>4
  <2>2. CASE r # s
    <3>1. saving[r] # NoSave /\ y = saving[r][1] /\ B = saving[r][3]
      BY <2>2, <1>4
    <3>2. From(y) = r /\ y \notin recvs /\ report[y] = "open" /\ Whole(y, B)
      BY <3>1 DEF IInv, Saving
    <3>3. y \in Xfer
      BY <3>1, SavingTuple DEF IInv
    <3>4. y # x /\ Whole(y, B)'
      BY <3>2, <3>3, <1>11
    <3> QED
      BY <3>2, <3>3, <3>4, <1>2, <1>4
  <2> QED
    BY <2>1, <2>2
<1>13. Saved'
  <2> SUFFICES ASSUME NEW y \in Xfer, report'[y] = "saved", NEW B, B = told'[y] PROVE Whole(y, B)'
    BY DEF Saved
  <2>1. report[y] = "saved" /\ B = told[y]
    BY <1>2, <1>4
  <2>2. Whole(y, B)
    BY <2>1 DEF IInv, Saved
  <2> QED
    BY <2>2, <1>11
<1> QED
  BY <1>6, <1>7, <1>8, <1>9, <1>10, <1>12, <1>13 DEF IInv


LEMMA onAbortInv ==
  ASSUME IInv, NEW s \in Sender, onAbort(s)
  PROVE  IInv'
<1>1. PICK f \in HeadOf(s) :
        /\ chan[s] # <<>> /\ f = Head(chan[s]) /\ chan' = [chan EXCEPT ![s] = Tail(@)]
        /\ f.type = "ABORT" /\ saving[s] = NoSave
        /\ recvs' = recvs \ {<<s, f.id>>}
        /\ got' = [got EXCEPT ![<<s, f.id>>] = {}]
        /\ IF <<s, f.id>> \in recvs
           THEN /\ report' = [report EXCEPT ![<<s, f.id>>] = "dropped"]
                /\ told' = [told EXCEPT ![<<s, f.id>>] = {}]
           ELSE UNCHANGED <<report, told>>
  BY DEF onAbort, Takes, Reports, HeadOf
<1> DEFINE x == <<s, f.id>>
<1>2. UNCHANGED <<nextID, pump, pos, file, cancelled, up, saving, disk, missed>> /\ UNCHANGED sending
  BY DEF onAbort, sending, receiving
<1>3. /\ chan' \in [Sender -> Seq(Frame)] /\ x \in Xfer /\ From(x) = s /\ pump[x] # "none"
      /\ f.type = "START" => report[x] = "none" /\ x \notin recvs
      /\ f.type = "CHUNK" => \E i \in 1..pos[x] :
           f.body = <<x, i>> /\ i \notin missed[x] /\ f.body \notin got[x]
      /\ f.type = "END" => pump[x] = "done"
  BY <1>1, Taken
<1>4. /\ got'[x] = {} /\ x \notin recvs'
      /\ report'[x] = IF x \in recvs THEN "dropped" ELSE report[x]
      /\ told'[x] = IF x \in recvs THEN {} ELSE told[x]
      /\ \A y \in Xfer : y # x => /\ got'[y] = got[y] /\ report'[y] = report[y]
                                  /\ told'[y] = told[y] /\ (y \in recvs' <=> y \in recvs)
  BY <1>1, <1>3 DEF IInv, TypeOK
<1>5. Only(x, f)
  BY <1>2, <1>4 DEF Only
<1>6. TypeOK'
  <2>1. got' \in [Xfer -> SUBSET Body] /\ recvs' \subseteq Xfer
    BY <1>1, <1>3 DEF IInv, TypeOK
  <2>2. report' \in [Xfer -> {"none", "open", "saved", "dropped"}] /\ told' \in [Xfer -> SUBSET Body]
    BY <1>1, <1>3 DEF IInv, TypeOK
  <2> QED
    BY <2>1, <2>2, <1>2, <1>3 DEF IInv, TypeOK
<1>7. Frames'
  BY <1>1, <1>2, <1>5, TakeFrames
<1>8. Pumps'
  BY <1>2, <1>3, <1>4 DEF IInv, Pumps
<1>9. Buffers'
  <2> SUFFICES ASSUME NEW y \in Xfer
               PROVE  /\ got'[y] \subseteq Sent(y, pos[y])'
                      /\ y \in recvs' => report'[y] = "open"
                      /\ y \notin recvs' => got'[y] = {}
                      /\ report'[y] # "saved" => told'[y] = {}
    BY <1>2 DEF Buffers
  <2> QED
    BY <1>2, <1>3, <1>4 DEF IInv, Buffers, Sent
<1>10. Complete'
  BY <1>1, <1>2, <1>4, <1>5, TakeComplete
<1>11. ASSUME NEW y \in Xfer, NEW B, Whole(y, B) PROVE y # x /\ Whole(y, B)'
  BY <1>1, <1>2, <1>5, <1>11, WholeStays
<1>12. Saving'
  <2> SUFFICES ASSUME NEW r \in Sender, saving[r] # NoSave, NEW y, y = saving[r][1], NEW B, B = saving[r][3]
               PROVE  From(y) = r /\ y \notin recvs' /\ report'[y] = "open" /\ Whole(y, B)'
    BY <1>2 DEF Saving
  <2>1. From(y) = r /\ y \notin recvs /\ report[y] = "open" /\ Whole(y, B)
    BY DEF IInv, Saving
  <2>2. y \in Xfer
    BY SavingTuple DEF IInv
  <2>3. y # x /\ Whole(y, B)'
    BY <2>1, <2>2, <1>11
  <2> QED
    BY <2>1, <2>2, <2>3, <1>2, <1>4
<1>13. Saved'
  <2> SUFFICES ASSUME NEW y \in Xfer, report'[y] = "saved", NEW B, B = told'[y] PROVE Whole(y, B)'
    BY DEF Saved
  <2>1. report[y] = "saved" /\ B = told[y]
    BY <1>2, <1>4
  <2>2. Whole(y, B)
    BY <2>1 DEF IInv, Saved
  <2> QED
    BY <2>2, <1>11
<1> QED
  BY <1>6, <1>7, <1>8, <1>9, <1>10, <1>12, <1>13 DEF IInv


LEMMA DropFrameInv ==
  ASSUME IInv, NEW s \in Sender, DropFrame(s)
  PROVE  IInv'
<1>1. PICK f \in HeadOf(s) :
        /\ chan[s] # <<>> /\ f = Head(chan[s]) /\ chan' = [chan EXCEPT ![s] = Tail(@)]
        /\ missed' = [missed EXCEPT ![<<s, f.id>>] =
                        @ \union {IF f.type = "CHUNK" THEN f.body[2] ELSE 0}]
  BY DEF DropFrame, Takes, Reports, HeadOf
<1> DEFINE x == <<s, f.id>>
<1>2. UNCHANGED <<nextID, pump, pos, file, cancelled, up, recvs, got, saving, disk, report, told>> /\ UNCHANGED sending
  BY DEF DropFrame, sending, receiving
<1>3. /\ chan' \in [Sender -> Seq(Frame)] /\ x \in Xfer /\ From(x) = s /\ pump[x] # "none"
      /\ f.type = "START" => report[x] = "none" /\ x \notin recvs
      /\ f.type = "CHUNK" => \E i \in 1..pos[x] :
           f.body = <<x, i>> /\ i \notin missed[x] /\ f.body \notin got[x]
      /\ f.type = "END" => pump[x] = "done"
  BY <1>1, Taken
<1>4. /\ missed'[x] = missed[x] \union {IF f.type = "CHUNK" THEN f.body[2] ELSE 0}
      /\ (IF f.type = "CHUNK" THEN f.body[2] ELSE 0) \in 0..pos[x]
      /\ \A y \in Xfer : y # x => missed'[y] = missed[y]
      /\ pos[x] \in 0..MaxChunks
      /\ f.type = "CHUNK" => \E i \in 1..pos[x] : f.body[2] = i /\ <<x, f.body[2]>> \notin got[x]
  <2>1. f.type = "CHUNK" => \E i \in 1..pos[x] : f.body[2] = i /\ f.body = <<x, i>> /\ f.body \notin got[x]
    <3> SUFFICES ASSUME f.type = "CHUNK"
                 PROVE  \E i \in 1..pos[x] : f.body[2] = i /\ f.body = <<x, i>> /\ f.body \notin got[x]
      OBVIOUS
    <3>1. PICK i \in 1..pos[x] : f.body = <<x, i>> /\ f.body \notin got[x]
      BY <1>3
    <3>2. f.body[2] = i
      BY <3>1
    <3> QED
      BY <3>1, <3>2
  <2>2. pos[x] \in 0..MaxChunks
    BY <1>3 DEF IInv, TypeOK
  <2>3. (IF f.type = "CHUNK" THEN f.body[2] ELSE 0) \in 0..pos[x]
    <3>1. CASE f.type = "CHUNK"
      BY <3>1, <2>1, <2>2
    <3>2. CASE f.type # "CHUNK"
      BY <3>2, <2>2
    <3> QED
      BY <3>1, <3>2
  <2>4. /\ missed'[x] = missed[x] \union {IF f.type = "CHUNK" THEN f.body[2] ELSE 0}
        /\ \A y \in Xfer : y # x => missed'[y] = missed[y]
    BY <1>1, <1>3 DEF IInv, TypeOK
  <2> QED
    BY <2>1, <2>2, <2>3, <2>4
<1>5. Only(x, f)
  BY <1>2, <1>3, <1>4 DEF Only
<1>6. TypeOK'
  <2>1. missed' \in [Xfer -> SUBSET (0..MaxChunks)]
    <3>1. 0..pos[x] \subseteq 0..MaxChunks
      BY <1>4, TransferAssumption
    <3>2. missed[x] \union {IF f.type = "CHUNK" THEN f.body[2] ELSE 0} \subseteq 0..MaxChunks
      BY <3>1, <1>3, <1>4 DEF IInv, TypeOK
    <3> QED
      BY <3>2, <1>1, <1>3 DEF IInv, TypeOK
  <2> QED
    BY <2>1, <1>2, <1>3 DEF IInv, TypeOK
<1>7. Frames'
  BY <1>1, <1>2, <1>5, TakeFrames
<1>8. Pumps'
  <2> SUFFICES ASSUME NEW y \in Xfer PROVE missed'[y] \subseteq 0..pos[y]
    BY <1>2 DEF IInv, Pumps
  <2> QED
    BY <1>4 DEF IInv, Pumps
<1>9. Buffers'
  <2> SUFFICES ASSUME NEW y \in Xfer
               PROVE  /\ got'[y] \subseteq Sent(y, pos[y])'
                      /\ y \in recvs' => report'[y] = "open"
                      /\ y \notin recvs' => got'[y] = {}
                      /\ report'[y] # "saved" => told'[y] = {}
    BY <1>2 DEF Buffers
  <2>1. CASE y = x
    <3>1. ASSUME f.type = "CHUNK" PROVE <<x, f.body[2]>> \notin got[x]
      BY <3>1, <1>4
    <3>2. ASSUME NEW b \in got[x] PROVE b \in Sent(x, pos[x])'
      <4>1. PICK i \in 1..pos[x] : i \notin missed[x] /\ b = <<x, i>>
        BY <1>3 DEF IInv, Buffers, Sent
      <4>2. i \in Nat /\ i # 0
        BY <1>4
      <4>3. i \notin missed'[x]
        BY <4>1, <4>2, <3>1, <1>4
      <4> QED
        BY <4>1, <4>3, <1>2 DEF Sent
    <3> QED
      BY <3>2, <2>1, <1>2, <1>3 DEF IInv, Buffers
  <2>2. CASE y # x
    BY <2>2, <1>2, <1>4 DEF IInv, Buffers, Sent
  <2> QED
    BY <2>1, <2>2
<1>10. Complete'
  <2>1. f.type = "CHUNK" => f.body[2] \in missed'[x]
    BY <1>4
  <2> QED
    BY <2>1, <1>1, <1>2, <1>4, <1>5, TakeComplete
<1>11. ASSUME NEW y \in Xfer, NEW B, Whole(y, B) PROVE y # x /\ Whole(y, B)'
  BY <1>1, <1>2, <1>5, <1>11, WholeStays
<1>12. Saving'
  <2> SUFFICES ASSUME NEW r \in Sender, saving[r] # NoSave, NEW y, y = saving[r][1], NEW B, B = saving[r][3]
               PROVE  From(y) = r /\ y \notin recvs' /\ report'[y] = "open" /\ Whole(y, B)'
    BY <1>2 DEF Saving
  <2>1. From(y) = r /\ y \notin recvs /\ report[y] = "open" /\ Whole(y, B)
    BY DEF IInv, Saving
  <2>2. y \in Xfer
    BY SavingTuple DEF IInv
  <2>3. y # x /\ Whole(y, B)'
    BY <2>1, <2>2, <1>11
  <2> QED
    BY <2>1, <2>2, <2>3, <1>2, <1>4
<1>13. Saved'
  <2> SUFFICES ASSUME NEW y \in Xfer, report'[y] = "saved", NEW B, B = told'[y] PROVE Whole(y, B)'
    BY DEF Saved
  <2>1. report[y] = "saved" /\ B = told[y]
    BY <1>2, <1>4
  <2>2. Whole(y, B)
    BY <2>1 DEF IInv, Saved
  <2> QED
    BY <2>2, <1>11
<1> QED
  BY <1>6, <1>7, <1>8, <1>9, <1>10, <1>12, <1>13 DEF IInv


LEMMA WriteFileInv ==
  ASSUME IInv, NEW s \in Sender, WriteFile(s)
  PROVE  IInv'
<1>1. PICK x : x = saving[s][1]
  OBVIOUS
<1>2. PICK p : p = saving[s][2]
  OBVIOUS
<1>3. /\ saving[s] # NoSave /\ disk' = [disk EXCEPT ![p] = x]
      /\ report' = [report EXCEPT ![x] = "saved"]
      /\ told' = [told EXCEPT ![x] = saving[s][3]]
      /\ saving' = [saving EXCEPT ![s] = NoSave]
  BY <1>1, <1>2 DEF WriteFile, Reports
<1>4. UNCHANGED <<nextID, pump, pos, file, cancelled, chan, up, recvs, got, missed>>
  BY DEF WriteFile, sending, channel
<1>5. x \in Xfer /\ p \in Path /\ saving[s][3] \subseteq Body
  BY <1>1, <1>2, <1>3, SavingTuple DEF IInv
<1>6. From(x) = s /\ x \notin recvs /\ report[x] = "open" /\ Whole(x, saving[s][3])
  BY <1>1, <1>3 DEF IInv, Saving
<1>7. /\ report'[x] = "saved" /\ told'[x] = saving[s][3] /\ saving'[s] = NoSave
      /\ \A r \in Sender : r # s => saving'[r] = saving[r]
      /\ \A y \in Xfer : y # x => report'[y] = report[y] /\ told'[y] = told[y]
  BY <1>3, <1>5 DEF IInv, TypeOK
<1>8. TypeOK'
  <2>1. disk' \in [Path -> Xfer \union {OldFile, NoFile}]
    BY <1>3, <1>5 DEF IInv, TypeOK
  <2>2. report' \in [Xfer -> {"none", "open", "saved", "dropped"}] /\ told' \in [Xfer -> SUBSET Body]
    BY <1>3, <1>5 DEF IInv, TypeOK
  <2>3. saving' \in [Sender -> (Xfer \X Path \X SUBSET Body) \union {NoSave}]
    BY <1>3 DEF IInv, TypeOK
  <2> QED
    BY <2>1, <2>2, <2>3, <1>4 DEF IInv, TypeOK
<1>9. ASSUME NEW y \in Xfer, NEW B, Whole(y, B) PROVE Whole(y, B)'
  BY <1>4, <1>9 DEF Whole, Sent, Under, Of, At
<1>10. Frames'
  BY <1>4, <1>6, <1>7, ReportFrames DEF IInv
<1>11. Pumps'
  <2>1. pump[x] # "none"
    BY <1>5, <1>6 DEF IInv, Pumps
  <2> QED
    BY <2>1, <1>4, <1>7 DEF IInv, Pumps
<1>12. Buffers'
  BY <1>4, <1>6, <1>7 DEF IInv, Buffers, Sent
<1>13. Complete'
  BY <1>4, SameComplete
<1>14. Saving'
  <2> SUFFICES ASSUME NEW r \in Sender, saving'[r] # NoSave, NEW y, y = saving'[r][1], NEW B, B = saving'[r][3]
               PROVE  From(y) = r /\ y \notin recvs' /\ report'[y] = "open" /\ Whole(y, B)'
    BY DEF Saving
  <2>1. r # s /\ saving[r] # NoSave /\ y = saving[r][1] /\ B = saving[r][3]
    BY <1>7
  <2>2. From(y) = r /\ y \notin recvs /\ report[y] = "open" /\ Whole(y, B) /\ y \in Xfer
    BY <2>1, SavingTuple DEF IInv, Saving
  <2> QED
    BY <2>1, <2>2, <1>4, <1>6, <1>7, <1>9
<1>15. Saved'
  <2> SUFFICES ASSUME NEW y \in Xfer, report'[y] = "saved", NEW B, B = told'[y] PROVE Whole(y, B)'
    BY DEF Saved
  <2>1. CASE y = x
    BY <2>1, <1>6, <1>7, <1>9
  <2>2. CASE y # x
    BY <2>2, <1>7, <1>9 DEF IInv, Saved
  <2> QED
    BY <2>1, <2>2
<1> QED
  BY <1>8, <1>10, <1>11, <1>12, <1>13, <1>14, <1>15 DEF IInv

LEMMA WriteFailsInv ==
  ASSUME IInv, NEW s \in Sender, WriteFails(s)
  PROVE  IInv'
<1>1. PICK x : x = saving[s][1]
  OBVIOUS
<1>2. PICK p : p = saving[s][2]
  OBVIOUS
<1>3. /\ saving[s] # NoSave /\ (disk' = disk \/ disk' = [disk EXCEPT ![p] = x])
      /\ report' = [report EXCEPT ![x] = "dropped"] /\ told' = [told EXCEPT ![x] = {}]
      /\ saving' = [saving EXCEPT ![s] = NoSave]
  BY <1>1, <1>2 DEF WriteFails, Reports
<1>4. UNCHANGED <<nextID, pump, pos, file, cancelled, chan, up, recvs, got, missed>>
  BY DEF WriteFails, sending, channel
<1>5. x \in Xfer /\ p \in Path
  BY <1>1, <1>2, <1>3, SavingTuple DEF IInv
<1>6. From(x) = s /\ x \notin recvs /\ report[x] = "open"
  BY <1>1, <1>3 DEF IInv, Saving
<1>7. /\ report'[x] = "dropped" /\ told'[x] = {} /\ saving'[s] = NoSave
      /\ \A r \in Sender : r # s => saving'[r] = saving[r]
      /\ \A y \in Xfer : y # x => report'[y] = report[y] /\ told'[y] = told[y]
  BY <1>3, <1>5 DEF IInv, TypeOK
<1>8. TypeOK'
  <2>1. disk' \in [Path -> Xfer \union {OldFile, NoFile}]
    BY <1>3, <1>5 DEF IInv, TypeOK
  <2>2. report' \in [Xfer -> {"none", "open", "saved", "dropped"}] /\ told' \in [Xfer -> SUBSET Body]
    BY <1>3, <1>5 DEF IInv, TypeOK
  <2>3. saving' \in [Sender -> (Xfer \X Path \X SUBSET Body) \union {NoSave}]
    BY <1>3 DEF IInv, TypeOK
  <2> QED
    BY <2>1, <2>2, <2>3, <1>4 DEF IInv, TypeOK
<1>9. ASSUME NEW y \in Xfer, NEW B, Whole(y, B) PROVE Whole(y, B)'
  BY <1>4, <1>9 DEF Whole, Sent, Under, Of, At
<1>10. Frames'
  BY <1>4, <1>6, <1>7, ReportFrames DEF IInv
<1>11. Pumps'
  <2>1. pump[x] # "none"
    BY <1>5, <1>6 DEF IInv, Pumps
  <2> QED
    BY <2>1, <1>4, <1>7 DEF IInv, Pumps
<1>12. Buffers'
  BY <1>4, <1>6, <1>7 DEF IInv, Buffers, Sent
<1>13. Complete'
  BY <1>4, SameComplete
<1>14. Saving'
  <2> SUFFICES ASSUME NEW r \in Sender, saving'[r] # NoSave, NEW y, y = saving'[r][1], NEW B, B = saving'[r][3]
               PROVE  From(y) = r /\ y \notin recvs' /\ report'[y] = "open" /\ Whole(y, B)'
    BY DEF Saving
  <2>1. r # s /\ saving[r] # NoSave /\ y = saving[r][1] /\ B = saving[r][3]
    BY <1>7
  <2>2. From(y) = r /\ y \notin recvs /\ report[y] = "open" /\ Whole(y, B) /\ y \in Xfer
    BY <2>1, SavingTuple DEF IInv, Saving
  <2> QED
    BY <2>1, <2>2, <1>4, <1>6, <1>7, <1>9
<1>15. Saved'
  <2> SUFFICES ASSUME NEW y \in Xfer, report'[y] = "saved", NEW B, B = told'[y] PROVE Whole(y, B)'
    BY DEF Saved
  <2>1. y # x
    BY <1>7
  <2> QED
    BY <2>1, <1>7, <1>9 DEF IInv, Saved
<1> QED
  BY <1>8, <1>10, <1>11, <1>12, <1>13, <1>14, <1>15 DEF IInv

-----------------------------------------------------------------------------
(* The theorems.                                                           *)

LEMMA InitInv == Init => IInv
<1> SUFFICES ASSUME Init PROVE IInv
  OBVIOUS
<1>1. /\ nextID = [s \in Sender |-> 0] /\ pump = [x \in Xfer |-> "none"] /\ pos = [x \in Xfer |-> 0]
      /\ file = [x \in Xfer |-> [name |-> NoName, len |-> 0]] /\ chan = [s \in Sender |-> <<>>]
      /\ up = [s \in Sender |-> TRUE] /\ recvs = {} /\ got = [x \in Xfer |-> {}]
      /\ saving = [s \in Sender |-> NoSave] /\ report = [x \in Xfer |-> "none"]
      /\ told = [x \in Xfer |-> {}] /\ cancelled = {} /\ missed = [x \in Xfer |-> {}]
  BY DEF Init
<1>2. disk \in [Path -> Xfer \union {OldFile, NoFile}]
  BY DEF Init
<1>3. \A s \in Sender : At(s) = {}
  BY <1>1 DEF At
<1>4. TypeOK
  <2>1. file \in [Xfer -> [name : Name \union {NoName}, len : 0..MaxChunks]] /\ pos \in [Xfer -> 0..MaxChunks]
    BY <1>1, TransferAssumption
  <2>2. chan \in [Sender -> Seq(Frame)] /\ saving \in [Sender -> (Xfer \X Path \X SUBSET Body) \union {NoSave}]
    BY <1>1
  <2>3. /\ nextID \in [Sender -> Nat] /\ pump \in [Xfer -> {"none", "reading", "done", "failed"}]
        /\ up \in [Sender -> BOOLEAN] /\ recvs \subseteq Xfer /\ got \in [Xfer -> SUBSET Body]
        /\ report \in [Xfer -> {"none", "open", "saved", "dropped"}] /\ told \in [Xfer -> SUBSET Body]
        /\ cancelled \subseteq Xfer /\ missed \in [Xfer -> SUBSET (0..MaxChunks)]
    BY <1>1
  <2> QED
    BY <2>1, <2>2, <2>3, <1>2 DEF TypeOK
<1>5. Frames
  BY <1>3 DEF Frames
<1>6. Pumps /\ Buffers /\ Saved
  BY <1>1 DEF Pumps, Buffers, Saved
<1>7. Complete /\ Saving
  BY <1>1 DEF Complete, Saving
<1> QED
  BY <1>4, <1>5, <1>6, <1>7 DEF IInv

LEMMA NextInv == IInv /\ [Next]_vars => IInv'
<1> SUFFICES ASSUME IInv, [Next]_vars PROVE IInv'
  OBVIOUS
<1>1. ASSUME NEW s \in Sender, NEW name \in Name, NEW len \in Length, SendFile(s, name, len) PROVE IInv'
  BY <1>1, SendFileInv
<1>2. ASSUME NEW s \in Sender, HandleFrame(s) PROVE IInv'
  BY <1>2, onStartInv, onChunkInv, onEndInv, WriteFileInv, WriteFailsInv, onAbortInv DEF HandleFrame
<1>3. ASSUME NEW s \in Sender, DropFrame(s) \/ Disconnect(s) PROVE IInv'
  BY <1>3, DropFrameInv, DisconnectInv
<1>4. ASSUME NEW x \in Xfer, PumpChunk(x) \/ PumpEnd(x) \/ ReadFails(x) \/ CancelSend(x) PROVE IInv'
  BY <1>4, PumpChunkInv, PumpEndInv, ReadFailsInv, CancelSendInv
<1>5. CASE UNCHANGED vars
  <2>1. UNCHANGED <<nextID, pump, pos, file, cancelled, chan, up, recvs, got, saving, disk, report, told, missed>>
    BY <1>5 DEF vars, sending, channel, receiving
  <2>2. TypeOK' /\ Pumps' /\ Buffers'
    BY <2>1 DEF IInv, TypeOK, Pumps, Buffers, Sent
  <2>3. Frames'
    BY <2>1 DEF IInv, Frames, FrameOK, At
  <2>4. Complete'
    BY <2>1, SameComplete
  <2>5. Saving' /\ Saved'
    BY <2>1 DEF IInv, Saving, Saved, Whole, Under, Of, At, Sent
  <2> QED
    BY <2>2, <2>3, <2>4, <2>5 DEF IInv
<1> QED
  BY <1>1, <1>2, <1>3, <1>4, <1>5 DEF Next

LEMMA Invariance == Spec => []IInv
BY InitInv, NextInv, PTL DEF Spec

\* A file that is reported saved is whole but for the chunks the connection
\* dropped (transfer.go:179-211, 255-283), and the variables have their types.
THEOREM TransferInvHolds == Spec => []TransferInv
<1>1. IInv => TransferInv
  BY DEF IInv, TransferInv, SavedWhole, Saved, Whole, Sent
<1> QED
  BY <1>1, Invariance, PTL

LEMMA OfferStep ==
  ASSUME IInv, NEW s \in Sender, onStart(s)
  PROVE  Promise!Next
<1>1. PICK f \in HeadOf(s) :
        /\ chan[s] # <<>> /\ f = Head(chan[s]) /\ chan' = [chan EXCEPT ![s] = Tail(@)]
        /\ f.type = "START"
        /\ report' = [report EXCEPT ![<<s, f.id>>] = "open"]
        /\ told' = [told EXCEPT ![<<s, f.id>>] = {}] /\ missed' = missed
  BY DEF onStart, Takes, Reports
<1> DEFINE x == <<s, f.id>>
<1>2. x \in Xfer /\ report[x] = "none"
  BY <1>1, Taken
<1>3. told' = told
  BY <1>1, <1>2 DEF IInv, TypeOK, Buffers
<1>4. Promise!Offer(x)
  BY <1>1, <1>2, <1>3 DEF Promise!Offer
<1> QED
  BY <1>2, <1>4 DEF Promise!Next

LEMMA SaveStep ==
  ASSUME IInv, NEW s \in Sender, WriteFile(s)
  PROVE  Promise!Next
<1>1. PICK x : x = saving[s][1]
  OBVIOUS
<1>2. /\ saving[s] # NoSave /\ report' = [report EXCEPT ![x] = "saved"]
      /\ told' = [told EXCEPT ![x] = saving[s][3]] /\ missed' = missed
  BY <1>1 DEF WriteFile, Reports
<1>3. x \in Xfer /\ report[x] = "open" /\ saving[s][3] = Sent(x, file[x].len)
  BY <1>1, <1>2, SavingTuple DEF IInv, Saving, Whole
<1>4. PICK n : n = file[x].len
  OBVIOUS
<1>5. n \in 0..MaxChunks
  BY <1>3, <1>4 DEF IInv, TypeOK
<1>6. n \in Chunk \union {0} /\ 1..n = {j \in Chunk : j <= n}
  BY <1>5, TransferAssumption DEF Chunk
<1>7. told' = [told EXCEPT ![x] = {<<x, i>> : i \in {j \in Chunk : j <= n} \ missed[x]}]
  BY <1>2, <1>3, <1>4, <1>6 DEF Sent
<1>8. Promise!Save(x, n)
  BY <1>2, <1>3, <1>7 DEF Promise!Save
<1> QED
  BY <1>3, <1>6, <1>8 DEF Promise!Next

LEMMA DropStep ==
  ASSUME IInv, NEW x \in Xfer, report[x] = "open", UNCHANGED missed,
         report' = [report EXCEPT ![x] = "dropped"], told' = [told EXCEPT ![x] = {}]
  PROVE  Promise!Next
<1>1. told' = told
  BY DEF IInv, TypeOK, Buffers
<1>2. Promise!Drop(x)
  BY <1>1 DEF Promise!Drop
<1> QED
  BY <1>2 DEF Promise!Next

LEMMA MissStep ==
  ASSUME IInv, NEW s \in Sender, DropFrame(s)
  PROVE  Promise!Next
<1>1. PICK f \in HeadOf(s) :
        /\ chan[s] # <<>> /\ f = Head(chan[s]) /\ chan' = [chan EXCEPT ![s] = Tail(@)]
        /\ missed' = [missed EXCEPT ![<<s, f.id>>] =
                        @ \union {IF f.type = "CHUNK" THEN f.body[2] ELSE 0}]
        /\ UNCHANGED <<report, told>>
  BY DEF DropFrame, HeadOf, receiving
<1>2. PICK x : x = <<s, f.id>>
  OBVIOUS
<1>3. /\ x \in Xfer
      /\ f.type = "CHUNK" => \E i \in 1..pos[x] :
           f.body = <<x, i>> /\ i \notin missed[x] /\ f.body \notin got[x]
  BY <1>1, <1>2, Taken
<1>4. PICK i : i = IF f.type = "CHUNK" THEN f.body[2] ELSE 0
  OBVIOUS
<1>5. i \in Chunk \union {0}
  <2>1. pos[x] \in 0..MaxChunks
    BY <1>3 DEF IInv, TypeOK
  <2>2. CASE f.type = "CHUNK"
    <3>1. PICK j \in 1..pos[x] : f.body = <<x, j>>
      BY <2>2, <1>3
    <3>2. i = j
      BY <3>1, <2>2, <1>4
    <3> QED
      BY <3>2, <2>1, TransferAssumption DEF Chunk
  <2>3. CASE f.type # "CHUNK"
    BY <2>3, <1>4
  <2> QED
    BY <2>2, <2>3
<1>6. Promise!Miss(x, i)
  BY <1>1, <1>2, <1>4 DEF Promise!Miss
<1> QED
  BY <1>3, <1>5, <1>6 DEF Promise!Next

LEMMA StepKeepsPromise == IInv /\ [Next]_vars => [Promise!Next]_Promise!vars
<1> SUFFICES ASSUME IInv, [Next]_vars PROVE Promise!Next \/ UNCHANGED <<report, told, missed>>
  BY DEF Promise!vars
<1>1. ASSUME NEW s \in Sender, HandleFrame(s) PROVE Promise!Next \/ UNCHANGED <<report, told, missed>>
  <2>1. CASE onStart(s)
    BY <2>1, OfferStep
  <2>2. CASE onChunk(s) \/ onEnd(s)
    BY <2>2 DEF onChunk, onEnd
  <2>3. CASE WriteFile(s)
    BY <2>3, SaveStep
  <2>4. CASE WriteFails(s)
    <3>1. PICK x : x = saving[s][1]
      OBVIOUS
    <3>2. x \in Xfer /\ report[x] = "open" /\ UNCHANGED missed
          /\ report' = [report EXCEPT ![x] = "dropped"] /\ told' = [told EXCEPT ![x] = {}]
      BY <2>4, <3>1, SavingTuple DEF WriteFails, Reports, IInv, Saving
    <3> QED
      BY <3>2, DropStep
  <2>5. CASE onAbort(s)
    <3>1. PICK f \in HeadOf(s) :
            /\ UNCHANGED missed
            /\ IF <<s, f.id>> \in recvs
               THEN /\ report' = [report EXCEPT ![<<s, f.id>>] = "dropped"]
                    /\ told' = [told EXCEPT ![<<s, f.id>>] = {}]
               ELSE UNCHANGED <<report, told>>
      BY <2>5 DEF onAbort, Reports
    <3>2. CASE <<s, f.id>> \in recvs
      <4>1. PICK x : x = <<s, f.id>>
        OBVIOUS
      <4>2. x \in Xfer /\ report[x] = "open"
        BY <3>2, <4>1 DEF IInv, TypeOK, Buffers
      <4> QED
        BY <3>1, <3>2, <4>1, <4>2, DropStep
    <3>3. CASE <<s, f.id>> \notin recvs
      BY <3>1, <3>3
    <3> QED
      BY <3>2, <3>3
  <2> QED
    BY <1>1, <2>1, <2>2, <2>3, <2>4, <2>5 DEF HandleFrame
<1>2. ASSUME NEW s \in Sender, DropFrame(s) PROVE Promise!Next
  BY <1>2, MissStep
<1>3. ASSUME NEW s \in Sender, NEW name \in Name, NEW len \in Length, SendFile(s, name, len)
      PROVE  UNCHANGED <<report, told, missed>>
  BY <1>3 DEF SendFile, receiving
<1>4. ASSUME NEW s \in Sender, Disconnect(s) PROVE UNCHANGED <<report, told, missed>>
  BY <1>4 DEF Disconnect, receiving
<1>5. ASSUME NEW x \in Xfer, PumpChunk(x) \/ PumpEnd(x) \/ ReadFails(x) \/ CancelSend(x)
      PROVE  UNCHANGED <<report, told, missed>>
  BY <1>5 DEF PumpChunk, PumpEnd, ReadFails, CancelSend, receiving
<1>6. CASE UNCHANGED vars
  BY <1>6 DEF vars, receiving
<1> QED
  BY <1>1, <1>2, <1>3, <1>4, <1>5, <1>6 DEF Next

\* The receiver keeps the promise of Delivery: every offered file is reported
\* saved or dropped at most once, with the parts that were sent and not missed
\* (ProgressEvent, transfer.go:68-82).
THEOREM DeliversHolds == Spec => Delivers
<1>1. Init => Promise!Init
  BY DEF Init, Promise!Init
<1> QED
  BY <1>1, Invariance, StepKeepsPromise, PTL DEF Spec, Delivers, Promise!Spec

\* The path of a file about to be written was free when it was chosen, or every
\* candidate was taken; since then only other senders may have taken it.
Targets ==
  \A s \in Sender : saving[s] # NoSave =>
    LET p == saving[s][2] IN
      \/ disk[p] = NoFile
      \/ disk[p] # OldFile /\ From(disk[p]) # s
      \/ \A i \in 0..MaxCopies - 1 : disk[<<p[1], i>>] # NoFile

LEMMA WriteKeepsTargets ==
  ASSUME IInv, Targets, NEW s \in Sender, saving[s] # NoSave,
         disk' = disk \/ disk' = [disk EXCEPT ![saving[s][2]] = saving[s][1]],
         saving' = [saving EXCEPT ![s] = NoSave]
  PROVE  Targets'
<1> SUFFICES ASSUME NEW r \in Sender, saving'[r] # NoSave, NEW p, p = saving'[r][2]
             PROVE  \/ disk'[p] = NoFile
                    \/ disk'[p] # OldFile /\ From(disk'[p]) # r
                    \/ \A i \in 0..MaxCopies - 1 : disk'[<<p[1], i>>] # NoFile
  BY DEF Targets
<1>1. r # s /\ saving[r] # NoSave /\ p = saving[r][2]
  BY DEF IInv, TypeOK
<1>2. PICK x : x = saving[s][1]
  OBVIOUS
<1>3. x \in Xfer /\ From(x) = s /\ p \in Path /\ x # NoFile /\ x # OldFile
  <2>1. x \in Xfer /\ From(x) = s /\ p \in Path
    BY <1>1, <1>2, SavingTuple DEF IInv, Saving
  <2>2. x = <<From(x), x[2]>> /\ x[2] # 0
    BY <2>1, XferPair
  <2> QED
    <3>1. x # OldFile
      <4>1. OldFile[2] = 0
        BY DEF OldFile
      <4> QED
        BY <4>1, <2>2
    <3>2. <<From(x), x[2]>> # <<>>
      OBVIOUS
    <3> QED
      BY <3>1, <3>2, <2>1, <2>2 DEF NoFile
<1>4. ASSUME NEW q \in Path PROVE disk'[q] = disk[q] \/ disk'[q] = x
  BY <1>2 DEF IInv, TypeOK
<1>5. CASE disk[p] = NoFile \/ (disk[p] # OldFile /\ From(disk[p]) # r)
  BY <1>1, <1>3, <1>4, <1>5
<1>6. CASE \A i \in 0..MaxCopies - 1 : disk[<<p[1], i>>] # NoFile
  <2>1. ASSUME NEW i \in 0..MaxCopies - 1 PROVE <<p[1], i>> \in Path
    BY <1>3 DEF Path
  <2> QED
    BY <2>1, <1>3, <1>4, <1>6
<1> QED
  BY <1>1, <1>5, <1>6 DEF Targets

LEMMA onEndTargets ==
  ASSUME IInv, Targets, NEW s \in Sender, onEnd(s)
  PROVE  Targets'
<1>1. PICK f \in HeadOf(s) :
        /\ chan[s] # <<>> /\ f = Head(chan[s]) /\ chan' = [chan EXCEPT ![s] = Tail(@)]
        /\ saving' = [saving EXCEPT ![s] =
             IF <<s, f.id>> \in recvs
             THEN <<<<s, f.id>>, SavePath(file[<<s, f.id>>].name), got[<<s, f.id>>]>> ELSE NoSave]
        /\ disk' = disk
  BY DEF onEnd, Takes
<1>2. PICK x : x = <<s, f.id>>
  OBVIOUS
<1>3. x \in Xfer /\ file[x].name \in Name
  BY <1>1, <1>2, Taken DEF IInv, Pumps
<1> SUFFICES ASSUME NEW r \in Sender, saving'[r] # NoSave, NEW p, p = saving'[r][2]
             PROVE  \/ disk[p] = NoFile
                    \/ disk[p] # OldFile /\ From(disk[p]) # r
                    \/ \A i \in 0..MaxCopies - 1 : disk[<<p[1], i>>] # NoFile
  BY <1>1 DEF Targets
<1>4. CASE r = s
  <2>1. p = SavePath(file[x].name)
    BY <1>1, <1>2, <1>4 DEF IInv, TypeOK
  <2> QED
    BY <2>1, <1>3, PathOf
<1>5. CASE r # s
  <2>1. saving[r] # NoSave /\ p = saving[r][2]
    BY <1>1, <1>5 DEF IInv, TypeOK
  <2> QED
    BY <2>1 DEF Targets
<1> QED
  BY <1>4, <1>5

LEMMA NextTargets == IInv /\ Targets /\ [Next]_vars => Targets'
<1> SUFFICES ASSUME IInv, Targets, [Next]_vars PROVE Targets'
  OBVIOUS
<1>1. ASSUME NEW s \in Sender, WriteFile(s) \/ WriteFails(s) PROVE Targets'
  <2>1. /\ saving[s] # NoSave /\ saving' = [saving EXCEPT ![s] = NoSave]
        /\ disk' = disk \/ disk' = [disk EXCEPT ![saving[s][2]] = saving[s][1]]
    BY <1>1 DEF WriteFile, WriteFails
  <2> QED
    BY <2>1, WriteKeepsTargets
<1>2. ASSUME UNCHANGED <<saving, disk>> PROVE Targets'
  BY <1>2 DEF Targets
<1>3. ASSUME NEW s \in Sender, onStart(s) \/ onChunk(s) \/ onAbort(s) \/ DropFrame(s) \/ Disconnect(s)
      PROVE  UNCHANGED <<saving, disk>>
  BY <1>3 DEF onStart, onChunk, onAbort, DropFrame, Disconnect, receiving
<1>4. ASSUME NEW s \in Sender, NEW name \in Name, NEW len \in Length, SendFile(s, name, len)
      PROVE  UNCHANGED <<saving, disk>>
  BY <1>4 DEF SendFile, receiving
<1>5. ASSUME NEW x \in Xfer, PumpChunk(x) \/ PumpEnd(x) \/ ReadFails(x) \/ CancelSend(x)
      PROVE  UNCHANGED <<saving, disk>>
  BY <1>5 DEF PumpChunk, PumpEnd, ReadFails, CancelSend, receiving
<1>6. CASE UNCHANGED vars
  BY <1>2, <1>6 DEF vars, receiving
<1> QED
  BY <1>1, <1>2, <1>3, <1>4, <1>5, <1>6, onEndTargets DEF Next, HandleFrame

\* What may become of a path in one step.
Replaces(p) ==
  disk[p] # NoFile /\ disk'[p] # disk[p] =>
    \/ disk[p] # OldFile /\ From(disk'[p]) # From(disk[p])
    \/ \A i \in 0..MaxCopies - 1 : disk[<<p[1], i>>] # NoFile

LEMMA StepReplaces ==
  ASSUME IInv, Targets, [Next]_vars, NEW p \in Path
  PROVE  Replaces(p)
<1>1. ASSUME NEW s \in Sender, WriteFile(s) \/ WriteFails(s) PROVE Replaces(p)
  <2>1. PICK x : x = saving[s][1]
    OBVIOUS
  <2>2. /\ saving[s] # NoSave
        /\ disk' = disk \/ disk' = [disk EXCEPT ![saving[s][2]] = x]
    BY <1>1, <2>1 DEF WriteFile, WriteFails
  <2>3. From(x) = s
    BY <2>1, <2>2 DEF IInv, Saving
  <2> SUFFICES ASSUME disk[p] # NoFile, disk'[p] # disk[p]
               PROVE  \/ disk[p] # OldFile /\ From(disk'[p]) # From(disk[p])
                      \/ \A i \in 0..MaxCopies - 1 : disk[<<p[1], i>>] # NoFile
    BY DEF Replaces
  <2>4. p = saving[s][2] /\ disk'[p] = x
    BY <2>2 DEF IInv, TypeOK
  <2> QED
    BY <2>2, <2>3, <2>4 DEF Targets
<1>2. ASSUME disk' = disk PROVE Replaces(p)
  BY <1>2 DEF Replaces
<1>3. ASSUME NEW s \in Sender,
             onStart(s) \/ onChunk(s) \/ onEnd(s) \/ onAbort(s) \/ DropFrame(s) \/ Disconnect(s)
      PROVE  disk' = disk
  BY <1>3 DEF onStart, onChunk, onEnd, onAbort, DropFrame, Disconnect, receiving
<1>4. ASSUME NEW s \in Sender, NEW name \in Name, NEW len \in Length, SendFile(s, name, len)
      PROVE  disk' = disk
  BY <1>4 DEF SendFile, receiving
<1>5. ASSUME NEW x \in Xfer, PumpChunk(x) \/ PumpEnd(x) \/ ReadFails(x) \/ CancelSend(x)
      PROVE  disk' = disk
  BY <1>5 DEF PumpChunk, PumpEnd, ReadFails, CancelSend, receiving
<1>6. CASE UNCHANGED vars
  BY <1>2, <1>6 DEF vars, receiving
<1> QED
  BY <1>1, <1>2, <1>3, <1>4, <1>5, <1>6 DEF Next, HandleFrame

\* A file that was there is replaced only by another peer's that was on its way
\* at the same time, or when every candidate name is taken (transfer.go:268-270,
\* 374-389).
THEOREM ReplacedByOthersOnlyHolds == Spec => ReplacedByOthersOnly
<1>1. Init => Targets
  BY DEF Init, Targets
<1>2. IInv /\ Targets /\ [Next]_vars => [\A p \in Path : Replaces(p)]_vars
  BY StepReplaces
<1>3. (\A p \in Path : Replaces(p)) <=>
        \A p \in Path : disk[p] # NoFile /\ disk'[p] # disk[p] =>
          \/ disk[p] # OldFile /\ From(disk'[p]) # From(disk[p])
          \/ \A i \in 0..MaxCopies - 1 : disk[<<p[1], i>>] # NoFile
  BY DEF Replaces
<1> QED
  BY <1>1, <1>2, <1>3, Invariance, NextTargets, PTL DEF Spec, ReplacedByOthersOnly

-----------------------------------------------------------------------------
(* Cancellation.                                                           *)

\* An ABORT of x is under way, and no END of x before it.
AbortFirst(x) ==
  \E k \in At(From(x)) :
    /\ Of(From(x), k) = x /\ chan[From(x)][k].type = "ABORT"
    /\ \A l \in 1..k - 1 : ~(Of(From(x), l) = x /\ chan[From(x)][l].type = "END")

\* Why a transfer that was cancelled will not be saved.
Silenced(x) ==
  \/ 0 \in missed[x]
  \/ /\ report[x] # "saved"
     /\ ~(saving[From(x)] # NoSave /\ saving[From(x)][1] = x)
     /\ \/ AbortFirst(x)
        \/ x \notin recvs /\ ~UnderAs(x, "START")
        \/ ~up[From(x)] /\ ~UnderAs(x, "END")

Silent == \A x \in cancelled : pump[x] # "none" /\ Silenced(x)

LEMMA PutAbort ==
  ASSUME TypeOK, NEW x \in Xfer, NEW type \in {"START", "CHUNK", "END", "ABORT"},
         NEW body \in Body \union {<<>>}, Put(x, type, body)
  PROVE  /\ \A y \in Xfer : AbortFirst(y) => AbortFirst(y)'
         /\ type = "ABORT" /\ ~UnderAs(x, "END") => AbortFirst(x)'
<1> DEFINE n == Len(chan[From(x)])
<1>1. /\ From(x) \in Sender /\ x = <<From(x), x[2]>> /\ n \in Nat
      /\ Len(chan'[From(x)]) = n + 1
      /\ \A k \in 1..n : chan'[From(x)][k] = chan[From(x)][k]
      /\ chan'[From(x)][n + 1] = [type |-> type, id |-> x[2], body |-> body]
      /\ \A r \in Sender : r # From(x) => chan'[r] = chan[r]
  BY PutAt, XferPair
<1>2. /\ At(From(x)) = 1..n /\ At(From(x))' = 1..n + 1
      /\ \A r \in Sender : r # From(x) => At(r)' = At(r)
  BY <1>1 DEF At
<1>3. ASSUME NEW y \in Xfer, AbortFirst(y) PROVE AbortFirst(y)'
  <2>1. CASE From(y) = From(x)
    <3>1. PICK k \in 1..n :
            /\ <<From(x), chan[From(x)][k].id>> = y /\ chan[From(x)][k].type = "ABORT"
            /\ \A l \in 1..k - 1 :
                 ~(<<From(x), chan[From(x)][l].id>> = y /\ chan[From(x)][l].type = "END")
      BY <2>1, <1>2, <1>3 DEF AbortFirst, Of
    <3>2. k \in At(From(x))' /\ \A l \in 1..k : chan'[From(x)][l] = chan[From(x)][l]
      BY <1>1, <1>2
    <3>3. /\ chan'[From(x)][k] = chan[From(x)][k]
          /\ \A l \in 1..k - 1 : chan'[From(x)][l] = chan[From(x)][l]
      BY <3>2
    <3> QED
      BY <3>1, <3>2, <3>3, <2>1 DEF AbortFirst, Of
  <2>2. CASE From(y) # From(x)
    <3>1. From(y) \in Sender
      BY XferPair
    <3>2. chan'[From(y)] = chan[From(y)] /\ At(From(y))' = At(From(y))
      BY <3>1, <2>2, <1>1, <1>2
    <3> QED
      BY <3>2, <1>3 DEF AbortFirst, Of
  <2> QED
    BY <2>1, <2>2
<1>4. ASSUME type = "ABORT", ~UnderAs(x, "END") PROVE AbortFirst(x)'
  <2>1. PICK k : k = n + 1
    OBVIOUS
  <2>2. /\ k \in At(From(x))' /\ <<From(x), chan'[From(x)][k].id>> = x
        /\ chan'[From(x)][k].type = "ABORT"
    BY <2>1, <1>1, <1>2, <1>4
  <2>3. ASSUME NEW l \in 1..k - 1
        PROVE  ~(<<From(x), chan'[From(x)][l].id>> = x /\ chan'[From(x)][l].type = "END")
    <3>1. l \in At(From(x)) /\ chan'[From(x)][l] = chan[From(x)][l]
      BY <2>1, <1>1, <1>2
    <3> QED
      BY <3>1, <1>4 DEF UnderAs, Of
  <2> QED
    BY <2>2, <2>3 DEF AbortFirst, Of
<1> QED
  BY <1>3, <1>4

LEMMA AbortAt ==
  ASSUME NEW y, NEW s, From(y) = s, NEW k \in 1..Len(chan'[s]),
         <<s, chan'[s][k].id>> = y, chan'[s][k].type = "ABORT",
         \A l \in 1..k - 1 : ~(<<s, chan'[s][l].id>> = y /\ chan'[s][l].type = "END")
  PROVE  AbortFirst(y)'
BY DEF AbortFirst, Of, At

LEMMA TakeAbort ==
  ASSUME IInv, NEW s \in Sender, NEW f, NEW x, chan[s] # <<>>, f = Head(chan[s]),
         x = <<s, f.id>>, chan' = [chan EXCEPT ![s] = Tail(@)],
         NEW y \in Xfer, AbortFirst(y)
  PROVE  AbortFirst(y)' \/ (y = x /\ f.type = "ABORT")
<1>1. /\ Len(chan[s]) \in Nat /\ Len(chan[s]) >= 1 /\ f = chan[s][1]
      /\ Len(chan'[s]) = Len(chan[s]) - 1
      /\ \A k \in 1..Len(chan[s]) - 1 : chan'[s][k] = chan[s][k + 1]
      /\ \A r \in Sender : r # s => chan'[r] = chan[r]
  BY TakeAt DEF IInv
<1>2. /\ At(s) = 1..Len(chan[s]) /\ At(s)' = 1..Len(chan[s]) - 1
      /\ \A r \in Sender : r # s => At(r)' = At(r)
  BY <1>1 DEF At
<1>3. CASE From(y) = s
  <2>1. PICK k \in 1..Len(chan[s]) :
          /\ <<s, chan[s][k].id>> = y /\ chan[s][k].type = "ABORT"
          /\ \A l \in 1..k - 1 : ~(<<s, chan[s][l].id>> = y /\ chan[s][l].type = "END")
    BY <1>2, <1>3 DEF AbortFirst, Of
  <2>2. CASE k = 1
    BY <2>1, <2>2, <1>1
  <2>3. CASE k # 1
    <3>1. PICK j : j = k - 1
      OBVIOUS
    <3>2. j \in At(s)' /\ chan'[s][j] = chan[s][k]
      BY <3>1, <2>3, <1>1, <1>2
    <3>3. ASSUME NEW l \in 1..j - 1 PROVE ~(<<s, chan'[s][l].id>> = y /\ chan'[s][l].type = "END")
      <4>1. l + 1 \in 1..k - 1 /\ chan'[s][l] = chan[s][l + 1]
        BY <3>1, <2>1, <1>1
      <4> QED
        BY <4>1, <2>1
    <3>4. <<s, chan'[s][j].id>> = y /\ chan'[s][j].type = "ABORT"
      BY <3>2, <2>1
    <3> QED
      BY <3>2, <3>3, <3>4, <1>1, <1>2, <1>3, AbortAt
  <2> QED
    BY <2>2, <2>3
<1>4. CASE From(y) # s
  <2>1. chan'[From(y)] = chan[From(y)] /\ At(From(y))' = At(From(y))
    BY <1>1, <1>2, <1>4, XferPair
  <2> QED
    BY <2>1 DEF AbortFirst, Of
<1> QED
  BY <1>3, <1>4

\* An END at the head of a channel is before every ABORT.
LEMMA EndIsFirst ==
  ASSUME IInv, NEW s \in Sender, NEW x, chan[s] # <<>>, Head(chan[s]).type = "END",
         x = <<s, Head(chan[s]).id>>
  PROVE  ~AbortFirst(x)
<1>1. chan[s] \in Seq(Frame) /\ From(x) = s
  BY PairXfer DEF IInv, TypeOK
<1>2. Len(chan[s]) \in Nat /\ Head(chan[s]) = chan[s][1] /\ At(s) = 1..Len(chan[s])
  BY <1>1 DEF At
<1> SUFFICES ASSUME AbortFirst(x) PROVE FALSE
  OBVIOUS
<1>3. PICK k \in At(s) :
        /\ chan[s][k].type = "ABORT"
        /\ \A l \in 1..k - 1 : ~(<<s, chan[s][l].id>> = x /\ chan[s][l].type = "END")
  BY <1>1 DEF AbortFirst, Of
<1>4. k # 1 /\ 1 \in 1..k - 1
  BY <1>2, <1>3
<1> QED
  BY <1>2, <1>3, <1>4

LEMMA CutAbort ==
  ASSUME IInv, NEW s \in Sender, NEW n \in 0..Len(chan[s]),
         chan' = [chan EXCEPT ![s] = SubSeq(@, 1, n)],
         NEW y \in Xfer, AbortFirst(y)
  PROVE  AbortFirst(y)' \/ (From(y) = s /\ ~UnderAs(y, "END")')
<1>1. /\ Len(chan[s]) \in Nat /\ Len(chan'[s]) = n
      /\ \A k \in 1..n : chan'[s][k] = chan[s][k]
      /\ \A r \in Sender : r # s => chan'[r] = chan[r]
  BY CutAt DEF IInv
<1>2. /\ At(s) = 1..Len(chan[s]) /\ At(s)' = 1..n
      /\ \A r \in Sender : r # s => At(r)' = At(r)
  BY <1>1 DEF At
<1>3. CASE From(y) = s
  <2>1. PICK k \in 1..Len(chan[s]) :
          /\ <<s, chan[s][k].id>> = y /\ chan[s][k].type = "ABORT"
          /\ \A l \in 1..k - 1 : ~(<<s, chan[s][l].id>> = y /\ chan[s][l].type = "END")
    BY <1>2, <1>3 DEF AbortFirst, Of
  <2>2. CASE k <= n
    <3>1. k \in At(s)' /\ chan'[s][k] = chan[s][k] /\ \A l \in 1..k - 1 : chan'[s][l] = chan[s][l]
      BY <2>2, <1>1, <1>2
    <3>2. <<s, chan'[s][k].id>> = y /\ chan'[s][k].type = "ABORT"
      BY <3>1, <2>1
    <3>3. \A l \in 1..k - 1 : ~(<<s, chan'[s][l].id>> = y /\ chan'[s][l].type = "END")
      BY <3>1, <2>1
    <3> QED
      BY <3>1, <3>2, <3>3, <1>1, <1>2, <1>3, AbortAt
  <2>3. CASE k > n
    <3>1. ASSUME NEW l \in At(s)' PROVE ~(<<s, chan'[s][l].id>> = y /\ chan'[s][l].type = "END")
      <4>1. l \in 1..k - 1 /\ chan'[s][l] = chan[s][l]
        BY <2>3, <1>1, <1>2
      <4> QED
        BY <4>1, <2>1
    <3> QED
      BY <3>1, <1>3 DEF UnderAs, Of
  <2> QED
    BY <2>2, <2>3
<1>4. CASE From(y) # s
  <2>1. chan'[From(y)] = chan[From(y)] /\ At(From(y))' = At(From(y))
    BY <1>1, <1>2, <1>4, XferPair
  <2> QED
    BY <2>1 DEF AbortFirst, Of
<1> QED
  BY <1>3, <1>4

\* Steps that put a frame on its way, or none.
LEMMA PutSilenced ==
  ASSUME IInv, NEW x \in Xfer, NEW type \in {"START", "CHUNK", "END", "ABORT"},
         PutIfUp(x, type) \/ (up[From(x)] /\ \E body \in Body \union {<<>>} : Put(x, type, body)),
         UNCHANGED <<receiving, missed, up>>,
         NEW y \in Xfer, Silenced(y), y # x \/ type # "START"
  PROVE  Silenced(y)'
<1>1. UNCHANGED <<recvs, saving, report, missed, up>>
  BY DEF receiving
<1>2. CASE up[From(x)]
  <2>1. PICK body \in Body \union {<<>>} : Put(x, type, body)
    BY <1>2 DEF PutIfUp
  <2>2. AbortFirst(y) => AbortFirst(y)'
    BY <2>1, PutAbort DEF IInv
  <2>3. /\ UnderAs(y, "START")' => UnderAs(y, "START")
        /\ UnderAs(y, "END")' => UnderAs(y, "END") \/ y = x
    BY <2>1, AfterPut DEF IInv
  <2> QED
    BY <2>2, <2>3, <1>1, <1>2 DEF Silenced
<1>3. CASE ~up[From(x)]
  <2>1. UNCHANGED chan
    BY <1>3 DEF PutIfUp
  <2> QED
    BY <2>1, <1>1 DEF Silenced, AbortFirst, UnderAs, Of, At
<1> QED
  BY <1>2, <1>3

LEMMA PumpSilent ==
  ASSUME IInv, Silent, NEW x \in Xfer, PumpChunk(x) \/ PumpEnd(x) \/ ReadFails(x)
  PROVE  Silent'
<1>1. UNCHANGED <<receiving, missed, up, cancelled>>
      /\ \A y \in Xfer : pump[y] # "none" => pump'[y] # "none"
  BY DEF PumpChunk, PumpEnd, ReadFails, IInv, TypeOK
<1> SUFFICES ASSUME NEW y \in cancelled PROVE Silenced(y)'
  BY <1>1 DEF Silent, IInv, TypeOK
<1>2. y \in Xfer /\ Silenced(y)
  BY DEF Silent, IInv, TypeOK
<1>3. CASE PumpChunk(x) /\ up[From(x)]
  <2>1. pos[x] + 1 \in Chunk
    BY <1>3, TransferAssumption DEF PumpChunk, IInv, TypeOK, Chunk
  <2>2. up[From(x)] /\ \E body \in Body \union {<<>>} : Put(x, "CHUNK", body)
    BY <2>1, <1>3 DEF PumpChunk, Body
  <2> QED
    BY <2>2, <1>1, <1>2, PutSilenced
<1>4. CASE PumpChunk(x) /\ ~up[From(x)]
  <2>1. PutIfUp(x, "CHUNK")
    BY <1>4 DEF PumpChunk, PutIfUp
  <2> QED
    BY <2>1, <1>1, <1>2, PutSilenced
<1>5. CASE PumpEnd(x)
  BY <1>1, <1>2, <1>5, PutSilenced DEF PumpEnd
<1>6. CASE ReadFails(x)
  BY <1>1, <1>2, <1>6, PutSilenced DEF ReadFails
<1> QED
  BY <1>3, <1>4, <1>5, <1>6

LEMMA CancelSilent ==
  ASSUME IInv, Silent, NEW x \in Xfer, CancelSend(x)
  PROVE  Silent'
<1>1. /\ UNCHANGED <<receiving, missed, up, pump, recvs, saving, report>>
      /\ PutIfUp(x, "ABORT") /\ pump[x] = "reading" /\ cancelled' = cancelled \union {x}
  BY DEF CancelSend, receiving
<1>2. ASSUME NEW y \in cancelled PROVE Silenced(y)' /\ pump'[y] # "none"
  <2>1. y \in Xfer /\ Silenced(y) /\ pump[y] # "none"
    BY DEF Silent, IInv, TypeOK
  <2> QED
    BY <2>1, <1>1, PutSilenced
<1>3. Silenced(x)'
  <2>1. report[x] # "saved"
    BY <1>1 DEF IInv, Saved, Whole
  <2>2. ~(saving[From(x)] # NoSave /\ saving[From(x)][1] = x)
    BY <1>1, XferPair DEF IInv, Saving, Whole
  <2>3. ~UnderAs(x, "END")
    <3> SUFFICES ASSUME UnderAs(x, "END") PROVE FALSE
      OBVIOUS
    <3>1. PICK k \in At(From(x)) : Of(From(x), k) = x /\ chan[From(x)][k].type = "END"
      BY DEF UnderAs
    <3>2. FrameOK(From(x), k)
      BY <3>1, XferPair DEF IInv, Frames
    <3> QED
      BY <3>1, <3>2, <1>1 DEF FrameOK, Of
  <2>4. CASE up[From(x)]
    <3>1. Put(x, "ABORT", <<>>)
      BY <2>4, <1>1 DEF PutIfUp
    <3>2. AbortFirst(x)'
      BY <3>1, <2>3, PutAbort DEF IInv
    <3> QED
      BY <3>2, <2>1, <2>2, <1>1 DEF Silenced
  <2>5. CASE ~up[From(x)]
    <3>1. UNCHANGED chan
      BY <2>5, <1>1 DEF PutIfUp
    <3>2. ~UnderAs(x, "END")'
      BY <3>1, <2>3 DEF UnderAs, Of, At
    <3> QED
      BY <3>2, <2>1, <2>2, <2>5, <1>1 DEF Silenced
  <2> QED
    BY <2>4, <2>5
<1> QED
  BY <1>1, <1>2, <1>3 DEF Silent

LEMMA SendSilent ==
  ASSUME IInv, Silent, NEW s \in Sender, NEW name \in Name, NEW len \in Length, SendFile(s, name, len)
  PROVE  Silent'
<1> DEFINE x == <<s, nextID[s] + 1>>
<1>1. /\ nextID[s] \in Nat /\ x \in Xfer /\ From(x) = s /\ x[2] = nextID[s] + 1
      /\ pump[x] = "none"
  BY PairXfer DEF IInv, TypeOK, Pumps, SendFile
<1>2. UNCHANGED <<receiving, missed, up, cancelled>>
      /\ \A y \in Xfer : pump[y] # "none" => pump'[y] # "none"
  BY DEF SendFile, IInv, TypeOK
<1>3. PutIfUp(x, "START")
  BY <1>1 DEF SendFile, PutIfUp
<1> HIDE DEF x
<1>4. ASSUME NEW y \in cancelled PROVE Silenced(y)' /\ pump'[y] # "none"
  <2>1. y \in Xfer /\ Silenced(y) /\ pump[y] # "none"
    BY DEF Silent, IInv, TypeOK
  <2>2. y # x
    BY <2>1, <1>1
  <2> QED
    BY <2>1, <2>2, <1>1, <1>2, <1>3, PutSilenced
<1> QED
  BY <1>2, <1>4 DEF Silent

LEMMA TakeSilenced ==
  ASSUME IInv, NEW s \in Sender, NEW f, NEW x, chan[s] # <<>>, f = Head(chan[s]),
         x = <<s, f.id>>, chan' = [chan EXCEPT ![s] = Tail(@)], UNCHANGED up,
         NEW y \in Xfer, Silenced(y),
         missed[y] \subseteq missed'[y],
         report'[y] # "saved" \/ report'[y] = report[y],
         saving'[From(y)] # NoSave /\ saving'[From(y)][1] = y =>
           \/ saving' = saving
           \/ y = x /\ f.type = "END" /\ y \in recvs,
         y \in recvs' => y \in recvs \/ (y = x /\ f.type = "START"),
         y = x /\ f.type = "ABORT" => y \notin recvs' \/ 0 \in missed'[y]
  PROVE  Silenced(y)'
<1>1. /\ UnderAs(x, f.type) /\ ~UnderAs(x, "START")'
      /\ \A t \in {"START", "END"} : UnderAs(y, t)' => UnderAs(y, t)
  BY LeftBehind
<1>2. AbortFirst(y) => AbortFirst(y)' \/ (y = x /\ f.type = "ABORT")
  BY TakeAbort
<1>3. CASE 0 \in missed[y]
  BY <1>3 DEF Silenced
<1>4. CASE 0 \notin missed[y]
  <2>1. /\ report[y] # "saved" /\ ~(saving[From(y)] # NoSave /\ saving[From(y)][1] = y)
        /\ \/ AbortFirst(y)
           \/ y \notin recvs /\ ~UnderAs(y, "START")
           \/ ~up[From(y)] /\ ~UnderAs(y, "END")
    BY <1>4 DEF Silenced
  <2>2. ~(saving'[From(y)] # NoSave /\ saving'[From(y)][1] = y)
    <3> SUFFICES ASSUME saving'[From(y)] # NoSave, saving'[From(y)][1] = y PROVE FALSE
      OBVIOUS
    <3>1. y = x /\ f.type = "END" /\ y \in recvs
      BY <2>1
    <3>2. ~AbortFirst(y)
      BY <3>1, EndIsFirst
    <3> QED
      BY <3>1, <3>2, <2>1, <1>1
  <2>3. report'[y] # "saved"
    BY <2>1
  <2>4. CASE AbortFirst(y)
    BY <2>2, <2>3, <2>4, <1>1, <1>2 DEF Silenced
  <2>5. CASE y \notin recvs /\ ~UnderAs(y, "START")
    <3>1. y \notin recvs' /\ ~UnderAs(y, "START")'
      BY <2>5, <1>1
    <3> QED
      BY <3>1, <2>2, <2>3 DEF Silenced
  <2>6. CASE ~up[From(y)] /\ ~UnderAs(y, "END")
    <3>1. ~UnderAs(y, "END")'
      BY <2>6, <1>1
    <3> QED
      BY <3>1, <2>2, <2>3, <2>6 DEF Silenced
  <2> QED
    BY <2>1, <2>4, <2>5, <2>6
<1> QED
  BY <1>3, <1>4

LEMMA TakeSilent ==
  ASSUME IInv, Silent, NEW s \in Sender,
         onStart(s) \/ onChunk(s) \/ onEnd(s) \/ onAbort(s) \/ DropFrame(s)
  PROVE  Silent'
<1>1. PICK f \in HeadOf(s) :
        /\ chan[s] # <<>> /\ f = Head(chan[s]) /\ chan' = [chan EXCEPT ![s] = Tail(@)]
        /\ \/ f.type = "START" /\ recvs' = recvs \union {<<s, f.id>>}
              /\ report' = [report EXCEPT ![<<s, f.id>>] = "open"] /\ UNCHANGED <<saving, missed>>
           \/ f.type = "CHUNK" /\ UNCHANGED <<recvs, report, saving, missed>>
           \/ f.type = "END" /\ recvs' = recvs \ {<<s, f.id>>} /\ UNCHANGED <<report, missed>>
              /\ saving' = [saving EXCEPT ![s] =
                   IF <<s, f.id>> \in recvs
                   THEN <<<<s, f.id>>, SavePath(file[<<s, f.id>>].name), got[<<s, f.id>>]>> ELSE NoSave]
           \/ f.type = "ABORT" /\ recvs' = recvs \ {<<s, f.id>>} /\ UNCHANGED <<saving, missed>>
              /\ (report' = report \/ report' = [report EXCEPT ![<<s, f.id>>] = "dropped"])
           \/ UNCHANGED <<recvs, report, saving>>
              /\ missed' = [missed EXCEPT ![<<s, f.id>>] =
                              @ \union {IF f.type = "CHUNK" THEN f.body[2] ELSE 0}]
  <2>1. CASE onStart(s)
    BY <2>1 DEF onStart, Takes, Reports, HeadOf
  <2>2. CASE onChunk(s)
    BY <2>2 DEF onChunk, Takes, HeadOf
  <2>3. CASE onEnd(s)
    BY <2>3 DEF onEnd, Takes, HeadOf
  <2>4. CASE onAbort(s)
    BY <2>4 DEF onAbort, Takes, Reports, HeadOf
  <2>5. CASE DropFrame(s)
    BY <2>5 DEF DropFrame, HeadOf, receiving
  <2> QED
    BY <2>1, <2>2, <2>3, <2>4, <2>5
<1>2. UNCHANGED <<up, cancelled, pump>>
  BY DEF onStart, onChunk, onEnd, onAbort, DropFrame, sending
<1>3. PICK x : x = <<s, f.id>>
  OBVIOUS
<1>4. x \in Xfer /\ From(x) = s
  BY <1>1, <1>3, Taken
<1> SUFFICES ASSUME NEW y \in cancelled PROVE Silenced(y)'
  BY <1>2 DEF Silent
<1>5. y \in Xfer /\ Silenced(y) /\ From(y) \in Sender
  BY XferPair DEF Silent, IInv, TypeOK
<1>6. CASE f.type = "START" /\ recvs' = recvs \union {x}
           /\ report' = [report EXCEPT ![x] = "open"] /\ UNCHANGED <<saving, missed>>
  <2>1. report'[y] # "saved" \/ report'[y] = report[y]
    BY <1>5, <1>6 DEF IInv, TypeOK
  <2> QED
    BY <2>1, <1>1, <1>2, <1>3, <1>5, <1>6, TakeSilenced
<1>7. CASE f.type = "CHUNK" /\ UNCHANGED <<recvs, report, saving, missed>>
  BY <1>1, <1>2, <1>3, <1>5, <1>7, TakeSilenced
<1>8. CASE f.type = "END" /\ recvs' = recvs \ {x} /\ UNCHANGED <<report, missed>>
           /\ saving' = [saving EXCEPT ![s] =
                IF x \in recvs THEN <<x, SavePath(file[x].name), got[x]>> ELSE NoSave]
  <2>1. CASE From(y) = s
    <3>1. saving'[From(y)] = IF x \in recvs THEN <<x, SavePath(file[x].name), got[x]>> ELSE NoSave
      BY <2>1, <1>8 DEF IInv, TypeOK
    <3>2. saving'[From(y)] # NoSave /\ saving'[From(y)][1] = y => y = x /\ y \in recvs
      BY <3>1
    <3> QED
      BY <3>2, <1>1, <1>2, <1>3, <1>5, <1>8, TakeSilenced
  <2>2. CASE From(y) # s
    <3>1. y # x /\ saving'[From(y)] = saving[From(y)]
      BY <2>2, <1>4, <1>5, <1>8 DEF IInv, TypeOK
    <3>2. (AbortFirst(y) => AbortFirst(y)') /\ \A t \in {"START", "END"} : UnderAs(y, t)' => UnderAs(y, t)
      BY <3>1, <1>1, <1>3, <1>5, LeftBehind, TakeAbort
    <3>3. (y \in recvs' <=> y \in recvs) /\ report' = report /\ missed' = missed /\ up' = up
      BY <3>1, <1>2, <1>8
    <3> QED
      BY <3>1, <3>2, <3>3, <1>5 DEF Silenced
  <2> QED
    BY <2>1, <2>2
<1>9. CASE f.type = "ABORT" /\ recvs' = recvs \ {x} /\ UNCHANGED <<saving, missed>>
           /\ (report' = report \/ report' = [report EXCEPT ![x] = "dropped"])
  <2>1. report'[y] # "saved" \/ report'[y] = report[y]
    BY <1>5, <1>9 DEF IInv, TypeOK
  <2>2. /\ y \in recvs' => y \in recvs
        /\ y = x => y \notin recvs'
        /\ saving' = saving
        /\ missed[y] \subseteq missed'[y]
    BY <1>9
  <2>3. UNCHANGED up
    BY <1>2
  <2> QED
    BY <2>1, <2>2, <2>3, <1>1, <1>3, <1>5, TakeSilenced
<1>10. CASE UNCHANGED <<recvs, report, saving>>
            /\ missed' = [missed EXCEPT ![x] = @ \union {IF f.type = "CHUNK" THEN f.body[2] ELSE 0}]
  <2>1. missed[y] \subseteq missed'[y] /\ (y = x /\ f.type = "ABORT" => 0 \in missed'[y])
    BY <1>4, <1>5, <1>10 DEF IInv, TypeOK
  <2> QED
    BY <2>1, <1>1, <1>2, <1>3, <1>5, <1>10, TakeSilenced
<1> QED
  BY <1>1, <1>3, <1>6, <1>7, <1>8, <1>9, <1>10

LEMMA WriteSilent ==
  ASSUME IInv, Silent, NEW s \in Sender, WriteFile(s) \/ WriteFails(s)
  PROVE  Silent'
<1>1. PICK x : x = saving[s][1]
  OBVIOUS
<1>2. /\ saving[s] # NoSave /\ saving' = [saving EXCEPT ![s] = NoSave]
      /\ \E state \in {"saved", "dropped"} : report' = [report EXCEPT ![x] = state]
      /\ UNCHANGED <<chan, up, recvs, missed, cancelled, pump>>
  BY <1>1 DEF WriteFile, WriteFails, Reports, sending, channel
<1>3. From(x) = s
  BY <1>1, <1>2 DEF IInv, Saving
<1> SUFFICES ASSUME NEW y \in cancelled PROVE Silenced(y)'
  BY <1>2 DEF Silent
<1>4. y \in Xfer /\ Silenced(y) /\ From(y) \in Sender
  BY XferPair DEF Silent, IInv, TypeOK
<1>5. CASE 0 \in missed[y]
  BY <1>2, <1>5 DEF Silenced
<1>6. CASE 0 \notin missed[y]
  <2>1. y # x
    BY <1>1, <1>2, <1>3, <1>4, <1>6 DEF Silenced
  <2>2. report'[y] = report[y]
    BY <2>1, <1>2, <1>4 DEF IInv, TypeOK
  <2>3. saving'[From(y)] = saving[From(y)] \/ saving'[From(y)] = NoSave
    BY <1>2, <1>4 DEF IInv, TypeOK
  <2>4. AbortFirst(y)' = AbortFirst(y) /\ UnderAs(y, "START")' = UnderAs(y, "START")
        /\ UnderAs(y, "END")' = UnderAs(y, "END")
    BY <1>2 DEF AbortFirst, UnderAs, Of, At
  <2> QED
    BY <2>2, <2>3, <2>4, <1>2, <1>4, <1>6 DEF Silenced
<1> QED
  BY <1>5, <1>6

LEMMA CutSilent ==
  ASSUME IInv, Silent, NEW s \in Sender, Disconnect(s)
  PROVE  Silent'
<1>1. UNCHANGED <<pump, cancelled, recvs, saving, report, missed>> /\ up' = [up EXCEPT ![s] = FALSE]
  BY DEF Disconnect, sending, receiving
<1>2. PICK n \in 0..Len(chan[s]) : chan' = [chan EXCEPT ![s] = SubSeq(@, 1, n)]
  BY DEF Disconnect
<1> SUFFICES ASSUME NEW y \in cancelled PROVE Silenced(y)'
  BY <1>1 DEF Silent
<1>3. y \in Xfer /\ Silenced(y) /\ From(y) \in Sender
  BY XferPair DEF Silent, IInv, TypeOK
<1>4. \A t \in {"START", "END"} : UnderAs(y, t)' => UnderAs(y, t)
  BY <1>2, <1>3, AfterCut DEF IInv
<1>5. AbortFirst(y) => AbortFirst(y)' \/ (From(y) = s /\ ~UnderAs(y, "END")')
  BY <1>2, <1>3, CutAbort
<1>6. (From(y) = s => ~up'[From(y)]) /\ (~up[From(y)] => ~up'[From(y)])
  BY <1>1, <1>3 DEF IInv, TypeOK
<1> QED
  BY <1>1, <1>3, <1>4, <1>5, <1>6 DEF Silenced

LEMMA NextSilent == IInv /\ Silent /\ [Next]_vars => Silent'
<1> SUFFICES ASSUME IInv, Silent, [Next]_vars PROVE Silent'
  OBVIOUS
<1>1. ASSUME NEW s \in Sender, NEW name \in Name, NEW len \in Length, SendFile(s, name, len) PROVE Silent'
  BY <1>1, SendSilent
<1>2. ASSUME NEW s \in Sender, HandleFrame(s) \/ DropFrame(s) \/ Disconnect(s) PROVE Silent'
  BY <1>2, TakeSilent, WriteSilent, CutSilent DEF HandleFrame
<1>3. ASSUME NEW x \in Xfer, PumpChunk(x) \/ PumpEnd(x) \/ ReadFails(x) \/ CancelSend(x) PROVE Silent'
  BY <1>3, PumpSilent, CancelSilent
<1>4. CASE UNCHANGED vars
  <2>1. UNCHANGED <<pump, cancelled, recvs, saving, report, missed, chan, up>>
    BY <1>4 DEF vars, sending, channel, receiving
  <2> QED
    BY <2>1 DEF Silent, Silenced, AbortFirst, UnderAs, Of, At
<1> QED
  BY <1>1, <1>2, <1>3, <1>4 DEF Next

\* A transfer that was cancelled before its END is not saved, unless its ABORT
\* was dropped (transfer.go:317-323).
THEOREM CancelledIsNotSavedHolds == Spec => []CancelledIsNotSaved
<1>1. Init => Silent
  BY DEF Init, Silent
<1>2. IInv /\ Silent => CancelledIsNotSaved
  BY DEF Silent, Silenced, CancelledIsNotSaved
<1> QED
  BY <1>1, <1>2, Invariance, NextSilent, PTL DEF Spec
=============================================================================
