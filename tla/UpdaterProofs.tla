---------------------------- MODULE UpdaterProofs ----------------------------
(***************************************************************************)
(* What Updater promises, for any versions and any number of crashes.  The *)
(* argument: what GitHub calls the latest release never goes back, so each *)
(* result is at most the latest release and at least what it was asked     *)
(* after; a result that is judged newer by a process can only be older     *)
(* than the copy on disk if a script has changed that copy since, and what *)
(* such a script puts in place is a release that was the latest before.    *)
(* Newer it is in the order of versions, or in that of strings alone.      *)
(***************************************************************************)
EXTENDS Updater, TLAPS

Swapping == script \in {"remove", "move", "copy"}
Prepared == install.pc \in {"download", "extract", "stage", "apply", "quit"}

\* v has been the latest release.
Released(v) == latest # None /\ Rank(v) <= Rank(latest)

\* w may replace v.
Succeeds(w, v) == Rank(v) <= Rank(w) \/ Missorted(v, w)

\* v may replace what is, or is about to be, on disk.
Fits(v) == Succeeds(v, disk.v) /\ (Swapping => Succeeds(v, staged.v))

\* An installation waits for its own check.
Waiting == check["install"].pc # "idle" => install.pc = "check"

\* A result is of a release; while an installation may go by it, it fits.
Sound(res) ==
  res # None /\ res.v # None =>
    Released(res.v) /\ (res.available /\ install.pc # "quit" => Fits(res.v))

Results ==
  /\ Sound(cache)
  /\ \A c \in Checker : /\ Sound(check[c].res)
                        /\ check[c].pc \in {"answered", "done"} => check[c].res \in Result

Installing ==
  /\ Prepared => install.v \in Version /\ Released(install.v)
  /\ Prepared /\ install.pc # "quit" => Fits(install.v)
  /\ install.pc \in {"stage", "apply", "quit"} => install.is = "whole"

\* The swap script.
Swap ==
  Swapping => /\ staged.is = "whole"
              /\ Released(staged.v) /\ Succeeds(staged.v, disk.v)

\* The copy on disk is the one that runs, or will run when that one has gone,
\* or it has been the latest release.
DiskKnown ==
  /\ running = None => next = None
  /\ \A v \in {running, next} \ {None} : disk.v = v \/ Released(disk.v)

Active(c) == check[c].pc \in {"asking", "answered"}

\* Calls of CheckForUpdate that do not overlap write the cache in their order.
Order ==
  ~overlap =>
    /\ \A c, d \in Checker : Active(c) /\ Active(d) => c = d
    /\ \A c \in Checker :
         check[c].pc = "answered" /\ check[c].res.v # None /\ cache # None /\ cache.v # None
           => Rank(cache.v) <= Rank(check[c].res.v)

IInv ==
  TypeOK /\ WholeCopyLeft /\ Results /\ Waiting /\ Installing /\ Swap /\ DiskKnown /\ Order

-----------------------------------------------------------------------------
(* Versions.                                                               *)

LEMMA RankNat == ASSUME NEW v \in Version PROVE Rank(v) \in Nat
<1>1. v.core \in Nat /\ v.pre \in 0..MaxPre
  BY UpdaterAssumption
<1>2. v.core * (MaxPre + 1) \in Nat /\ (IF v.pre = 0 THEN MaxPre ELSE v.pre - 1) \in Nat
  BY <1>1, UpdaterAssumption
<1> QED
  BY <1>2 DEF Rank

\* Each number leaves room for all the candidates of the one before.
LEMMA Room ==
  ASSUME NEW K \in Nat, NEW a \in Nat, NEW b \in Nat, a < b
  PROVE  a * K + K <= b * K
<1>1. PICK n \in Nat : b = a + 1 + n
  <2>1. b - a - 1 \in Nat /\ b = a + 1 + (b - a - 1)
    OBVIOUS
  <2> QED
    BY <2>1
<1>2. (a + 1 + n) * K = a * K + K + n * K
  OBVIOUS
<1>3. n * K \in Nat /\ a * K \in Nat
  OBVIOUS
<1> QED
  BY <1>1, <1>2, <1>3

\* What is judged newer comes later, or sorts later as a string.
LEMMA NewerSucceeds ==
  ASSUME NEW v \in Version, NEW w \in Version, isNewer(v, w)
  PROVE  Succeeds(w, v)
<1> DEFINE K == MaxPre + 1
           in(x) == IF x.pre = 0 THEN MaxPre ELSE x.pre - 1
<1>1. /\ K \in Nat /\ v.core \in Nat /\ w.core \in Nat
      /\ v.pre \in 0..MaxPre /\ w.pre \in 0..MaxPre
  BY UpdaterAssumption
<1>2. in(v) \in 0..MaxPre /\ in(w) \in 0..MaxPre
  BY <1>1, UpdaterAssumption
<1>3. Rank(v) = v.core * K + in(v) /\ Rank(w) = w.core * K + in(w)
  BY DEF Rank
<1>4. v.core * K \in Nat /\ w.core * K \in Nat
  BY <1>1
<1>5. CASE w.core > v.core
  <2>1. v.core * K + K <= w.core * K
    BY <1>1, <1>5, Room
  <2>2. in(v) < K
    BY <1>2, UpdaterAssumption
  <2>3. in(v) \in Nat /\ in(w) \in Nat
    BY <1>2
  <2> HIDE DEF in, K
  <2>4. v.core * K + in(v) < w.core * K + in(w)
    BY <1>1, <1>4, <2>1, <2>2, <2>3
  <2> QED
    BY <1>1, <1>3, <1>4, <2>3, <2>4 DEF Succeeds
<1>6. CASE w.core = v.core /\ v.pre # 0 /\ (w.pre = 0 \/ w.pre > v.pre)
  <2>1. in(v) < in(w)
    BY <1>1, <1>6, UpdaterAssumption
  <2> HIDE DEF in, K
  <2> QED
    BY <1>1, <1>2, <1>3, <1>4, <1>6, <2>1, UpdaterAssumption DEF Succeeds
<1>7. CASE /\ w.core = v.core /\ v.pre # 0 /\ w.pre # 0 /\ ~(w.pre > v.pre)
           /\ Spelling[w.pre] > Spelling[v.pre]
  <2>1. w.pre \in 1..MaxPre /\ v.pre \in 1..MaxPre
    BY <1>1, <1>7, UpdaterAssumption
  <2>2. Spelling[w.pre] \in Nat /\ w.pre # v.pre
    BY <1>7, <2>1, UpdaterAssumption
  <2>3. 0 < w.pre /\ w.pre < v.pre
    BY <1>1, <1>7, <2>1, <2>2
  <2> QED
    BY <1>7, <2>3 DEF Succeeds, Missorted
<1> QED
  BY <1>5, <1>6, <1>7 DEF isNewer

-----------------------------------------------------------------------------
(* Results.                                                                *)

Calls == [pc : {"idle", "asking", "answered", "done"}, res : Result \union {None}]

\* What a result that is available is of.
LEMMA ResultFields ==
  ASSUME NEW r \in Result
  PROVE  /\ r.v \in Version \union {None} /\ r.available \in BOOLEAN
         /\ r.available => r.v \in Version
<1>1. CASE r = Failed
  BY <1>1 DEF Failed
<1>2. CASE r \in [available : BOOLEAN, v : Version]
  BY <1>2
<1> QED
  BY <1>1, <1>2 DEF Result

\* GitHub answers with the latest release, if with any.
LEMMA AnswerIsResult ==
  ASSUME TypeOK, running # None, NEW r \in Answer
  PROVE  /\ r \in Result
         /\ r.v # None => latest # None /\ r.v = latest
         /\ r.available => isNewer(running, r.v)
<1>1. CASE r = Failed
  BY <1>1 DEF Result, Failed
<1>2. CASE latest # None /\ r = [available |-> isNewer(running, latest), v |-> latest]
  <2>1. isNewer(running, latest) \in BOOLEAN
    BY DEF isNewer
  <2>2. latest \in Version
    BY <1>2 DEF TypeOK
  <2> QED
    BY <1>2, <2>1, <2>2 DEF Result
<1> QED
  BY <1>1, <1>2 DEF Answer

-----------------------------------------------------------------------------
(* The steps.                                                              *)

LEMMA PublishInv ==
  ASSUME IInv, NEW v \in Version, Publish(v)
  PROVE  IInv'
<1> USE DEF IInv, release, process, swap, Publish
<1>a. \A w \in Version : Released(w) => Released(w)'
  <2>1. latest' # None /\ latest' = v
    BY NoneAssumption
  <2>2. ASSUME NEW w \in Version, Released(w) PROVE Rank(w) <= Rank(v)
    <3>1. latest \in Version /\ Rank(w) <= Rank(latest) /\ Rank(latest) < Rank(v)
      BY <2>2 DEF TypeOK, Released
    <3> QED
      BY <3>1, RankNat
  <2> QED
    BY <2>1, <2>2 DEF Released
<1>1. TypeOK'
  <2>1. check' \in [Checker -> Calls] /\ cache' \in Result \union {None}
    BY DEF TypeOK, Calls, Quiet
  <2>2. install' \in [pc : {"idle", "check", "download", "extract", "stage", "apply", "quit"},
                     v : Version \union {None}, is : {"none", "partial", "whole"}]
    BY DEF TypeOK
  <2>3. running' \in Version \union {None} /\ next' \in Version \union {None}
    BY DEF TypeOK
  <2>4. fresh' \in BOOLEAN /\ overlap' \in BOOLEAN
    BY DEF TypeOK
  <2>5. staged' \in Artefact /\ disk' \in Artefact
    BY DEF TypeOK, Artefact
  <2>6. latest' \in Version \union {None} /\ os' \in {"darwin", "linux", "windows"}
    BY DEF TypeOK
  <2>7. script' \in {"none", "remove", "move", "copy", "start"}
    BY DEF TypeOK
  <2>8. unsynced' \in BOOLEAN /\ torn' \in BOOLEAN /\ spoiled' \in {"no", "raced", "down"}
    BY DEF TypeOK
  <2> QED
    BY <2>1, <2>2, <2>3, <2>4, <2>5, <2>6, <2>7, <2>8 DEF TypeOK, Calls
<1>2. WholeCopyLeft'
  BY DEF WholeCopyLeft, Swap, Swapping
<1>3. Results'
  <2>1. ASSUME NEW r \in Result \union {None}, Sound(r) PROVE Sound(r)'
    BY <1>a, <2>1, ResultFields DEF Sound, Fits, Swapping
  <2> QED
    BY <2>1 DEF TypeOK, Results
<1>4. Installing'
  BY <1>a DEF Installing, Prepared, Fits, Swapping
<1>5. Swap'
  BY <1>a DEF TypeOK, Swap, Swapping, Artefact
<1>6. DiskKnown'
  BY <1>a DEF TypeOK, DiskKnown, Artefact
<1>8. Waiting'
  BY DEF TypeOK, Waiting, Checker
<1>7. Order'
  BY DEF TypeOK, Order, Active, Checker
<1> QED
  BY <1>1, <1>2, <1>3, <1>4, <1>5, <1>6, <1>7, <1>8

LEMMA CheckForUpdateInv ==
  ASSUME IInv, NEW c \in Checker, NEW refresh \in BOOLEAN, CheckForUpdate(c, refresh)
  PROVE  IInv'
<1> USE DEF IInv, release, process, swap, CheckForUpdate, Start
<1>1. TypeOK'
  <2>1. check' \in [Checker -> Calls] /\ cache' \in Result \union {None}
    BY DEF TypeOK, Calls, Quiet
  <2>2. install' \in [pc : {"idle", "check", "download", "extract", "stage", "apply", "quit"},
                     v : Version \union {None}, is : {"none", "partial", "whole"}]
    BY DEF TypeOK
  <2>3. running' \in Version \union {None} /\ next' \in Version \union {None}
    BY DEF TypeOK
  <2>4. fresh' \in BOOLEAN /\ overlap' \in BOOLEAN
    BY DEF TypeOK
  <2>5. staged' \in Artefact /\ disk' \in Artefact
    BY DEF TypeOK, Artefact
  <2>6. latest' \in Version \union {None} /\ os' \in {"darwin", "linux", "windows"}
    BY DEF TypeOK
  <2>7. script' \in {"none", "remove", "move", "copy", "start"}
    BY DEF TypeOK
  <2>8. unsynced' \in BOOLEAN /\ torn' \in BOOLEAN /\ spoiled' \in {"no", "raced", "down"}
    BY DEF TypeOK
  <2> QED
    BY <2>1, <2>2, <2>3, <2>4, <2>5, <2>6, <2>7, <2>8 DEF TypeOK, Calls
<1>2. WholeCopyLeft'
  BY DEF WholeCopyLeft, Swap, Swapping
<1>3. Results'
  BY RankNat DEF TypeOK, Results, Sound, Released, Fits, Swapping, Artefact
<1>4. Installing'
  BY RankNat DEF TypeOK, Installing, Prepared, Released, Fits, Swapping, Artefact
<1>5. Swap'
  BY RankNat DEF TypeOK, Swap, Swapping, Released, Artefact
<1>6. DiskKnown'
  BY RankNat DEF TypeOK, DiskKnown, Released, Artefact
<1>8. Waiting'
  BY DEF TypeOK, Waiting, Checker
<1>7. Order'
  <2>1. CASE UNCHANGED overlap /\ check' = [check EXCEPT ![c] = [pc |-> "done", res |-> cache]]
    BY <2>1 DEF TypeOK, Order, Active
  <2>2. CASE /\ check' = [check EXCEPT ![c] = [pc |-> "asking", res |-> None]]
             /\ overlap' = (overlap \/ \E d \in Checker : check[d].pc \in {"asking", "answered"})
    <3>1. ~overlap' => ~overlap /\ \A d \in Checker : ~Active(d)
      BY <2>2 DEF Active
    <3> QED
      BY <2>2, <3>1 DEF TypeOK, Order, Active
  <2> QED
    BY <2>1, <2>2
<1> QED
  BY <1>1, <1>2, <1>3, <1>4, <1>5, <1>6, <1>7, <1>8

LEMMA GitHubAnswersInv ==
  ASSUME IInv, NEW c \in Checker, GitHubAnswers(c)
  PROVE  IInv'
<1> USE DEF IInv, release, process, swap, GitHubAnswers, Answer
<1>a. PICK r \in Answer : check' = [check EXCEPT ![c] = [pc |-> "answered", res |-> r]]
  OBVIOUS
<1>b. /\ r \in Result /\ check'[c] = [pc |-> "answered", res |-> r]
      /\ r.v # None => latest # None /\ r.v = latest
      /\ r.available => isNewer(running, r.v)
  BY <1>a, AnswerIsResult DEF TypeOK
<1>1. TypeOK'
  <2>1. check' \in [Checker -> Calls]
    BY <1>a, <1>b DEF TypeOK, Calls
  <2> QED
    BY <2>1 DEF TypeOK, Calls
<1>2. WholeCopyLeft'
  BY DEF WholeCopyLeft, Swap, Swapping
<1>3. Results'
  <2>1. Sound(r)'
    <3>1. r.v # None => Released(r.v)
      BY <1>b, ResultFields, RankNat DEF Released
    <3>2. r.v # None /\ r.available => Fits(r.v)
      <4> SUFFICES ASSUME r.v # None, r.available PROVE Fits(r.v)
        OBVIOUS
      <4>1. running \in Version /\ r.v \in Version /\ disk.v \in Version
        BY <1>b, ResultFields DEF TypeOK, Artefact
      <4>2. Succeeds(r.v, running)
        BY <1>b, <4>1, NewerSucceeds
      <4>3. Succeeds(r.v, disk.v)
        BY <1>b, <4>1, <4>2, NoneAssumption DEF DiskKnown, Released, Succeeds
      <4>4. Swapping => Succeeds(r.v, staged.v)
        BY <1>b DEF Swap, Released, Succeeds
      <4> QED
        BY <4>3, <4>4 DEF Fits
    <3> QED
      BY <3>1, <3>2 DEF Sound, Released, Fits, Swapping
  <2>2. \A d \in Checker : check'[d] = IF d = c THEN [pc |-> "answered", res |-> r] ELSE check[d]
    BY <1>a DEF TypeOK
  <2>3. Sound(cache)' /\ \A d \in Checker : d # c => Sound(check[d].res)'
    BY <2>2 DEF Results, Sound, Released, Fits, Swapping
  <2> QED
    BY <1>b, <2>1, <2>2, <2>3 DEF Results, Sound, Released, Fits, Swapping
<1>4. Installing'
  BY RankNat DEF TypeOK, Installing, Prepared, Released, Fits, Swapping, Artefact
<1>5. Swap'
  BY RankNat DEF TypeOK, Swap, Swapping, Released, Artefact
<1>6. DiskKnown'
  BY RankNat DEF TypeOK, DiskKnown, Released, Artefact
<1>8. Waiting'
  BY DEF TypeOK, Waiting, Checker
<1>7. Order'
  <2>1. \A d \in Checker : check'[d] = IF d = c THEN [pc |-> "answered", res |-> r] ELSE check[d]
    BY <1>a DEF TypeOK
  <2>2. \A d \in Checker : Active(d)' <=> Active(d)
    BY <2>1 DEF Active
  <2>3. r.v # None /\ cache # None /\ cache.v # None => Rank(cache.v) <= Rank(r.v)
    BY <1>b DEF Results, Sound, Released
  <2> QED
    BY <2>1, <2>2, <2>3 DEF Order
<1> QED
  BY <1>1, <1>2, <1>3, <1>4, <1>5, <1>6, <1>7, <1>8

LEMMA KeepResultInv ==
  ASSUME IInv, NEW c \in Checker, KeepResult(c)
  PROVE  IInv'
<1> USE DEF IInv, release, process, swap, KeepResult, Idle
<1>1. TypeOK'
  <2>1. check' \in [Checker -> Calls]
    BY DEF TypeOK, Calls
  <2> QED
    BY <2>1 DEF TypeOK, Calls
<1>2. WholeCopyLeft'
  BY DEF WholeCopyLeft, Swap, Swapping
<1>3. Results'
  BY RankNat DEF TypeOK, Results, Sound, Released, Fits, Swapping, Artefact
<1>4. Installing'
  BY RankNat DEF TypeOK, Installing, Prepared, Released, Fits, Swapping, Artefact
<1>5. Swap'
  BY RankNat DEF TypeOK, Swap, Swapping, Released, Artefact
<1>6. DiskKnown'
  BY RankNat DEF TypeOK, DiskKnown, Released, Artefact
<1>8. Waiting'
  BY DEF TypeOK, Waiting, Checker
<1>7. Order'
  BY DEF TypeOK, Order, Active, Checker
<1> QED
  BY <1>1, <1>2, <1>3, <1>4, <1>5, <1>6, <1>7, <1>8

LEMMA DayPassesInv ==
  ASSUME IInv, DayPasses
  PROVE  IInv'
<1> USE DEF IInv, release, process, swap, DayPasses
<1>1. TypeOK'
  <2>1. check' \in [Checker -> Calls] /\ cache' \in Result \union {None}
    BY DEF TypeOK, Calls, Quiet
  <2>2. install' \in [pc : {"idle", "check", "download", "extract", "stage", "apply", "quit"},
                     v : Version \union {None}, is : {"none", "partial", "whole"}]
    BY DEF TypeOK
  <2>3. running' \in Version \union {None} /\ next' \in Version \union {None}
    BY DEF TypeOK
  <2>4. fresh' \in BOOLEAN /\ overlap' \in BOOLEAN
    BY DEF TypeOK
  <2>5. staged' \in Artefact /\ disk' \in Artefact
    BY DEF TypeOK, Artefact
  <2>6. latest' \in Version \union {None} /\ os' \in {"darwin", "linux", "windows"}
    BY DEF TypeOK
  <2>7. script' \in {"none", "remove", "move", "copy", "start"}
    BY DEF TypeOK
  <2>8. unsynced' \in BOOLEAN /\ torn' \in BOOLEAN /\ spoiled' \in {"no", "raced", "down"}
    BY DEF TypeOK
  <2> QED
    BY <2>1, <2>2, <2>3, <2>4, <2>5, <2>6, <2>7, <2>8 DEF TypeOK, Calls
<1>2. WholeCopyLeft'
  BY DEF WholeCopyLeft, Swap, Swapping
<1>3. Results'
  BY RankNat DEF TypeOK, Results, Sound, Released, Fits, Swapping, Artefact
<1>4. Installing'
  BY RankNat DEF TypeOK, Installing, Prepared, Released, Fits, Swapping, Artefact
<1>5. Swap'
  BY RankNat DEF TypeOK, Swap, Swapping, Released, Artefact
<1>6. DiskKnown'
  BY RankNat DEF TypeOK, DiskKnown, Released, Artefact
<1>8. Waiting'
  BY DEF TypeOK, Waiting, Checker
<1>7. Order'
  BY DEF TypeOK, Order, Active, Checker
<1> QED
  BY <1>1, <1>2, <1>3, <1>4, <1>5, <1>6, <1>7, <1>8

LEMMA InstallUpdateInv ==
  ASSUME IInv, InstallUpdate
  PROVE  IInv'
<1> USE DEF IInv, release, process, swap, InstallUpdate, NoCall
<1>1. TypeOK'
  <2>1. check' \in [Checker -> Calls] /\ cache' \in Result \union {None}
    BY DEF TypeOK, Calls, Quiet
  <2>2. install' \in [pc : {"idle", "check", "download", "extract", "stage", "apply", "quit"},
                     v : Version \union {None}, is : {"none", "partial", "whole"}]
    BY DEF TypeOK
  <2>3. running' \in Version \union {None} /\ next' \in Version \union {None}
    BY DEF TypeOK
  <2>4. fresh' \in BOOLEAN /\ overlap' \in BOOLEAN
    BY DEF TypeOK
  <2>5. staged' \in Artefact /\ disk' \in Artefact
    BY DEF TypeOK, Artefact
  <2>6. latest' \in Version \union {None} /\ os' \in {"darwin", "linux", "windows"}
    BY DEF TypeOK
  <2>7. script' \in {"none", "remove", "move", "copy", "start"}
    BY DEF TypeOK
  <2>8. unsynced' \in BOOLEAN /\ torn' \in BOOLEAN /\ spoiled' \in {"no", "raced", "down"}
    BY DEF TypeOK
  <2> QED
    BY <2>1, <2>2, <2>3, <2>4, <2>5, <2>6, <2>7, <2>8 DEF TypeOK, Calls
<1>2. WholeCopyLeft'
  BY DEF WholeCopyLeft, Swap, Swapping
<1>3. Results'
  BY RankNat DEF TypeOK, Results, Sound, Released, Fits, Swapping, Artefact
<1>4. Installing'
  BY RankNat DEF TypeOK, Installing, Prepared, Released, Fits, Swapping, Artefact
<1>5. Swap'
  BY RankNat DEF TypeOK, Swap, Swapping, Released, Artefact
<1>6. DiskKnown'
  BY RankNat DEF TypeOK, DiskKnown, Released, Artefact
<1>8. Waiting'
  BY DEF TypeOK, Waiting, Checker
<1>7. Order'
  BY DEF TypeOK, Order, Active, Checker
<1> QED
  BY <1>1, <1>2, <1>3, <1>4, <1>5, <1>6, <1>7, <1>8

LEMMA CheckedInv ==
  ASSUME IInv, Checked
  PROVE  IInv'
<1> USE DEF IInv, release, process, swap, Checked, Fails, NoCall, Idle
<1>a. /\ check["install"].res \in Result /\ Sound(check["install"].res)
      /\ check["install"].res.available \in BOOLEAN
      /\ check["install"].res.available => check["install"].res.v \in Version
  BY ResultFields DEF Results, Checker
<1>c. \/ install' = NoCall
      \/ /\ install' = [pc |-> "download", v |-> check["install"].res.v, is |-> "none"]
         /\ check["install"].res.available
  BY <1>a
<1>b. check' = [check EXCEPT !["install"] = Idle]
  OBVIOUS
<1>1. TypeOK'
  <2>1. check' \in [Checker -> Calls] /\ cache' \in Result \union {None}
    BY DEF TypeOK, Calls, Quiet
  <2>2. install' \in [pc : {"idle", "check", "download", "extract", "stage", "apply", "quit"},
                     v : Version \union {None}, is : {"none", "partial", "whole"}]
    BY <1>a, <1>c DEF TypeOK
  <2>3. running' \in Version \union {None} /\ next' \in Version \union {None}
    BY DEF TypeOK
  <2>4. fresh' \in BOOLEAN /\ overlap' \in BOOLEAN
    BY DEF TypeOK
  <2>5. staged' \in Artefact /\ disk' \in Artefact
    BY DEF TypeOK, Artefact
  <2>6. latest' \in Version \union {None} /\ os' \in {"darwin", "linux", "windows"}
    BY DEF TypeOK
  <2>7. script' \in {"none", "remove", "move", "copy", "start"}
    BY DEF TypeOK
  <2>8. unsynced' \in BOOLEAN /\ torn' \in BOOLEAN /\ spoiled' \in {"no", "raced", "down"}
    BY DEF TypeOK
  <2> QED
    BY <2>1, <2>2, <2>3, <2>4, <2>5, <2>6, <2>7, <2>8 DEF TypeOK, Calls
<1>2. WholeCopyLeft'
  BY DEF WholeCopyLeft, Swap, Swapping
<1>3. Results'
  <2>1. \A c \in Checker : check'[c] = IF c = "install" THEN Idle ELSE check[c]
    BY <1>b DEF TypeOK
  <2>2. install.pc = "check"
    BY DEF Waiting
  <2> QED
    BY <2>1, <2>2 DEF Results, Sound, Released, Fits, Swapping
<1>4. Installing'
  <2>1. CASE install' = NoCall
    BY <2>1 DEF Installing, Prepared
  <2>2. CASE /\ install' = [pc |-> "download", v |-> check["install"].res.v, is |-> "none"]
             /\ check["install"].res.available
    <3>0. PICK v \in Version : v = check["install"].res.v
      BY <1>a, <2>2
    <3>1. v # None /\ check["install"].res # None
      BY <1>a, NoneAssumption
    <3>2. install.pc # "quit"
      BY DEF Waiting
    <3>3. Released(v) /\ Fits(v)
      BY <1>a, <2>2, <3>0, <3>1, <3>2 DEF Sound
    <3>4. Released(v)' /\ Fits(v)'
      BY <3>3 DEF Released, Fits, Swapping
    <3>5. install'.v = v /\ install'.pc = "download"
      BY <2>2, <3>0
    <3> QED
      BY <3>4, <3>5 DEF Installing, Prepared
  <2> QED
    BY <1>c, <2>1, <2>2
<1>5. Swap'
  BY RankNat DEF TypeOK, Swap, Swapping, Released, Artefact
<1>6. DiskKnown'
  BY RankNat DEF TypeOK, DiskKnown, Released, Artefact
<1>8. Waiting'
  BY DEF TypeOK, Waiting, Checker
<1>7. Order'
  BY DEF TypeOK, Order, Active, Checker
<1> QED
  BY <1>1, <1>2, <1>3, <1>4, <1>5, <1>6, <1>7, <1>8

LEMMA DownloadInv ==
  ASSUME IInv, Download
  PROVE  IInv'
<1> USE DEF IInv, release, process, swap, Download, Goes, Fails, NoCall
<1>1. TypeOK'
  <2>1. check' \in [Checker -> Calls] /\ cache' \in Result \union {None}
    BY DEF TypeOK, Calls, Quiet
  <2>2. install' \in [pc : {"idle", "check", "download", "extract", "stage", "apply", "quit"},
                     v : Version \union {None}, is : {"none", "partial", "whole"}]
    BY DEF TypeOK
  <2>3. running' \in Version \union {None} /\ next' \in Version \union {None}
    BY DEF TypeOK
  <2>4. fresh' \in BOOLEAN /\ overlap' \in BOOLEAN
    BY DEF TypeOK
  <2>5. staged' \in Artefact /\ disk' \in Artefact
    BY DEF TypeOK, Artefact
  <2>6. latest' \in Version \union {None} /\ os' \in {"darwin", "linux", "windows"}
    BY DEF TypeOK
  <2>7. script' \in {"none", "remove", "move", "copy", "start"}
    BY DEF TypeOK
  <2>8. unsynced' \in BOOLEAN /\ torn' \in BOOLEAN /\ spoiled' \in {"no", "raced", "down"}
    BY DEF TypeOK
  <2> QED
    BY <2>1, <2>2, <2>3, <2>4, <2>5, <2>6, <2>7, <2>8 DEF TypeOK, Calls
<1>2. WholeCopyLeft'
  BY DEF WholeCopyLeft, Swap, Swapping
<1>3. Results'
  BY RankNat DEF TypeOK, Results, Sound, Released, Fits, Swapping, Artefact
<1>4. Installing'
  BY RankNat DEF TypeOK, Installing, Prepared, Released, Fits, Swapping, Artefact
<1>5. Swap'
  BY RankNat DEF TypeOK, Swap, Swapping, Released, Artefact
<1>6. DiskKnown'
  BY RankNat DEF TypeOK, DiskKnown, Released, Artefact
<1>8. Waiting'
  BY DEF TypeOK, Waiting, Checker
<1>7. Order'
  BY DEF TypeOK, Order, Active, Checker
<1> QED
  BY <1>1, <1>2, <1>3, <1>4, <1>5, <1>6, <1>7, <1>8

LEMMA ExtractInv ==
  ASSUME IInv, Extract
  PROVE  IInv'
<1> USE DEF IInv, release, process, swap, Extract, Fails, NoCall
<1>1. TypeOK'
  <2>1. CASE install' = [install EXCEPT !.pc = "stage", !.is = "whole"]
    <3>1. install' \in [pc : {"idle", "check", "download", "extract", "stage", "apply", "quit"},
                       v : Version \union {None}, is : {"none", "partial", "whole"}]
      BY <2>1 DEF TypeOK
    <3> QED
      BY <3>1 DEF TypeOK
  <2>2. CASE install' = NoCall
    BY <2>2 DEF TypeOK
  <2> QED
    BY <2>1, <2>2
<1>2. WholeCopyLeft'
  BY DEF WholeCopyLeft, Swap, Swapping
<1>3. Results'
  BY RankNat DEF TypeOK, Results, Sound, Released, Fits, Swapping, Artefact
<1>4. Installing'
  <2>1. install.v \in Version /\ Released(install.v) /\ Fits(install.v)
    BY DEF Installing, Prepared
  <2>2. CASE install' = [install EXCEPT !.pc = "stage", !.is = "whole"]
    <3>1. install'.v = install.v /\ install'.is = "whole" /\ install'.pc = "stage"
      BY <2>2 DEF TypeOK
    <3> QED
      BY <2>1, <3>1 DEF Installing, Prepared, Released, Fits, Swapping
  <2>3. CASE install' = NoCall
    BY <2>3 DEF Installing, Prepared
  <2> QED
    BY <2>2, <2>3
<1>5. Swap'
  BY RankNat DEF TypeOK, Swap, Swapping, Released, Artefact
<1>6. DiskKnown'
  BY RankNat DEF TypeOK, DiskKnown, Released, Artefact
<1>8. Waiting'
  BY DEF TypeOK, Waiting, Checker
<1>7. Order'
  BY DEF TypeOK, Order, Active, Checker
<1> QED
  BY <1>1, <1>2, <1>3, <1>4, <1>5, <1>6, <1>7, <1>8

LEMMA StageInv ==
  ASSUME IInv, Stage
  PROVE  IInv'
<1> USE DEF IInv, release, process, swap, Stage, Goes, Fails, NoCall
<1>1. TypeOK'
  <2>1. check' \in [Checker -> Calls] /\ cache' \in Result \union {None}
    BY DEF TypeOK, Calls, Quiet
  <2>2. install' \in [pc : {"idle", "check", "download", "extract", "stage", "apply", "quit"},
                     v : Version \union {None}, is : {"none", "partial", "whole"}]
    BY DEF TypeOK
  <2>3. running' \in Version \union {None} /\ next' \in Version \union {None}
    BY DEF TypeOK
  <2>4. fresh' \in BOOLEAN /\ overlap' \in BOOLEAN
    BY DEF TypeOK
  <2>5. staged' \in Artefact /\ disk' \in Artefact
    BY DEF TypeOK, Artefact
  <2>6. latest' \in Version \union {None} /\ os' \in {"darwin", "linux", "windows"}
    BY DEF TypeOK
  <2>7. script' \in {"none", "remove", "move", "copy", "start"}
    BY DEF TypeOK
  <2>8. unsynced' \in BOOLEAN /\ torn' \in BOOLEAN /\ spoiled' \in {"no", "raced", "down"}
    BY DEF TypeOK
  <2> QED
    BY <2>1, <2>2, <2>3, <2>4, <2>5, <2>6, <2>7, <2>8 DEF TypeOK, Calls
<1>2. WholeCopyLeft'
  BY DEF WholeCopyLeft, Swap, Swapping
<1>3. Results'
  BY RankNat DEF TypeOK, Results, Sound, Released, Fits, Swapping, Artefact
<1>4. Installing'
  BY RankNat DEF TypeOK, Installing, Prepared, Released, Fits, Swapping, Artefact
<1>5. Swap'
  BY RankNat DEF TypeOK, Swap, Swapping, Released, Artefact
<1>6. DiskKnown'
  BY RankNat DEF TypeOK, DiskKnown, Released, Artefact
<1>8. Waiting'
  BY DEF TypeOK, Waiting, Checker
<1>7. Order'
  BY DEF TypeOK, Order, Active, Checker
<1> QED
  BY <1>1, <1>2, <1>3, <1>4, <1>5, <1>6, <1>7, <1>8

LEMMA ApplyInv ==
  ASSUME IInv, Apply
  PROVE  IInv'
<1> USE DEF IInv, release, process, swap, Apply, Goes, Fails, NoCall
<1>a. /\ install.v \in Version /\ install.is = "whole" /\ Released(install.v)
      /\ Succeeds(install.v, disk.v) /\ ~Swapping
  BY DEF Installing, Prepared, Swapping, Fits
<1>b. \/ /\ install' = [install EXCEPT !.pc = "quit"] /\ script' = "remove"
         /\ staged' = [v |-> install.v, is |-> install.is]
      \/ install' = NoCall /\ UNCHANGED <<script, staged>>
  OBVIOUS
<1>1. TypeOK'
  <2>1. check' \in [Checker -> Calls] /\ cache' \in Result \union {None}
    BY DEF TypeOK, Calls, Quiet
  <2>2. install' \in [pc : {"idle", "check", "download", "extract", "stage", "apply", "quit"},
                     v : Version \union {None}, is : {"none", "partial", "whole"}]
    BY <1>b DEF TypeOK
  <2>3. running' \in Version \union {None} /\ next' \in Version \union {None}
    BY DEF TypeOK
  <2>4. fresh' \in BOOLEAN /\ overlap' \in BOOLEAN
    BY DEF TypeOK
  <2>5. staged' \in Artefact /\ disk' \in Artefact
    BY <1>a, <1>b DEF TypeOK, Artefact
  <2>6. latest' \in Version \union {None} /\ os' \in {"darwin", "linux", "windows"}
    BY DEF TypeOK
  <2>7. script' \in {"none", "remove", "move", "copy", "start"}
    BY DEF TypeOK
  <2>8. unsynced' \in BOOLEAN /\ torn' \in BOOLEAN /\ spoiled' \in {"no", "raced", "down"}
    BY DEF TypeOK
  <2> QED
    BY <2>1, <2>2, <2>3, <2>4, <2>5, <2>6, <2>7, <2>8 DEF TypeOK, Calls
<1>2. WholeCopyLeft'
  BY <1>a, <1>b DEF WholeCopyLeft
<1>3. Results'
  BY RankNat DEF TypeOK, Results, Sound, Released, Fits, Swapping, Artefact
<1>4. Installing'
  BY RankNat DEF TypeOK, Installing, Prepared, Released, Fits, Swapping, Artefact
<1>5. Swap'
  BY <1>a, <1>b DEF Swap, Swapping, Released
<1>6. DiskKnown'
  BY RankNat DEF TypeOK, DiskKnown, Released, Artefact
<1>8. Waiting'
  BY DEF TypeOK, Waiting, Checker
<1>7. Order'
  BY DEF TypeOK, Order, Active, Checker
<1> QED
  BY <1>1, <1>2, <1>3, <1>4, <1>5, <1>6, <1>7, <1>8

LEMMA QuitInv ==
  ASSUME IInv, Quit
  PROVE  IInv'
<1> USE DEF IInv, release, process, swap, Quit, Forgotten, Quiet, Idle, NoCall
<1>1. TypeOK'
  <2>1. check' \in [Checker -> Calls] /\ cache' \in Result \union {None}
    BY DEF TypeOK, Calls, Quiet
  <2>2. install' \in [pc : {"idle", "check", "download", "extract", "stage", "apply", "quit"},
                     v : Version \union {None}, is : {"none", "partial", "whole"}]
    BY DEF TypeOK
  <2>3. running' \in Version \union {None} /\ next' \in Version \union {None}
    BY DEF TypeOK
  <2>4. fresh' \in BOOLEAN /\ overlap' \in BOOLEAN
    BY DEF TypeOK
  <2>5. staged' \in Artefact /\ disk' \in Artefact
    BY DEF TypeOK, Artefact
  <2>6. latest' \in Version \union {None} /\ os' \in {"darwin", "linux", "windows"}
    BY DEF TypeOK
  <2>7. script' \in {"none", "remove", "move", "copy", "start"}
    BY DEF TypeOK
  <2>8. unsynced' \in BOOLEAN /\ torn' \in BOOLEAN /\ spoiled' \in {"no", "raced", "down"}
    BY DEF TypeOK
  <2> QED
    BY <2>1, <2>2, <2>3, <2>4, <2>5, <2>6, <2>7, <2>8 DEF TypeOK, Calls
<1>2. WholeCopyLeft'
  BY DEF WholeCopyLeft, Swap, Swapping
<1>3. Results'
  BY RankNat DEF TypeOK, Results, Sound, Released, Fits, Swapping, Artefact
<1>4. Installing'
  BY RankNat DEF TypeOK, Installing, Prepared, Released, Fits, Swapping, Artefact
<1>5. Swap'
  BY RankNat DEF TypeOK, Swap, Swapping, Released, Artefact
<1>6. DiskKnown'
  BY RankNat DEF TypeOK, DiskKnown, Released, Artefact
<1>8. Waiting'
  BY DEF TypeOK, Waiting, Checker
<1>7. Order'
  BY DEF TypeOK, Order, Active, Checker
<1> QED
  BY <1>1, <1>2, <1>3, <1>4, <1>5, <1>6, <1>7, <1>8

LEMMA RemoveInv ==
  ASSUME IInv, Remove
  PROVE  IInv'
<1> USE DEF IInv, release, process, swap, Remove
<1>1. TypeOK'
  <2>1. check' \in [Checker -> Calls] /\ cache' \in Result \union {None}
    BY DEF TypeOK, Calls, Quiet
  <2>2. install' \in [pc : {"idle", "check", "download", "extract", "stage", "apply", "quit"},
                     v : Version \union {None}, is : {"none", "partial", "whole"}]
    BY DEF TypeOK
  <2>3. running' \in Version \union {None} /\ next' \in Version \union {None}
    BY DEF TypeOK
  <2>4. fresh' \in BOOLEAN /\ overlap' \in BOOLEAN
    BY DEF TypeOK
  <2>5. staged' \in Artefact /\ disk' \in Artefact
    BY DEF TypeOK, Artefact
  <2>6. latest' \in Version \union {None} /\ os' \in {"darwin", "linux", "windows"}
    BY DEF TypeOK
  <2>7. script' \in {"none", "remove", "move", "copy", "start"}
    BY DEF TypeOK
  <2>8. unsynced' \in BOOLEAN /\ torn' \in BOOLEAN /\ spoiled' \in {"no", "raced", "down"}
    BY DEF TypeOK
  <2> QED
    BY <2>1, <2>2, <2>3, <2>4, <2>5, <2>6, <2>7, <2>8 DEF TypeOK, Calls
<1>2. WholeCopyLeft'
  BY DEF WholeCopyLeft, Swap, Swapping
<1>3. Results'
  BY RankNat DEF TypeOK, Results, Sound, Released, Fits, Swapping, Artefact
<1>4. Installing'
  BY RankNat DEF TypeOK, Installing, Prepared, Released, Fits, Swapping, Artefact
<1>5. Swap'
  BY RankNat DEF TypeOK, Swap, Swapping, Released, Artefact
<1>6. DiskKnown'
  BY RankNat DEF TypeOK, DiskKnown, Released, Artefact
<1>8. Waiting'
  BY DEF TypeOK, Waiting, Checker
<1>7. Order'
  BY DEF TypeOK, Order, Active, Checker
<1> QED
  BY <1>1, <1>2, <1>3, <1>4, <1>5, <1>6, <1>7, <1>8

LEMMA MoveInv ==
  ASSUME IInv, Move
  PROVE  IInv'
<1> USE DEF IInv, release, process, swap, Move
<1>a. \/ /\ disk' = [v |-> staged.v, is |-> "whole"]
         /\ staged' = [staged EXCEPT !.is = "none"] /\ script' = "start" /\ unsynced' = TRUE
      \/ /\ disk' = [v |-> staged.v, is |-> "partial"]
         /\ staged' = staged /\ script' = "copy" /\ unsynced' = TRUE
      \/ /\ disk' = disk /\ unsynced' = unsynced
         /\ staged' = [staged EXCEPT !.is = "nested"] /\ script' = "start"
      \/ /\ disk' = disk /\ unsynced' = unsynced
         /\ staged' = staged /\ script' = "start"
  OBVIOUS
<1>b. /\ staged \in Artefact /\ disk \in Artefact /\ staged.is = "whole"
      /\ Released(staged.v) /\ Succeeds(staged.v, disk.v)
  BY DEF TypeOK, Swap, Swapping
<1> HIDE DEF Move
<1>c. UNCHANGED <<release, process, spoiled, torn>>
  BY DEF Move
<1> USE <1>c
<1>1. TypeOK'
  <2>1. check' \in [Checker -> Calls] /\ cache' \in Result \union {None}
    BY DEF TypeOK, Calls, Quiet
  <2>2. install' \in [pc : {"idle", "check", "download", "extract", "stage", "apply", "quit"},
                     v : Version \union {None}, is : {"none", "partial", "whole"}]
    BY DEF TypeOK
  <2>3. running' \in Version \union {None} /\ next' \in Version \union {None}
    BY DEF TypeOK
  <2>4. fresh' \in BOOLEAN /\ overlap' \in BOOLEAN
    BY DEF TypeOK
  <2>5. staged' \in Artefact /\ disk' \in Artefact
    BY <1>a DEF TypeOK, Artefact
  <2>6. latest' \in Version \union {None} /\ os' \in {"darwin", "linux", "windows"}
    BY DEF TypeOK
  <2>7. script' \in {"none", "remove", "move", "copy", "start"}
    BY <1>a
  <2>8. unsynced' \in BOOLEAN /\ torn' \in BOOLEAN /\ spoiled' \in {"no", "raced", "down"}
    BY <1>a DEF TypeOK
  <2> QED
    BY <2>1, <2>2, <2>3, <2>4, <2>5, <2>6, <2>7, <2>8 DEF TypeOK, Calls
<1>2. WholeCopyLeft'
  BY <1>a, <1>b DEF WholeCopyLeft, Artefact
<1>3. Results'
  <2>1. ASSUME NEW r \in Result \union {None}, Sound(r) PROVE Sound(r)'
    <3> SUFFICES ASSUME r # None, r.v # None PROVE Sound(r)'
      BY DEF Sound
    <3>1. Released(r.v)'
      BY <2>1 DEF Sound, Released
    <3>2. r.available /\ install.pc # "quit" => Succeeds(r.v, disk.v) /\ Succeeds(r.v, staged.v)
      BY <2>1 DEF Sound, Fits, Swapping, Move
    <3>3. disk'.v \in {disk.v, staged.v} /\ staged'.v = staged.v
      BY <1>a, <1>b DEF Artefact
    <3>4. r.available /\ install.pc # "quit" => Succeeds(r.v, disk'.v) /\ Succeeds(r.v, staged'.v)
      BY <3>2, <3>3
    <3> QED
      BY <3>1, <3>4 DEF Sound, Fits
  <2> QED
    BY <2>1 DEF TypeOK, Results
<1>4. Installing'
  <2>1. disk'.v \in {disk.v, staged.v} /\ staged'.v = staged.v
    BY <1>a, <1>b DEF Artefact
  <2>2. Fits(install.v) => Succeeds(install.v, disk'.v) /\ Succeeds(install.v, staged'.v)
    BY <2>1 DEF Fits, Swapping, Move
  <2> QED
    BY <2>2 DEF Installing, Prepared, Released, Fits
<1>5. Swap'
  <2>1. CASE script' = "copy"
    <3>1. disk'.v = staged.v /\ staged' = staged
      BY <1>a, <2>1
    <3>2. Succeeds(staged.v, staged.v)
      BY <1>b, RankNat DEF Succeeds, Artefact
    <3> QED
      BY <1>b, <3>1, <3>2 DEF Swap, Released
  <2>2. CASE script' = "start"
    BY <2>2 DEF Swap, Swapping
  <2> QED
    BY <1>a, <2>1, <2>2
<1>6. DiskKnown'
  <2>1. disk'.v = disk.v \/ Released(disk'.v)
    BY <1>a, <1>b DEF Artefact
  <2> QED
    BY <2>1 DEF DiskKnown, Released
<1>8. Waiting'
  BY DEF TypeOK, Waiting, Checker
<1>7. Order'
  BY DEF TypeOK, Order, Active, Checker
<1> QED
  BY <1>1, <1>2, <1>3, <1>4, <1>5, <1>6, <1>7, <1>8

LEMMA CopyInv ==
  ASSUME IInv, Copy
  PROVE  IInv'
<1> USE DEF IInv, release, process, swap, Copy
<1>1. TypeOK'
  <2>1. check' \in [Checker -> Calls] /\ cache' \in Result \union {None}
    BY DEF TypeOK, Calls, Quiet
  <2>2. install' \in [pc : {"idle", "check", "download", "extract", "stage", "apply", "quit"},
                     v : Version \union {None}, is : {"none", "partial", "whole"}]
    BY DEF TypeOK
  <2>3. running' \in Version \union {None} /\ next' \in Version \union {None}
    BY DEF TypeOK
  <2>4. fresh' \in BOOLEAN /\ overlap' \in BOOLEAN
    BY DEF TypeOK
  <2>5. staged' \in Artefact /\ disk' \in Artefact
    BY DEF TypeOK, Artefact
  <2>6. latest' \in Version \union {None} /\ os' \in {"darwin", "linux", "windows"}
    BY DEF TypeOK
  <2>7. script' \in {"none", "remove", "move", "copy", "start"}
    BY DEF TypeOK
  <2>8. unsynced' \in BOOLEAN /\ torn' \in BOOLEAN /\ spoiled' \in {"no", "raced", "down"}
    BY DEF TypeOK
  <2> QED
    BY <2>1, <2>2, <2>3, <2>4, <2>5, <2>6, <2>7, <2>8 DEF TypeOK, Calls
<1>2. WholeCopyLeft'
  BY DEF WholeCopyLeft, Swap, Swapping, TypeOK, Artefact
<1>3. Results'
  BY RankNat DEF TypeOK, Results, Sound, Released, Fits, Swapping, Artefact
<1>4. Installing'
  BY RankNat DEF TypeOK, Installing, Prepared, Released, Fits, Swapping, Artefact
<1>5. Swap'
  BY RankNat DEF TypeOK, Swap, Swapping, Released, Artefact
<1>6. DiskKnown'
  BY RankNat DEF TypeOK, DiskKnown, Released, Artefact
<1>8. Waiting'
  BY DEF TypeOK, Waiting, Checker
<1>7. Order'
  BY DEF TypeOK, Order, Active, Checker
<1> QED
  BY <1>1, <1>2, <1>3, <1>4, <1>5, <1>6, <1>7, <1>8

LEMMA RelaunchInv ==
  ASSUME IInv, Relaunch
  PROVE  IInv'
<1> USE DEF IInv, release, process, swap, Relaunch
<1>1. TypeOK'
  <2>1. check' \in [Checker -> Calls] /\ cache' \in Result \union {None}
    BY DEF TypeOK, Calls, Quiet
  <2>2. install' \in [pc : {"idle", "check", "download", "extract", "stage", "apply", "quit"},
                     v : Version \union {None}, is : {"none", "partial", "whole"}]
    BY DEF TypeOK
  <2>3. running' \in Version \union {None} /\ next' \in Version \union {None}
    <3>1. disk.v \in Version
      BY DEF TypeOK, Artefact
    <3> QED
      BY <3>1 DEF TypeOK
  <2>4. fresh' \in BOOLEAN /\ overlap' \in BOOLEAN
    BY DEF TypeOK
  <2>5. staged' \in Artefact /\ disk' \in Artefact
    BY DEF TypeOK, Artefact
  <2>6. latest' \in Version \union {None} /\ os' \in {"darwin", "linux", "windows"}
    BY DEF TypeOK
  <2>7. script' \in {"none", "remove", "move", "copy", "start"}
    BY DEF TypeOK
  <2>8. unsynced' \in BOOLEAN /\ torn' \in BOOLEAN /\ spoiled' \in {"no", "raced", "down"}
    BY DEF TypeOK
  <2> QED
    BY <2>1, <2>2, <2>3, <2>4, <2>5, <2>6, <2>7, <2>8 DEF TypeOK, Calls
<1>2. WholeCopyLeft'
  BY DEF WholeCopyLeft, Swap, Swapping
<1>3. Results'
  BY RankNat DEF TypeOK, Results, Sound, Released, Fits, Swapping, Artefact
<1>4. Installing'
  BY RankNat DEF TypeOK, Installing, Prepared, Released, Fits, Swapping, Artefact
<1>5. Swap'
  BY RankNat DEF TypeOK, Swap, Swapping, Released, Artefact
<1>6. DiskKnown'
  BY RankNat DEF TypeOK, DiskKnown, Released, Artefact
<1>8. Waiting'
  BY DEF TypeOK, Waiting, Checker
<1>7. Order'
  BY DEF TypeOK, Order, Active, Checker
<1> QED
  BY <1>1, <1>2, <1>3, <1>4, <1>5, <1>6, <1>7, <1>8

LEMMA UserStartsInv ==
  ASSUME IInv, UserStarts
  PROVE  IInv'
<1> USE DEF IInv, release, process, swap, UserStarts
<1>1. TypeOK'
  <2>1. check' \in [Checker -> Calls] /\ cache' \in Result \union {None}
    BY DEF TypeOK, Calls, Quiet
  <2>2. install' \in [pc : {"idle", "check", "download", "extract", "stage", "apply", "quit"},
                     v : Version \union {None}, is : {"none", "partial", "whole"}]
    BY DEF TypeOK
  <2>3. running' \in Version \union {None} /\ next' \in Version \union {None}
    <3>1. disk.v \in Version
      BY DEF TypeOK, Artefact
    <3> QED
      BY <3>1 DEF TypeOK
  <2>4. fresh' \in BOOLEAN /\ overlap' \in BOOLEAN
    BY DEF TypeOK
  <2>5. staged' \in Artefact /\ disk' \in Artefact
    BY DEF TypeOK, Artefact
  <2>6. latest' \in Version \union {None} /\ os' \in {"darwin", "linux", "windows"}
    BY DEF TypeOK
  <2>7. script' \in {"none", "remove", "move", "copy", "start"}
    BY DEF TypeOK
  <2>8. unsynced' \in BOOLEAN /\ torn' \in BOOLEAN /\ spoiled' \in {"no", "raced", "down"}
    BY DEF TypeOK
  <2> QED
    BY <2>1, <2>2, <2>3, <2>4, <2>5, <2>6, <2>7, <2>8 DEF TypeOK, Calls
<1>2. WholeCopyLeft'
  BY DEF WholeCopyLeft, Swap, Swapping
<1>3. Results'
  BY RankNat DEF TypeOK, Results, Sound, Released, Fits, Swapping, Artefact
<1>4. Installing'
  BY RankNat DEF TypeOK, Installing, Prepared, Released, Fits, Swapping, Artefact
<1>5. Swap'
  BY RankNat DEF TypeOK, Swap, Swapping, Released, Artefact
<1>6. DiskKnown'
  BY RankNat DEF TypeOK, DiskKnown, Released, Artefact
<1>8. Waiting'
  BY DEF TypeOK, Waiting, Checker
<1>7. Order'
  BY DEF TypeOK, Order, Active, Checker
<1> QED
  BY <1>1, <1>2, <1>3, <1>4, <1>5, <1>6, <1>7, <1>8

LEMMA FlushInv ==
  ASSUME IInv, Flush
  PROVE  IInv'
<1> USE DEF IInv, release, process, swap, Flush
<1>1. TypeOK'
  <2>1. check' \in [Checker -> Calls] /\ cache' \in Result \union {None}
    BY DEF TypeOK, Calls, Quiet
  <2>2. install' \in [pc : {"idle", "check", "download", "extract", "stage", "apply", "quit"},
                     v : Version \union {None}, is : {"none", "partial", "whole"}]
    BY DEF TypeOK
  <2>3. running' \in Version \union {None} /\ next' \in Version \union {None}
    BY DEF TypeOK
  <2>4. fresh' \in BOOLEAN /\ overlap' \in BOOLEAN
    BY DEF TypeOK
  <2>5. staged' \in Artefact /\ disk' \in Artefact
    BY DEF TypeOK, Artefact
  <2>6. latest' \in Version \union {None} /\ os' \in {"darwin", "linux", "windows"}
    BY DEF TypeOK
  <2>7. script' \in {"none", "remove", "move", "copy", "start"}
    BY DEF TypeOK
  <2>8. unsynced' \in BOOLEAN /\ torn' \in BOOLEAN /\ spoiled' \in {"no", "raced", "down"}
    BY DEF TypeOK
  <2> QED
    BY <2>1, <2>2, <2>3, <2>4, <2>5, <2>6, <2>7, <2>8 DEF TypeOK, Calls
<1>2. WholeCopyLeft'
  BY DEF WholeCopyLeft, Swap, Swapping
<1>3. Results'
  BY RankNat DEF TypeOK, Results, Sound, Released, Fits, Swapping, Artefact
<1>4. Installing'
  BY RankNat DEF TypeOK, Installing, Prepared, Released, Fits, Swapping, Artefact
<1>5. Swap'
  BY RankNat DEF TypeOK, Swap, Swapping, Released, Artefact
<1>6. DiskKnown'
  BY RankNat DEF TypeOK, DiskKnown, Released, Artefact
<1>8. Waiting'
  BY DEF TypeOK, Waiting, Checker
<1>7. Order'
  BY DEF TypeOK, Order, Active, Checker
<1> QED
  BY <1>1, <1>2, <1>3, <1>4, <1>5, <1>6, <1>7, <1>8

LEMMA MachineGoesDownInv ==
  ASSUME IInv, MachineGoesDown
  PROVE  IInv'
<1> USE DEF IInv, release, process, swap, MachineGoesDown, Forgotten, Quiet, Idle, NoCall
<1>a. /\ staged' = staged \/ staged' = [staged EXCEPT !.is = "none"]
      /\ disk' = disk \/ disk' = [disk EXCEPT !.is = "partial"]
  OBVIOUS
<1>1. TypeOK'
  <2>1. check' \in [Checker -> Calls] /\ cache' \in Result \union {None}
    BY DEF TypeOK, Calls, Quiet
  <2>2. install' \in [pc : {"idle", "check", "download", "extract", "stage", "apply", "quit"},
                     v : Version \union {None}, is : {"none", "partial", "whole"}]
    BY DEF TypeOK
  <2>3. running' \in Version \union {None} /\ next' \in Version \union {None}
    BY DEF TypeOK
  <2>4. fresh' \in BOOLEAN /\ overlap' \in BOOLEAN
    BY DEF TypeOK
  <2>5. staged' \in Artefact /\ disk' \in Artefact
    BY <1>a DEF TypeOK, Artefact
  <2>6. latest' \in Version \union {None} /\ os' \in {"darwin", "linux", "windows"}
    BY DEF TypeOK
  <2>7. script' \in {"none", "remove", "move", "copy", "start"}
    BY DEF TypeOK
  <2>8. unsynced' \in BOOLEAN /\ torn' \in BOOLEAN /\ spoiled' \in {"no", "raced", "down"}
    BY DEF TypeOK
  <2> QED
    BY <2>1, <2>2, <2>3, <2>4, <2>5, <2>6, <2>7, <2>8 DEF TypeOK, Calls
<1>2. WholeCopyLeft'
  BY DEF WholeCopyLeft, Swap, Swapping
<1>3. Results'
  BY RankNat DEF TypeOK, Results, Sound, Released, Fits, Swapping, Artefact
<1>4. Installing'
  BY RankNat DEF TypeOK, Installing, Prepared, Released, Fits, Swapping, Artefact
<1>5. Swap'
  BY RankNat DEF TypeOK, Swap, Swapping, Released, Artefact
<1>6. DiskKnown'
  BY RankNat DEF TypeOK, DiskKnown, Released, Artefact
<1>8. Waiting'
  BY DEF TypeOK, Waiting, Checker
<1>7. Order'
  BY DEF TypeOK, Order, Active, Checker
<1> QED
  BY <1>1, <1>2, <1>3, <1>4, <1>5, <1>6, <1>7, <1>8

-----------------------------------------------------------------------------
LEMMA InitInv == Init => IInv
<1> SUFFICES ASSUME Init PROVE IInv
  OBVIOUS
<1> USE UpdaterAssumption DEF Init, Quiet, Idle, NoCall
<1>1. PICK v \in Version : running = v /\ disk = [v |-> v, is |-> "whole"] /\ staged = [v |-> v, is |-> "none"]
  OBVIOUS
<1>2. TypeOK
  <2>1. staged \in Artefact /\ disk \in Artefact
    BY <1>1 DEF Artefact
  <2>2. check \in [Checker -> Calls]
    BY DEF Calls
  <2>4. install \in [pc : {"idle", "check", "download", "extract", "stage", "apply", "quit"},
                    v : Version \union {None}, is : {"none", "partial", "whole"}]
    OBVIOUS
  <2> QED
    BY <1>1, <2>1, <2>2, <2>4 DEF TypeOK, Calls
<1>3. WholeCopyLeft /\ Swap /\ DiskKnown
  BY <1>1 DEF WholeCopyLeft, Swap, Swapping, DiskKnown
<1>4. Results /\ Waiting /\ Installing /\ Order
  BY DEF Results, Sound, Waiting, Checker, Installing, Prepared, Order, Active
<1> QED
  BY <1>2, <1>3, <1>4 DEF IInv

LEMMA StepInv == IInv /\ [Next]_vars => IInv'
<1> SUFFICES ASSUME IInv, [Next]_vars PROVE IInv'
  OBVIOUS
<1>1. ASSUME NEW v \in Version, Publish(v) PROVE IInv'
  BY <1>1, PublishInv
<1>2. ASSUME NEW c \in Checker, NEW refresh \in BOOLEAN, CheckForUpdate(c, refresh) PROVE IInv'
  BY <1>2, CheckForUpdateInv
<1>3. ASSUME NEW c \in Checker, GitHubAnswers(c) \/ KeepResult(c) PROVE IInv'
  BY <1>3, GitHubAnswersInv, KeepResultInv
<1>4. CASE DayPasses
  BY <1>4, DayPassesInv
<1>5. CASE InstallUpdate \/ Checked \/ Download \/ Extract \/ Stage \/ Apply \/ Quit
  BY <1>5, InstallUpdateInv, CheckedInv, DownloadInv, ExtractInv, StageInv, ApplyInv, QuitInv
<1>6. CASE Remove \/ Move \/ Copy \/ Relaunch
  BY <1>6, RemoveInv, MoveInv, CopyInv, RelaunchInv
<1>7. CASE UserStarts \/ Flush \/ MachineGoesDown
  BY <1>7, UserStartsInv, FlushInv, MachineGoesDownInv
<1>8. CASE UNCHANGED vars
  BY <1>8 DEF IInv, vars, release, process, swap, TypeOK, WholeCopyLeft, Results, Sound, Waiting,
     Installing, Prepared, Swap, Swapping, Released, Fits, DiskKnown, Order, Active
<1> QED
  BY <1>1, <1>2, <1>3, <1>4, <1>5, <1>6, <1>7, <1>8 DEF Next

LEMMA Invariance == Spec => []IInv
<1>1. IInv /\ [Next]_vars => IInv'
  BY StepInv
<1> QED
  BY InitInv, <1>1, PTL DEF Spec

-----------------------------------------------------------------------------
\* Whichever steps of an update fail, a whole copy of the application is left,
\* unless the machine went down while there was none at its path
\* (install.go:110, 148-162, 355-389); and the variables have their types.
THEOREM UpdaterInvHolds == Spec => []UpdaterInv
<1>1. IInv => UpdaterInv
  BY DEF IInv, UpdaterInv
<1> QED
  BY <1>1, Invariance, PTL

\* Only the move of the script changes the version on disk.
LEMMA OnlyMove ==
  ASSUME IInv, [Next]_vars, disk'.v # disk.v
  PROVE  Move
<1>1. disk' # disk /\ disk \in Artefact
  BY DEF IInv, TypeOK
<1>2. Remove => disk'.v = disk.v
  BY <1>1 DEF Remove, Artefact
<1>3. Copy => disk'.v = disk.v
  BY <1>1 DEF Copy, Artefact
<1>4. MachineGoesDown => disk'.v = disk.v
  BY <1>1 DEF MachineGoesDown, Artefact
<1> QED
  BY <1>1, <1>2, <1>3, <1>4 DEF Next, vars, release, process, swap, Publish, CheckForUpdate, GitHubAnswers,
     KeepResult, DayPasses, InstallUpdate, Checked, Download, Extract, Stage, Apply, Quit,
     Relaunch, UserStarts, Flush

\* No update puts an older version in place (app.go:1375-1413), except a candidate
\* that sorts later as a string (updater.go:215), for any versions, overlapping
\* checks, quits and crashes.
THEOREM NeverOlderHolds == Spec => NeverOlder
<1>1. ASSUME IInv, [Next]_vars PROVE Rank(disk'.v) >= Rank(disk.v) \/ Missorted(disk.v, disk'.v)
  <2>1. disk.v \in Version /\ Rank(disk.v) \in Nat
    BY <1>1, RankNat DEF IInv, TypeOK, Artefact
  <2>2. CASE disk'.v = disk.v
    BY <2>1, <2>2
  <2>3. CASE Move
    <3>1. Succeeds(staged.v, disk.v) /\ Rank(staged.v) \in Nat
      BY <1>1, <2>3, RankNat DEF IInv, TypeOK, Artefact, Move, Swap, Swapping
    <3>2. disk'.v = staged.v \/ disk' = disk
      BY <2>3 DEF Move
    <3> QED
      BY <2>1, <3>1, <3>2 DEF Succeeds
  <2> QED
    BY <1>1, <2>2, <2>3, OnlyMove
<1>2. IInv /\ [Next]_vars => [Rank(disk'.v) >= Rank(disk.v) \/ Missorted(disk.v, disk'.v)]_disk
  BY <1>1
<1> QED
  BY <1>2, Invariance, PTL DEF Spec, NeverOlder

\* The cache goes back to an older release only when two checks overlap
\* (app.go:1426-1444).
THEOREM CacheForwardHolds == Spec => CacheForward
<1> DEFINE Forward == cache # None /\ cache' # None /\ cache.v # None /\ cache'.v # None /\ ~overlap
                        => Rank(cache'.v) >= Rank(cache.v)
<1>1. ASSUME IInv, [Next]_vars, cache' # cache PROVE Forward
  <2>1. (\E c \in Checker : KeepResult(c)) \/ cache' = None
    BY <1>1 DEF Next, vars, release, process, swap, Publish, CheckForUpdate, GitHubAnswers,
       DayPasses, InstallUpdate, Checked, Download, Extract, Stage, Apply, Quit, Forgotten,
       Remove, Move, Copy, Relaunch, UserStarts, Flush, MachineGoesDown
  <2>2. ASSUME NEW c \in Checker, KeepResult(c) PROVE Forward
    <3> SUFFICES ASSUME cache # None, cache' # None, cache.v # None, cache'.v # None, ~overlap
                 PROVE  Rank(cache'.v) >= Rank(cache.v)
      OBVIOUS
    <3>1. cache' = check[c].res /\ check[c].pc = "answered"
      BY <2>2 DEF KeepResult
    <3>2. cache.v \in Version /\ cache'.v \in Version
      BY <1>1, <3>1, ResultFields DEF IInv, TypeOK, Results
    <3>3. Rank(cache.v) <= Rank(cache'.v)
      BY <1>1, <3>1 DEF IInv, Order
    <3> QED
      BY <3>2, <3>3, RankNat
  <2> QED
    BY <2>1, <2>2
<1>2. IInv /\ [Next]_vars => [Forward]_cache
  BY <1>1
<1> QED
  BY <1>2, Invariance, PTL DEF Spec, CacheForward
=============================================================================
