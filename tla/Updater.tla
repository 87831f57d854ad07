------------------------------ MODULE Updater -------------------------------
(***************************************************************************)
(* The updater (client/updater, App.CheckForUpdate, App.InstallUpdate):    *)
(* asks which release is the latest, keeps the answer for a day, and on    *)
(* the user's click downloads it, stages it, and hands over to a script    *)
(* that swaps the application while it quits, and starts it again.  The    *)
(* script outlives the process and goes on after a step that fails, each   *)
(* system in its own way; the machine may go down between any two of its   *)
(* steps, and nothing has been synced to the disk by then.                 *)
(***************************************************************************)
EXTENDS Naturals

CONSTANTS Version,          \* the versions there are, as splitVersion makes them of
                            \* tags: the number, and the pre-release or 0
          MaxPre,           \* bound on the pre-releases of a number
          Spelling,         \* the place of each candidate's name among strings
          None

ASSUME UpdaterAssumption ==
  /\ MaxPre \in Nat /\ Version \subseteq [core : Nat, pre : 0..MaxPre]
  /\ Spelling \in [1..MaxPre -> Nat]

Checker == {"window", "install"}      \* who calls CheckForUpdate

VARIABLES
  latest,     \* the latest release, or None
  os,         \* the system it runs on
  running,    \* the version of the process, or None
  next,       \* a second process, started by the script before the first has gone
  cache,      \* App.updateCache, or None
  fresh,      \* its 24 hours are not over
  check,      \* calls of CheckForUpdate
  overlap,    \* two of them have overlapped in this process
  install,    \* the call of InstallUpdate
  staged,     \* the artefact in the staging directory of the script
  script,     \* the swap script: what it does next
  disk,       \* what is at the path of the application
  unsynced,   \* it is not yet on the disk itself
  spoiled,    \* what kept the application from being started again
  torn        \* the machine went down while there was no application

release == <<latest, os>>
process == <<running, next, cache, fresh, check, overlap, install>>
swap == <<staged, script, disk, unsynced, spoiled, torn>>
vars == <<release, process, swap>>

\* "nested": inside the application that was to be replaced.
Artefact == [v : Version, is : {"none", "partial", "whole", "nested"}]
Failed == [available |-> FALSE, v |-> None]
Result == [available : BOOLEAN, v : Version] \union {Failed}
ASSUME NoneAssumption == None \notin Version \union Result

Idle == [pc |-> "idle", res |-> None]
Quiet == [c \in Checker |-> Idle]
NoCall == [pc |-> "idle", v |-> None, is |-> "none"]

Init ==
  /\ \E v \in Version :
       /\ running = v
       /\ disk = [v |-> v, is |-> "whole"]
       /\ staged = [v |-> v, is |-> "none"]
  /\ latest = None /\ os \in {"darwin", "linux", "windows"} /\ next = None
  /\ cache = None /\ fresh = FALSE /\ check = Quiet /\ overlap = FALSE
  /\ install = NoCall /\ script = "none"
  /\ unsynced = FALSE /\ spoiled = "no" /\ torn = FALSE

-----------------------------------------------------------------------------
\* The order in which releases are made: the candidates, then their release.
Rank(v) == v.core * (MaxPre + 1) + (IF v.pre = 0 THEN MaxPre ELSE v.pre - 1)

\* Mutant: a candidate counts as newer than its release.
isNewerByPre(local, remote) ==
  remote.core > local.core \/ (remote.core = local.core /\ remote.pre > local.pre)

\* Candidates of one number are compared as strings.
isNewer(local, remote) ==
  \/ remote.core > local.core
  \/ /\ remote.core = local.core /\ local.pre # 0
     /\ remote.pre = 0 \/ Spelling[remote.pre] > Spelling[local.pre]

\* The candidates v and w of one release, whose strings say that w is newer,
\* though it was made before v: rc10 and rc9.
Missorted(v, w) ==
  /\ v.core = w.core /\ 0 < w.pre /\ w.pre < v.pre
  /\ Spelling[w.pre] > Spelling[v.pre]

\* GitHub's latest release moves on.
Publish(v) ==
  /\ latest # None => Rank(latest) < Rank(v)
  /\ latest' = v
  /\ UNCHANGED <<os, process, swap>>

\* No answer, or one that is refused, is a result like another; so is 404.
Answer == {Failed} \union
  (IF latest = None THEN {}
   ELSE {[available |-> isNewer(running, latest), v |-> latest]})

-----------------------------------------------------------------------------
(* App.CheckForUpdate.  The lock is given back while GitHub is asked.      *)

Start(c) == check' = [check EXCEPT ![c] = [pc |-> "asking", res |-> None]]

\* The cached result, if there is a fresh one; asked by the window, that
\* changes nothing.
CheckForUpdate(c, refresh) ==
  /\ running # None /\ check[c].pc = "idle"
  /\ c = "install" => install.pc = "check" /\ ~refresh
  /\ IF ~refresh /\ fresh /\ cache # None
     THEN /\ c = "install" /\ check' = [check EXCEPT ![c] = [pc |-> "done", res |-> cache]]
          /\ UNCHANGED overlap
     ELSE /\ Start(c)
          /\ overlap' = (overlap \/ \E d \in Checker : check[d].pc \in {"asking", "answered"})
  /\ UNCHANGED <<release, running, next, cache, fresh, install, swap>>

\* Mutant: the list of releases is asked for, and one of them taken.
GitHubAnswersAny(c) ==
  /\ running # None /\ check[c].pc = "asking"
  /\ \E v \in Version : check' = [check EXCEPT ![c] = [pc |-> "answered",
                     res |-> [available |-> isNewer(running, v), v |-> v]]]
  /\ UNCHANGED <<release, running, next, cache, fresh, overlap, install, swap>>

GitHubAnswers(c) ==
  /\ running # None /\ check[c].pc = "asking"
  /\ \E res \in Answer : check' = [check EXCEPT ![c] = [pc |-> "answered", res |-> res]]
  /\ UNCHANGED <<release, running, next, cache, fresh, overlap, install, swap>>

\* Whatever the result, it is kept for a day; the window has it only to show.
KeepResult(c) ==
  /\ running # None /\ check[c].pc = "answered"
  /\ cache' = check[c].res /\ fresh' = TRUE
  /\ check' = [check EXCEPT ![c] = IF c = "window" THEN Idle ELSE [@ EXCEPT !.pc = "done"]]
  /\ UNCHANGED <<release, running, next, overlap, install, swap>>

DayPasses ==
  /\ fresh
  /\ fresh' = FALSE
  /\ UNCHANGED <<release, running, next, cache, check, overlap, install, swap>>

-----------------------------------------------------------------------------
(* App.InstallUpdate.  The window lets one call run, and none after one    *)
(* that has succeeded.                                                     *)

Goes(pc) == install' = [install EXCEPT !.pc = pc]
Fails == install' = NoCall

InstallUpdate ==
  /\ running # None /\ install.pc = "idle"
  /\ install' = [NoCall EXCEPT !.pc = "check"]
  /\ UNCHANGED <<release, running, next, cache, fresh, check, overlap, swap>>

\* Nothing newer, or nothing for this system, or the own path is not known.
Checked ==
  LET res == check["install"].res IN
  /\ check["install"].pc = "done"
  /\ \/ res.available /\ install' = [pc |-> "download", v |-> res.v, is |-> "none"]
     \/ Fails
  /\ check' = [check EXCEPT !["install"] = Idle]
  /\ UNCHANGED <<release, running, next, cache, fresh, overlap, swap>>

\* downloadFile, into a directory of its own.
Download ==
  /\ install.pc = "download"
  /\ Goes("extract") \/ Fails
  /\ UNCHANGED <<release, running, next, cache, fresh, check, overlap, swap>>

\* Mutant: an archive that breaks off is taken for a short one.
ExtractSome ==
  /\ install.pc = "extract"
  /\ \E is \in {"whole", "partial"} : install' = [install EXCEPT !.pc = "stage", !.is = is]
  /\ UNCHANGED <<release, running, next, cache, fresh, check, overlap, swap>>

\* unzip or untargz: what was extracted before an error stays where it is.
Extract ==
  /\ install.pc = "extract"
  /\ install' = [install EXCEPT !.pc = "stage", !.is = "whole"] \/ Fails
  /\ UNCHANGED <<release, running, next, cache, fresh, check, overlap, swap>>

\* stagedArtefact and writeSwapScript.
Stage ==
  /\ install.pc = "stage"
  /\ Goes("apply") \/ Fails
  /\ UNCHANGED <<release, running, next, cache, fresh, check, overlap, swap>>

\* Half a second later the application quits.  The script of an update before
\* this one takes a second or two: it has ended.
Apply ==
  /\ install.pc = "apply" /\ script = "none"
  /\ \/ /\ Goes("quit") /\ script' = "remove"
        /\ staged' = [v |-> install.v, is |-> install.is]
     \/ Fails /\ UNCHANGED <<script, staged>>
  /\ UNCHANGED <<release, running, next, cache, fresh, check, overlap, disk, unsynced, spoiled, torn>>

\* What the process kept in memory.
Forgotten == cache' = None /\ fresh' = FALSE /\ check' = Quiet /\ overlap' = FALSE /\ install' = NoCall

\* The update, or the user, quits; a second process stays.
Quit ==
  /\ running # None
  /\ running' = next /\ next' = None /\ Forgotten
  /\ UNCHANGED <<release, swap>>

-----------------------------------------------------------------------------
(* The swap script.                                                        *)

\* Windows does not let go of the file of a running program.
Locked == os = "windows" /\ running # None

\* del of a file, rm -rf of a file or of a bundle: fails for want of
\* permission, and in the middle of a bundle.
Remove ==
  /\ script = "remove"
  /\ script' = "move"
  /\ disk' \in {disk} \union {[disk EXCEPT !.is = is] : is \in IF Locked THEN {}
                              ELSE IF os = "darwin" THEN {"none", "partial"} ELSE {"none"}}
  /\ UNCHANGED <<release, process, staged, unsynced, spoiled, torn>>

\* mv takes the new bundle into what is left of the old one.
Nests == os = "darwin" /\ disk.is # "none"

\* mv, move: a rename, or a copy from the temporary file system, or nothing.
Move ==
  /\ script = "move"
  /\ \/ /\ ~Nests /\ ~(Locked /\ disk.is # "none")
        /\ unsynced' = TRUE
        /\ \/ /\ disk' = [v |-> staged.v, is |-> "whole"]
              /\ staged' = [staged EXCEPT !.is = "none"] /\ script' = "start"
           \/ /\ disk' = [v |-> staged.v, is |-> "partial"]
              /\ script' = "copy" /\ UNCHANGED staged
     \/ /\ Nests
        /\ staged' = [staged EXCEPT !.is = "nested"] /\ script' = "start"
        /\ UNCHANGED <<disk, unsynced>>
     \/ script' = "start" /\ UNCHANGED <<staged, disk, unsynced>>
  /\ UNCHANGED <<release, process, spoiled, torn>>

\* The copy comes to its end, and the original is removed; or the disk is full.
Copy ==
  /\ script = "copy"
  /\ \/ disk' = [disk EXCEPT !.is = "whole"] /\ staged' = [staged EXCEPT !.is = "none"]
     \/ UNCHANGED <<staged, disk>>
  /\ script' = "start"
  /\ UNCHANGED <<release, process, unsynced, spoiled, torn>>


\* The application is started whatever came of the swap; one that is not whole
\* does not run.  While the old process is still there, the new one runs beside
\* it (at most two are followed); but open only brings the old one to the front,
\* and nothing is started if that one is about to quit.
Relaunch ==
  /\ script = "start"
  /\ script' = "none"
  /\ running' = IF running = None /\ disk.is = "whole" THEN disk.v ELSE running
  /\ next' = IF running # None /\ next = None /\ disk.is = "whole" /\ os # "darwin" THEN disk.v ELSE next
  /\ spoiled' = IF os = "darwin" /\ running # None /\ install.pc = "quit" THEN "raced" ELSE spoiled
  /\ UNCHANGED <<release, cache, fresh, check, overlap, install, staged, disk, unsynced, torn>>

UserStarts ==
  /\ running = None /\ disk.is = "whole"
  /\ running' = disk.v /\ spoiled' = "no"
  /\ UNCHANGED <<release, next, cache, fresh, check, overlap, install, staged, script, disk, unsynced,
                 torn>>

\* The system writes out what it has kept back.
Flush ==
  /\ unsynced /\ script # "copy"
  /\ unsynced' = FALSE
  /\ UNCHANGED <<release, process, staged, script, disk, spoiled, torn>>

\* The staging directory is one of temporary files, and no file is synced; the
\* journal of the file system keeps removals and renames.
MachineGoesDown ==
  /\ running' = None /\ next' = None /\ Forgotten
  /\ script' = "none" /\ unsynced' = FALSE /\ spoiled' = "down"
  /\ staged' \in {staged, [staged EXCEPT !.is = "none"]}
  /\ disk' = disk \/ (unsynced /\ disk.is = "whole" /\ disk' = [disk EXCEPT !.is = "partial"])
  /\ torn' = (disk'.is # "whole")
  /\ UNCHANGED release

-----------------------------------------------------------------------------
Next ==
  \/ \E v \in Version : Publish(v)
  \/ \E c \in Checker :
       (\E refresh \in BOOLEAN : CheckForUpdate(c, refresh)) \/ GitHubAnswers(c) \/ KeepResult(c)
  \/ DayPasses
  \/ InstallUpdate \/ Checked \/ Download \/ Extract \/ Stage \/ Apply \/ Quit
  \/ Remove \/ Move \/ Copy \/ Relaunch
  \/ UserStarts \/ Flush \/ MachineGoesDown

Spec == Init /\ [][Next]_vars

\* The application quits after Apply, and the script runs to its end.
FairSpec ==
  Spec /\ WF_vars(install.pc = "quit" /\ Quit) /\ WF_vars(Remove \/ Move \/ Copy \/ Relaunch)

-----------------------------------------------------------------------------
TypeOK ==
  /\ latest \in Version \union {None}
  /\ os \in {"darwin", "linux", "windows"}
  /\ running \in Version \union {None} /\ next \in Version \union {None}
  /\ cache \in Result \union {None} /\ fresh \in BOOLEAN /\ overlap \in BOOLEAN
  /\ check \in [Checker -> [pc : {"idle", "asking", "answered", "done"}, res : Result \union {None}]]
  /\ install \in [pc : {"idle", "check", "download", "extract", "stage", "apply", "quit"},
                  v : Version \union {None}, is : {"none", "partial", "whole"}]
  /\ staged \in Artefact /\ disk \in Artefact
  /\ script \in {"none", "remove", "move", "copy", "start"}
  /\ unsynced \in BOOLEAN /\ torn \in BOOLEAN /\ spoiled \in {"no", "raced", "down"}

\* Whichever steps of the download, of the extraction and of the swap script
\* fail, a whole copy of the application is left: at its path, in the staging
\* directory, or inside a bundle that could not be removed (install.go:148-162,
\* 355-389).  Not if the machine goes down while there is none at the path: the
\* staging directory need not outlive that (install.go:110).
WholeCopyLeft == disk.is = "whole" \/ staged.is \in {"whole", "nested"} \/ torn

\* The invariant of an update: the types, and that no failing step of
\* PrepareInstall or of the swap script leaves the user without a whole copy.
UpdaterInv == TypeOK /\ WholeCopyLeft

\* No update puts an older version in place, though the cached result it goes
\* by was found up to a day before, and the script swaps when the process that
\* judged it may be gone and started again (app.go:1375-1413); except a
\* candidate that the order of strings takes for a later one (updater.go:215).
NeverOlder == [][Rank(disk'.v) >= Rank(disk.v) \/ Missorted(disk.v, disk'.v)]_disk

\* The cache goes back to an older release only when two checks overlap, the
\* lock being given back while GitHub is asked (app.go:1426-1444).
CacheForward ==
  [][cache # None /\ cache' # None /\ cache.v # None /\ cache'.v # None /\ ~overlap
     => Rank(cache'.v) >= Rank(cache.v)]_cache

=============================================================================
