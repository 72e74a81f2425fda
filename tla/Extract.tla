------------------------------ MODULE Extract ------------------------------
(***************************************************************************)
(* The sentinel's executable on disk (internal/sentinel/extract.go, and    *)
(* Start and restart of manager.go, which extract it before they launch    *)
(* it).  A program that runs keeps its file: Windows renames it, but       *)
(* neither removes nor replaces it.                                        *)
(***************************************************************************)
EXTENDS Integers, Files

CONSTANT MaxBuild   \* bound: builds of kbdlock, the newest one has this number

ASSUME BuildsAssumption == MaxBuild \in Nat \ {0}

Builds == 1..MaxBuild

ASSUME ContentsAssumption == {Absent, Empty, Torn} \cap Builds = {}

VARIABLES
  exe,        \* kbdlock-hook.exe: the build it is of
  old,        \* the .old file
  part,       \* the .tmp file
  hash,       \* the build whose hash is in the hash file
  image,      \* the file that the running sentinel was started from
  step,       \* how far the extraction has got; "up": the sentinel was launched
  build,      \* the build of the tray process, which has the sentinel embedded
  restart,    \* the extraction is that of a restart
  faulted,    \* history: a file was not moved aside although nobody used it
  newest,     \* history: the newest build that has been started
  down,       \* history: an older build was started after a newer one
  interrupted \* history: an extraction ended between its rename and its hash

fileVars    == <<exe, old, part, hash>>
historyVars == <<newest, down, interrupted>>
vars        == <<fileVars, image, step, build, restart, faulted, historyVars>>

Extracting == {"clean", "check", "aside", "write", "install", "hash", "launch"}

Init ==
  /\ exe = Absent /\ old = Absent /\ part = Absent /\ hash = Absent
  /\ image = "none"
  /\ step = "off" /\ build = 1 /\ restart = FALSE
  /\ faulted = FALSE
  /\ newest = 1 /\ down = FALSE /\ interrupted = FALSE

-----------------------------------------------------------------------------

GoOn(s) == step' = s /\ UNCHANGED <<build, restart>>

\* An error: runTrayApp exits, but restart only logs it.
Fails ==
  /\ step' = IF restart THEN "up" ELSE "off"
  /\ UNCHANGED <<build, restart>>

Interrupt == interrupted' = (interrupted \/ step = "hash")

-----------------------------------------------------------------------------

\* mgr.Start of a tray process of build b, and of the watchdog.
Start(b) ==
  /\ step = "off"
  /\ step' = "clean" /\ build' = b /\ restart' = FALSE
  /\ newest' = IF b > newest THEN b ELSE newest
  /\ down' = (down \/ b < newest)
  /\ UNCHANGED <<fileVars, image, faulted, interrupted>>

Restart ==
  /\ step = "up"
  /\ step' = "clean" /\ restart' = TRUE
  /\ UNCHANGED <<fileVars, image, build, faulted, historyVars>>

\* What cannot be removed stays.
CleanStale ==
  /\ step = "clean"
  /\ old' \in {old} \cup (IF image = "old" THEN {} ELSE {Absent})
  /\ part' \in {part, Absent}
  /\ faulted' = FALSE
  /\ GoOn("check")
  /\ UNCHANGED <<exe, hash, image, historyVars>>

\* The hash of the embedded executable is in the hash file, and there is an
\* executable: nothing to do, unless one of them cannot be read.
UpToDate == hash = build /\ exe # Absent

Check ==
  /\ step = "check"
  /\ \/ UpToDate /\ GoOn("launch")
     \/ GoOn("aside")
  /\ UNCHANGED <<fileVars, image, faulted, historyVars>>

\* A mistake of MoveAside: the executable is removed, not renamed.
MoveAsideRemoves ==
  /\ step = "aside"
  /\ exe' = IF image = "exe" THEN exe ELSE Absent
  /\ GoOn("write")
  /\ UNCHANGED <<old, part, hash, image, faulted, historyVars>>

\* The executable is renamed, also while it runs; or, when the .old file runs,
\* removed.  Either call may fail for a reason of its own, which is ignored.
MoveAside ==
  /\ step = "aside"
  /\ \/ /\ exe = Absent
        /\ UNCHANGED <<exe, old, image, faulted>>
     \/ /\ exe # Absent /\ image # "old"
        /\ old' = exe /\ exe' = Absent
        /\ image' = IF image = "exe" THEN "old" ELSE image
        /\ UNCHANGED faulted
     \/ /\ exe # Absent /\ image # "exe"
        /\ exe' = Absent
        /\ faulted' = (image # "old")
        /\ UNCHANGED <<old, image>>
     \/ /\ exe # Absent
        /\ faulted' = TRUE
        /\ UNCHANGED <<exe, old, image>>
  /\ GoOn("write")
  /\ UNCHANGED <<part, hash, historyVars>>

\* A mistake of WritePart: the hash is written first.
WriteHashFirst ==
  /\ step = "write"
  /\ part' = build /\ hash' = build
  /\ GoOn("install")
  /\ UNCHANGED <<exe, old, image, faulted, historyVars>>

WritePart ==
  /\ step = "write"
  /\ part' = build
  /\ GoOn("install")
  /\ UNCHANGED <<exe, old, hash, image, faulted, historyVars>>

\* A mistake of WritePartFails: the error of os.WriteFile is ignored.
WritePartErrorIgnored ==
  /\ step = "write"
  /\ part' \in {part, Torn}
  /\ GoOn("install")
  /\ UNCHANGED <<exe, old, hash, image, faulted, historyVars>>

WritePartFails ==
  /\ step = "write"
  /\ part' \in {part, Torn}
  /\ Fails
  /\ UNCHANGED <<exe, old, hash, image, faulted, historyVars>>

Install ==
  /\ step = "install" /\ image # "exe"
  /\ exe' = part /\ part' = Absent
  /\ GoOn("hash")
  /\ UNCHANGED <<old, hash, image, faulted, historyVars>>

InstallFails ==
  /\ step = "install"
  /\ part' \in {part, Absent}
  /\ Fails
  /\ UNCHANGED <<exe, old, hash, image, faulted, historyVars>>

WriteHash ==
  /\ step = "hash"
  /\ hash' = build
  /\ GoOn("launch")
  /\ UNCHANGED <<exe, old, part, image, faulted, historyVars>>

WriteHashFails ==
  /\ step = "hash"
  /\ hash' \in {hash, Torn}
  /\ Fails
  /\ Interrupt
  /\ UNCHANGED <<exe, old, part, image, faulted, newest, down>>

\* A sentinel that finds another one running exits at once.
Launch ==
  /\ step = "launch"
  /\ image' = IF image = "none" THEN "exe" ELSE image
  /\ GoOn("up")
  /\ UNCHANGED <<fileVars, faulted, historyVars>>

LaunchFails ==
  /\ step = "launch"
  /\ Fails
  /\ UNCHANGED <<fileVars, image, faulted, historyVars>>

\* The tray process ends, or is killed at any point, and the file it is writing
\* is left as it is.
TrayEnds ==
  /\ step # "off"
  /\ step' = "off" /\ UNCHANGED <<build, restart>>
  /\ part' \in (IF step = "write" THEN {part, Torn} ELSE {part})
  /\ hash' \in (IF step = "hash" THEN {hash, Torn} ELSE {hash})
  /\ Interrupt
  /\ UNCHANGED <<exe, old, image, faulted, newest, down>>

SentinelEnds ==
  /\ image # "none"
  /\ image' = "none"
  /\ UNCHANGED <<fileVars, step, build, restart, faulted, historyVars>>

Next ==
  \/ \E b \in Builds : Start(b)
  \/ Restart
  \/ CleanStale \/ Check \/ MoveAside
  \/ WritePart \/ WritePartFails
  \/ Install \/ InstallFails
  \/ WriteHash \/ WriteHashFails
  \/ Launch \/ LaunchFails
  \/ TrayEnds \/ SentinelEnds

Spec == Init /\ [][Next]_vars

-----------------------------------------------------------------------------

\* Every variable has its type: in particular, no executable is ever torn.
TypeOK ==
  /\ exe \in Builds \cup {Absent} /\ old \in Builds \cup {Absent}
  /\ part \in Builds \cup {Absent, Torn} /\ hash \in Builds \cup {Absent, Torn}
  /\ image \in {"none", "exe", "old"}
  /\ step \in Extracting \cup {"off", "up"}
  /\ build \in Builds /\ newest \in Builds
  /\ restart \in BOOLEAN /\ faulted \in BOOLEAN
  /\ down \in BOOLEAN /\ interrupted \in BOOLEAN

\* What is launched is the embedded executable, through every upgrade, every
\* interrupted or failed extraction and every file that another one left behind;
\* with downgrades, as long as no extraction ends between the rename and the
\* hash (ExtractSentinel, whose early return trusts the hash file).
LaunchedIsEmbedded ==
  [][Launch => exe = build \/ (down /\ interrupted)]_vars

\* A sentinel that still runs, from the executable or from one that an earlier
\* extraction has moved aside, never stops a new one from being installed.
UpgradeNotBlocked == step = "install" /\ ~faulted => image # "exe"

-----------------------------------------------------------------------------
(* The strengthenings that make the properties inductive. *)

\* What each step has made sure of.
Progress ==
  /\ step = "install" => part = build
  /\ step = "hash" => exe = build
  /\ step = "launch" => exe = build \/ (down /\ interrupted)

\* The hash file tells the truth unless an extraction was interrupted ...
HashTrue ==
  ~interrupted /\ step # "hash" /\ hash \in Builds /\ exe \in Builds => exe = hash

\* ... and then it is at most behind, as long as builds only go up.
HashBehind ==
  ~down =>
    /\ build = newest
    /\ hash \in Builds => hash <= build
    /\ exe \in Builds => exe <= build
    /\ hash \in Builds /\ exe \in Builds => hash <= exe

\* The running program keeps its file, and is moved aside in time.
ImageKept ==
  /\ image = "exe" \/ step = "launch" => exe # Absent
  /\ step \in {"write", "install"} /\ ~faulted => image # "exe"
=============================================================================
