--------------------------- MODULE ExtractProofs ---------------------------
(***************************************************************************)
(* What ExtractSentinel guarantees, for any number of builds.              *)
(***************************************************************************)
EXTENDS Extract, TLAPS

LEMMA OneIsABuild == 1 \in Builds
BY BuildsAssumption DEF Builds

LEMMA MarksAreNoBuilds == Absent \notin Builds /\ Torn \notin Builds
BY ContentsAssumption

-----------------------------------------------------------------------------
(* Types.  What is renamed to the executable has been written completely. *)

Typed == TypeOK /\ Progress

LEMMA TypedInit == Init => Typed
<1>1. Init => TypeOK
  BY OneIsABuild DEF Init, TypeOK
<1>2. Init => Progress
  BY DEF Init, Progress
<1>3. QED  BY <1>1, <1>2 DEF Typed

LEMMA TypeStep ==
  ASSUME Typed, [Next]_vars
  PROVE  TypeOK'
<1>a. TypeOK /\ Progress  BY DEF Typed
<1>1. ASSUME NEW b \in Builds, Start(b) PROVE TypeOK'
  <2>1. /\ newest' \in Builds
        /\ down' \in BOOLEAN
    BY <1>a, <1>1 DEF TypeOK, Start
  <2>2. QED
    BY <1>a, <1>1, <2>1 DEF TypeOK, Start, fileVars, Extracting
<1>2. CASE Restart \/ CleanStale \/ Check
  BY <1>a, <1>2
     DEF TypeOK, Restart, CleanStale, Check, GoOn, fileVars, historyVars, Extracting
<1>3. CASE MoveAside
  <2>1. /\ exe' \in Builds \cup {Absent} /\ old' \in Builds \cup {Absent}
        /\ image' \in {"none", "exe", "old"}
    BY <1>a, <1>3 DEF TypeOK, MoveAside
  <2>2. faulted' \in BOOLEAN
    BY <1>a, <1>3, Zenon DEF TypeOK, MoveAside
  <2>3. QED
    BY <1>a, <1>3, <2>1, <2>2 DEF TypeOK, MoveAside, GoOn, historyVars, Extracting
<1>4. CASE WritePart \/ WritePartFails
  BY <1>a, <1>4
     DEF TypeOK, WritePart, WritePartFails, GoOn, Fails, historyVars, Extracting
<1>5. CASE Install
  BY <1>a, <1>5 DEF TypeOK, Progress, Install, GoOn, historyVars, Extracting
<1>6. CASE InstallFails \/ WriteHash \/ Launch \/ LaunchFails \/ SentinelEnds
  BY <1>a, <1>6
     DEF TypeOK, InstallFails, WriteHash, Launch, LaunchFails, SentinelEnds, GoOn,
         Fails, fileVars, historyVars, Extracting
<1>7. CASE WriteHashFails \/ TrayEnds
  <2>1. interrupted' \in BOOLEAN
    BY <1>a, <1>7 DEF TypeOK, WriteHashFails, TrayEnds, Interrupt
  <2>2. QED
    BY <1>a, <1>7, <2>1
       DEF TypeOK, WriteHashFails, TrayEnds, Fails, historyVars, Extracting
<1>8. CASE UNCHANGED vars
  BY <1>a, <1>8 DEF TypeOK, vars, fileVars, historyVars
<1>9. QED
  BY <1>1, <1>2, <1>3, <1>4, <1>5, <1>6, <1>7, <1>8 DEF Next

-----------------------------------------------------------------------------
(* The hash file and the executable. *)

HashInv == Typed /\ HashTrue /\ HashBehind

LEMMA HashInit == Init => HashTrue /\ HashBehind
BY MarksAreNoBuilds DEF Init, HashTrue, HashBehind

\* A hash that matches is that of the executable.
LEMMA MatchMeansSame ==
  ASSUME HashInv, step # "hash", hash = build, exe # Absent
  PROVE  exe = build \/ (down /\ interrupted)
<1>1. build \in Builds /\ exe \in Builds /\ Builds \subseteq Nat
  BY BuildsAssumption DEF HashInv, Typed, TypeOK, Builds
<1>2. CASE ~interrupted
  BY <1>1, <1>2 DEF HashInv, HashTrue
<1>3. CASE ~down
  BY <1>1, <1>3 DEF HashInv, HashBehind
<1>4. QED  BY <1>2, <1>3

LEMMA ProgressStep ==
  ASSUME HashInv, [Next]_vars
  PROVE  Progress'
<1>a. Progress  BY DEF HashInv, Typed
<1>1. ASSUME NEW b \in Builds, Start(b) PROVE Progress'
  BY <1>1 DEF Progress, Start
<1>2. CASE Check
  <2>1. UpToDate => exe = build \/ (down /\ interrupted)
    BY <1>2, MatchMeansSame DEF UpToDate, Check
  <2>2. QED  BY <1>2, <2>1 DEF Progress, Check, GoOn, fileVars, historyVars
<1>3. CASE Restart \/ CleanStale \/ MoveAside \/ WritePart \/ Launch
  BY <1>3 DEF Progress, Restart, CleanStale, MoveAside, WritePart, Launch, GoOn
<1>4. CASE Install \/ WriteHash
  BY <1>a, <1>4 DEF Progress, Install, WriteHash, GoOn
<1>5. CASE WritePartFails \/ InstallFails \/ WriteHashFails \/ LaunchFails \/ TrayEnds
  BY <1>5 DEF Progress, WritePartFails, InstallFails, WriteHashFails, LaunchFails,
              TrayEnds, Fails
<1>6. CASE SentinelEnds \/ UNCHANGED vars
  BY <1>a, <1>6 DEF Progress, SentinelEnds, vars, fileVars, historyVars
<1>7. QED  BY <1>1, <1>2, <1>3, <1>4, <1>5, <1>6 DEF Next

LEMMA HashStep ==
  ASSUME HashInv, [Next]_vars
  PROVE  (HashTrue /\ HashBehind)'
<1>a. /\ TypeOK /\ Progress /\ HashTrue /\ HashBehind
      /\ Builds \subseteq Nat /\ Absent \notin Builds /\ Torn \notin Builds
  BY BuildsAssumption, MarksAreNoBuilds DEF HashInv, Typed, Builds
<1>b. /\ build \in Nat /\ newest \in Nat /\ build \in Builds
      /\ down \in BOOLEAN /\ interrupted \in BOOLEAN
  BY <1>a DEF TypeOK
<1>1. ASSUME NEW b \in Builds, Start(b) PROVE (HashTrue /\ HashBehind)'
  <2>1. b \in Nat  BY <1>a
  <2>2. HashTrue'  BY <1>a, <1>1 DEF HashTrue, Start, fileVars
  <2>3. ASSUME ~down' PROVE ~down /\ build <= b /\ newest' = b
    <3>1. down' = (down \/ b < newest)  BY <1>1 DEF Start
    <3>2. ~down /\ ~(b < newest)  BY <1>b, <2>3, <3>1
    <3>3. QED  BY <1>a, <1>b, <1>1, <2>1, <3>2 DEF HashBehind, Start
  <2>4. HashBehind'
    <3>1. SUFFICES ASSUME ~down' PROVE
            /\ build' = newest'
            /\ hash \in Builds => hash <= b
            /\ exe \in Builds => exe <= b
            /\ hash \in Builds /\ exe \in Builds => hash <= exe
      BY <1>1 DEF HashBehind, Start, fileVars
    <3>2. ~down /\ build <= b /\ newest' = b  BY <2>3, <3>1
    <3>3. build = newest /\ build' = b  BY <1>a, <1>1, <3>2 DEF HashBehind, Start
    <3>4. /\ hash \in Builds => hash \in Nat /\ hash <= build
          /\ exe \in Builds => exe \in Nat /\ exe <= build
          /\ hash \in Builds /\ exe \in Builds => hash <= exe
      BY <1>a, <3>2 DEF HashBehind
    <3>5. QED  BY <1>b, <2>1, <3>2, <3>3, <3>4
  <2>5. QED  BY <2>2, <2>4
<1>2. CASE Restart \/ CleanStale \/ Check \/ WritePart \/ Launch \/ SentinelEnds
           \/ UNCHANGED vars
  BY <1>a, <1>2
     DEF HashTrue, HashBehind, Restart, CleanStale, Check, WritePart, Launch,
         SentinelEnds, GoOn, vars, fileVars, historyVars
<1>3. CASE WritePartFails \/ InstallFails \/ LaunchFails
  BY <1>a, <1>3
     DEF HashTrue, HashBehind, WritePartFails, InstallFails, LaunchFails, Fails,
         fileVars, historyVars
<1>4. CASE MoveAside
  <2>1. exe' \in {exe, Absent} /\ UNCHANGED <<hash, build, historyVars>>
        /\ step # "hash"
    BY <1>4 DEF MoveAside, GoOn
  <2>2. QED  BY <1>a, <2>1 DEF HashTrue, HashBehind, historyVars
<1>5. CASE Install
  <2>1. exe' = build /\ step' = "hash" /\ UNCHANGED <<hash, build, historyVars>>
    BY <1>a, <1>5 DEF Install, Progress, GoOn
  <2>2. QED  BY <1>a, <1>b, <2>1 DEF HashTrue, HashBehind, historyVars
<1>6. CASE WriteHash
  <2>1. exe = build /\ hash' = build /\ UNCHANGED <<exe, build, historyVars>>
    BY <1>a, <1>6 DEF WriteHash, Progress, GoOn
  <2>2. QED  BY <1>a, <1>b, <2>1 DEF HashTrue, HashBehind, historyVars
<1>7. CASE WriteHashFails \/ TrayEnds
  <2>1. /\ hash' \in {hash, Torn} /\ UNCHANGED <<exe, build, newest, down>>
        /\ step # "hash" => hash' = hash /\ interrupted' = interrupted
        /\ step = "hash" => interrupted'
    <3>1. interrupted' = (interrupted \/ step = "hash")
      BY <1>7 DEF WriteHashFails, TrayEnds, Interrupt
    <3>2. step # "hash" => interrupted' = interrupted
      BY <1>b, <3>1
    <3>3. step = "hash" => interrupted'  BY <3>1
    <3>4. QED  BY <1>7, <3>2, <3>3 DEF WriteHashFails, TrayEnds, Fails
  <2>2. QED  BY <1>a, <1>b, <2>1 DEF HashTrue, HashBehind
<1>8. QED
  BY <1>1, <1>2, <1>3, <1>4, <1>5, <1>6, <1>7 DEF Next

LEMMA HashInvInit == Init => HashInv
BY TypedInit, HashInit DEF HashInv

LEMMA HashInvStep == HashInv /\ [Next]_vars => HashInv'
BY TypeStep, ProgressStep, HashStep DEF HashInv, Typed

\* No step of any extraction, complete, failed or interrupted, leaves an
\* executable that is not a whole build (extract.go writes a temporary file).
THEOREM ExtractTyped == Spec => []TypeOK
<1>1. HashInv => TypeOK  BY DEF HashInv, Typed
<1>2. QED  BY <1>1, HashInvInit, HashInvStep, PTL DEF Spec

\* For any number of builds: what is launched is the embedded executable, unless
\* an interrupted extraction meets a downgrade (the early return of
\* ExtractSentinel).
THEOREM LaunchedAlwaysEmbedded == Spec => LaunchedIsEmbedded
<1>1. HashInv /\ [Next]_vars => (Launch => exe = build \/ (down /\ interrupted))
  BY DEF HashInv, Typed, Progress, Launch
<1>2. QED
  BY <1>1, HashInvInit, HashInvStep, PTL DEF Spec, LaunchedIsEmbedded

-----------------------------------------------------------------------------
(* The running sentinel. *)

LEMMA ImageStep ==
  ASSUME Typed, ImageKept, [Next]_vars
  PROVE  ImageKept'
<1>a. /\ TypeOK /\ Progress /\ ImageKept
      /\ build \in Builds /\ build # Absent
  BY MarksAreNoBuilds DEF Typed, TypeOK
<1>1. ASSUME NEW b \in Builds, Start(b) PROVE ImageKept'
  BY <1>a, <1>1 DEF ImageKept, Start, fileVars
<1>2. CASE Restart \/ CleanStale \/ Check \/ WriteHash
  BY <1>a, <1>2
     DEF ImageKept, Progress, Restart, CleanStale, Check, UpToDate, WriteHash, GoOn,
         fileVars
<1>3. CASE MoveAside
  BY <1>a, <1>3 DEF ImageKept, MoveAside, GoOn
<1>4. CASE WritePart
  BY <1>a, <1>4 DEF ImageKept, WritePart, GoOn
<1>5. CASE Install
  BY <1>a, <1>5 DEF ImageKept, Install, Progress, GoOn
<1>6. CASE Launch
  BY <1>a, <1>6 DEF ImageKept, Launch, GoOn, fileVars
<1>7. CASE WritePartFails \/ InstallFails \/ WriteHashFails \/ LaunchFails \/ TrayEnds
  BY <1>a, <1>7
     DEF ImageKept, WritePartFails, InstallFails, WriteHashFails, LaunchFails,
         TrayEnds, Fails, fileVars
<1>8. CASE SentinelEnds \/ UNCHANGED vars
  BY <1>a, <1>8 DEF ImageKept, SentinelEnds, vars, fileVars
<1>9. QED
  BY <1>1, <1>2, <1>3, <1>4, <1>5, <1>6, <1>7, <1>8 DEF Next

\* For any number of builds, a sentinel that runs does not stop the installation
\* of a new one (extract.go renames the executable out of the way).
THEOREM UpgradeNeverBlocked == Spec => []UpgradeNotBlocked
<1>1. Init => ImageKept  BY DEF Init, ImageKept
<1>2. HashInv => Typed  BY DEF HashInv
<1>3. HashInv /\ ImageKept /\ [Next]_vars => HashInv' /\ ImageKept'
  BY <1>2, HashInvStep, ImageStep
<1>4. ImageKept => UpgradeNotBlocked  BY DEF ImageKept, UpgradeNotBlocked
<1>5. QED
  BY <1>1, <1>3, <1>4, HashInvInit, PTL DEF Spec
=============================================================================
