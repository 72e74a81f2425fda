------------------------- MODULE LifecycleProofs -------------------------
(***************************************************************************)
(* Theorems about processes that come and go, for any number of them, of   *)
(* kills and of failures.                                                  *)
(***************************************************************************)
EXTENDS Lifecycle, TLAPS

USE TraysAssumption, FaultsAssumption

\* The inductive invariant, in parts.  Whoever is past AcquireController has a
\* handle on the mutex: this is what keeps the others out.
Held == \A t \in Trays : pc[t] \in Guarded => t \in handles

\* Who listens is between Listen and the end; a client and a watchdog that runs
\* belong to a process that holds the mutex.
Serving == \A t \in Trays : control = t => pc[t] \in {"serve", "run"}
Linked  == \A t \in Trays : conn = t \/ dog[t] # "off" => pc[t] \in Guarded

\* A PID that `kbdlock stop` goes on with is that of a process that had listened.
TargetKnown ==
  cli \in {"stop", "wait"} =>
    target \in Trays /\ pc[target] \in Guarded \cup {"exit"}

\* "failed" is written at the end only.
FileTold == \A t \in Trays : file[t] = "failed" => pc[t] \in {"failing", "exit"}

-----------------------------------------------------------------------------
(* Types. *)

LEMMA GoneTyped ==
  ASSUME TypeOK, NEW t \in Trays, Gone(t)
  PROVE  /\ pc' \in [Trays -> PCs] /\ stop' \in [Trays -> Stops] /\ dog' \in [Trays -> Dogs]
         /\ taken' \in [Trays -> [cmd : BOOLEAN, client : BOOLEAN]]
         /\ client' \in [Trays -> BOOLEAN] /\ cmd' \in [Trays -> BOOLEAN]
         /\ handles' \subseteq Trays \cup {"cli"}
         /\ control' \in Trays \cup {"none"} /\ conn' \in Trays \cup {"none"}
         /\ sent' \in BOOLEAN
<1>1. taken' \in [Trays -> [cmd : BOOLEAN, client : BOOLEAN]]
  BY DEF TypeOK, Gone, Nothing
<1>2. QED  BY <1>1 DEF TypeOK, Gone, PCs, Stops, Dogs

LEMMA ReportTyped ==
  ASSUME TypeOK, NEW t \in Trays, NEW s \in Reports, Report(t, s)
  PROVE  /\ file' \in [Trays -> Reports \cup {"absent", "empty"}]
         /\ launcher' \in [Trays -> {"none", "waiting", "late", "failed", "ok"}]
BY DEF TypeOK, Report

LEMMA SentinelEndsTyped ==
  ASSUME TypeOK, SentinelEnds
  PROVE  /\ sent' \in BOOLEAN /\ conn' \in Trays \cup {"none"}
         /\ cmd' \in [Trays -> BOOLEAN]
         /\ taken' \in [Trays -> [cmd : BOOLEAN, client : BOOLEAN]]
BY DEF TypeOK, SentinelEnds

LEMMA TypeInit == Init => TypeOK
<1> SUFFICES ASSUME Init PROVE TypeOK  OBVIOUS
<1>1. taken \in [Trays -> [cmd : BOOLEAN, client : BOOLEAN]]
  BY DEF Init, Nothing
<1>2. pc \in [Trays -> PCs] /\ stop \in [Trays -> Stops] /\ dog \in [Trays -> Dogs]
  BY DEF Init, PCs, Stops, Dogs
<1>3. client \in [Trays -> BOOLEAN] /\ cmd \in [Trays -> BOOLEAN]
  BY DEF Init
<1>4. /\ launcher \in [Trays -> {"none", "waiting", "late", "failed", "ok"}]
      /\ file \in [Trays -> Reports \cup {"absent", "empty"}]
  BY DEF Init
<1>5. faults \in 0..MaxFaults
  BY DEF Init
<1>6. QED  BY <1>1, <1>2, <1>3, <1>4, <1>5 DEF Init, TypeOK

LEMMA MainTyped ==
  ASSUME TypeOK, NEW t \in Trays, Begin(t) \/ MainStep(t) \/ Hears(t) \/ Dies(t)
  PROVE  TypeOK'
<1> USE DEF TypeOK, PCs, Guarded, GoTo, trayVars, sentinelVars, startVars, cliVars
<1>1. CASE Begin(t)
  <2>1. CASE StartDetached(t)  BY <2>1 DEF StartDetached, Reports
  <2>2. CASE RunTrayApp(t)     BY <2>2 DEF RunTrayApp
  <2>3. QED  BY <1>1, <2>1, <2>2 DEF Begin
<1>2. CASE AcquireController(t)
  BY <1>2 DEF AcquireController
<1>3. CASE AlreadyRunning(t) \/ StartFails(t)
  BY <1>3, GoneTyped, ReportTyped DEF AlreadyRunning, StartFails, Reports
<1>4. CASE Exit(t) \/ Dies(t)
  BY <1>4, GoneTyped DEF Exit, Dies, Killed, QuitPanics, Fault
<1>5. CASE StartSentinel(t)
  BY <1>5 DEF StartSentinel, Launch
<1>6. CASE Connected(t)
  BY <1>6 DEF Connected, Dial, Dogs
<1>7. CASE ConnectFails(t) \/ ListenFails(t)
  BY <1>7, ReportTyped DEF ConnectFails, ListenFails, GiveUp, Stops, Reports
<1>8. CASE Listen(t)
  BY <1>8 DEF Listen
<1>9. CASE OnReady(t)
  BY <1>9, ReportTyped DEF OnReady, Reports
<1>10. CASE Hears(t)
  BY <1>10 DEF Hears
<1>11. QED
  BY <1>1, <1>2, <1>3, <1>4, <1>5, <1>6, <1>7, <1>8, <1>9, <1>10 DEF MainStep

LEMMA StopTyped ==
  ASSUME TypeOK, NEW t \in Trays, StopStep(t) \/ Quit(t)
  PROVE  TypeOK'
<1> USE DEF TypeOK, Stops, Proceed, trayVars, sentinelVars, startVars, cliVars
<1>1. CASE CloseControl(t)  BY <1>1 DEF CloseControl
<1>2. CASE StopCopies(t)    BY <1>2 DEF StopCopies
<1>3. CASE StopQuits(t)     BY <1>3 DEF StopQuits
<1>4. CASE StopWaits(t)     BY <1>4, SentinelEndsTyped DEF StopWaits
<1>5. CASE QuitTray(t)      BY <1>5 DEF QuitTray
<1>6. CASE Quit(t)          BY <1>6 DEF Quit, AskStop
<1>7. QED  BY <1>1, <1>2, <1>3, <1>4, <1>5, <1>6 DEF StopStep

LEMMA DogTyped ==
  ASSUME TypeOK, NEW t \in Trays, DogStep(t)
  PROVE  TypeOK'
<1> USE DEF TypeOK, Dogs, Watch, trayVars, sentinelVars, startVars, cliVars
<1>1. CASE DogEnds(t) \/ DogGoesOn(t)  BY <1>1 DEF DogEnds, DogGoesOn
<1>2. CASE DogCloses(t)
  <2>1. faults' \in 0..MaxFaults
    BY <1>2 DEF DogCloses, Fault
  <2>2. taken' \in [Trays -> [cmd : BOOLEAN, client : BOOLEAN]]
    BY <1>2 DEF DogCloses
  <2>3. QED  BY <1>2, <2>1, <2>2 DEF DogCloses
<1>3. CASE DogStarts(t)                BY <1>3 DEF DogStarts, Launch
<1>4. CASE DogStartFails(t)            BY <1>4 DEF DogStartFails
<1>5. CASE DogDials(t)                 BY <1>5 DEF DogDials, Dial
<1>6. QED  BY <1>1, <1>2, <1>3, <1>4, <1>5 DEF DogStep

LEMMA CliTyped ==
  ASSUME TypeOK, TargetKnown, SentinelDies \/ CliAsks \/ CliWaits
  PROVE  TypeOK'
<1> USE DEF TypeOK, Return, trayVars, sentinelVars, startVars, cliVars
<1>1. CASE SentinelDies  BY <1>1, SentinelEndsTyped DEF SentinelDies, Fault
<1>2. CASE CliPID        BY <1>2 DEF CliPID
<1>3. CASE CliStop       BY <1>3 DEF CliStop, AskStop, Proceed, Stops
<1>4. CASE CliProbe      BY <1>4 DEF CliProbe
<1>5. CASE CliProbed     BY <1>5 DEF CliProbed
<1>6. CASE CliWaited     BY <1>6 DEF CliWaited
<1>7. CASE CliKill
  BY <1>7, GoneTyped DEF CliKill, TargetKnown
<1>8. QED
  BY <1>1, <1>2, <1>3, <1>4, <1>5, <1>6, <1>7 DEF CliAsks, CliWaits

-----------------------------------------------------------------------------
(* One controller at a time. *)

OneAtATime == \A t, u \in Trays : pc[t] \in Guarded /\ pc[u] \in Guarded => t = u

MutexInv == Held /\ Serving /\ Linked /\ OneAtATime

LEMMA MutexInit == Init => MutexInv
BY DEF Init, MutexInv, Held, Serving, Linked, OneAtATime, Guarded

\* A process that goes takes its handle along, and nobody else's.
LEMMA GoneKeepsMutex ==
  ASSUME TypeOK, MutexInv, NEW t \in Trays, Gone(t)
  PROVE  MutexInv'
<1>1. \A u \in Trays : u # t => pc'[u] = pc[u] /\ dog'[u] = dog[u]
  BY DEF TypeOK, Gone
<1>2. pc'[t] = "exit" /\ dog'[t] = "off"
  BY DEF TypeOK, Gone
<1>3. Held'  BY <1>1, <1>2 DEF MutexInv, Held, Gone, Guarded
<1>4. Serving'  BY <1>1, <1>2 DEF MutexInv, Serving, Gone
<1>5. Linked'  BY <1>1, <1>2 DEF MutexInv, Linked, Gone
<1>6. OneAtATime'  BY <1>1, <1>2 DEF MutexInv, OneAtATime, Guarded
<1>7. QED  BY <1>3, <1>4, <1>5, <1>6 DEF MutexInv

LEMMA AcquireKeepsMutex ==
  ASSUME TypeOK, MutexInv, NEW t \in Trays, AcquireController(t)
  PROVE  MutexInv'
<1>1. \A u \in Trays : u # t => pc'[u] = pc[u]
  BY DEF TypeOK, AcquireController, GoTo
<1>2. pc[t] = "acquire" /\ pc'[t] = (IF handles = {} THEN "start" ELSE "loser")
  BY DEF TypeOK, AcquireController, GoTo
<1>3. Held'
  BY <1>1, <1>2 DEF MutexInv, Held, AcquireController
<1>4. Serving' /\ Linked'
  BY <1>1, <1>2 DEF MutexInv, Serving, Linked, AcquireController, Guarded, sentinelVars
<1>5. OneAtATime'
  <2>1. CASE handles = {}
    <3>1. \A u \in Trays : pc[u] \notin Guarded
      BY <2>1 DEF MutexInv, Held
    <3>2. QED  BY <1>1, <3>1 DEF OneAtATime
  <2>2. CASE handles # {}
    BY <1>1, <1>2, <2>2 DEF MutexInv, OneAtATime, Guarded
  <2>3. QED  BY <2>1, <2>2
<1>6. QED  BY <1>3, <1>4, <1>5 DEF MutexInv

\* A step from one place under the mutex to another, or outside of it.
LEMMA MoveKeepsMutex ==
  ASSUME TypeOK, MutexInv, NEW t \in Trays, NEW step, GoTo(t, step),
         step \in Guarded <=> pc[t] \in Guarded,
         control = t => step \in {"serve", "run"},
         control' = control \/ (control' = t /\ step = "serve"),
         conn' \in {conn, "none"} \/ (conn' = t /\ step \in Guarded),
         dog' = dog \/ (step \in Guarded /\ \E d : dog' = [dog EXCEPT ![t] = d]),
         handles' = handles
  PROVE  MutexInv'
<1>1. \A u \in Trays : u # t => pc'[u] = pc[u] /\ dog'[u] = dog[u]
  BY DEF TypeOK, GoTo
<1>2. pc'[t] = step
  BY DEF TypeOK, GoTo
<1>3. Held'  BY <1>1, <1>2 DEF MutexInv, Held
<1>4. Serving'  BY <1>1, <1>2 DEF MutexInv, Serving
<1>5. Linked'  BY <1>1, <1>2 DEF MutexInv, Linked, TypeOK
<1>6. OneAtATime'  BY <1>1, <1>2 DEF MutexInv, OneAtATime
<1>7. QED  BY <1>3, <1>4, <1>5, <1>6 DEF MutexInv

LEMMA MainKeepsMutex ==
  ASSUME TypeOK, MutexInv, NEW t \in Trays, Begin(t) \/ MainStep(t) \/ Hears(t) \/ Dies(t)
  PROVE  MutexInv'
<1> USE DEF Guarded, trayVars, sentinelVars
<1>1. CASE AcquireController(t)
  BY <1>1, AcquireKeepsMutex
<1>2. CASE AlreadyRunning(t) \/ StartFails(t) \/ Exit(t) \/ Dies(t)
  BY <1>2, GoneKeepsMutex DEF AlreadyRunning, StartFails, Exit, Dies, Killed, QuitPanics
<1>3. CASE Begin(t)
  <2>1. pc[t] = "off" /\ GoTo(t, "acquire")
        /\ UNCHANGED <<control, conn, dog, handles>>
    BY <1>3 DEF Begin, StartDetached, RunTrayApp
  <2>2. control # t
    BY <2>1 DEF MutexInv, Serving
  <2>3. QED  BY <2>1, <2>2, MoveKeepsMutex
<1>4. CASE StartSentinel(t)
  <2>1. pc[t] = "start" /\ GoTo(t, "connect")
        /\ UNCHANGED <<control, conn, dog, handles>>
    BY <1>4 DEF StartSentinel, Launch
  <2>2. control # t
    BY <2>1 DEF MutexInv, Serving
  <2>3. QED  BY <2>1, <2>2, MoveKeepsMutex
<1>5. CASE Connected(t)
  <2>1. pc[t] = "connect" /\ GoTo(t, "listen") /\ conn' = t
        /\ dog' = [dog EXCEPT ![t] = "rest"] /\ UNCHANGED <<control, handles>>
    BY <1>5 DEF Connected, Dial
  <2>2. control # t
    BY <2>1 DEF MutexInv, Serving
  <2>3. QED  BY <2>1, <2>2, MoveKeepsMutex
<1>6. CASE ConnectFails(t) \/ ListenFails(t)
  <2>1. pc[t] \in {"connect", "listen"} /\ GoTo(t, "failing")
        /\ UNCHANGED <<control, conn, dog, handles>>
    BY <1>6 DEF ConnectFails, ListenFails, GiveUp
  <2>2. control # t
    BY <2>1 DEF MutexInv, Serving
  <2>3. QED  BY <2>1, <2>2, MoveKeepsMutex
<1>7. CASE Listen(t) \/ OnReady(t)
  <2>1. CASE Listen(t)
    BY <2>1, MoveKeepsMutex DEF Listen
  <2>2. CASE OnReady(t)
    BY <2>2, MoveKeepsMutex DEF OnReady
  <2>3. QED  BY <1>7, <2>1, <2>2
<1>8. CASE Hears(t)
  BY <1>8 DEF Hears, MutexInv, Held, Serving, Linked, OneAtATime
<1>9. QED
  BY <1>1, <1>2, <1>3, <1>4, <1>5, <1>6, <1>7, <1>8 DEF MainStep

\* The steps that leave every main goroutine where it is.
LEMMA StayKeepsMutex ==
  ASSUME TypeOK, MutexInv, pc' = pc,
         handles \cap Trays \subseteq handles',
         control' \in {control, "none"},
         \/ conn' \in {conn, "none"}
         \/ \E t \in Trays : conn' = t /\ pc[t] \in Guarded,
         \A t \in Trays : dog'[t] # "off" => dog[t] # "off"
  PROVE  MutexInv'
<1>1. Held' /\ OneAtATime'  BY DEF MutexInv, Held, OneAtATime
<1>2. Serving'  BY DEF MutexInv, Serving
<1>3. Linked'  BY DEF MutexInv, Linked
<1>4. QED  BY <1>1, <1>2, <1>3 DEF MutexInv

LEMMA StopKeepsMutex ==
  ASSUME TypeOK, MutexInv, NEW t \in Trays, StopStep(t) \/ Quit(t)
  PROVE  MutexInv'
<1>1. /\ UNCHANGED <<pc, handles, dog>>
      /\ control' \in {control, "none"} /\ conn' \in {conn, "none"}
  BY DEF StopStep, CloseControl, StopCopies, StopQuits, StopWaits, SentinelEnds, QuitTray,
     Quit, sentinelVars
<1>2. QED  BY <1>1, StayKeepsMutex

\* The watchdog dials for a process that holds the mutex.
LEMMA DogKeepsMutex ==
  ASSUME TypeOK, MutexInv, NEW t \in Trays, DogStep(t)
  PROVE  MutexInv'
<1>1. dog[t] # "off" /\ UNCHANGED <<pc, handles, control>>
  BY DEF DogStep, DogEnds, DogCloses, DogGoesOn, DogStarts, DogStartFails, DogDials
<1>2. pc[t] \in Guarded
  BY <1>1 DEF MutexInv, Linked
<1>3. conn' \in {conn, "none"} \/ conn' = t
  BY DEF DogStep, DogEnds, DogCloses, DogGoesOn, DogStarts, Launch, DogStartFails,
     DogDials, Dial, sentinelVars
<1>4. \A u \in Trays : dog'[u] # "off" => dog[u] # "off"
  BY <1>1 DEF TypeOK, DogStep, DogEnds, DogCloses, DogGoesOn, DogStarts, DogStartFails,
     DogDials, Watch
<1>5. QED  BY <1>1, <1>2, <1>3, <1>4, StayKeepsMutex

LEMMA CliKeepsMutex ==
  ASSUME TypeOK, MutexInv, TargetKnown, SentinelDies \/ CliAsks \/ CliWaits
  PROVE  MutexInv'
<1>1. CASE CliKill
  BY <1>1, GoneKeepsMutex DEF CliKill, TargetKnown
<1>2. CASE SentinelDies \/ CliAsks \/ CliWaited
  <2>1. /\ UNCHANGED <<pc, dog>> /\ handles \cap Trays \subseteq handles'
        /\ control' = control /\ conn' \in {conn, "none"}
    BY <1>2 DEF SentinelDies, SentinelEnds, CliAsks, CliPID, CliStop, CliProbe, CliProbed,
       CliWaited, trayVars, sentinelVars
  <2>2. QED  BY <2>1, StayKeepsMutex
<1>3. QED  BY <1>1, <1>2 DEF CliWaits

-----------------------------------------------------------------------------
(* kbdlock stop, and the launcher. *)

CliInv  == TargetKnown /\ KillHitsStopped
FileInv == FileTold /\ FailedStartEnds

LEMMA CliInit == Init => CliInv /\ FileInv
BY DEF Init, CliInv, TargetKnown, KillHitsStopped, FileInv, FileTold, FailedStartEnds

\* What a tray process does by itself takes it nowhere but on or to its end, and
\* a shutdown once asked for stays asked for.
LEMMA TraySteps ==
  ASSUME TypeOK, MutexInv, NEW t \in Trays,
         \/ Begin(t) \/ MainStep(t) \/ StopStep(t) \/ DogStep(t)
         \/ Hears(t) \/ Quit(t) \/ Dies(t)
  PROVE  /\ \A u \in Trays : pc[u] \in Guarded \cup {"exit"} => pc'[u] \in Guarded \cup {"exit"}
         /\ \A u \in Trays : pc[u] = "exit" => pc'[u] = "exit"
         /\ \A u \in Trays : stop[u] # "no" => stop'[u] # "no" \/ pc'[u] = "exit"
         /\ UNCHANGED cliVars
<1> USE DEF TypeOK, Guarded, PCs, GoTo, Proceed, trayVars, sentinelVars, cliVars
<1>1. CASE Begin(t) \/ Hears(t)
  BY <1>1 DEF Begin, StartDetached, RunTrayApp, Hears
<1>2. CASE AlreadyRunning(t) \/ StartFails(t) \/ Exit(t) \/ Dies(t)
  BY <1>2 DEF AlreadyRunning, StartFails, Exit, Dies, Killed, QuitPanics, Gone
<1>3. CASE AcquireController(t) \/ StartSentinel(t) \/ Connected(t) \/ Listen(t) \/ OnReady(t)
  BY <1>3 DEF AcquireController, StartSentinel, Connected, Listen, OnReady
<1>4. CASE ConnectFails(t) \/ ListenFails(t)
  BY <1>4 DEF ConnectFails, ListenFails, GiveUp
<1>5. CASE StopStep(t) \/ Quit(t)
  BY <1>5 DEF StopStep, CloseControl, StopCopies, StopQuits, StopWaits, QuitTray, Quit, AskStop
<1>6. CASE DogStep(t)
  BY <1>6 DEF DogStep, DogEnds, DogCloses, DogGoesOn, DogStarts, DogStartFails, DogDials
<1>7. QED
  BY <1>1, <1>2, <1>3, <1>4, <1>5, <1>6 DEF MainStep

LEMMA TrayKeepsCli ==
  ASSUME TypeOK, MutexInv, CliInv, NEW t \in Trays,
         \/ Begin(t) \/ MainStep(t) \/ StopStep(t) \/ DogStep(t)
         \/ Hears(t) \/ Quit(t) \/ Dies(t)
  PROVE  CliInv'
BY TraySteps DEF CliInv, TargetKnown, KillHitsStopped, cliVars

\* The case that matters is CliStop: if the PID is that of another process than the
\* one that listens now, that process has exited, since both cannot hold the mutex.
LEMMA CliKeepsCli ==
  ASSUME TypeOK, MutexInv, CliInv, SentinelDies \/ CliAsks \/ CliWaits
  PROVE  CliInv'
<1> USE DEF CliInv, TargetKnown, KillHitsStopped, trayVars
<1>1. CASE CliPID
  <2>1. control \in Trays /\ pc[control] \in Guarded
    BY <1>1 DEF CliPID, TypeOK, MutexInv, Serving, Guarded
  <2>2. QED  BY <1>1, <2>1 DEF CliPID
<1>2. CASE CliStop
  <2>1. control \in Trays /\ pc[control] \in Guarded
    BY <1>2 DEF CliStop, TypeOK, MutexInv, Serving, Guarded
  <2>2. target \in Trays /\ (pc[target] # "exit" => target = control)
    BY <1>2, <2>1 DEF CliStop, MutexInv, OneAtATime
  <2>3. stop'[control] # "no"
    BY <1>2, <2>1 DEF CliStop, AskStop, Proceed, TypeOK
  <2>4. QED  BY <1>2, <2>2, <2>3 DEF CliStop
<1>3. CASE SentinelDies
  BY <1>3 DEF SentinelDies, cliVars
<1>4. CASE CliProbe \/ CliProbed \/ CliWaited \/ CliKill
  BY <1>4 DEF CliProbe, CliProbed, CliWaited, CliKill, Return
<1>5. QED  BY <1>1, <1>2, <1>3, <1>4 DEF CliAsks, CliWaits

\* Who has ended does not listen: it is enough to know where the processes are.
LEMMA FileMoves ==
  ASSUME FileInv, MutexInv', NEW t \in Trays,
         \A u \in Trays \ {t} :
           pc'[u] = pc[u] /\ file'[u] = file[u] /\ launcher'[u] = launcher[u],
         file'[t] = "failed" \/ launcher'[t] = "failed" => pc'[t] \in {"failing", "exit"}
  PROVE  FileInv'
<1>1. \A u \in Trays : file'[u] = "failed" \/ launcher'[u] = "failed"
                         => pc'[u] \in {"failing", "exit"}
  BY DEF FileInv, FileTold, FailedStartEnds
<1>2. \A u \in Trays : pc'[u] \in {"failing", "exit"} => control' # u
  BY DEF MutexInv, Serving
<1>3. QED  BY <1>1, <1>2 DEF FileInv, FileTold, FailedStartEnds

LEMMA MainKeepsFile ==
  ASSUME TypeOK, FileInv, MutexInv', NEW t \in Trays,
         Begin(t) \/ MainStep(t) \/ Hears(t) \/ Dies(t)
  PROVE  FileInv'
<1> USE DEF TypeOK, GoTo, Report, startVars
<1>1. file[t] = "failed" \/ launcher[t] = "failed" => pc[t] \in {"failing", "exit"}
  BY DEF FileInv, FileTold, FailedStartEnds
<1>2. CASE Begin(t)
  <2>1. CASE StartDetached(t)  BY <1>1, <2>1, FileMoves DEF StartDetached
  <2>2. CASE RunTrayApp(t)     BY <1>1, <2>2, FileMoves DEF RunTrayApp
  <2>3. QED  BY <1>2, <2>1, <2>2 DEF Begin
<1>3. CASE AlreadyRunning(t) \/ StartFails(t) \/ Exit(t) \/ Dies(t)
  BY <1>3, FileMoves DEF AlreadyRunning, StartFails, Exit, Dies, Killed, QuitPanics, Gone
<1>4. CASE AcquireController(t) \/ StartSentinel(t) \/ Connected(t) \/ Listen(t)
  BY <1>1, <1>4, FileMoves DEF AcquireController, StartSentinel, Connected, Listen
<1>5. CASE ConnectFails(t) \/ ListenFails(t)
  BY <1>5, FileMoves DEF ConnectFails, ListenFails, GiveUp
<1>6. CASE OnReady(t)
  BY <1>1, <1>6, FileMoves DEF OnReady
<1>7. CASE Hears(t)
  BY <1>1, <1>7, FileMoves DEF Hears, trayVars
<1>8. QED
  BY <1>2, <1>3, <1>4, <1>5, <1>6, <1>7 DEF MainStep

LEMMA RestKeepsFile ==
  ASSUME TypeOK, FileInv, CliInv, MutexInv',
         \/ \E t \in Trays : StopStep(t) \/ DogStep(t) \/ Quit(t)
         \/ SentinelDies \/ CliAsks \/ CliWaits
  PROVE  FileInv'
<1> USE DEF startVars, trayVars
<1>1. CASE CliKill
  <2>1. target \in Trays  BY <1>1 DEF CliKill, CliInv, TargetKnown
  <2>2. QED  BY <1>1, <2>1, FileMoves DEF CliKill, Gone, TypeOK
<1>2. CASE UNCHANGED <<pc, file, launcher>>
  BY <1>2 DEF FileInv, FileTold, FailedStartEnds, MutexInv, Serving
<1>3. ASSUME NEW t \in Trays, StopStep(t) \/ DogStep(t) \/ Quit(t)
      PROVE  UNCHANGED <<pc, file, launcher>>
  BY <1>3 DEF StopStep, CloseControl, StopCopies, StopQuits, StopWaits, QuitTray, Quit,
     DogStep, DogEnds, DogCloses, DogGoesOn, DogStarts, DogStartFails, DogDials
<1>4. ASSUME SentinelDies \/ CliAsks \/ CliWaited
      PROVE  UNCHANGED <<pc, file, launcher>>
  BY <1>4 DEF SentinelDies, CliAsks, CliPID, CliStop, CliProbe, CliProbed, CliWaited
<1>5. QED  BY <1>1, <1>2, <1>3, <1>4 DEF CliWaits

-----------------------------------------------------------------------------
(* The theorems. *)

IInv == TypeOK /\ MutexInv /\ CliInv /\ FileInv

LEMMA IInvInit == Init => IInv
BY TypeInit, MutexInit, CliInit DEF IInv

LEMMA IInvStep ==
  ASSUME IInv, [Next]_vars
  PROVE  IInv'
<1> USE DEF IInv
<1>1. ASSUME NEW t \in Trays, Begin(t) \/ MainStep(t) \/ Hears(t) \/ Dies(t)
      PROVE  IInv'
  BY <1>1, MainTyped, MainKeepsMutex, TrayKeepsCli, MainKeepsFile
<1>2. ASSUME NEW t \in Trays, StopStep(t) \/ Quit(t)
      PROVE  IInv'
  BY <1>2, StopTyped, StopKeepsMutex, TrayKeepsCli, RestKeepsFile
<1>3. ASSUME NEW t \in Trays, DogStep(t)
      PROVE  IInv'
  BY <1>3, DogTyped, DogKeepsMutex, TrayKeepsCli, RestKeepsFile
<1>4. ASSUME SentinelDies \/ CliAsks \/ CliWaits
      PROVE  IInv'
  <2>1. TargetKnown  BY DEF CliInv
  <2>2. QED  BY <1>4, <2>1, CliTyped, CliKeepsMutex, CliKeepsCli, RestKeepsFile
<1>5. ASSUME UNCHANGED vars
      PROVE  IInv'
  <2>1. TypeOK'
    BY <1>5 DEF TypeOK, vars, trayVars, sentinelVars, startVars, cliVars
  <2>2. MutexInv'
    BY <1>5 DEF MutexInv, Held, Serving, Linked, OneAtATime, vars, trayVars, sentinelVars
  <2>3. CliInv' /\ FileInv'
    BY <1>5 DEF CliInv, TargetKnown, KillHitsStopped, FileInv, FileTold, FailedStartEnds,
       vars, trayVars, startVars, cliVars
  <2>4. QED  BY <2>1, <2>2, <2>3
<1>6. QED  BY <1>1, <1>2, <1>3, <1>4, <1>5 DEF Next

LEMMA IInvAlways == Spec => []IInv
BY IInvInit, IInvStep, PTL DEF Spec

\* There is one controller at a time, and it alone listens and is connected, for
\* any number of tray processes (AcquireController).
THEOREM OneControllerAlways == Spec => []OneController
<1>1. IInv => OneController
  BY DEF IInv, MutexInv, OneAtATime, Serving, Linked, OneController, Guarded
<1>2. QED  BY <1>1, IInvAlways, PTL

\* `kbdlock stop` kills nobody who was not told to stop (WaitForExitOrKill).
THEOREM KillAlwaysHitsStopped == Spec => []KillHitsStopped
<1>1. IInv => KillHitsStopped
  BY DEF IInv, CliInv
<1>2. QED  BY <1>1, IInvAlways, PTL

\* Who was told that the start failed will not meet a tray later (StartDetached).
THEOREM FailedStartAlwaysEnds == Spec => []FailedStartEnds
<1>1. IInv => FailedStartEnds
  BY DEF IInv, FileInv
<1>2. QED  BY <1>1, IInvAlways, PTL

\* Every variable keeps its type.
THEOREM LifecycleTyped == Spec => []TypeOK
<1>1. IInv => TypeOK
  BY DEF IInv
<1>2. QED  BY <1>1, IInvAlways, PTL

-----------------------------------------------------------------------------
(* The sentinel that a shutdown ends. *)

\* A shutdown belongs to a process that serves, runs or fails, a client to one that
\* holds the mutex.  Without a fault the watchdog closes a client only after the
\* shutdown has hung it up, when it no longer goes on to a launch: what Manager.Stop
\* has copied stays what m.cmd is.
OwnPart(t) ==
  /\ client[t] => pc[t] \in Guarded
  /\ stop[t] # "no" => pc[t] \in {"serve", "run", "failing"}
  /\ faults = 0 =>
       /\ dog[t] \in {"off", "rest"} \/ (dog[t] = "sleep" /\ Cancelled(t))
       /\ client[t] /\ ~Cancelled(t) => conn = t
       /\ stop[t] \in {"quit", "wait"} => taken[t].cmd = cmd[t]
       /\ stop[t] \in {"done", "posted", "lost"} => cmd[t] = FALSE

OwnInv == \A t \in Trays : OwnPart(t)

LEMMA OwnInit == Init => OwnInv
BY DEF Init, OwnInv, OwnPart

\* What concerns a process changes with its own steps and those of the connection.
LEMMA OwnKept ==
  ASSUME NEW u \in Trays, OwnPart(u), faults' = 0 => faults = 0,
         pc'[u] = pc[u], stop'[u] = stop[u], dog'[u] = dog[u], client'[u] = client[u],
         cmd'[u] = cmd[u], taken'[u] = taken[u], conn = u => conn' = u
  PROVE  OwnPart(u)'
BY DEF OwnPart, Cancelled

\* All is cleared for the process that goes.
LEMMA GoneOwn ==
  ASSUME TypeOK, OwnInv, NEW t \in Trays, Gone(t), faults' = 0 => faults = 0
  PROVE  OwnInv'
<1>1. ASSUME NEW u \in Trays, u # t PROVE OwnPart(u)'
  <2>1. OwnPart(u)  BY DEF OwnInv
  <2>2. QED  BY <1>1, <2>1, OwnKept DEF Gone, TypeOK
<1>2. OwnPart(t)'
  BY DEF Gone, TypeOK, OwnPart, Cancelled
<1>3. QED  BY <1>1, <1>2 DEF OwnInv

LEMMA MainOwn ==
  ASSUME TypeOK, MutexInv, OwnInv, NEW t \in Trays,
         Begin(t) \/ MainStep(t) \/ Hears(t) \/ Dies(t)
  PROVE  OwnInv'
<1>a. faults' = 0 => faults = 0
  BY DEF Begin, StartDetached, RunTrayApp, MainStep, AcquireController, AlreadyRunning,
     StartFails, StartSentinel, Connected, ConnectFails, Listen, ListenFails, OnReady,
     Exit, Hears, Dies, Killed, QuitPanics, Fault, TypeOK
<1>1. CASE AlreadyRunning(t) \/ StartFails(t) \/ Exit(t) \/ Dies(t)
  BY <1>1, <1>a, GoneOwn DEF AlreadyRunning, StartFails, Exit, Dies, Killed, QuitPanics
<1>2. CASE ~(AlreadyRunning(t) \/ StartFails(t) \/ Exit(t) \/ Dies(t))
  <2> USE DEF trayVars, sentinelVars, GoTo, TypeOK
  <2>1. ASSUME NEW u \in Trays, u # t PROVE OwnPart(u)'
    <3>1. OwnPart(u)  BY DEF OwnInv
    <3>2. /\ pc'[u] = pc[u] /\ stop'[u] = stop[u] /\ dog'[u] = dog[u]
          /\ client'[u] = client[u] /\ cmd'[u] = cmd[u] /\ taken'[u] = taken[u]
      BY <1>2, <2>1
         DEF Begin, StartDetached, RunTrayApp, MainStep, AcquireController,
             StartSentinel, Launch, Connected, Dial, ConnectFails, GiveUp, Listen,
             ListenFails, OnReady, Hears
    <3>3. conn = u => conn' = u
      BY <1>2, <2>1
         DEF Begin, StartDetached, RunTrayApp, MainStep, AcquireController,
             StartSentinel, Launch, Connected, Dial, ConnectFails, GiveUp, Listen,
             ListenFails, OnReady, Hears
    <3>4. QED  BY <1>a, <3>1, <3>2, <3>3, OwnKept
  <2>2. OwnPart(t)  BY DEF OwnInv
  <2>3. ASSUME Begin(t) \/ Hears(t)
       PROVE  OwnPart(t)'
    BY <1>a, <2>2, <2>3
       DEF Begin, StartDetached, RunTrayApp, Hears, OwnPart, Cancelled, Guarded
  <2>4. ASSUME AcquireController(t) \/ Listen(t) \/ OnReady(t)
       PROVE  OwnPart(t)'
    BY <1>a, <2>2, <2>4
       DEF AcquireController, Listen, OnReady, OwnPart, Cancelled, Guarded
  <2>5. ASSUME StartSentinel(t)
       PROVE  OwnPart(t)'
    BY <1>a, <2>2, <2>5 DEF StartSentinel, Launch, OwnPart, Cancelled, Guarded
  <2>6. ASSUME Connected(t)
       PROVE  OwnPart(t)'
    BY <1>a, <2>2, <2>6 DEF Connected, Dial, OwnPart, Cancelled, Guarded
  <2>7. ASSUME ConnectFails(t) \/ ListenFails(t)
       PROVE  OwnPart(t)'
    BY <1>a, <2>2, <2>7
       DEF ConnectFails, ListenFails, GiveUp, OwnPart, Cancelled, Guarded
  <2>8. OwnPart(t)'
    BY <1>2, <2>3, <2>4, <2>5, <2>6, <2>7 DEF MainStep
  <2>9. QED  BY <2>1, <2>8 DEF OwnInv
<1>3. QED  BY <1>1, <1>2

\* The kill of StopWaits takes the sentinel from whoever has launched it.
LEMMA SentinelEndsOwn ==
  ASSUME TypeOK, SentinelEnds, NEW u \in Trays, OwnPart(u),
         UNCHANGED <<pc, dog, client>>, stop'[u] = stop[u],
         faults' # 0 \/ (faults = 0 /\ conn # u)
  PROVE  OwnPart(u)'
BY DEF TypeOK, SentinelEnds, OwnPart, Cancelled

LEMMA StopOwn ==
  ASSUME TypeOK, MutexInv, OwnInv, NEW t \in Trays, StopStep(t) \/ Quit(t)
  PROVE  OwnInv'
<1>a. /\ OwnPart(t) /\ UNCHANGED <<pc, dog, client, faults>>
      /\ pc[t] \in Guarded
      /\ \A u \in Trays \ {t} : stop'[u] = stop[u]
      /\ \A u \in Trays \ {t} : OwnPart(u) /\ conn # u
  <2>1. OwnPart(t) /\ UNCHANGED <<pc, dog, client, faults>> /\ pc[t] \in Guarded
    BY DEF OwnInv, StopStep, CloseControl, StopCopies, StopQuits, StopWaits, QuitTray,
       Quit, Watching, Guarded
  <2>2. \A u \in Trays \ {t} : stop'[u] = stop[u]
    BY DEF TypeOK, StopStep, CloseControl, StopCopies, StopQuits, StopWaits, QuitTray,
       Quit, AskStop, Proceed
  <2>3. \A u \in Trays \ {t} : OwnPart(u) /\ conn # u
    BY <2>1 DEF OwnInv, MutexInv, Linked, OneAtATime
  <2>4. QED  BY <2>1, <2>2, <2>3
<1>1. CASE StopWaits(t)
  <2>1. CASE taken[t].cmd
    <3>1. SentinelEnds  BY <1>1, <2>1 DEF StopWaits
    <3>2. ASSUME NEW u \in Trays, u # t PROVE OwnPart(u)'
      <4>1. CASE faults = 0  BY <1>a, <3>1, <3>2, <4>1, SentinelEndsOwn
      <4>2. CASE faults # 0  BY <1>a, <3>1, <3>2, <4>2, SentinelEndsOwn
      <4>3. QED  BY <4>1, <4>2
    <3>3. OwnPart(t)'
      BY <1>1, <1>a, <3>1 DEF StopWaits, SentinelEnds, Proceed, TypeOK, OwnPart, Cancelled
    <3>4. QED  BY <3>2, <3>3 DEF OwnInv
  <2>2. CASE ~taken[t].cmd
    <3>1. UNCHANGED <<sentinelVars, cmd, taken>>  BY <1>1, <2>2 DEF StopWaits
    <3>2. ASSUME NEW u \in Trays, u # t PROVE OwnPart(u)'
      BY <1>a, <3>1, <3>2, OwnKept DEF sentinelVars
    <3>3. taken[t].cmd = FALSE  BY <2>2 DEF TypeOK
    <3>4. OwnPart(t)'
      BY <1>1, <1>a, <3>1, <3>3 DEF StopWaits, Proceed, TypeOK, OwnPart, Cancelled,
         sentinelVars
    <3>5. QED  BY <3>2, <3>4 DEF OwnInv
  <2>3. QED  BY <2>1, <2>2
<1>2. CASE ~StopWaits(t)
  <2>1. /\ cmd' = cmd /\ (conn' = conn \/ (conn = t /\ conn' = "none" /\ Cancelled(t)'))
        /\ \A u \in Trays \ {t} : taken'[u] = taken[u]
    BY <1>2
       DEF TypeOK, StopStep, CloseControl, StopCopies, StopQuits, QuitTray, Quit,
           sentinelVars, Proceed, Cancelled
  <2>2. ASSUME NEW u \in Trays, u # t PROVE OwnPart(u)'
    BY <1>a, <2>1, <2>2, OwnKept
  <2>3. ASSUME CloseControl(t) \/ Quit(t)
       PROVE  OwnPart(t)'
    <3>1. pc[t] \in {"serve", "run", "failing"}
      BY <1>a, <2>3 DEF CloseControl, Quit, OwnPart
    <3>2. QED
      BY <1>a, <2>1, <2>3, <3>1
         DEF CloseControl, Quit, AskStop, Proceed, TypeOK, OwnPart, Cancelled,
             sentinelVars
  <2>4. ASSUME StopCopies(t)
       PROVE  OwnPart(t)'
    BY <1>a, <2>1, <2>4
       DEF StopCopies, Proceed, TypeOK, OwnPart, Cancelled, sentinelVars
  <2>5. ASSUME StopQuits(t)
       PROVE  OwnPart(t)'
    BY <1>a, <2>1, <2>5 DEF StopQuits, Proceed, TypeOK, OwnPart, Cancelled
  <2>6. ASSUME QuitTray(t)
       PROVE  OwnPart(t)'
    BY <1>a, <2>1, <2>6 DEF QuitTray, Proceed, TypeOK, OwnPart, Cancelled, sentinelVars
  <2>7. OwnPart(t)'  BY <1>2, <2>3, <2>4, <2>5, <2>6 DEF StopStep
  <2>8. QED  BY <2>2, <2>7 DEF OwnInv
<1>3. QED  BY <1>1, <1>2

LEMMA DogOwn ==
  ASSUME TypeOK, MutexInv, OwnInv, NEW t \in Trays, DogStep(t)
  PROVE  OwnInv'
<1>a. /\ OwnPart(t) /\ UNCHANGED <<pc, stop>> /\ pc[t] \in Guarded
      /\ faults' = 0 => faults = 0
      /\ \A u \in Trays \ {t} : OwnPart(u) /\ conn # u
  <2>1. /\ OwnPart(t) /\ UNCHANGED <<pc, stop>> /\ dog[t] # "off"
        /\ faults' = 0 => faults = 0
    BY DEF OwnInv, DogStep, DogEnds, DogCloses, DogGoesOn, DogStarts, DogStartFails,
       DogDials, Fault, TypeOK
  <2>2. pc[t] \in Guarded  BY <2>1 DEF MutexInv, Linked
  <2>3. QED  BY <2>1, <2>2 DEF OwnInv, MutexInv, Linked, OneAtATime
<1>1. ASSUME NEW u \in Trays, u # t PROVE OwnPart(u)'
  <2>1. /\ dog'[u] = dog[u] /\ client'[u] = client[u] /\ cmd'[u] = cmd[u]
        /\ taken'[u] = taken[u]
    BY <1>1
       DEF TypeOK, DogStep, DogEnds, DogCloses, DogGoesOn, DogStarts, Launch,
           DogStartFails, DogDials, Dial, Watch
  <2>2. QED  BY <1>a, <1>1, <2>1, OwnKept
<1>2. ASSUME DogEnds(t)
      PROVE  OwnPart(t)'
  BY <1>a, <1>2 DEF DogEnds, Watch, TypeOK, OwnPart, Cancelled, sentinelVars
<1>3. ASSUME DogCloses(t)
      PROVE  OwnPart(t)'
  <2>1. faults' = 0 => conn # t
    BY <1>3 DEF DogCloses, Fault, TypeOK
  <2>2. faults' = 0 => Cancelled(t)  BY <1>3, <1>a, <2>1 DEF DogCloses, OwnPart
  <2>3. client'[t] = FALSE /\ dog'[t] = "sleep" /\ taken'[t].cmd = taken[t].cmd
        /\ cmd' = cmd
    BY <1>3 DEF DogCloses, Watch, TypeOK
  <2>4. QED  BY <1>a, <2>2, <2>3 DEF OwnPart, Cancelled
<1>4. ASSUME DogGoesOn(t) \/ DogStarts(t) \/ DogStartFails(t) \/ DogDials(t)
      PROVE  OwnPart(t)'
  <2>1. faults' # 0
    BY <1>4, <1>a
       DEF DogGoesOn, DogStarts, DogStartFails, DogDials, OwnPart
  <2>2. QED  BY <1>a, <2>1 DEF OwnPart
<1>5. QED  BY <1>1, <1>2, <1>3, <1>4 DEF DogStep, OwnInv

LEMMA OutsideOwn ==
  ASSUME TypeOK, MutexInv, CliInv, OwnInv, SentinelDies \/ CliAsks \/ CliWaits
  PROVE  OwnInv'
<1>1. CASE CliKill
  BY <1>1, GoneOwn DEF CliKill, CliInv, TargetKnown
<1>2. CASE SentinelDies
  <2>1. faults' # 0 /\ UNCHANGED <<pc, stop, client>>
    BY <1>2 DEF SentinelDies, Fault, TypeOK
  <2>2. QED  BY <2>1 DEF OwnInv, OwnPart
<1>3. CASE CliStop
  <2>1. PICK t \in Trays : control = t /\ pc[t] \in {"serve", "run"}
    BY <1>3 DEF CliStop, TypeOK, MutexInv, Serving
  <2>2. ASSUME NEW u \in Trays, u # t PROVE OwnPart(u)'
    <3>1. OwnPart(u)  BY DEF OwnInv
    <3>2. QED
      BY <1>3, <2>1, <2>2, <3>1, OwnKept
         DEF CliStop, AskStop, Proceed, TypeOK, sentinelVars
  <2>3. OwnPart(t)  BY DEF OwnInv
  <2>4. OwnPart(t)'
    BY <1>3, <2>1, <2>3
       DEF CliStop, AskStop, Proceed, TypeOK, OwnPart, Cancelled, sentinelVars, Guarded
  <2>5. QED  BY <2>2, <2>4 DEF OwnInv
<1>4. CASE CliPID \/ CliProbe \/ CliProbed \/ CliWaited
  BY <1>4, OwnKept
     DEF CliPID, CliProbe, CliProbed, CliWaited, trayVars, sentinelVars, OwnInv
<1>5. QED  BY <1>1, <1>2, <1>3, <1>4 DEF CliAsks, CliWaits

\* As long as nothing fails from outside, a shutdown ends the sentinel that its
\* process has launched, for any number of processes and `kbdlock stop`s
\* (Manager.Stop, restart): the copy of m.cmd that is killed is never an old one.
THEOREM StopAlwaysEndsOwnSentinel == Spec => []StopEndsOwnSentinel
<1>1. Init => IInv /\ OwnInv  BY IInvInit, OwnInit
<1>2. IInv /\ OwnInv /\ [Next]_vars => IInv' /\ OwnInv'
  <2>1. SUFFICES ASSUME IInv, OwnInv, Next PROVE OwnInv'
    <3>1. OwnInv /\ UNCHANGED vars => OwnInv'
      BY OwnKept DEF OwnInv, vars, trayVars, sentinelVars
    <3>2. QED  BY <3>1, IInvStep
  <2>2. QED
    BY <2>1, MainOwn, StopOwn, DogOwn, OutsideOwn DEF Next, IInv
<1>3. OwnInv => StopEndsOwnSentinel
  BY DEF OwnInv, OwnPart, StopEndsOwnSentinel
<1>4. QED  BY <1>1, <1>2, <1>3, PTL DEF Spec
=============================================================================
