-------------------------- MODULE SentinelProofs --------------------------
(***************************************************************************)
(* Theorems about the sentinel's two threads, for every set of keys, every *)
(* set of combos and every timeout.                                        *)
(***************************************************************************)
EXTENDS Sentinel, SequenceTheorems, TLAPS

\* All that HeartbeatBound needs of TypeOK.
PipeTyped == pipe \in {"read", "locking", "combo"}
AgeTyped  == age \in Nat

HeartInv == HeartbeatBound /\ PipeTyped /\ AgeTyped

LEMMA HeartInit == Init => HeartInv
BY DEF Init, HeartInv, HeartbeatBound, PipeTyped, AgeTyped

\* A key event only ever takes the main thread out of its loop.
LEMMA HookKeepsHeart ==
  ASSUME HeartInv, NEW code, NEW isDown, Hook(code, isDown)
  PROVE  HeartInv'
<1>1. main = "loop" /\ UNCHANGED <<locked, pinged, age, due, pipe>>
  BY DEF Hook, heartVars
<1>2. QED  BY <1>1 DEF HeartInv, HeartbeatBound, PipeTyped, AgeTyped

\* To look at the combo changes nothing that the timer looks at.
LEMMA LookKeepsHeart ==
  ASSUME HeartInv, IsUnlockComboPressed
  PROVE  HeartInv'
<1>1. UNCHANGED <<locked, pinged, age, due, pipe>>
  BY DEF IsUnlockComboPressed, LookAtCount, LookAtKeys, heartVars
<1>2. main \in {"count", "combo"}
  BY DEF IsUnlockComboPressed, LookAtCount, LookAtKeys
<1>3. QED  BY <1>1, <1>2 DEF HeartInv, HeartbeatBound, PipeTyped, AgeTyped

LEMMA HeartStep ==
  ASSUME HeartInv, [Next]_vars
  PROVE  HeartInv'
<1>1. CASE Hand \/ Repeat
  BY <1>1, HookKeepsHeart DEF Hand, Press, Release, Repeat
<1>2. CASE DoUnlock \/ HeartbeatUnlock
  <2>1. ~locked' /\ UNCHANGED <<pipe, age>>
    BY <1>2 DEF DoUnlock, HeartbeatUnlock, heartVars
  <2>2. QED  BY <2>1 DEF HeartInv, HeartbeatBound, PipeTyped, AgeTyped
<1>3. CASE MessageLoop \/ HeartbeatTimerProc
  <2>1. UNCHANGED <<locked, pinged, age, pipe>>
    BY <1>3 DEF MessageLoop, HeartbeatTimerProc, heartVars
  <2>2. CASE MessageLoop
    <3>1. locked => main' = "timer" \/ (main' = main /\ due' = due)
      BY <2>2 DEF MessageLoop
    <3>2. QED  BY <2>1, <3>1 DEF HeartInv, HeartbeatBound, PipeTyped, AgeTyped
  <2>3. CASE HeartbeatTimerProc
    <3>1. main' = (IF pinged /\ age > HeartbeatTicks THEN "expire" ELSE "loop")
      BY <2>3 DEF HeartbeatTimerProc
    <3>2. SUFFICES ASSUME locked, pipe # "locking"
                   PROVE  pinged /\ (age <= HeartbeatTicks \/ main' = "expire")
      BY <2>1 DEF HeartInv, HeartbeatBound, PipeTyped, AgeTyped
    <3>3. pinged  BY <3>2 DEF HeartInv, HeartbeatBound
    <3>4. CASE age > HeartbeatTicks  BY <3>1, <3>2, <3>3, <3>4
    <3>5. CASE ~(age > HeartbeatTicks)
      <4>1. age <= HeartbeatTicks
        BY <3>5, TicksAssumption DEF HeartInv, AgeTyped
      <4>2. QED  BY <3>3, <4>1
    <3>6. QED  BY <3>4, <3>5
  <2>4. QED  BY <1>3, <2>2, <2>3
<1>4. CASE Tick
  <2>1. due' /\ UNCHANGED <<locked, pinged, pipe>>  BY <1>4 DEF Tick
  <2>2. age' \in Nat
    BY <1>4, TicksAssumption DEF Tick, Cap, HeartInv, AgeTyped
  <2>3. QED  BY <2>1, <2>2 DEF HeartInv, HeartbeatBound, PipeTyped, AgeTyped
<1>5. CASE PipeThread
  <2>1. CASE Lock
    BY <2>1 DEF Lock, heartVars, HeartInv, HeartbeatBound, PipeTyped, AgeTyped
  <2>2. CASE Stamp
    BY <2>2, TicksAssumption
       DEF Stamp, HeartInv, HeartbeatBound, PipeTyped, AgeTyped
  <2>3. CASE Unlock
    <3>1. ~locked' /\ UNCHANGED <<pipe, age>>  BY <2>3 DEF Unlock, heartVars
    <3>2. QED  BY <3>1 DEF HeartInv, HeartbeatBound, PipeTyped, AgeTyped
  <2>4. CASE HandleSetCombo \/ SetUnlockCombo
    <3>1. /\ UNCHANGED <<locked, pinged, age, main, due>>
          /\ pipe \in {"read", "combo"} /\ pipe' \in {"read", "combo"}
      BY <2>4
         DEF HandleSetCombo, SetUnlockCombo, WriteComboKey, WriteComboCount, Receives,
             heartVars
    <3>2. QED  BY <3>1 DEF HeartInv, HeartbeatBound, PipeTyped, AgeTyped
  <2>5. CASE Quit
    <3>1. UNCHANGED <<locked, pinged, age, main, due, pipe>>
      BY <2>5 DEF Quit, heartVars
    <3>2. QED  BY <3>1 DEF HeartInv, HeartbeatBound, PipeTyped, AgeTyped
  <2>6. QED  BY <1>5, <2>1, <2>2, <2>3, <2>4, <2>5 DEF PipeThread
<1>6. CASE ControllerDies \/ ControllerReturns \/ UNCHANGED vars
  <2>1. UNCHANGED <<locked, pinged, age, main, due, pipe>>
    BY <1>6 DEF ControllerDies, ControllerReturns, vars, heartVars
  <2>2. QED  BY <2>1 DEF HeartInv, HeartbeatBound, PipeTyped, AgeTyped
<1>7. CASE IsUnlockComboPressed
  BY <1>7, LookKeepsHeart
<1>8. QED  BY <1>1, <1>2, <1>3, <1>4, <1>5, <1>6, <1>7 DEF Next

\* The keyboard never stays locked for more than one timer period past the
\* heartbeat timeout after the last LOCK or PING, however the pipe thread's two
\* stores of LOCK and the timer's loads and store interleave.
THEOREM LockNeedsHeartbeat == Spec => []HeartbeatBound
<1>1. HeartInv => HeartbeatBound  BY DEF HeartInv
<1>2. QED  BY <1>1, HeartInit, HeartStep, PTL DEF Spec

-----------------------------------------------------------------------------

LEMMA BitmapInit == Init => BitmapSound
BY DEF Init, BitmapSound

\* A key-down marks the code of a key that is held, a key-up unmarks the code of
\* the key that is not held any more.
LEMMA HookKeepsBitmap ==
  ASSUME BitmapSound, NEW k, NEW isDown \in BOOLEAN, Hook(Code(k), isDown),
         isDown => held' = held \cup {k},
         ~isDown => held' = held \ {k}
  PROVE  BitmapSound'
<1>1. /\ down' = IF isDown THEN down \cup {Code(k)} ELSE down \ {Code(k)}
      /\ escSince' = IF Code(k) # "ESC" THEN escSince ELSE isDown
  BY DEF Hook
<1>2. down' \subseteq {Code(h) : h \in held'}
  BY <1>1 DEF BitmapSound
<1>3. escSince' => "ESC" \in down'
  <2>1. CASE Code(k) = "ESC"  BY <1>1, <2>1
  <2>2. CASE Code(k) # "ESC"  BY <1>1, <2>2 DEF BitmapSound
  <2>3. QED  BY <2>1, <2>2
<1>4. QED  BY <1>2, <1>3 DEF BitmapSound

RepeatsHeld == repeating # "none" => repeating \in held

LEMMA BitmapStep ==
  ASSUME BitmapSound, RepeatsHeld, [Next]_vars
  PROVE  BitmapSound' /\ RepeatsHeld'
<1>1. CASE Hand
  <2>1. ASSUME NEW k \in Keys, Press(k)
        PROVE  BitmapSound' /\ RepeatsHeld'
    BY <2>1, HookKeepsBitmap DEF Press, RepeatsHeld
  <2>2. ASSUME NEW k \in Keys, Release(k)
        PROVE  BitmapSound' /\ RepeatsHeld'
    BY <2>2, HookKeepsBitmap DEF Release, RepeatsHeld
  <2>3. QED  BY <1>1, <2>1, <2>2 DEF Hand
<1>2. CASE Repeat
  <2>1. held' = held /\ repeating' = repeating /\ repeating \in held
    BY <1>2 DEF Repeat, handVars, RepeatsHeld
  <2>2. QED  BY <1>2, <2>1, HookKeepsBitmap DEF Repeat, RepeatsHeld
<1>3. CASE DoUnlock
  <2>1. down' = {} /\ ~escSince' /\ UNCHANGED handVars  BY <1>3 DEF DoUnlock
  <2>2. QED  BY <2>1 DEF BitmapSound, RepeatsHeld, handVars
<1>4. ASSUME UNCHANGED <<down, escSince, held, repeating>>
      PROVE  BitmapSound' /\ RepeatsHeld'
  BY <1>4 DEF BitmapSound, RepeatsHeld
<1>5. CASE IsUnlockComboPressed \/ MessageLoop \/ HeartbeatTimerProc \/ HeartbeatUnlock
           \/ Tick
  BY <1>4, <1>5
     DEF IsUnlockComboPressed, LookAtCount, LookAtKeys, MessageLoop, HeartbeatTimerProc,
         HeartbeatUnlock, Tick, hookVars, handVars
<1>6. CASE PipeThread
  BY <1>4, <1>6
     DEF PipeThread, Lock, Stamp, Unlock, HandleSetCombo, SetUnlockCombo, WriteComboKey,
         WriteComboCount, Quit, hookVars, handVars
<1>7. CASE ControllerDies \/ ControllerReturns \/ UNCHANGED vars
  BY <1>4, <1>7 DEF ControllerDies, ControllerReturns, vars, hookVars, handVars
<1>8. QED  BY <1>1, <1>2, <1>3, <1>5, <1>6, <1>7 DEF Next

\* A combo is never completed by a key that is up, and a hold of ESC is never
\* counted past its release: the hook's records follow the keys through every
\* lock, unlock and ClearKeyState.
THEOREM BitmapAlwaysSound == Spec => []BitmapSound
<1>1. Init => BitmapSound /\ RepeatsHeld
  BY BitmapInit DEF Init, RepeatsHeld
<1>2. BitmapSound /\ RepeatsHeld /\ [Next]_vars => BitmapSound' /\ RepeatsHeld'
  BY BitmapStep
<1>3. QED  BY <1>1, <1>2, PTL DEF Spec

-----------------------------------------------------------------------------
(* Types.  No code of a key is that of SHIFT without a side. *)

LEMMA CodeOfKey == \A k \in Keys : Code(k) \in Codes
BY DEF Codes

\* A combo as it is taken: cut off, and key for key the one that was configured.
LEMMA TakenCombo ==
  ASSUME NEW c \in Combos
  PROVE  /\ Taken(c) \in Seq(ComboCodes)
         /\ Len(Taken(c)) \in 0..MaxComboKeys
<1> DEFINE n == IF Len(c) < MaxComboKeys THEN Len(c) ELSE MaxComboKeys
<1>1. c \in Seq(ComboCodes)  BY CombosAssumption
<1>2. Len(c) \in Nat /\ c \in [1..Len(c) -> ComboCodes]  BY <1>1, LenProperties
<1>3. n \in Nat /\ n <= Len(c) /\ n <= MaxComboKeys  BY <1>2, CombosAssumption
<1>4. \A i \in 1..n : c[i] \in ComboCodes  BY <1>2, <1>3
<1>5. /\ SubSeq(c, 1, n) \in Seq(ComboCodes)
      /\ Len(SubSeq(c, 1, n)) = IF 1 <= n THEN n - 1 + 1 ELSE 0
  <2> HIDE DEF n
  <2>1. n \in Int /\ 1 \in Int  BY <1>3
  <2>2. QED  BY <1>4, <2>1, SubSeqProperties
<1>6. QED  BY <1>3, <1>5, CombosAssumption DEF Taken

\* The types of the combo and of the hook's look at it.
ComboTypeOK ==
  /\ comboKeys \in [1..MaxComboKeys -> ComboCodes \cup {"none"}]
  /\ comboCount \in 0..MaxComboKeys /\ count \in 0..MaxComboKeys
  /\ written \in 0..MaxComboKeys /\ checked \in 0..MaxComboKeys
  /\ setting \in Seq(ComboCodes) /\ inForce \in Seq(ComboCodes)
  /\ met \subseteq Seq(ComboCodes)

\* Only one SET_COMBO is executed at a time, and what it has written is there.  The
\* count is that of the combo in force, whose keys are in their places but where
\* SET_COMBO has been.
ComboWritten ==
  /\ setting # <<>> <=> pipe = "combo"
  /\ pipe = "combo" => Len(setting) >= 2
  /\ Len(setting) <= MaxComboKeys /\ written <= Len(setting)
  /\ comboCount = Len(inForce)
  /\ \A i \in 1..written : comboKeys[i] = setting[i]
  /\ \A i \in 1..Len(inForce) : i > written => comboKeys[i] = inForce[i]

LEMMA TypeInit == Init => TypeOK /\ ComboWritten
<1>1. SUFFICES ASSUME Init PROVE TypeOK /\ ComboWritten  OBVIOUS
<1>2. /\ age \in 0..(HeartbeatTicks + 1) /\ escAge \in 0..EscTicks
      /\ returns \in 0..MaxReturns
  BY <1>1, TicksAssumption, ReturnsAssumption DEF Init
<1>3. ComboTypeOK
  <2>1. 0 \in 0..MaxComboKeys  BY CombosAssumption
  <2>2. <<>> \in Seq(ComboCodes)  BY EmptySeq
  <2>3. QED  BY <1>1, <2>1, <2>2 DEF Init, ComboTypeOK
<1>4. ComboWritten
  <2>1. Len(<<>>) = 0  BY EmptySeq
  <2>2. QED  BY <1>1, <2>1, CombosAssumption DEF Init, ComboWritten
<1>5. QED  BY <1>1, <1>2, <1>3, <1>4 DEF Init, TypeOK, ComboTypeOK

\* An event of a key of the keyboard.
LEMMA HookTyped ==
  ASSUME TypeOK, NEW k \in Keys, NEW isDown \in BOOLEAN, Hook(Code(k), isDown),
         held' \subseteq Keys, repeating' \in Keys \cup {"none"}
  PROVE  TypeOK'
<1>1. down' \subseteq Codes
  BY CodeOfKey DEF Hook, TypeOK
<1>2. escSince' \in BOOLEAN  BY DEF Hook, TypeOK
<1>3. escAge' \in 0..EscTicks
  BY TicksAssumption DEF Hook, TypeOK
<1>4. main' \in {"loop", "unlock", "count"}  BY DEF Hook
<1>5. UNCHANGED <<locked, heartVars, comboVars, lookVars, due, pipe, procVars>>
  BY DEF Hook
<1>6. QED
  BY <1>1, <1>2, <1>3, <1>4, <1>5 DEF TypeOK, heartVars, comboVars, lookVars, procVars

\* The hook looks at the combo.
LEMMA LookTyped ==
  ASSUME TypeOK, IsUnlockComboPressed
  PROVE  TypeOK'
<1>1. UNCHANGED <<locked, heartVars, comboVars, hookVars, due, pipe, handVars, procVars>>
  BY DEF IsUnlockComboPressed, LookAtCount, LookAtKeys
<1>2. main' \in {"loop", "combo", "unlock"}
  BY DEF IsUnlockComboPressed, LookAtCount, LookAtKeys, AfterCombo
<1>3. /\ count' \in 0..MaxComboKeys /\ checked' \in 0..MaxComboKeys
      /\ met' \subseteq Seq(ComboCodes)
  <2>0. 0 \in 0..MaxComboKeys  BY CombosAssumption
  <2>1. CASE LookAtCount
    BY <2>0, <2>1 DEF LookAtCount, TypeOK, lookVars
  <2>2. CASE LookAtKeys
    <3>1. PICK n \in {count, comboCount} :
            IF checked < n
            THEN IF comboKeys[checked + 1] \in down
                 THEN count' = n /\ checked' = checked + 1 /\ UNCHANGED <<main, met>>
                 ELSE AfterCombo /\ Forget
            ELSE main' = "unlock" /\ Forget
      BY <2>2 DEF LookAtKeys
    <3>2. CASE checked < n /\ comboKeys[checked + 1] \in down
      BY <3>1, <3>2, CombosAssumption DEF TypeOK
    <3>3. CASE ~(checked < n /\ comboKeys[checked + 1] \in down)
      BY <2>0, <3>1, <3>3 DEF Forget
    <3>4. QED  BY <3>2, <3>3
  <2>3. QED  BY <2>1, <2>2 DEF IsUnlockComboPressed
<1>4. QED
  BY <1>1, <1>2, <1>3 DEF TypeOK, heartVars, comboVars, hookVars, handVars, procVars

\* SET_COMBO: what it changes, and that it keeps what has been said of it.
LEMMA SetComboStep ==
  ASSUME TypeOK, ComboWritten, HandleSetCombo \/ SetUnlockCombo
  PROVE  TypeOK' /\ ComboWritten'
<1>a. ComboTypeOK  BY DEF TypeOK, ComboTypeOK
<1>b. /\ UNCHANGED <<locked, heartVars, hookVars, main, due, handVars, procVars>>
      /\ UNCHANGED <<count, checked>>
      /\ pipe' \in {"read", "combo"}
  BY DEF HandleSetCombo, SetUnlockCombo, WriteComboKey, WriteComboCount, lookVars
<1>c. ASSUME ComboTypeOK' PROVE TypeOK'
  BY <1>b, <1>c
     DEF TypeOK, ComboTypeOK, heartVars, hookVars, handVars, procVars
<1>d. /\ Len(setting) \in Nat /\ Len(inForce) \in Nat /\ MaxComboKeys \in Nat
      /\ setting \in [1..Len(setting) -> ComboCodes] /\ written \in Nat
  BY <1>a, LenProperties, CombosAssumption DEF ComboTypeOK
<1>1. CASE HandleSetCombo
  <2>1. /\ Taken(config) \in Seq(ComboCodes) /\ Len(Taken(config)) \in 0..MaxComboKeys
    BY TakenCombo DEF TypeOK
  <2>2. /\ setting' = Taken(config) /\ written' = 0 /\ pipe' = "combo" /\ pipe # "combo"
        /\ Len(Taken(config)) >= 2
        /\ UNCHANGED <<comboKeys, comboCount, inForce>>
    BY <1>1 DEF HandleSetCombo, Receives
  <2>3. met' \subseteq Seq(ComboCodes)
    BY <1>1, <1>a, <2>1 DEF HandleSetCombo, ComboTypeOK
  <2>4. ComboTypeOK'
    BY <1>a, <1>b, <1>d, <2>1, <2>2, <2>3 DEF ComboTypeOK
  <2>5. Taken(config) # <<>>  BY <2>2, EmptySeq
  <2>6. written = 0
    <3>1. setting = <<>>  BY <2>2 DEF ComboWritten
    <3>2. QED  BY <1>d, <3>1, EmptySeq DEF ComboWritten
  <2>7. ComboWritten'
    <3>1. Len(setting') <= MaxComboKeys /\ written' <= Len(setting')
      BY <1>d, <2>1, <2>2
    <3>2. \A i \in 1..written' : comboKeys'[i] = setting'[i]  BY <2>2
    <3>3. \A i \in 1..Len(inForce') : i > written' => comboKeys'[i] = inForce'[i]
      BY <2>2, <2>6 DEF ComboWritten
    <3>4. QED  BY <2>2, <2>5, <3>1, <3>2, <3>3 DEF ComboWritten
  <2>8. QED  BY <1>c, <2>4, <2>7
<1>2. CASE WriteComboKey
  <2> DEFINE k == written + 1
  <2>1. /\ pipe = "combo" /\ pipe' = "combo" /\ written' = k /\ k \in 1..MaxComboKeys
        /\ k \in 1..Len(setting)
        /\ comboKeys' = [comboKeys EXCEPT ![k] = setting[k]]
        /\ UNCHANGED <<comboCount, setting, inForce, met>>
    BY <1>2, <1>d DEF WriteComboKey, ComboWritten, lookVars
  <2>2. setting[k] \in ComboCodes  BY <1>d, <2>1
  <2>3. comboKeys \in [1..MaxComboKeys -> ComboCodes \cup {"none"}]
    BY <1>a DEF ComboTypeOK
  <2>4. ComboTypeOK'
    <3>1. comboKeys' \in [1..MaxComboKeys -> ComboCodes \cup {"none"}]
      BY <2>1, <2>2, <2>3
    <3>2. written' \in 0..MaxComboKeys  BY <2>1, <1>d
    <3>3. QED  BY <1>a, <1>b, <2>1, <3>1, <3>2 DEF ComboTypeOK
  <2>5. ComboWritten'
    <3>1. \A i \in 1..written' : comboKeys'[i] = setting'[i]
      BY <1>d, <2>1, <2>3 DEF ComboWritten
    <3>2. \A i \in 1..Len(inForce') : i > written' => comboKeys'[i] = inForce'[i]
      BY <1>d, <2>1, <2>3 DEF ComboWritten
    <3>3. QED  BY <1>d, <2>1, <3>1, <3>2 DEF ComboWritten
  <2>6. QED  BY <1>c, <2>4, <2>5
<1>3. CASE WriteComboCount
  <2>1. /\ pipe = "combo" /\ pipe' = "read" /\ written = Len(setting) /\ written' = 0
        /\ comboCount' = Len(setting) /\ inForce' = setting /\ setting' = <<>>
        /\ UNCHANGED <<comboKeys, met>>
    BY <1>3 DEF WriteComboCount, lookVars
  <2>2. <<>> \in Seq(ComboCodes) /\ Len(<<>>) = 0  BY EmptySeq
  <2>3. ComboTypeOK'
    <3>1. 0 \in 0..MaxComboKeys /\ Len(setting) \in 0..MaxComboKeys
      BY <1>d DEF ComboWritten
    <3>2. QED  BY <1>a, <1>b, <2>1, <2>2, <3>1 DEF ComboTypeOK
  <2>4. ComboWritten'
    <3>1. \A i \in 1..Len(inForce') : comboKeys'[i] = inForce'[i]
      BY <2>1 DEF ComboWritten
    <3>2. \A i \in 1..written' : comboKeys'[i] = setting'[i]  BY <2>1
    <3>3. QED  BY <1>d, <2>1, <2>2, <3>1, <3>2 DEF ComboWritten
  <2>5. QED  BY <1>c, <2>3, <2>4
<1>4. QED  BY <1>1, <1>2, <1>3 DEF SetUnlockCombo

LEMMA TypeStep == TypeOK /\ ComboWritten /\ [Next]_vars => TypeOK'
<1>1. SUFFICES ASSUME TypeOK, ComboWritten, [Next]_vars PROVE TypeOK'  OBVIOUS
<1>2. CASE Hand
  <2>1. ASSUME NEW k \in Keys, Press(k) PROVE TypeOK'
    BY <1>1, <2>1, HookTyped DEF Press, TypeOK
  <2>2. ASSUME NEW k \in Keys, Release(k) PROVE TypeOK'
    BY <1>1, <2>2, HookTyped DEF Release, TypeOK
  <2>3. QED  BY <1>2, <2>1, <2>2 DEF Hand
<1>3. CASE Repeat
  <2>1. repeating \in Keys /\ held' = held /\ repeating' = repeating
    BY <1>1, <1>3 DEF Repeat, handVars, TypeOK
  <2>2. QED  BY <1>1, <1>3, <2>1, HookTyped DEF Repeat, TypeOK
<1>4. CASE DoUnlock \/ HeartbeatUnlock
  <2>1. CASE DoUnlock
    <3>1. escAge' \in 0..EscTicks /\ down' = {}
      BY <2>1, TicksAssumption DEF DoUnlock
    <3>2. locked' = FALSE /\ escSince' = FALSE /\ main' = "loop"
      BY <2>1 DEF DoUnlock
    <3>3. UNCHANGED <<heartVars, comboVars, lookVars, due, pipe, handVars, procVars>>
      BY <2>1 DEF DoUnlock
    <3>4. QED
      BY <1>1, <3>1, <3>2, <3>3
         DEF TypeOK, heartVars, comboVars, lookVars, handVars, procVars
  <2>2. CASE HeartbeatUnlock
    BY <1>1, <2>2
       DEF HeartbeatUnlock, TypeOK, heartVars, comboVars, hookVars, lookVars, handVars,
           procVars
  <2>3. QED  BY <1>4, <2>1, <2>2
<1>5. CASE MessageLoop \/ HeartbeatTimerProc
  <2>1. main' \in {"loop", "count", "combo", "unlock", "timer", "expire"}
    BY <1>1, <1>5 DEF MessageLoop, HeartbeatTimerProc, TypeOK
  <2>2. running' \in BOOLEAN /\ due' \in BOOLEAN
    BY <1>1, <1>5 DEF MessageLoop, HeartbeatTimerProc, procVars, TypeOK
  <2>3. UNCHANGED <<locked, heartVars, comboVars, hookVars, lookVars, pipe, handVars,
                    wmQuit, ctl, config, returns>>
    BY <1>5 DEF MessageLoop, HeartbeatTimerProc, procVars
  <2>4. QED
    BY <1>1, <2>1, <2>2, <2>3
       DEF TypeOK, heartVars, comboVars, hookVars, lookVars, handVars
<1>6. CASE Tick
  <2>1. age' \in 0..(HeartbeatTicks + 1) /\ escAge' \in 0..EscTicks
    BY <1>1, <1>6, TicksAssumption DEF Tick, Cap, TypeOK
  <2>2. QED
    BY <1>1, <1>6, <2>1 DEF Tick, TypeOK, comboVars, lookVars, handVars, procVars
<1>7. CASE PipeThread
  <2>1. CASE Lock \/ Unlock
    <3>1. locked' \in BOOLEAN /\ pipe' \in {"read", "locking", "combo"}
      BY <1>1, <2>1 DEF Lock, Unlock, TypeOK
    <3>2. UNCHANGED <<heartVars, comboVars, hookVars, lookVars, main, due, handVars,
                      procVars>>
      BY <2>1 DEF Lock, Unlock
    <3>3. QED
      BY <1>1, <3>1, <3>2
         DEF TypeOK, heartVars, comboVars, hookVars, lookVars, handVars, procVars
  <2>2. CASE Quit
    BY <1>1, <2>2 DEF Quit, TypeOK, heartVars, comboVars, hookVars, lookVars, handVars
  <2>3. CASE Stamp
    BY <1>1, <2>3, TicksAssumption
       DEF Stamp, TypeOK, comboVars, hookVars, lookVars, handVars, procVars
  <2>4. CASE HandleSetCombo \/ SetUnlockCombo  BY <1>1, <2>4, SetComboStep
  <2>5. QED  BY <1>7, <2>1, <2>2, <2>3, <2>4 DEF PipeThread
<1>8. CASE ControllerDies \/ ControllerReturns
  <2>1. ctl' \in BOOLEAN /\ config' \in Combos
    BY <1>1, <1>8 DEF ControllerDies, ControllerReturns, TypeOK
  <2>2. returns \in 0..MaxReturns  BY <1>1 DEF TypeOK
  <2>3. returns' \in 0..MaxReturns
    BY <1>8, <2>2, ReturnsAssumption DEF ControllerDies, ControllerReturns
  <2>4. UNCHANGED <<locked, heartVars, comboVars, hookVars, lookVars, main, due, pipe,
                    handVars, running, wmQuit>>
    BY <1>8 DEF ControllerDies, ControllerReturns
  <2>5. QED
    BY <1>1, <2>1, <2>3, <2>4
       DEF TypeOK, heartVars, comboVars, hookVars, lookVars, handVars
<1>9. CASE UNCHANGED vars
  BY <1>1, <1>9
     DEF vars, TypeOK, heartVars, comboVars, hookVars, lookVars, handVars, procVars
<1>10. CASE IsUnlockComboPressed  BY <1>1, <1>10, LookTyped
<1>11. QED
  BY <1>1, <1>2, <1>3, <1>4, <1>5, <1>6, <1>7, <1>8, <1>9, <1>10 DEF Next

LEMMA ComboStep ==
  ASSUME TypeOK, ComboWritten, [Next]_vars
  PROVE  ComboWritten'
<1>1. CASE HandleSetCombo \/ SetUnlockCombo  BY <1>1, SetComboStep
<1>2. ASSUME UNCHANGED comboVars, pipe' = "combo" <=> pipe = "combo"
      PROVE  ComboWritten'
  BY <1>2 DEF ComboWritten, comboVars
<1>3. CASE Hand \/ Repeat \/ IsUnlockComboPressed
  BY <1>2, <1>3
     DEF Hand, Press, Release, Repeat, Hook, IsUnlockComboPressed, LookAtCount, LookAtKeys
<1>4. CASE DoUnlock \/ MessageLoop \/ HeartbeatTimerProc \/ HeartbeatUnlock \/ Tick
  BY <1>2, <1>4 DEF DoUnlock, MessageLoop, HeartbeatTimerProc, HeartbeatUnlock, Tick
<1>5. CASE Lock \/ Stamp \/ Unlock \/ Quit
  BY <1>2, <1>5 DEF Lock, Stamp, Unlock, Quit, Receives
<1>6. CASE ControllerDies \/ ControllerReturns \/ UNCHANGED vars
  BY <1>2, <1>6 DEF ControllerDies, ControllerReturns, vars
<1>7. QED  BY <1>1, <1>3, <1>4, <1>5, <1>6 DEF Next, PipeThread

\* Every variable keeps its type: no SET_COMBO writes past the end of the combo's array,
\* and the hook reads none of it that is not there, however long the combos are that
\* are sent and however the two threads interleave.
THEOREM SentinelTyped == Spec => []TypeOK
<1>1. TypeOK /\ ComboWritten /\ [Next]_vars => TypeOK' /\ ComboWritten'
  BY TypeStep, ComboStep
<1>2. QED  BY <1>1, TypeInit, PTL DEF Spec

-----------------------------------------------------------------------------
(* The unlock decision. *)

\* The keys that the hook has found pressed, and those that it may yet read, are in
\* their places in the combos that it has met; so is their count.
Looking ==
  main = "combo" =>
    /\ comboCount >= 2 /\ inForce \in met /\ (pipe = "combo" => setting \in met)
    /\ \E c \in met : Len(c) >= 2 /\ Len(c) = count
    /\ \A i \in 1..checked : \E o \in met : i <= Len(o) /\ o[i] \in down
    /\ \A i \in 1..count : \E o \in met : i <= Len(o) /\ comboKeys[i] = o[i]

LookInv == TypeOK /\ ComboWritten /\ Looking

\* The hook is never given all the codes of the emergency combo.
LEMMA NoEmergency ==
  ASSUME NEW d, d \subseteq Codes
  PROVE  ~EmergencyComboPressed(d)
<1>1. \A k \in Keys : Code(k) # "SHIFT"  BY DEF Code
<1>2. "SHIFT" \notin Codes  BY <1>1 DEF Codes
<1>3. QED  BY <1>2 DEF EmergencyComboPressed, EmergencyCodes

\* What is in a place of the combo is there by a combo that the hook has met.
LEMMA PlacesMet ==
  ASSUME LookInv, main = "combo"
  PROVE  \A i \in 1..comboCount : \E o \in met : i <= Len(o) /\ comboKeys[i] = o[i]
<1>1. SUFFICES ASSUME NEW i \in 1..comboCount
               PROVE  \E o \in met : i <= Len(o) /\ comboKeys[i] = o[i]
  OBVIOUS
<1>2. /\ comboCount = Len(inForce) /\ inForce \in met
      /\ comboCount \in Nat /\ written \in Nat
  BY DEF LookInv, Looking, ComboWritten, TypeOK
<1>3. CASE i > written
  <2>1. comboKeys[i] = inForce[i]  BY <1>2, <1>3 DEF LookInv, ComboWritten
  <2>2. QED  BY <1>2, <2>1
<1>4. CASE ~(i > written)
  <2>1. i \in 1..written  BY <1>2, <1>4
  <2>2. comboKeys[i] = setting[i] /\ written <= Len(setting)
    BY <2>1 DEF LookInv, ComboWritten
  <2>3. Len(setting) \in Nat  BY LenProperties DEF LookInv, TypeOK
  <2>4. pipe = "combo"
    <3>1. setting # <<>>  BY <1>2, <2>1, <2>2, <2>3, EmptySeq
    <3>2. QED  BY <3>1 DEF LookInv, ComboWritten
  <2>5. setting \in met  BY <2>4 DEF LookInv, Looking
  <2>6. QED  BY <1>2, <2>1, <2>2, <2>3, <2>5
<1>5. QED  BY <1>3, <1>4

\* The hook's own steps.
LEMMA LookStep ==
  ASSUME LookInv, IsUnlockComboPressed
  PROVE  Looking'
<1>a. UNCHANGED <<comboKeys, comboCount, setting, written, inForce, down, pipe>>
  BY DEF IsUnlockComboPressed, LookAtCount, LookAtKeys, comboVars, hookVars
<1>b. comboCount = Len(inForce)  BY DEF LookInv, ComboWritten
<1>1. CASE LookAtCount
  <2>1. SUFFICES ASSUME main' = "combo" PROVE Looking'  BY DEF Looking
  <2>2. /\ comboCount >= 2 /\ count' = comboCount /\ checked' = 0
        /\ met' = {inForce} \cup (IF pipe = "combo" THEN {setting} ELSE {})
    BY <1>1, <2>1 DEF LookAtCount, AfterCombo, LookInv, TypeOK
  <2>3. \A i \in 1..comboCount : \E o \in met' : i <= Len(o) /\ comboKeys[i] = o[i]
    <3>1. SUFFICES ASSUME NEW i \in 1..comboCount
                   PROVE  \E o \in met' : i <= Len(o) /\ comboKeys[i] = o[i]
      OBVIOUS
    <3>2. written \in Nat /\ comboCount \in Nat  BY DEF LookInv, TypeOK
    <3>3. CASE i > written
      <4>1. comboKeys[i] = inForce[i]  BY <1>b, <3>3 DEF LookInv, ComboWritten
      <4>2. QED  BY <1>b, <2>2, <3>2, <4>1
    <3>4. CASE ~(i > written)
      <4>1. i \in 1..written  BY <3>2, <3>4
      <4>2. comboKeys[i] = setting[i] /\ written <= Len(setting)
        BY <4>1 DEF LookInv, ComboWritten
      <4>3. Len(setting) \in Nat  BY LenProperties DEF LookInv, TypeOK
      <4>4. setting # <<>>  BY <3>2, <4>1, <4>2, <4>3, EmptySeq
      <4>5. setting \in met'  BY <2>2, <4>4 DEF LookInv, ComboWritten
      <4>6. QED  BY <3>2, <4>1, <4>2, <4>3, <4>5
    <3>5. QED  BY <3>3, <3>4
  <2>4. QED  BY <1>a, <1>b, <2>2, <2>3 DEF Looking
<1>2. CASE LookAtKeys
  <2>1. SUFFICES ASSUME main' = "combo" PROVE Looking'  BY DEF Looking
  <2>2. main = "combo"  BY <1>2 DEF LookAtKeys
  <2>3. PICK n \in {count, comboCount} :
          /\ checked < n /\ comboKeys[checked + 1] \in down
          /\ count' = n /\ checked' = checked + 1 /\ met' = met
    BY <1>2, <2>1 DEF LookAtKeys, AfterCombo
  <2>4. \A i \in 1..n : \E o \in met : i <= Len(o) /\ comboKeys[i] = o[i]
    <3>1. CASE n = count  BY <2>2, <3>1 DEF LookInv, Looking
    <3>2. CASE n = comboCount  BY <2>2, <3>2, PlacesMet
    <3>3. QED  BY <3>1, <3>2
  <2>5. \E c \in met : Len(c) >= 2 /\ Len(c) = n
    BY <1>b, <2>2, <2>3 DEF LookInv, Looking
  <2>6. \A i \in 1..(checked + 1) : \E o \in met : i <= Len(o) /\ o[i] \in down
    <3>1. checked \in Nat /\ n \in Nat  BY <2>3 DEF LookInv, TypeOK
    <3>2. \E o \in met : checked + 1 <= Len(o) /\ o[checked + 1] \in down
      <4>1. checked + 1 \in 1..n  BY <2>3, <3>1
      <4>2. QED  BY <2>3, <2>4, <4>1
    <3>3. \A i \in 1..checked : \E o \in met : i <= Len(o) /\ o[i] \in down
      BY <2>2 DEF LookInv, Looking
    <3>4. QED  BY <3>1, <3>2, <3>3
  <2>7. QED  BY <1>a, <2>2, <2>3, <2>4, <2>5, <2>6 DEF LookInv, Looking
<1>3. QED  BY <1>1, <1>2 DEF IsUnlockComboPressed

\* SET_COMBO, while the hook looks or does not.
LEMMA SetComboLooking ==
  ASSUME LookInv, HandleSetCombo \/ SetUnlockCombo
  PROVE  Looking'
<1>a. /\ UNCHANGED <<main, count, checked, down>>
  BY DEF HandleSetCombo, SetUnlockCombo, WriteComboKey, WriteComboCount, lookVars, hookVars
<1>1. SUFFICES ASSUME main = "combo" PROVE Looking'  BY <1>a DEF Looking
<1>3. CASE HandleSetCombo
  <2>1. /\ met' = met \cup {setting'}
        /\ UNCHANGED <<comboKeys, comboCount, inForce>>
    BY <1>1, <1>3 DEF HandleSetCombo
  <2>2. QED  BY <1>1, <1>a, <2>1 DEF LookInv, Looking
<1>4. CASE WriteComboKey
  <2> DEFINE k == written + 1
  <2>1. /\ pipe = "combo" /\ comboKeys' = [comboKeys EXCEPT ![k] = setting[k]]
        /\ k <= Len(setting)
        /\ UNCHANGED <<comboCount, setting, inForce, pipe, met>>
    <3>1. written \in Nat /\ Len(setting) \in Nat
      BY LenProperties DEF LookInv, TypeOK
    <3>2. QED  BY <1>4, <3>1 DEF WriteComboKey, lookVars
  <2>2. setting \in met  BY <1>1, <2>1 DEF LookInv, Looking
  <2>3. ASSUME NEW i \in 1..count
        PROVE  \E o \in met : i <= Len(o) /\ comboKeys'[i] = o[i]
    <3>1. /\ comboKeys \in [1..MaxComboKeys -> ComboCodes \cup {"none"}]
          /\ i \in 1..MaxComboKeys
      BY CombosAssumption DEF LookInv, TypeOK
    <3>2. CASE i = k
      <4>1. comboKeys'[i] = setting[k]  BY <2>1, <3>1, <3>2
      <4>2. QED  BY <2>1, <2>2, <3>2, <4>1
    <3>3. CASE i # k
      <4>1. comboKeys'[i] = comboKeys[i]  BY <2>1, <3>1, <3>3
      <4>2. QED  BY <1>1, <4>1 DEF LookInv, Looking
    <3>4. QED  BY <3>2, <3>3
  <2>4. QED  BY <1>1, <1>a, <2>1, <2>3 DEF LookInv, Looking
<1>5. CASE WriteComboCount
  <2>1. /\ pipe = "combo" /\ pipe' = "read" /\ inForce' = setting
        /\ comboCount' = Len(setting) /\ UNCHANGED <<comboKeys, met>>
    BY <1>5 DEF WriteComboCount, lookVars
  <2>2. setting \in met /\ Len(setting) >= 2
    BY <1>1, <2>1 DEF LookInv, Looking, ComboWritten
  <2>3. QED  BY <1>1, <1>a, <2>1, <2>2 DEF LookInv, Looking
<1>6. QED  BY <1>3, <1>4, <1>5 DEF SetUnlockCombo

LEMMA LookInvStep ==
  ASSUME LookInv, [Next]_vars
  PROVE  LookInv'
<1>1. TypeOK' /\ ComboWritten'  BY TypeStep, ComboStep DEF LookInv
<1>2. ASSUME UNCHANGED <<comboVars, lookVars, down>>,
             main' = main \/ main' # "combo", pipe' = "combo" => pipe = "combo"
      PROVE  Looking'
  BY <1>2 DEF LookInv, Looking, comboVars, lookVars
<1>3. Looking'
  <2>1. CASE IsUnlockComboPressed  BY <2>1, LookStep
  <2>2. CASE HandleSetCombo \/ SetUnlockCombo  BY <2>2, SetComboLooking
  <2>3. CASE Hand \/ Repeat \/ DoUnlock
    <3>1. main' # "combo"
      BY <2>3 DEF Hand, Press, Release, Repeat, Hook, DoUnlock
    <3>2. QED  BY <3>1 DEF Looking
  <2>4. CASE MessageLoop \/ HeartbeatTimerProc \/ HeartbeatUnlock \/ Tick
    BY <1>2, <2>4
       DEF MessageLoop, HeartbeatTimerProc, HeartbeatUnlock, Tick, hookVars
  <2>5. CASE Lock \/ Stamp \/ Unlock \/ Quit
    BY <1>2, <2>5 DEF Lock, Stamp, Unlock, Quit, hookVars
  <2>6. CASE ControllerDies \/ ControllerReturns \/ UNCHANGED vars
    BY <1>2, <2>6 DEF ControllerDies, ControllerReturns, vars, hookVars
  <2>7. QED
    BY <2>1, <2>2, <2>3, <2>4, <2>5, <2>6 DEF Next, PipeThread
<1>4. QED  BY <1>1, <1>3 DEF LookInv

\* A hold that is long enough is one of a key that is held.
LEMMA EscIntended ==
  ASSUME BitmapSound, EscHeldLongEnough
  PROVE  EscUnlocks
<1>1. "ESC" \in down /\ escAge >= EscTicks  BY DEF EscHeldLongEnough
<1>2. PICK k \in held : Code(k) = "ESC"  BY <1>1 DEF BitmapSound
<1>3. k = "ESC"  BY <1>2 DEF Code
<1>4. QED  BY <1>1, <1>2, <1>3 DEF EscUnlocks

LEMMA LookUnlocksIntended ==
  ASSUME LookInv, BitmapSound, IsUnlockComboPressed, main' = "unlock"
  PROVE  \/ EscUnlocks
         \/ \E c \in met :
              /\ Len(c) >= 2
              /\ \A i \in 1..Len(c) : \E o \in met : i <= Len(o) /\ o[i] \in down
<1>1. CASE EscHeldLongEnough  BY <1>1, EscIntended
<1>2. CASE ~EscHeldLongEnough
  <2>1. LookAtKeys
    BY <1>2 DEF IsUnlockComboPressed, LookAtCount, AfterCombo
  <2>2. main = "combo"  BY <2>1 DEF LookAtKeys
  <2>3. PICK n \in {count, comboCount} : ~(checked < n)
    BY <1>2, <2>1, <2>2 DEF LookAtKeys, AfterCombo
  <2>4. PICK c \in met : Len(c) >= 2 /\ Len(c) = n
    <3>1. comboCount = Len(inForce)  BY DEF LookInv, ComboWritten
    <3>2. QED  BY <2>2, <2>3, <3>1 DEF LookInv, Looking
  <2>5. 1..Len(c) \subseteq 1..checked
    <3>1. checked \in Nat /\ n \in Nat  BY <2>3 DEF LookInv, TypeOK
    <3>2. QED  BY <2>3, <2>4, <3>1
  <2>6. \A i \in 1..checked : \E o \in met : i <= Len(o) /\ o[i] \in down
    BY <2>2 DEF LookInv, Looking
  <2>7. QED  BY <2>4, <2>5, <2>6
<1>3. QED  BY <1>1, <1>2

\* Whatever combos the controllers are configured with, as many of them as there are,
\* and however the stores of SET_COMBO interleave with the loads of the hook: an unlock
\* is decided only for a long held ESC or for a whole combo, the one in force unless
\* a SET_COMBO has been met meanwhile.
THEOREM UnlockAlwaysIntended == Spec => UnlockIntended
<1> DEFINE Intended ==
      main # "unlock" /\ main' = "unlock" =>
        \/ EscUnlocks
        \/ \E c \in met :
             /\ Len(c) >= 2
             /\ \A i \in 1..Len(c) : \E o \in met : i <= Len(o) /\ o[i] \in down
<1> DEFINE I == LookInv /\ BitmapSound /\ RepeatsHeld
<1>1. Init => I
  <2>1. Init => RepeatsHeld /\ Looking  BY DEF Init, RepeatsHeld, Looking
  <2>2. QED  BY <2>1, TypeInit, BitmapInit DEF LookInv
<1>2. I /\ [Next]_vars => I'
  BY LookInvStep, BitmapStep
<1>3. ASSUME I, I', Next PROVE Intended
  <2>1. SUFFICES ASSUME main # "unlock", main' = "unlock" PROVE Intended
    OBVIOUS
  <2>2. CASE IsUnlockComboPressed
    BY <1>3, <2>1, <2>2, LookUnlocksIntended
  <2>3. CASE Hand \/ Repeat
    <3>1. ~EmergencyComboPressed(down')
      <4>1. down' \subseteq Codes  BY <1>3 DEF LookInv, TypeOK
      <4>2. QED  BY <4>1, NoEmergency
    <3>2. main' # "unlock"
      BY <2>3, <3>1 DEF Hand, Press, Release, Repeat, Hook
    <3>3. QED  BY <2>1, <3>2
  <2>4. CASE ~(IsUnlockComboPressed \/ Hand \/ Repeat)
    <3>1. main' = main \/ main' \in {"loop", "timer", "expire"}
      BY <1>3, <2>4
         DEF Next, DoUnlock, MessageLoop, HeartbeatTimerProc, HeartbeatUnlock, Tick,
             PipeThread, Lock, Stamp, Unlock, HandleSetCombo, SetUnlockCombo,
             WriteComboKey, WriteComboCount, Quit, ControllerDies, ControllerReturns
    <3>2. QED  BY <2>1, <3>1
  <2>5. QED  BY <2>2, <2>3, <2>4
<1>4. I /\ I' /\ [Next]_vars => [Intended]_vars
  BY <1>3
<1>5. QED  BY <1>1, <1>2, <1>4, PTL DEF Spec, UnlockIntended

-----------------------------------------------------------------------------
(* The lease. *)

Left == IF pipe = "locking" THEN LeaseTerm ELSE IF pinged THEN LeaseTerm - age ELSE 0

LeaseInv == TypeOK /\ ComboWritten /\ HeartInv

Leased == [OnLease!Next]_(OnLease!vars)

LEMMA LeaseKept ==
  ASSUME UNCHANGED <<locked, pinged, age, pipe, due, ctl>>
  PROVE  Leased
BY DEF Leased, OnLease!vars

\* The end of a lock by any of the ways out.
LEMMA LeaseEnds ==
  ASSUME locked' = FALSE, UNCHANGED <<pinged, age, pipe, due, ctl>>
  PROVE  Leased
BY DEF Leased, OnLease!Next, OnLease!Unlock

\* The hook and the timer: what the timer has not looked at yet is a period that
\* has begun, and it ends each lock whose time is up before another one begins.
LEMMA MainLeased ==
  ASSUME LeaseInv,
         \/ Hand \/ Repeat \/ IsUnlockComboPressed \/ DoUnlock
         \/ MessageLoop \/ HeartbeatTimerProc \/ HeartbeatUnlock
  PROVE  Leased
<1>1. CASE Hand \/ Repeat \/ IsUnlockComboPressed \/ HeartbeatTimerProc
  BY <1>1, LeaseKept
     DEF Hand, Press, Release, Repeat, Hook, IsUnlockComboPressed, LookAtCount, LookAtKeys,
         HeartbeatTimerProc, heartVars, procVars
<1>2. CASE DoUnlock \/ HeartbeatUnlock
  BY <1>2, LeaseEnds DEF DoUnlock, HeartbeatUnlock, heartVars, procVars
<1>3. CASE MessageLoop
  <2>1. UNCHANGED <<locked, pinged, age, pipe, ctl>> /\ (due' = due \/ (due /\ ~due'))
    BY <1>3 DEF MessageLoop, heartVars
  <2>2. CASE due' = due  BY <2>1, <2>2, LeaseKept
  <2>3. CASE due /\ ~due'
    <3>1. due' = FALSE  BY <1>3, <2>3 DEF MessageLoop
    <3>2. OnLease!EndPeriod  BY <2>1, <2>3, <3>1 DEF OnLease!EndPeriod
    <3>3. QED  BY <3>2 DEF Leased, OnLease!Next
  <2>4. QED  BY <2>1, <2>2, <2>3
<1>4. QED  BY <1>1, <1>2, <1>3

LEMMA TickLeased ==
  ASSUME LeaseInv, Tick
  PROVE  Leased
<1>a. /\ age \in 0..(HeartbeatTicks + 1) /\ HeartbeatTicks \in Nat
      /\ UNCHANGED <<locked, pinged, pipe, ctl>> /\ ~due /\ due' = TRUE
      /\ main = "loop"
      /\ age' = IF pinged THEN Cap(age, HeartbeatTicks + 1) ELSE age
  BY TicksAssumption DEF LeaseInv, TypeOK, Tick, procVars
<1>1. locked => Left > 0
  BY <1>a DEF Left, LeaseTerm, LeaseInv, HeartInv, HeartbeatBound
<1>2. Left' = IF pipe = "locking" \/ Left = 0 THEN Left ELSE Left - 1
  BY <1>a DEF Left, LeaseTerm, Cap
<1>3. OnLease!BeginPeriod
  BY <1>a, <1>1, <1>2 DEF OnLease!BeginPeriod, Left
<1>4. QED  BY <1>3 DEF Leased, OnLease!Next

\* The commands.  A time stamp of its own is a renewal, that of a LOCK its end.
LEMMA CommandLeased ==
  ASSUME LeaseInv, PipeThread
  PROVE  Leased
<1>1. CASE Lock
  <2>1. OnLease!Lock
    BY <1>1 DEF Lock, Receives, heartVars, procVars, OnLease!Lock
  <2>2. QED  BY <2>1 DEF Leased, OnLease!Next
<1>2. CASE Stamp
  <2>1. pinged' = TRUE /\ age' = 0 /\ pipe' = "read"
        /\ UNCHANGED <<locked, due, ctl>>
    BY <1>2 DEF Stamp, procVars
  <2>2. Left' = LeaseTerm  BY <2>1, TicksAssumption DEF Left, LeaseTerm
  <2>3. CASE pipe = "locking"
    <3>1. OnLease!Locked  BY <2>1, <2>2, <2>3 DEF Left, OnLease!Locked
    <3>2. QED  BY <3>1 DEF Leased, OnLease!Next
  <2>4. CASE pipe # "locking"
    <3>1. OnLease!Renew
      BY <1>2, <2>1, <2>2, <2>4 DEF Stamp, Receives, Left, OnLease!Renew
    <3>2. QED  BY <3>1 DEF Leased, OnLease!Next
  <2>5. QED  BY <2>3, <2>4
<1>3. CASE Unlock
  BY <1>3, LeaseEnds DEF Unlock, heartVars, procVars
<1>4. CASE HandleSetCombo \/ SetUnlockCombo
  <2>1. /\ pipe # "locking" /\ pipe' # "locking"
        /\ UNCHANGED <<locked, pinged, age, due, ctl>>
    BY <1>4
       DEF HandleSetCombo, SetUnlockCombo, WriteComboKey, WriteComboCount, Receives,
           heartVars, procVars
  <2>2. QED  BY <2>1 DEF Leased, OnLease!vars
<1>5. CASE Quit
  BY <1>5, LeaseKept DEF Quit, heartVars
<1>6. QED  BY <1>1, <1>2, <1>3, <1>4, <1>5 DEF PipeThread

\* Whatever keys are pressed, whenever the timer fires between the two stores of a
\* LOCK, and for every timeout: a lock never outlives the last word of a controller
\* by more than its term, and none but a connected controller takes or renews it.
THEOREM SentinelImplementsLease == Spec => ImplementsLease
<1>1. Init => OnLease!Init
  BY DEF Init, OnLease!Init
<1>2. LeaseInv /\ [Next]_vars => Leased
  <2>1. SUFFICES ASSUME LeaseInv, [Next]_vars PROVE Leased  OBVIOUS
  <2>2. CASE ControllerDies \/ ControllerReturns
    <3>1. UNCHANGED <<locked, pinged, age, pipe, due>>
      BY <2>2 DEF ControllerDies, ControllerReturns, heartVars
    <3>2. ctl \in BOOLEAN  BY <2>1 DEF LeaseInv, TypeOK
    <3>3. ctl' = ~ctl
      BY <2>2, <3>2, ZenonT(30) DEF ControllerDies, ControllerReturns
    <3>4. OnLease!Change  BY <3>1, <3>3 DEF OnLease!Change
    <3>5. QED  BY <3>4 DEF Leased, OnLease!Next
  <2>3. CASE UNCHANGED vars
    BY <2>3, LeaseKept DEF vars, heartVars, procVars
  <2>4. QED
    BY <2>1, <2>2, <2>3, MainLeased, TickLeased, CommandLeased DEF Next
<1>3. Init => LeaseInv
  BY TypeInit, HeartInit DEF LeaseInv
<1>4. LeaseInv /\ [Next]_vars => LeaseInv'
  BY TypeStep, ComboStep, HeartStep DEF LeaseInv
<1>5. QED
  BY <1>1, <1>2, <1>3, <1>4, PTL DEF Spec, ImplementsLease, OnLease!Spec, Leased
=============================================================================
