---------------------------- MODULE ConfigProofs ----------------------------
(***************************************************************************)
(* What Load and Save guarantee, for any number of processes and settings. *)
(***************************************************************************)
EXTENDS ConfigStore, TLAPS

LEMMA Marks ==
  /\ Absent \notin Settings /\ Empty \notin Settings /\ Torn \notin Settings
  /\ Absent # Empty /\ Absent # Torn /\ Empty # Torn
BY SettingsAssumption, MarksAssumption

LEMMA DefaultValid == Default \in Settings /\ Valid(Default)
<1>1. \A k \in Keys : Default[k] = "default"  BY DEF Default
<1>2. Default \in [Keys -> Values]  BY DEF Default, Values
<1>3. Default \in Settings  BY <1>1, <1>2 DEF Settings
<1>4. \A k \in Checked : Default[k] # "refused"
  BY <1>1, KeysAssumption
<1>5. QED  BY <1>3, <1>4 DEF Valid

\* config set makes one setting out of another, and differs from it in one key.
LEMMA ChangedSetting ==
  ASSUME NEW c \in Settings, NEW k \in Keys, NEW v \in Values,
         v = "refused" => k \in Checked
  PROVE  /\ [c EXCEPT ![k] = v] \in Settings
         /\ OneChange(c, [c EXCEPT ![k] = v])
<1>1. c \in [Keys -> Values] /\ \A j \in Keys \ Checked : c[j] # "refused"
  BY DEF Settings
<1>2. [c EXCEPT ![k] = v] \in [Keys -> Values]
  BY <1>1
<1>3. \A j \in Keys \ Checked : [c EXCEPT ![k] = v][j] # "refused"
  BY <1>1
<1>4. \A j \in Keys \ {k} : [c EXCEPT ![k] = v][j] = c[j]
  BY <1>1
<1>5. QED  BY <1>2, <1>3, <1>4 DEF Settings, OneChange

\* What a process writes over what is there is its own, or torn.
LEMMA OverwrittenTyped ==
  ASSUME NEW p \in Procs, mine[p] \in Settings
  PROVE  Overwritten(p) \subseteq Settings \cup {Torn}
BY DEF Overwritten

Inv == TypeOK /\ Shape /\ Basis /\ TempOwned

LEMMA InvInit == Init => Inv
<1>1. SUFFICES ASSUME Init PROVE Inv  OBVIOUS
<1>2. TypeOK
  <2>1. mine \in [Procs -> Settings \cup {Empty, Torn}]
    BY <1>1, DefaultValid DEF Init
  <2>2. QED  BY <1>1, <2>1 DEF Init, TypeOK, Steps
<1>3. Shape  BY <1>1, DefaultValid DEF Init, Shape, Saving
<1>4. Basis  BY <1>1 DEF Init, Basis
<1>5. TempOwned  BY <1>1 DEF Init, TempOwned, Saving
<1>6. QED  BY <1>2, <1>3, <1>4, <1>5 DEF Inv

-----------------------------------------------------------------------------
(* A step belongs to one process, and leaves the others where they are. *)

Step(p) == (\E o \in {"load", "set", "reset"} : Command(p, o))
           \/ LoadStep(p) \/ SaveStep(p) \/ Killed(p)

LEMMA OthersStay ==
  ASSUME TypeOK, NEW p \in Procs, Step(p), NEW q \in Procs, q # p
  PROVE  /\ pc'[q] = pc[q] /\ op'[q] = op[q] /\ mine'[q] = mine[q]
         /\ q \in creating' <=> q \in creating
<1>a. /\ pc \in [Procs -> Steps] /\ op \in [Procs -> {"load", "set", "reset"}]
      /\ mine \in [Procs -> Settings \cup {Empty, Torn}]
  BY DEF TypeOK
<1>1. CASE \E o \in {"load", "set", "reset"} : Command(p, o)
  BY <1>a, <1>1 DEF Command, GoTo
<1>2. CASE LoadStep(p)
  BY <1>a, <1>2
     DEF LoadStep, LoadCreates, LoadReads, LoadFails, Loaded, GoesOn, Change,
         ChangeFails, Ends, GoTo
<1>3. CASE SaveStep(p)
  BY <1>a, <1>3
     DEF SaveStep, OpenTemp, WriteTemp, WriteFails, RenameTemp, RenameFails,
         RemoveTemp, GoesOn, Ends, GoTo
<1>4. CASE Killed(p)
  BY <1>a, <1>4 DEF Killed, Ends, GoTo
<1>5. QED  BY <1>1, <1>2, <1>3, <1>4 DEF Step

\* A process at rest has forgotten everything.
LEMMA Ended ==
  ASSUME TypeOK, NEW p \in Procs, Ends(p)
  PROVE  /\ pc'[p] = "rest" /\ op'[p] = "load" /\ mine'[p] = Default
         /\ p \notin creating'
         /\ pc' \in [Procs -> Steps] /\ op' \in [Procs -> {"load", "set", "reset"}]
         /\ mine' \in [Procs -> Settings \cup {Empty, Torn}]
         /\ creating' \subseteq Procs
BY DefaultValid DEF TypeOK, Ends, GoTo, Steps

-----------------------------------------------------------------------------
(* Types. *)

LEMMA TypeStep ==
  ASSUME Inv, NEW p \in Procs, Step(p)
  PROVE  TypeOK'
<1>a. TypeOK /\ Shape  BY DEF Inv
<1>b. /\ pc \in [Procs -> Steps] /\ op \in [Procs -> {"load", "set", "reset"}]
      /\ mine \in [Procs -> Settings \cup {Empty, Torn}]
      /\ creating \subseteq Procs /\ overtaken \subseteq Procs /\ mixed \in BOOLEAN
      /\ config \in Settings \cup {Absent, Empty, Torn}
      /\ temp \in Settings \cup {Absent, Empty, Torn}
  BY <1>a DEF TypeOK
<1>1. ASSUME Ends(p), overtaken' \subseteq Procs, UNCHANGED mixed,
             config' \in Settings \cup {Absent, Empty, Torn},
             temp' \in Settings \cup {Absent, Empty, Torn}
      PROVE  TypeOK'
  BY <1>a, <1>b, <1>1, Ended DEF TypeOK
<1>2. CASE \E o \in {"load", "set", "reset"} : Command(p, o)
  BY <1>b, <1>2 DEF TypeOK, Command, GoTo, Steps
<1>3. CASE LoadCreates(p) \/ LoadReads(p)
  BY <1>b, <1>3 DEF TypeOK, LoadCreates, LoadReads, GoTo, Steps
<1>4. CASE LoadFails(p) \/ ChangeFails(p) \/ Killed(p)
  BY <1>b, <1>1, <1>4 DEF LoadFails, ChangeFails, Killed, Forgets
<1>5. CASE Loaded(p)
  <2>1. CASE op[p] = "set"
    BY <1>b, <1>5, <2>1 DEF TypeOK, Loaded, GoesOn, GoTo, Steps
  <2>2. CASE op[p] # "set"
    BY <1>b, <1>1, <1>5, <2>2 DEF Loaded
  <2>3. QED  BY <2>1, <2>2
<1>6. CASE Change(p)
  <2>1. mine[p] \in Settings  BY <1>a, <1>6 DEF Shape, Change
  <2>2. PICK k \in Keys, v \in Values :
          /\ v = "refused" => k \in Checked
          /\ mine' = [mine EXCEPT ![p] = [mine[p] EXCEPT ![k] = v]]
    BY <1>6 DEF Change
  <2>3. [mine[p] EXCEPT ![k] = v] \in Settings  BY <2>1, <2>2, ChangedSetting
  <2>4. mine' \in [Procs -> Settings \cup {Empty, Torn}]
    BY <1>b, <2>2, <2>3
  <2>5. QED  BY <1>b, <1>6, <2>4 DEF TypeOK, Change, GoTo, Steps
<1>7. CASE OpenTemp(p)
  <2>1. mixed' \in BOOLEAN  BY <1>7, Zenon DEF OpenTemp
  <2>2. QED  BY <1>b, <1>7, <2>1 DEF TypeOK, OpenTemp, GoTo, Steps, Saving
<1>8. CASE WriteTemp(p)
  <2>1. mine[p] \in Settings  BY <1>a, <1>8 DEF Shape, WriteTemp
  <2>2. temp' \in Settings \cup {Torn}
    BY <1>8, <2>1, OverwrittenTyped DEF WriteTemp
  <2>3. QED  BY <1>b, <1>8, <2>2 DEF TypeOK, WriteTemp, GoTo, Steps, Saving
<1>9. CASE WriteFails(p) \/ RemoveTemp(p)
  BY <1>b, <1>1, <1>9 DEF WriteFails, RemoveTemp, Forgets
<1>10. CASE RenameTemp(p)
  <2>1. overtaken' \subseteq Procs  BY <1>10 DEF RenameTemp
  <2>2. /\ config' \in Settings \cup {Absent, Empty, Torn} /\ temp' = Absent
        /\ UNCHANGED mixed
    BY <1>b, <1>10 DEF RenameTemp
  <2>3. CASE Continues(p)
    <3>1. GoesOn(p)  BY <1>10, <2>3 DEF RenameTemp
    <3>2. QED  BY <1>b, <2>1, <2>2, <3>1 DEF TypeOK, GoesOn, GoTo, Steps
  <2>4. CASE ~Continues(p)
    BY <1>1, <1>10, <2>1, <2>2, <2>4 DEF RenameTemp
  <2>5. QED  BY <2>3, <2>4
<1>11. CASE RenameFails(p)
  BY <1>b, <1>11 DEF TypeOK, RenameFails, GoTo, Steps, Saving
<1>12. QED
  BY <1>2, <1>3, <1>4, <1>5, <1>6, <1>7, <1>8, <1>9, <1>10, <1>11
     DEF Step, LoadStep, SaveStep

-----------------------------------------------------------------------------
(* Where a process is, and what it has in hand. *)

\* Only a rename replaces config.json, and while nobody reads it.
LEMMA ConfigStays ==
  ASSUME NEW p \in Procs, Step(p)
  PROVE  config' = config \/ RenameTemp(p)
BY DEF Step, LoadStep, SaveStep, Command, LoadCreates, LoadReads, LoadFails, Loaded,
       Change, ChangeFails, OpenTemp, WriteTemp, WriteFails, RenameFails, RemoveTemp,
       Killed

LEMMA ShapeStep ==
  ASSUME Inv, NEW p \in Procs, Step(p)
  PROVE  Shape'
<1>a. TypeOK /\ Shape  BY DEF Inv
<1>b. /\ pc \in [Procs -> Steps] /\ op \in [Procs -> {"load", "set", "reset"}]
      /\ mine \in [Procs -> Settings \cup {Empty, Torn}]
      /\ creating \subseteq Procs
  BY <1>a DEF TypeOK
<1> DEFINE Fits(q) ==
      /\ pc[q] # "read" => mine[q] \in Settings
      /\ pc[q] \in {"rest", "load"} => mine[q] = Default
      /\ pc[q] = "read" => mine[q] = config
      /\ pc[q] \in {"load", "read", "change"} => op[q] # "reset"
      /\ pc[q] = "change" => op[q] = "set"
      /\ pc[q] \in {"open"} \cup Saving /\ op[q] = "load" => q \in creating
      /\ q \in creating => /\ pc[q] \in {"open"} \cup Saving
                            /\ op[q] # "reset" /\ mine[q] = Default
<1>c. \A q \in Procs : Fits(q)  BY <1>a DEF Shape
<1>1. SUFFICES ASSUME NEW q \in Procs PROVE Fits(q)'
  BY <1>1 DEF Shape
<1>2. CASE q # p
  <2>1. pc[q] = "read" => config' = config
    <3>1. RenameTemp(p) => Readers = {}  BY DEF RenameTemp
    <3>2. QED  BY <3>1, ConfigStays DEF Readers
  <2>2. /\ pc'[q] = pc[q] /\ op'[q] = op[q] /\ mine'[q] = mine[q]
        /\ q \in creating' <=> q \in creating
    BY <1>a, <1>2, OthersStay
  <2>3. Fits(q)  BY <1>c
  <2>4. QED  BY <2>1, <2>2, <2>3
<1>3. CASE q = p
  <2>1. Fits(p)  BY <1>c
  <2>2. SUFFICES Fits(p)'  BY <1>3
  <2>3. ASSUME Ends(p) PROVE Fits(p)'
    BY <1>a, <2>3, Ended, DefaultValid DEF Saving
  <2>4. CASE \E o \in {"load", "set", "reset"} : Command(p, o)
    BY <1>b, <2>1, <2>4 DEF Command, GoTo, Saving
  <2>5. CASE LoadCreates(p)
    BY <1>b, <2>1, <2>5 DEF LoadCreates, GoTo, Saving
  <2>6. CASE LoadReads(p)
    <3>1. /\ pc'[p] = "read" /\ mine'[p] = config /\ config' = config
          /\ op' = op /\ creating' = creating
      BY <1>b, <2>6 DEF LoadReads, GoTo
    <3>2. pc[p] = "load"  BY <2>6 DEF LoadReads
    <3>3. p \notin creating  BY <2>1, <3>2 DEF Saving
    <3>4. QED  BY <2>1, <3>1, <3>2, <3>3 DEF Saving
  <2>7. CASE LoadFails(p) \/ ChangeFails(p) \/ Killed(p) \/ WriteFails(p) \/ RemoveTemp(p)
    BY <2>3, <2>7 DEF LoadFails, ChangeFails, Killed, WriteFails, RemoveTemp
  <2>8. CASE Loaded(p)
    <3>1. CASE op[p] = "set"
      <4>1. mine[p] \in Settings  BY <2>8 DEF Loaded, Valid
      <4>2. /\ pc'[p] = "change" /\ op' = op /\ mine' = mine /\ p \notin creating'
        BY <1>b, <2>8, <3>1 DEF Loaded, GoesOn, GoTo
      <4>3. QED  BY <3>1, <4>1, <4>2 DEF Saving
    <3>2. CASE op[p] # "set"
      BY <2>3, <2>8, <3>2 DEF Loaded
    <3>3. QED  BY <3>1, <3>2
  <2>9. CASE Change(p)
    <3>1. pc[p] = "change" /\ op[p] = "set" /\ p \notin creating /\ mine[p] \in Settings
      BY <2>1, <2>9 DEF Change, Saving
    <3>2. PICK k \in Keys, v \in Values :
            /\ v = "refused" => k \in Checked
            /\ mine' = [mine EXCEPT ![p] = [mine[p] EXCEPT ![k] = v]]
      BY <2>9 DEF Change
    <3>3. [mine[p] EXCEPT ![k] = v] \in Settings  BY <3>1, <3>2, ChangedSetting
    <3>4. mine'[p] \in Settings  BY <1>b, <3>2, <3>3
    <3>5. pc'[p] = "open" /\ op' = op /\ creating' = creating
      BY <1>b, <2>9 DEF Change, GoTo
    <3>6. QED  BY <3>1, <3>4, <3>5
  <2>10. CASE OpenTemp(p) \/ WriteTemp(p) \/ RenameFails(p)
    <3>1. /\ pc[p] \in {"open"} \cup Saving /\ pc'[p] \in Saving
          /\ op' = op /\ mine' = mine /\ creating' = creating
      BY <1>b, <2>10 DEF OpenTemp, WriteTemp, RenameFails, GoTo, Saving
    <3>2. QED  BY <2>1, <3>1 DEF Saving
  <2>11. CASE RenameTemp(p)
    <3>1. CASE Continues(p)
      <4>1. GoesOn(p) /\ pc[p] = "rename" /\ op[p] = "set"
        BY <2>11, <3>1 DEF RenameTemp, Continues
      <4>2. pc'[p] = "change" /\ op' = op /\ mine' = mine /\ p \notin creating'
        BY <1>b, <4>1 DEF GoesOn, GoTo
      <4>3. QED  BY <2>1, <4>1, <4>2 DEF Saving
    <3>2. CASE ~Continues(p)
      BY <2>3, <2>11, <3>2 DEF RenameTemp
    <3>3. QED  BY <3>1, <3>2
  <2>12. QED
    BY <2>4, <2>5, <2>6, <2>7, <2>8, <2>9, <2>10, <2>11 DEF Step, LoadStep, SaveStep
<1>4. QED  BY <1>2, <1>3

-----------------------------------------------------------------------------
(* What is going to be saved comes from config.json. *)

LEMMA BasisStep ==
  ASSUME Inv, NEW p \in Procs, Step(p)
  PROVE  Basis'
<1>a. TypeOK /\ Shape  BY DEF Inv
<1>b. /\ pc \in [Procs -> Steps] /\ op \in [Procs -> {"load", "set", "reset"}]
      /\ mine \in [Procs -> Settings \cup {Empty, Torn}]
      /\ creating \subseteq Procs /\ overtaken \subseteq Procs
  BY <1>a DEF TypeOK
<1> DEFINE Kept(q) ==
      /\ q \in creating => config = Absent
      /\ pc[q] = "change" => Valid(config) /\ mine[q] = config
      /\ op[q] = "set" /\ q \notin creating /\ pc[q] \in {"open", "write", "rename"} =>
           Valid(config) /\ OneChange(config, mine[q])
<1>c. \A q \in Procs \ overtaken : Kept(q)  BY DEF Inv, Basis
<1>d. ~RenameTemp(p) => config' = config
  BY ConfigStays
<1>1. SUFFICES ASSUME NEW q \in Procs, q \notin overtaken' PROVE Kept(q)'
  BY <1>1 DEF Basis
<1>2. CASE q # p
  <2>1. /\ pc'[q] = pc[q] /\ op'[q] = op[q] /\ mine'[q] = mine[q]
        /\ q \in creating' <=> q \in creating
    BY <1>a, <1>2, OthersStay
  <2>2. CASE RenameTemp(p)
    <3>1. ~Based(q) /\ q \notin overtaken
      BY <1>1, <1>2, <2>2 DEF RenameTemp
    <3>2. pc[q] # "write"  BY <2>2 DEF RenameTemp, Writers
    <3>3. pc[q] = "change" => op[q] = "set"  BY <1>a DEF Shape
    <3>4. /\ q \notin creating /\ pc[q] # "change"
          /\ ~(op[q] = "set" /\ pc[q] \in {"open", "write", "rename"})
      BY <3>1, <3>2, <3>3 DEF Based
    <3>5. QED  BY <2>1, <3>4
  <2>3. CASE ~RenameTemp(p)
    <3>1. overtaken' = overtaken \/ overtaken' = overtaken \ {p}
      BY <2>3
         DEF Step, LoadStep, SaveStep, Command, LoadCreates, LoadReads, LoadFails,
             Loaded, Change, ChangeFails, OpenTemp, WriteTemp, WriteFails, RenameFails,
             RemoveTemp, Killed, Forgets
    <3>2. q \notin overtaken  BY <1>1, <1>2, <3>1
    <3>3. Kept(q)  BY <1>c, <3>2
    <3>4. QED  BY <1>d, <2>1, <2>3, <3>3
  <2>4. QED  BY <2>2, <2>3
<1>3. CASE q = p
  <2>1. SUFFICES Kept(p)'  BY <1>3
  <2>2. p \notin overtaken => Kept(p)  BY <1>c
  <2>3. ASSUME Ends(p) PROVE Kept(p)'
    BY <1>a, <2>3, Ended
  <2>4. CASE \E o \in {"load", "set", "reset"} : Command(p, o)
    <3>1. PICK o \in {"load", "set", "reset"} : Command(p, o)  BY <2>4
    <3>2. p \notin creating  BY <1>a, <3>1 DEF Command, Shape, Saving
    <3>3. /\ pc'[p] = (IF o = "reset" THEN "open" ELSE "load") /\ op'[p] = o
          /\ creating' = creating
      BY <1>b, <3>1 DEF Command, GoTo
    <3>4. QED  BY <3>2, <3>3
  <2>5. CASE LoadCreates(p)
    <3>1. /\ pc'[p] = "open" /\ p \in creating' /\ config' = Absent
      BY <1>b, <2>5 DEF LoadCreates, GoTo
    <3>2. QED  BY <3>1
  <2>6. CASE LoadReads(p)
    <3>1. pc'[p] = "read" /\ creating' = creating
      BY <1>b, <2>6 DEF LoadReads, GoTo
    <3>2. p \notin creating  BY <1>a, <2>6 DEF LoadReads, Shape, Saving
    <3>3. QED  BY <3>1, <3>2
  <2>7. CASE LoadFails(p) \/ ChangeFails(p) \/ Killed(p) \/ WriteFails(p) \/ RemoveTemp(p)
    BY <2>3, <2>7 DEF LoadFails, ChangeFails, Killed, WriteFails, RemoveTemp
  <2>8. CASE Loaded(p)
    <3>1. CASE op[p] = "set"
      <4>1. pc'[p] = "change" /\ mine' = mine /\ p \notin creating' /\ config' = config
        BY <1>b, <2>8, <3>1 DEF Loaded, GoesOn, GoTo
      <4>2. Valid(mine[p]) /\ mine[p] = config
        BY <1>a, <2>8 DEF Loaded, Shape
      <4>3. Valid(config')  BY <4>1, <4>2
      <4>4. QED  BY <4>1, <4>2, <4>3
    <3>2. CASE op[p] # "set"
      BY <2>3, <2>8, <3>2 DEF Loaded
    <3>3. QED  BY <3>1, <3>2
  <2>9. CASE Change(p)
    <3>1. /\ pc'[p] = "open" /\ config' = config /\ overtaken' = overtaken
          /\ creating' = creating
      BY <1>b, <2>9 DEF Change, GoTo
    <3>2. Valid(config) /\ mine[p] = config
      BY <1>1, <1>3, <2>2, <2>9, <3>1 DEF Change
    <3>3. p \notin creating  BY <1>a, <2>9 DEF Shape, Change, Saving
    <3>4. PICK k \in Keys, v \in Values :
            /\ v = "refused" => k \in Checked
            /\ mine' = [mine EXCEPT ![p] = [mine[p] EXCEPT ![k] = v]]
      BY <2>9 DEF Change
    <3>5. mine'[p] = [config EXCEPT ![k] = v]  BY <1>b, <3>2, <3>4
    <3>6. config \in Settings  BY <3>2 DEF Valid
    <3>7. OneChange(config, [config EXCEPT ![k] = v])
      BY <3>4, <3>6, ChangedSetting
    <3>8. Valid(config') /\ OneChange(config', mine'[p])
      BY <3>1, <3>2, <3>5, <3>7
    <3>9. QED  BY <3>1, <3>3, <3>8
  <2>10. CASE OpenTemp(p) \/ WriteTemp(p) \/ RenameFails(p)
    <3>1. /\ pc[p] \in {"open", "write", "rename"} /\ pc'[p] \in Saving
          /\ op' = op /\ mine' = mine /\ creating' = creating
          /\ config' = config /\ overtaken' = overtaken
      BY <1>b, <2>10 DEF OpenTemp, WriteTemp, RenameFails, GoTo, Saving
    <3>2. Kept(p)  BY <1>1, <1>3, <2>2, <3>1
    <3>3. QED  BY <3>1, <3>2 DEF Saving
  <2>11. CASE RenameTemp(p)
    <3>1. CASE Continues(p)
      <4>1. GoesOn(p) /\ p \in creating  BY <2>11, <3>1 DEF RenameTemp, Continues
      <4>2. pc'[p] = "change" /\ mine' = mine /\ p \notin creating'
        BY <1>b, <4>1 DEF GoesOn, GoTo
      <4>3. config' = mine[p]  BY <1>1, <1>3, <2>11, <3>1 DEF RenameTemp
      <4>4. mine[p] = Default  BY <1>a, <4>1 DEF Shape
      <4>5. Valid(config')  BY <4>3, <4>4, DefaultValid
      <4>6. QED  BY <4>2, <4>3, <4>5
    <3>2. CASE ~Continues(p)
      BY <2>3, <2>11, <3>2 DEF RenameTemp
    <3>3. QED  BY <3>1, <3>2
  <2>12. QED
    BY <2>4, <2>5, <2>6, <2>7, <2>8, <2>9, <2>10, <2>11 DEF Step, LoadStep, SaveStep
<1>4. QED  BY <1>2, <1>3

-----------------------------------------------------------------------------
(* Who owns config.json.tmp. *)

LEMMA TempStep ==
  ASSUME Inv, NEW p \in Procs, Step(p)
  PROVE  TempOwned'
<1>a. TypeOK /\ TempOwned  BY DEF Inv
<1>b. /\ pc \in [Procs -> Steps] /\ mine \in [Procs -> Settings \cup {Empty, Torn}]
  BY <1>a DEF TypeOK
<1> DEFINE Owns(q) ==
      /\ \A r \in Procs : pc[r] \in Saving => r = q
      /\ pc[q] = "write" => temp = Empty
      /\ pc[q] = "rename" => temp = mine[q]
<1>c. ~mixed => \A q \in Procs : pc[q] \in Saving => Owns(q)
  BY <1>a DEF TempOwned
<1>d. \A q \in Procs : q # p => pc'[q] = pc[q] /\ mine'[q] = mine[q]
  BY <1>a, OthersStay
<1>1. SUFFICES ASSUME ~mixed', NEW q \in Procs, pc'[q] \in Saving
               PROVE  Owns(q)'
  BY <1>1 DEF TempOwned, Saving
<1>2. ASSUME pc'[p] \notin Saving, mixed' = mixed,
             pc[p] \in Saving \/ temp' = temp
      PROVE  Owns(q)'
  <2>1. q # p /\ pc[q] \in Saving /\ ~mixed  BY <1>1, <1>2, <1>d
  <2>2. Owns(q)  BY <1>c, <2>1
  <2>3. pc[p] \notin Saving  BY <2>1, <2>2
  <2>4. temp' = temp  BY <1>2, <2>3
  <2>5. pc'[q] = pc[q] /\ mine'[q] = mine[q]  BY <1>d, <2>1
  <2>6. \A r \in Procs : pc'[r] \in Saving => pc[r] \in Saving  BY <1>2, <1>d
  <2>7. \A r \in Procs : pc'[r] \in Saving' => r = q  BY <2>2, <2>6 DEF Saving
  <2>8. QED  BY <2>2, <2>4, <2>5, <2>7
<1>3. ASSUME Ends(p), mixed' = mixed, pc[p] \in Saving \/ temp' = temp
      PROVE  Owns(q)'
  BY <1>2, <1>3, <1>a, Ended DEF Saving
<1>4. CASE \E o \in {"load", "set", "reset"} : Command(p, o)
  <2>1. pc'[p] \in {"open", "load"} /\ temp' = temp /\ mixed' = mixed
    BY <1>b, <1>4 DEF Command, GoTo
  <2>2. QED  BY <1>2, <2>1 DEF Saving
<1>5. CASE LoadCreates(p) \/ LoadReads(p) \/ Change(p)
  <2>1. pc'[p] \in {"open", "read"} /\ temp' = temp /\ mixed' = mixed
    BY <1>b, <1>5 DEF LoadCreates, LoadReads, Change, GoTo
  <2>2. QED  BY <1>2, <2>1 DEF Saving
<1>6. CASE LoadFails(p) \/ ChangeFails(p) \/ Killed(p)
  BY <1>3, <1>6 DEF LoadFails, ChangeFails, Killed
<1>7. CASE Loaded(p)
  <2>1. CASE op[p] = "set"
    <3>1. pc'[p] = "change" /\ temp' = temp /\ mixed' = mixed
      BY <1>b, <1>7, <2>1 DEF Loaded, GoesOn, GoTo
    <3>2. QED  BY <1>2, <3>1 DEF Saving
  <2>2. CASE op[p] # "set"
    BY <1>3, <1>7, <2>2 DEF Loaded
  <2>3. QED  BY <2>1, <2>2
<1>8. CASE OpenTemp(p)
  <2>1. \A r \in Procs \ {p} : pc[r] \notin Saving  BY <1>1, <1>8 DEF OpenTemp
  <2>2. pc'[p] = "write" /\ temp' = Empty  BY <1>b, <1>8 DEF OpenTemp, GoTo
  <2>3. \A r \in Procs : pc'[r] \in Saving => r = p  BY <1>d, <2>1
  <2>4. q = p  BY <1>1, <2>3
  <2>5. \A r \in Procs : pc'[r] \in Saving' => r = q  BY <2>3, <2>4 DEF Saving
  <2>6. QED  BY <2>2, <2>4, <2>5
<1>9. CASE WriteTemp(p) \/ RenameFails(p)
  <2>1. /\ pc[p] \in Saving /\ mixed' = mixed /\ mine' = mine
        /\ pc'[p] \in {"rename", "remove"}
    BY <1>b, <1>9 DEF WriteTemp, RenameFails, GoTo, Saving
  <2>2. Owns(p)  BY <1>1, <1>c, <2>1
  <2>3. \A r \in Procs : pc'[r] \in Saving => r = p  BY <1>d, <2>2
  <2>4. q = p  BY <1>1, <2>3
  <2>5. \A r \in Procs : pc'[r] \in Saving' => r = q  BY <2>3, <2>4 DEF Saving
  <2>6. CASE WriteTemp(p)
    <3>1. temp = Empty  BY <2>2, <2>6 DEF WriteTemp
    <3>2. temp' = mine[p]  BY <2>6, <3>1 DEF WriteTemp, Overwritten
    <3>3. QED  BY <2>1, <2>4, <2>5, <3>2
  <2>7. CASE RenameFails(p)
    <3>1. pc'[p] = "remove"  BY <1>b, <2>7 DEF RenameFails, GoTo
    <3>2. QED  BY <2>4, <2>5, <3>1
  <2>8. QED  BY <1>9, <2>6, <2>7
<1>10. CASE WriteFails(p) \/ RemoveTemp(p)
  BY <1>3, <1>10 DEF WriteFails, RemoveTemp, Saving
<1>11. CASE RenameTemp(p)
  <2>1. pc[p] \in Saving /\ mixed' = mixed  BY <1>11 DEF RenameTemp, Saving
  <2>2. CASE Continues(p)
    <3>1. pc'[p] = "change"  BY <1>b, <1>11, <2>2 DEF RenameTemp, GoesOn, GoTo
    <3>2. QED  BY <1>2, <2>1, <3>1 DEF Saving
  <2>3. CASE ~Continues(p)
    BY <1>3, <1>11, <2>1, <2>3 DEF RenameTemp
  <2>4. QED  BY <2>2, <2>3
<1>12. QED
  BY <1>4, <1>5, <1>6, <1>7, <1>8, <1>9, <1>10, <1>11 DEF Step, LoadStep, SaveStep

-----------------------------------------------------------------------------
(* The theorems. *)

LEMMA InvStep == Inv /\ [Next]_vars => Inv'
<1>1. SUFFICES ASSUME Inv, [Next]_vars PROVE Inv'  OBVIOUS
<1>2. CASE Next
  <2>1. PICK p \in Procs : Step(p)  BY <1>2 DEF Next, Step
  <2>2. QED  BY <1>1, <2>1, TypeStep, ShapeStep, BasisStep, TempStep DEF Inv
<1>3. CASE UNCHANGED vars
  BY <1>1, <1>3
     DEF vars, Inv, TypeOK, Shape, Basis, TempOwned, Settings, Steps, Saving, Valid,
         OneChange
<1>4. QED  BY <1>1, <1>2, <1>3

LEMMA InvHolds == Spec => []Inv
BY InvInit, InvStep, PTL DEF Spec

\* Every variable keeps its type: config.json is a configuration, empty, torn or
\* absent, and a process that saves has a whole configuration in hand.
THEOREM ConfigTyped == Spec => []TypeOK
<1>1. Inv => TypeOK  BY DEF Inv
<1>2. QED  BY <1>1, InvHolds, PTL

\* A Save that succeeds and met no other Save leaves in config.json the whole
\* configuration its process meant to save.
THEOREM SaveAlwaysInstallsItsOwn == Spec => SaveInstallsItsOwn
<1>1. ASSUME Inv, NEW p \in Procs, RenameTemp(p)
      PROVE  mixed \/ config' = mine[p]
  <2>1. pc[p] = "rename" /\ config' = temp  BY <1>1 DEF RenameTemp
  <2>2. ~mixed => temp = mine[p]  BY <1>1, <2>1 DEF Inv, TempOwned, Saving
  <2>3. QED  BY <2>1, <2>2
<1>2. Inv => [\A p \in Procs : RenameTemp(p) => mixed \/ config' = mine[p]]_vars
  BY <1>1
<1>3. QED  BY <1>2, InvHolds, PTL DEF SaveInstallsItsOwn

\* What a Save replaces is kept but for one setting, unless it is that of config
\* reset, met another Save, or was overtaken by one.
THEOREM OnlyResetEverForgets == Spec => OnlyResetForgets
<1> DEFINE Kept(p) ==
      \/ op[p] = "reset" \/ mixed \/ p \in overtaken
      \/ Valid(config) /\ OneChange(config, config')
<1>1. ASSUME Inv, NEW p \in Procs, RenameTemp(p), config # Absent
      PROVE  Kept(p)
  <2>1. SUFFICES ASSUME op[p] # "reset", ~mixed, p \notin overtaken
                 PROVE  Valid(config) /\ OneChange(config, config')
    BY <2>1
  <2>2. pc[p] = "rename" /\ config' = temp  BY <1>1 DEF RenameTemp
  <2>3. temp = mine[p]  BY <1>1, <2>1, <2>2 DEF Inv, TempOwned, Saving
  <2>4. p \notin creating  BY <1>1, <2>1 DEF Inv, Basis
  <2>5. op[p] \in {"load", "set", "reset"}  BY <1>1 DEF Inv, TypeOK
  <2>6. op[p] # "load"  BY <1>1, <2>2, <2>4 DEF Inv, Shape, Saving
  <2>7. op[p] = "set"  BY <2>1, <2>5, <2>6
  <2>8. Valid(config) /\ OneChange(config, mine[p])
    BY <1>1, <2>1, <2>2, <2>4, <2>7 DEF Inv, Basis
  <2>9. QED  BY <2>2, <2>3, <2>8
<1>2. Inv => [\A p \in Procs : RenameTemp(p) /\ config # Absent => Kept(p)]_vars
  BY <1>1
<1>3. QED  BY <1>2, InvHolds, PTL DEF OnlyResetForgets
=============================================================================
