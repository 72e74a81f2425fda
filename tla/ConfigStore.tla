---------------------------- MODULE ConfigStore ----------------------------
(***************************************************************************)
(* config.json and the processes that load and save it: the tray process   *)
(* when it starts, and kbdlock config (internal/config, internal/cli).     *)
(* Nothing keeps two processes apart: a Save writes config.json.tmp, which *)
(* all of them share, and renames it.  Windows neither renames nor removes *)
(* a file that somebody has open the way Go opens files.                   *)
(***************************************************************************)
EXTENDS Files

CONSTANTS
  Procs,     \* processes: each runs one command after another
  Keys,      \* the settings
  Checked    \* those that validate looks at

Values   == {"default", "other", "refused"}
Settings == {c \in [Keys -> Values] : \A k \in Keys \ Checked : c[k] # "refused"}
Default  == [k \in Keys |-> "default"]
Valid(c) == c \in Settings /\ \A k \in Checked : c[k] # "refused"

ASSUME KeysAssumption     == Checked \subseteq Keys
ASSUME SettingsAssumption == {Absent, Empty, Torn} \cap Settings = {}

VARIABLES
  config,    \* config.json
  temp,      \* config.json.tmp
  pc,        \* where each process is
  op,        \* what it was asked: "load", "set" or "reset"
  mine,      \* what it has read, or is about to save
  creating,  \* the processes whose Save is that of Load
  mixed,     \* history: the last to open config.json.tmp met another Save
  overtaken  \* history: the processes that have loaded what was replaced since

vars == <<config, temp, pc, op, mine, creating, mixed, overtaken>>

\* A process in "read" has config.json open, one in "write" config.json.tmp.
Saving  == {"write", "rename", "remove"}
Steps   == {"rest", "load", "read", "change", "open"} \cup Saving
Readers == {p \in Procs : pc[p] = "read"}
Writers == {p \in Procs : pc[p] = "write"}

Init ==
  /\ config \in Settings \cup {Absent}
  /\ temp = Absent
  /\ pc = [p \in Procs |-> "rest"]
  /\ op = [p \in Procs |-> "load"]
  /\ mine = [p \in Procs |-> Default]
  /\ creating = {} /\ mixed = FALSE /\ overtaken = {}

GoTo(p, step) == pc' = [pc EXCEPT ![p] = step]

\* A command returns, with or without an error, or its process dies; Windows
\* closes what it had open.
Ends(p) ==
  /\ GoTo(p, "rest")
  /\ op' = [op EXCEPT ![p] = "load"]
  /\ mine' = [mine EXCEPT ![p] = Default]
  /\ creating' = creating \ {p}

Forgets(p) == overtaken' = overtaken \ {p}

-----------------------------------------------------------------------------
(* Load. *)

\* The tray and config show load; config set loads and saves; config reset saves.
Command(p, o) ==
  /\ pc[p] = "rest"
  /\ op' = [op EXCEPT ![p] = o]
  /\ GoTo(p, IF o = "reset" THEN "open" ELSE "load")
  /\ UNCHANGED <<config, temp, mine, creating, mixed, overtaken>>

\* A mistake of LoadCreates: a file of any kind that is no configuration is
\* replaced by the defaults.
LoadCreatesAnyway(p) ==
  /\ pc[p] = "load" /\ ~Valid(config)
  /\ creating' = creating \cup {p}
  /\ GoTo(p, "open")
  /\ UNCHANGED <<config, temp, op, mine, mixed, overtaken>>

\* A file that does not exist is created with the defaults.
LoadCreates(p) ==
  /\ pc[p] = "load" /\ config = Absent
  /\ creating' = creating \cup {p}
  /\ GoTo(p, "open")
  /\ UNCHANGED <<config, temp, op, mine, mixed, overtaken>>

\* A mistake of LoadReads: a file that does not exist is taken for one that is read.
LoadReadsAny(p) ==
  /\ pc[p] = "load"
  /\ mine' = [mine EXCEPT ![p] = config]
  /\ GoTo(p, "read")
  /\ UNCHANGED <<config, temp, op, creating, mixed, overtaken>>

LoadReads(p) ==
  /\ pc[p] = "load" /\ config # Absent
  /\ mine' = [mine EXCEPT ![p] = config]
  /\ GoTo(p, "read")
  /\ UNCHANGED <<config, temp, op, creating, mixed, overtaken>>

\* The file cannot be read, does not parse, or validate refuses it.
LoadFails(p) ==
  /\ \/ pc[p] = "load"
     \/ pc[p] = "read" /\ ~Valid(mine[p])
  /\ Ends(p) /\ Forgets(p)
  /\ UNCHANGED <<config, temp, mixed>>

\* config set goes on with what it has loaded or created.
GoesOn(p) ==
  /\ GoTo(p, "change")
  /\ creating' = creating \ {p}
  /\ UNCHANGED <<op, mine>>

Loaded(p) ==
  /\ pc[p] = "read" /\ Valid(mine[p])
  /\ IF op[p] = "set" THEN GoesOn(p) ELSE Ends(p)
  /\ UNCHANGED <<config, temp, mixed, overtaken>>

\* config set looks whether the value parses, not at what validate will say.
Change(p) ==
  /\ pc[p] = "change"
  /\ \E k \in Keys, v \in Values :
       /\ v = "refused" => k \in Checked
       /\ mine' = [mine EXCEPT ![p] = [mine[p] EXCEPT ![k] = v]]
  /\ GoTo(p, "open")
  /\ UNCHANGED <<config, temp, op, creating, mixed, overtaken>>

ChangeFails(p) ==
  /\ pc[p] = "change"
  /\ Ends(p) /\ Forgets(p)
  /\ UNCHANGED <<config, temp, mixed>>

-----------------------------------------------------------------------------
(* Save. *)

\* A mistake of OpenTemp: the file is opened without O_TRUNC.
OpenTempKeeps(p) ==
  /\ pc[p] = "open"
  /\ temp' = IF temp = Absent THEN Empty ELSE temp
  /\ GoTo(p, "write")
  /\ mixed' = (\E q \in Procs \ {p} : pc[q] \in Saving)
  /\ UNCHANGED <<config, op, mine, creating, overtaken>>

\* os.WriteFile opens and truncates ...
OpenTemp(p) ==
  /\ pc[p] = "open"
  /\ temp' = Empty
  /\ GoTo(p, "write")
  /\ mixed' = (\E q \in Procs \ {p} : pc[q] \in Saving)
  /\ UNCHANGED <<config, op, mine, creating, overtaken>>

\* ... writes from the beginning, which leaves the end of what is longer, and
\* closes.
Overwritten(p) == {mine[p]} \cup (IF temp \in {Empty, mine[p]} THEN {} ELSE {Torn})

WriteTemp(p) ==
  /\ pc[p] = "write"
  /\ temp' \in Overwritten(p)
  /\ GoTo(p, "rename")
  /\ UNCHANGED <<config, op, mine, creating, mixed, overtaken>>

\* A full disk: at the open, at once or half-way.  The file stays.
WriteFails(p) ==
  /\ \/ pc[p] = "open" /\ temp' = temp
     \/ pc[p] = "write" /\ temp' \in {temp, Torn}
  /\ Ends(p) /\ Forgets(p)
  /\ UNCHANGED <<config, mixed>>

\* What it is going to save comes from what it has loaded.
Based(p) ==
  \/ p \in creating
  \/ op[p] = "set" /\ pc[p] \in {"change", "open", "rename"}

\* The Save of Load is followed by the rest of config set.
Continues(p) == p \in creating /\ op[p] = "set"

\* os.Rename replaces config.json in one step; what others have loaded before, and
\* are going to save, is older from then on.
RenameTemp(p) ==
  /\ pc[p] = "rename"
  /\ temp # Absent /\ Writers = {} /\ Readers = {}
  /\ config' = temp
  /\ temp' = Absent
  /\ overtaken' = {q \in Procs :
                     IF q = p THEN Continues(p) /\ config' # mine[p]
                              ELSE Based(q) \/ q \in overtaken}
  /\ IF Continues(p) THEN GoesOn(p) ELSE Ends(p)
  /\ UNCHANGED mixed

RenameFails(p) ==
  /\ pc[p] = "rename"
  /\ GoTo(p, "remove")
  /\ UNCHANGED <<config, temp, op, mine, creating, mixed, overtaken>>

\* The temporary file is removed, whoever wrote it, unless somebody has it open.
RemoveTemp(p) ==
  /\ pc[p] = "remove"
  /\ temp' \in {temp} \cup (IF Writers = {} THEN {Absent} ELSE {})
  /\ Ends(p) /\ Forgets(p)
  /\ UNCHANGED <<config, mixed>>

Killed(p) ==
  /\ pc[p] # "rest"
  /\ Ends(p) /\ Forgets(p)
  /\ UNCHANGED <<config, temp, mixed>>

LoadStep(p) ==
  \/ LoadCreates(p) \/ LoadReads(p) \/ LoadFails(p) \/ Loaded(p)
  \/ Change(p) \/ ChangeFails(p)

SaveStep(p) ==
  \/ OpenTemp(p) \/ WriteTemp(p) \/ WriteFails(p)
  \/ RenameTemp(p) \/ RenameFails(p) \/ RemoveTemp(p)

Next ==
  \E p \in Procs :
    \/ \E o \in {"load", "set", "reset"} : Command(p, o)
    \/ LoadStep(p) \/ SaveStep(p)
    \/ Killed(p)

Spec == Init /\ [][Next]_vars

-----------------------------------------------------------------------------

\* Every variable has its type.
TypeOK ==
  /\ config \in Settings \cup {Absent, Empty, Torn}
  /\ temp \in Settings \cup {Absent, Empty, Torn}
  /\ pc \in [Procs -> Steps]
  /\ op \in [Procs -> {"load", "set", "reset"}]
  /\ mine \in [Procs -> Settings \cup {Empty, Torn}]
  /\ creating \subseteq Procs
  /\ mixed \in BOOLEAN
  /\ overtaken \subseteq Procs

\* Unless two Saves overlap, a Save that succeeds leaves in config.json the whole
\* configuration that its process meant to save, whatever others read, were
\* killed at or left behind, and whatever state config.json was in before (Save
\* writes a temporary file and renames it).
SaveInstallsItsOwn ==
  [][\A p \in Procs : RenameTemp(p) => mixed \/ config' = mine[p]]_vars

OneChange(c, d) == \E k \in Keys : \A j \in Keys \ {k} : d[j] = c[j]

\* Only config reset loses settings.  config set changes one of them and keeps the
\* rest, unless another Save came between its Load and its Save; and nothing but
\* a reset replaces a file that Load refuses, be it torn or a configuration that
\* config set has saved itself (Load, configSet, configReset).
OnlyResetForgets ==
  [][\A p \in Procs :
       RenameTemp(p) /\ config # Absent =>
         \/ op[p] = "reset" \/ mixed \/ p \in overtaken
         \/ Valid(config) /\ OneChange(config, config')]_vars

-----------------------------------------------------------------------------
(* The strengthenings that make the properties inductive. *)

\* Where a process is says what it was asked and what it has in hand.  A file that
\* is being read is not replaced.
Shape ==
  \A p \in Procs :
    /\ pc[p] # "read" => mine[p] \in Settings
    /\ pc[p] \in {"rest", "load"} => mine[p] = Default
    /\ pc[p] = "read" => mine[p] = config
    /\ pc[p] \in {"load", "read", "change"} => op[p] # "reset"
    /\ pc[p] = "change" => op[p] = "set"
    /\ pc[p] \in {"open"} \cup Saving /\ op[p] = "load" => p \in creating
    /\ p \in creating => /\ pc[p] \in {"open"} \cup Saving
                          /\ op[p] # "reset" /\ mine[p] = Default

\* Who has not been overtaken saves what config.json is, but for one change.
Basis ==
  \A p \in Procs \ overtaken :
    /\ p \in creating => config = Absent
    /\ pc[p] = "change" => Valid(config) /\ mine[p] = config
    /\ op[p] = "set" /\ p \notin creating /\ pc[p] \in {"open", "write", "rename"} =>
         Valid(config) /\ OneChange(config, mine[p])

\* A Save that meets no other has config.json.tmp for itself.
TempOwned ==
  ~mixed => \A p \in Procs :
    pc[p] \in Saving =>
      /\ \A q \in Procs : pc[q] \in Saving => q = p
      /\ pc[p] = "write" => temp = Empty
      /\ pc[p] = "rename" => temp = mine[p]
=============================================================================
