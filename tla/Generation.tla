----------------------------- MODULE Generation -----------------------------
(***************************************************************************)
(* The generators, "tenchi make feature", "make use-case" and "make        *)
(* capability", that add files to a project other processes also write to. *)
(* A generator looks first (the guards), may import a contract, notes      *)
(* which of its directories exist, and then makes its files one by one:    *)
(* mkdir, exclusive open, write.  An OSError rolls back what it created.   *)
(* Ctrl-C or a kill does not.  Several generators run at once, and a       *)
(* process that is no generator makes and removes files of its own.        *)
(*                                                                         *)
(* A path is the sequence of its components below the project root; the    *)
(* flat files of a feature are one, contracts.                             *)
(***************************************************************************)
EXTENDS Integers, Sequences, SequencesExt, FiniteSets

CONSTANTS
  Generators,    \* processes that run one command each
  Commands,      \* the commands they may be given
  Features,      \* features the project has at first, with their contracts
  ValidNames,    \* the names valid_name accepts
  MaxFaults,     \* bound: operating-system calls that fail
  Absent,        \* no file, no directory, no command
  StrayPaths,    \* where the other process makes files
  MaxStrays      \* bound: how many it makes

Artifacts == {"feature", "use-case", "capability"}
Project == "project"      \* the maker of what was there at first
Other   == "other"        \* the process that is no generator

ASSUME GenerationAssumption ==
  /\ Commands \subseteq [artifact : Artifacts, feature : STRING, name : STRING, plan : BOOLEAN,
                         from_contract : BOOLEAN, dry_run : BOOLEAN]
  /\ \A c \in Commands : c.plan => c.artifact = "use-case"
  /\ Features \subseteq STRING
  /\ {Absent, Project, Other} \cap Generators = {}
  /\ MaxFaults \in Nat /\ MaxStrays \in Nat
  /\ Absent \notin {Project, Other} \cup [by : Generators \cup {Project, Other}, whole : BOOLEAN]

VARIABLES
  dirs,          \* [Dirs -> maker or Absent]
  files,         \* [Files -> Absent or [by, whole]]
  gen,           \* [Generators -> a generator's locals]
  faults,        \* operating-system calls failed so far
  strays         \* files the other process has made

generationVars == <<dirs, files, gen, faults, strays>>

-----------------------------------------------------------------------------
(* Paths.                                                                  *)
app            == <<"app">>
features_root  == <<"app", "features">>
Server         == <<"app", "server">>
FeatureRoot(f) == Append(features_root, f)
Parent(path)   == Front(path)
Above(path)    == {SubSeq(path, 1, n) : n \in 0..Len(path) - 1}

feature_files(f) ==
  <<FeatureRoot(f) \o <<"contracts">>, FeatureRoot(f) \o <<"use_cases", "__init__">>,
    FeatureRoot(f) \o <<"tests", "__init__">>>>

use_case_files(f, name) ==
  <<FeatureRoot(f) \o <<"use_cases", name>>, FeatureRoot(f) \o <<"tests", name>>>>

capability_files == <<<<"app", "server", "tools">>, <<"tools.json">>, <<"tests", "tool_snapshot">>>>

PlanPath(name) == <<".tenchi", name>>

(* What a command writes, in order: the plan comes after the files.        *)
WritesOf(c) ==
  IF c.dry_run THEN <<>>
  ELSE CASE c.artifact = "feature"    -> feature_files(c.feature)
         [] c.artifact = "use-case"   -> use_case_files(c.feature, c.name) \o
                                         (IF c.plan THEN <<PlanPath(c.name)>> ELSE <<>>)
         [] c.artifact = "capability" -> capability_files

(* The directories from root down to a file's own: make feature writes     *)
(* below the feature, the others below the project.                        *)
RootOf(c) == IF c.artifact = "feature" THEN FeatureRoot(c.feature) ELSE <<>>

_destination_directories(c) ==
  {d \in UNION {Above(p) : p \in ToSet(WritesOf(c))} : IsPrefix(RootOf(c), d)}

Files == (UNION {ToSet(WritesOf(c)) : c \in Commands})
           \cup {FeatureRoot(f) \o <<"contracts">> : f \in Features}
Dirs  == (UNION {Above(p) : p \in Files}) \cup {Server}
IsDir(d)     == d \in Dirs /\ dirs[d] # Absent
Exists(path) == (path \in Files /\ files[path] # Absent) \/ IsDir(path)
Empty(d)     == ~ \E p \in Files \cup Dirs : p # <<>> /\ Parent(p) = d /\ Exists(p)

-----------------------------------------------------------------------------
Idle == [pc |-> "idle", command |-> Absent, result |-> "none", unsampled |-> {}, at |-> 1,
         existing |-> {}, pending |-> {}, created |-> <<>>, leaving |-> {}, clean |-> TRUE]

ProjectDirs ==
  {<<>>, app, features_root, Server} \cup UNION {{FeatureRoot(f),
     FeatureRoot(f) \o <<"use_cases">>, FeatureRoot(f) \o <<"tests">>} : f \in Features}

GenerationInit ==
  /\ dirs = [d \in Dirs |-> IF d \in ProjectDirs THEN Project ELSE Absent]
  /\ files = [p \in Files |->
       IF \E f \in Features : p = FeatureRoot(f) \o <<"contracts">>
       THEN [by |-> Project, whole |-> TRUE] ELSE Absent]
  /\ gen = [g \in Generators |-> Idle]
  /\ faults = 0
  /\ strays = 0

Writes(g)      == WritesOf(gen[g].command)
Destination(g) == Writes(g)[gen[g].at]

(* The early returns, in one look at the tree.                             *)
FeatureGuards(c) ==
  c.feature \in ValidNames /\ IsDir(features_root) /\ ~ Exists(FeatureRoot(c.feature))

UseCaseGuards(c) ==
  /\ {c.name, c.feature} \subseteq ValidNames
  /\ IsDir(FeatureRoot(c.feature))
  /\ \A p \in ToSet(use_case_files(c.feature, c.name)) : ~ Exists(p)
  /\ c.plan => ~ Exists(PlanPath(c.name)) /\ c.from_contract

CapabilityGuards(c) ==
  IsDir(Server) /\ \A p \in ToSet(capability_files) : ~ Exists(p)

GuardsPass(c) ==
  CASE c.artifact = "feature"    -> FeatureGuards(c)
    [] c.artifact = "use-case"   -> UseCaseGuards(c)
    [] c.artifact = "capability" -> CapabilityGuards(c)

(* _write_files_transactionally starts with an empty rollback account; a   *)
(* dry run has nothing to write.                                           *)
Begin(me) ==
  IF WritesOf(me.command) = <<>> THEN [me EXCEPT !.pc = "done", !.result = "ok"]
  ELSE [me EXCEPT !.pc = "sample", !.unsampled = _destination_directories(me.command)]

Refused(me) == [me EXCEPT !.pc = "done", !.result = "refused"]

make_result(g, c) ==
  /\ gen[g].pc = "idle"
  /\ LET me == [gen[g] EXCEPT !.command = c] IN
       gen' = [gen EXCEPT ![g] =
                 IF ~ GuardsPass(c) THEN Refused(me)
                 ELSE IF c.from_contract THEN [me EXCEPT !.pc = "load"] ELSE Begin(me)]
  /\ UNCHANGED <<dirs, files, faults, strays>>

(* Only a contract that a developer declared can be imported: those of the *)
(* features that were there at first.                                      *)
load_contract(g) ==
  /\ gen[g].pc = "load"
  /\ gen' = [gen EXCEPT ![g] = IF @.command.feature \in Features THEN Begin(@) ELSE Refused(@)]
  /\ UNCHANGED <<dirs, files, faults, strays>>

(* Which directories exist is asked of each in turn, in no known order.    *)
Sample(g) ==
  /\ gen[g].pc = "sample"
  /\ \E d \in gen[g].unsampled :
       gen' = [gen EXCEPT ![g].unsampled = @ \ {d},
                          ![g].existing = IF IsDir(d) THEN @ \cup {d} ELSE @,
                          ![g].pc = IF gen[g].unsampled = {d} THEN "mkdir" ELSE @]
  /\ UNCHANGED <<dirs, files, faults, strays>>

-----------------------------------------------------------------------------
(* The rollback: what was created is unlinked newest first, then every     *)
(* directory that was not there is removed, the deepest first.             *)
NextRemoval(me) ==
  IF me.created # <<>> THEN [me EXCEPT !.pc = "unlink"]
  ELSE IF me.leaving # {} THEN [me EXCEPT !.pc = "rmdir"]
  ELSE [me EXCEPT !.pc = "done", !.result = IF me.clean THEN "failed" ELSE "unclean"]

RollBack(me) ==
  NextRemoval([me EXCEPT !.leaving = _destination_directories(me.command) \ me.existing])

(* An operating-system call fails for a reason outside the model.          *)
Fault == faults < MaxFaults /\ faults' = faults + 1
NoFault == faults' = faults

MissingAbove(path) == {d \in Above(path) : ~ IsDir(d)}

(* mkdir(parents=True, exist_ok=True) finds the missing directories and    *)
(* makes them from the top; one whose parent is gone again is an error.    *)
mkdir(g) ==
  /\ gen[g].pc = "mkdir"
  /\ LET missing == MissingAbove(Destination(g)) IN
       gen' = [gen EXCEPT ![g].pending = missing,
                          ![g].pc = IF missing = {} THEN "open" ELSE "parents"]
  /\ UNCHANGED <<dirs, files, faults, strays>>

MakeParent(g) ==
  /\ gen[g].pc = "parents"
  /\ \E d \in gen[g].pending :
       /\ \A e \in gen[g].pending : Len(d) <= Len(e)
       /\ \/ /\ IsDir(Parent(d)) \/ d = <<>>
             /\ NoFault
             /\ dirs' = [dirs EXCEPT ![d] = IF @ = Absent THEN g ELSE @]
             /\ gen' = [gen EXCEPT ![g].pending = @ \ {d},
                                   ![g].pc = IF gen[g].pending = {d} THEN "open" ELSE @]
          \/ /\ IF IsDir(Parent(d)) THEN Fault ELSE NoFault
             /\ gen' = [gen EXCEPT ![g] = RollBack(@)]
             /\ UNCHANGED dirs
  /\ UNCHANGED <<files, strays>>

Open_RegistersLate(g) ==
  /\ gen[g].pc = "open"
  /\ LET p == Destination(g) IN
       \/ /\ ~ Exists(p) /\ IsDir(Parent(p))
          /\ NoFault
          /\ files' = [files EXCEPT ![p] = [by |-> g, whole |-> FALSE]]
          /\ gen' = [gen EXCEPT ![g].created = SubSeq(Writes(g), 1, gen[g].at - 1), ![g].pc = "write"]
       \/ /\ IF ~ Exists(p) /\ IsDir(Parent(p)) THEN Fault ELSE NoFault
          /\ gen' = [gen EXCEPT ![g] = RollBack(@)]
          /\ UNCHANGED files
  /\ UNCHANGED <<dirs, strays>>

Open_RegistersEarly(g) ==
  /\ gen[g].pc = "open"
  /\ LET p  == Destination(g)
         me == [gen[g] EXCEPT !.created = Append(@, p)] IN
       \/ /\ ~ Exists(p) /\ IsDir(Parent(p))
          /\ NoFault
          /\ files' = [files EXCEPT ![p] = [by |-> g, whole |-> FALSE]]
          /\ gen' = [gen EXCEPT ![g] = [me EXCEPT !.pc = "write"]]
       \/ /\ IF ~ Exists(p) /\ IsDir(Parent(p)) THEN Fault ELSE NoFault
          /\ gen' = [gen EXCEPT ![g] = RollBack(me)]
          /\ UNCHANGED files
  /\ UNCHANGED <<dirs, strays>>

(* open("x"): exactly one process creates a path.  What it creates is      *)
(* registered before it is written.                                        *)
Open(g) ==
  /\ gen[g].pc = "open"
  /\ LET p == Destination(g) IN
       \/ /\ ~ Exists(p) /\ IsDir(Parent(p))
          /\ NoFault
          /\ files' = [files EXCEPT ![p] = [by |-> g, whole |-> FALSE]]
          /\ gen' = [gen EXCEPT ![g].created = Append(@, p), ![g].pc = "write"]
       \/ /\ IF ~ Exists(p) /\ IsDir(Parent(p)) THEN Fault ELSE NoFault
          /\ gen' = [gen EXCEPT ![g] = RollBack(@)]
          /\ UNCHANGED files
  /\ UNCHANGED <<dirs, strays>>

Write(g) ==
  /\ gen[g].pc = "write"
  /\ \/ /\ NoFault
        /\ files' = [files EXCEPT ![Destination(g)].whole = TRUE]
        /\ gen' = [gen EXCEPT ![g] =
             IF gen[g].at = Len(Writes(g)) THEN [gen[g] EXCEPT !.pc = "done", !.result = "ok"]
             ELSE [gen[g] EXCEPT !.at = @ + 1, !.pc = "mkdir"]]
     \/ /\ Fault
        /\ gen' = [gen EXCEPT ![g] = RollBack(@)]
        /\ UNCHANGED files
  /\ UNCHANGED <<dirs, strays>>

unlink_OldestFirst(g) ==
  /\ gen[g].pc = "unlink"
  /\ LET me == [gen[g] EXCEPT !.created = Tail(@)]
         p  == gen[g].created[1] IN
       \/ /\ NoFault
          /\ files' = [files EXCEPT ![p] = Absent]
          /\ gen' = [gen EXCEPT ![g] = NextRemoval(me)]
       \/ /\ Fault
          /\ gen' = [gen EXCEPT ![g] = NextRemoval([me EXCEPT !.clean = FALSE])]
          /\ UNCHANGED files
  /\ UNCHANGED <<dirs, strays>>

unlink(g) ==
  /\ gen[g].pc = "unlink"
  /\ LET me == [gen[g] EXCEPT !.created = Front(@)]
         p  == Last(gen[g].created) IN
       \/ /\ NoFault
          /\ files' = [files EXCEPT ![p] = Absent]
          /\ gen' = [gen EXCEPT ![g] = NextRemoval(me)]
       \/ /\ Fault
          /\ gen' = [gen EXCEPT ![g] = NextRemoval([me EXCEPT !.clean = FALSE])]
          /\ UNCHANGED files
  /\ UNCHANGED <<dirs, strays>>

(* Only an empty directory can be removed; one that is gone is no error.   *)
rmdir(g) ==
  /\ gen[g].pc = "rmdir"
  /\ \E d \in gen[g].leaving :
       LET me == [gen[g] EXCEPT !.leaving = @ \ {d}] IN
       /\ \A e \in gen[g].leaving : Len(e) <= Len(d)
       /\ \/ /\ Empty(d) \/ ~ IsDir(d)
             /\ NoFault
             /\ dirs' = [dirs EXCEPT ![d] = Absent]
             /\ gen' = [gen EXCEPT ![g] = NextRemoval(me)]
          \/ /\ IsDir(d)
             /\ IF Empty(d) THEN Fault ELSE NoFault
             /\ gen' = [gen EXCEPT ![g] = NextRemoval([me EXCEPT !.clean = FALSE])]
             /\ UNCHANGED dirs
  /\ UNCHANGED <<files, strays>>

(* Ctrl-C is no OSError, and a kill is no exception at all: nothing is     *)
(* rolled back.                                                            *)
Kill(g) ==
  /\ gen[g].pc \notin {"idle", "done", "killed"}
  /\ gen' = [gen EXCEPT ![g].pc = "killed"]
  /\ UNCHANGED <<dirs, files, faults, strays>>

-----------------------------------------------------------------------------
(* The other process: an editor or a tool with files of its own.           *)
Stray(p) ==
  /\ strays < MaxStrays
  /\ ~ Exists(p) /\ IsDir(Parent(p))
  /\ files' = [files EXCEPT ![p] = [by |-> Other, whole |-> TRUE]]
  /\ strays' = strays + 1
  /\ UNCHANGED <<dirs, gen, faults>>

RemoveStray(p) ==
  /\ files[p] # Absent /\ files[p].by = Other
  /\ files' = [files EXCEPT ![p] = Absent]
  /\ UNCHANGED <<dirs, gen, faults, strays>>

GenerationNext ==
  \/ \E g \in Generators :
       \/ \E c \in Commands : make_result(g, c)
       \/ load_contract(g) \/ Sample(g)
       \/ mkdir(g) \/ MakeParent(g) \/ Open(g) \/ Write(g)
       \/ unlink(g) \/ rmdir(g)
       \/ Kill(g)
  \/ \E p \in StrayPaths \cap Files : Stray(p) \/ RemoveStray(p)

GenerationSpec == GenerationInit /\ [][GenerationNext]_generationVars

-----------------------------------------------------------------------------
(* Success is the whole artifact: when a generator reports ok, every file  *)
(* it names is its own and complete, and stays so whatever the rollback of *)
(* a generator beside it removes.  So of two generators for one target at  *)
(* most one succeeds.                                                      *)
SuccessIsWhole ==
  \A g \in Generators : gen[g].result = "ok" =>
    \A p \in ToSet(Writes(g)) : files[p] = [by |-> g, whole |-> TRUE]

(* A failure that reports no incomplete rollback has left no file of its   *)
(* own, not even half of one, and no directory it made except one that was *)
(* there when it looked and that another rollback had removed since.       *)
CleanFailureLeavesNothing ==
  \A g \in Generators : gen[g].result \in {"failed", "refused"} =>
    /\ \A p \in Files : files[p] # Absent => files[p].by # g
    /\ \A d \in Dirs : dirs[d] = g => d \in gen[g].existing

(* A generator makes all of its artifact or nothing of it.                 *)
AllOrNothing == SuccessIsWhole /\ CleanFailureLeavesNothing

(* A change plan on disk is a promise about files: it is written last and  *)
(* unlinked first, so that even after a kill no plan is without the two    *)
(* complete files it describes, unless its generator said that the         *)
(* rollback is incomplete.                                                 *)
PlanFollowsFiles ==
  \A g \in Generators :
    \A c \in {c \in Commands : gen[g].command = c /\ c.plan /\ ~ c.dry_run} :
      /\ files[PlanPath(c.name)] # Absent
      /\ files[PlanPath(c.name)].by = g
      /\ gen[g].clean
      => \A p \in ToSet(use_case_files(c.feature, c.name)) : files[p] = [by |-> g, whole |-> TRUE]

(* No step of a generator changes or removes a file that another process   *)
(* made, also when that file appeared after the guards had looked.         *)
OthersArePreserved ==
  [][\A p \in Files : files[p] # Absent /\ files'[p] # files[p] =>
       \/ files[p].by = Other /\ gen' = gen
       \/ \E g \in Generators : files[p].by = g /\ gen'[g] # gen[g]]_generationVars
=============================================================================
