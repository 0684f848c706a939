----------------------------- MODULE MCToolchain -----------------------------
(* Two tools of a developer, which share no state: the generators that     *)
(* write files, and the gate that compares what releases publish.  A       *)
(* behaviour here is about one of them, and the other stays in one of its  *)
(* initial states.                                                         *)
EXTENDS MCBoundary, Generation

VARIABLE subject  \* "generators" | "gate"

Command(artifact, feature, name) ==
  [artifact |-> artifact, feature |-> feature, name |-> name, plan |-> FALSE,
   from_contract |-> FALSE, dry_run |-> FALSE]

GeneratorSymmetry == Permutations(Generators)

MCFeatures == {"projects"}
MCValidNames == {"projects", "notes", "create"}

(* The middle file of every artifact.                                      *)
MCStrayPaths ==
  {FeatureRoot("notes") \o <<"use_cases", "__init__">>, FeatureRoot("projects") \o <<"tests", "create">>,
   FeatureRoot("notes") \o <<"tests", "create">>, <<"tools.json">>}

(* A feature and a use case in it, a use case with its change plan, the    *)
(* tools capability, a dry run, a contract nobody declared, a bad name.    *)
MCCommands ==
  LET planned == [Command("use-case", "projects", "create") EXCEPT !.plan = TRUE, !.from_contract = TRUE] IN
  {Command("feature", "notes", "notes"), Command("use-case", "notes", "create"), planned,
   [planned EXCEPT !.dry_run = TRUE], [planned EXCEPT !.feature = "notes"],
   Command("capability", "notes", "tools"), Command("feature", "Bad", "Bad")}

-----------------------------------------------------------------------------
ToolchainInit ==
  /\ GenerationInit /\ Init
  /\ subject \in {"generators", "gate"}
  /\ subject = "generators" => kind = "tools" /\ deployed = Manifest(<<>>)

ToolchainNext ==
  \/ subject = "generators" /\ GenerationNext /\ UNCHANGED <<vars, subject>>
  \/ subject = "gate" /\ Next /\ UNCHANGED <<generationVars, subject>>

ToolchainSpec == ToolchainInit /\ [][ToolchainNext]_<<generationVars, vars, subject>>
=============================================================================
