--------------------------- MODULE MCVerification ---------------------------
(* A tree of two files: the application and tenchi.toml.  "plain" composes *)
(* no jobs, the jobs of "done" are compatible, those of "worse" are not    *)
(* when tenchi.toml is strict; when it is lax (check disabled, jobs        *)
(* omitted) "worse" composes none and a plugin repeats its planned test.   *)
EXTENDS Verification, TLC

Apps == {"plain", "done", "worse"}
MCTrees == {<<a, p>> : a \in Apps, p \in {"strict", "lax"}}
MCCommitted == <<"plain", "lax">>

Policy(toml) ==
  [present |-> toml # "absent", readable |-> TRUE,
   declares |-> [s \in Stages |->
     CASE toml = "absent" \/ (toml = "lax" /\ s = "jobs") -> "omitted"
       [] s \in {"tools", "evaluations"} \/ (toml = "lax" /\ s = "check") -> "false"
       [] OTHER -> "true"]]

Report(phase, outcome) == [when |-> phase, outcome |-> outcome, xfail |-> FALSE]
Clean == <<Report("setup", "passed"), Report("call", "passed"), Report("teardown", "passed")>>
Test(gone, reports) == [line |-> 7, deselected |-> gone, reports |-> reports]
Repeated == Clean \o Clean

MCFacts ==
  [t \in MCTrees |->
    [policy |-> Policy(t[2]),
     modules |-> IF t[1] = "plain" \/ t = <<"worse", "lax">> THEN {} ELSE {"jobs"},
     snapshots |-> {},
     ok |-> {"pytest", "architecture", "openapi"} \cup (IF t[1] = "done" THEN {"jobs"} ELSE {}),
     raises |-> IF t[1] = "plain" THEN {"jobs"} ELSE {},
     defaults |-> t # <<"worse", "strict">>,
     wiring |-> Wiring,
     definition |-> [functions |-> 1, imports |-> 1, bindings |-> 1,
                     shadowed |-> t = <<"worse", "strict">>, loaded |-> TRUE, line |-> 7],
     tests |-> IF t = <<"worse", "lax">> THEN {Test(FALSE, Repeated)}
               ELSE {Test(FALSE, Clean)}
                      \cup (IF t[1] = "worse" THEN {Test(TRUE, <<>>)} ELSE {})]]

(* With no policy at the baseline every composed boundary is required: the *)
(* jobs of the first baseline are new in the change, and the second's      *)
(* snapshot was renamed.                                                   *)
MCBaselines ==
  LET Of(p, m, snaps) ==
        [resolvable |-> TRUE, commit |-> "c1", policy |-> Policy(p), modules |-> m,
         snapshots |-> {"openapi"} \cup snaps, allowed |-> {}] IN
  {Of("absent", {}, {}), Of("absent", {"jobs"}, {}), Of("lax", {"jobs"}, {"jobs"})}

(* The generated plan, and one somebody asks less of.                      *)
Generated == create_contract_use_case_change_plan("c1", "billing",
               [feature |-> "billing", symbol |-> "charge"])
Weakened == [Generated EXCEPT !.postconditions = @ \ {"test_executes"}]
MCPlans == {Generated, Weakened}
MCCommands == <<"pytest", "jobs">>
=============================================================================
