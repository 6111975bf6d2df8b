------------------------------ MODULE MCRecords ------------------------------
(* The components beside the execution of runs, checked one at a time: each  *)
(* keeps tables of its own, so that the first state picks the component that *)
(* acts and the others stay as they begin.                                   *)
EXTENDS Identifiers, Findings, Validation, Workspace, Closure, Investigation,
        Memory, Schema, Workbench, Tokens, LogRetention, Roster, Intake,
        Planning

CONSTANTS e1, e2, e3, f, g, t, p1, p2, o1, o2, v1, l1

\* Three evidence rows, the outer two of equal hash, two findings and a task;
\* g belongs to another project.
Kinds6 == [x \in Row |-> CASE x \in {e1, e2, e3} -> "EVI" [] x = t -> "TASK" [] OTHER -> "VUL"]
Owners == [x \in Row |-> IF x = g THEN p2 ELSE p1]
Ages == [x \in Row |-> CASE x = e1 -> 1 [] x = e2 -> 2 [] x = e3 -> 3
                         [] x = f -> 4 [] x = g -> 5 [] OTHER -> 6]
Hashes == [x \in Row |-> CASE x \in {e1, e3} -> 1 [] x = e2 -> 2 [] OTHER -> 0]
Links6 == [x \in Row |-> IF x = f THEN {e1, e2} ELSE {}]

Seeds == <<p1, p2>>
\* A directory that is not there, or a hardware one.
Held(n) == [there |-> n > 0, readable |-> n > 0, rtl |-> n, rust |-> 0, c |-> 0, other |-> 0]
Disks == {[x \in Directory |-> Held(n)] : n \in {0, 1}}
Objectives == [x \in ClosurePlan |-> {o1, o2}]
Owning == [x \in ClosurePlan |-> p1]
OneBucket == [x \in {o1, o2} |-> "security"]

\* Of two calls only the second is reported, and that its output only by length.
Runs1 == [x \in Call |-> p1]
Costs == [x \in Call |-> [input |-> [actual |-> 3 * (x - 1), text |-> 2],
                          output |-> [actual |-> 0, text |-> x]]]

\* A file of each kind.
LogKinds == [x \in Log |-> CASE x = SchedulerLog -> "application" [] x = l1 -> "run" [] OTHER -> "project"]
LogRuns == [x \in {l1} |-> CHOOSE r \in LogRun : TRUE]

\* One agent has a choice of two models.
FirstModels == [x \in Rostered |-> IF x \in Policed THEN 3 ELSE 1]
Bindings == [x \in Rostered |-> {FirstModels[x]} \cup IF x = CHOOSE y \in Rostered \ Policed : TRUE THEN {2} ELSE {}]


\* Codebases of every class, tier and kind of plan; requirements on file make
\* the security package of a large one expensive.
Code(kinds, count, bytes, modules, signs, rust) ==
  [files |-> [k \in FileKind |-> IF k \in DOMAIN kinds THEN kinds[k] ELSE "none"],
   count |-> count, bytes |-> bytes, modules |-> modules, signs |-> signs, rust |-> rust]
Runtime == <<[path |-> {"runtime"},
              lines |-> <<{"pauser as u16"}, {"locality as u16"},
                          {"saturating_sub", "size_of u32"}, {"extend_pcr"}, {"key_size as u8"}>>],
             [path |-> {"set_auth_manifest"}, lines |-> <<{"saturating_sub(0)"}>>]>>
Codebases ==
  {Code([k \in {} |-> ""], 0, 0, 0, {}, << >>),
   Code([binary |-> "content", rtl |-> "empty"], 2, 9000, 0, {}, << >>),
   Code([spec |-> "content", build |-> "content"], 3, 4000, 0, {}, << >>),
   Code([spec |-> "content", rtl |-> "empty"], 2, 4000, 0, {}, << >>),
   Code([rtl |-> "content", build |-> "content"], 3, 70000, 2, {"reset", "clock"}, << >>),
   Code([rtl |-> "content"], 30, 400000, 9, {"reset", "clocks", "key", "bus"}, << >>),
   Code([code |-> "content"], 12, 300000, 0, {}, << >>),
   Code([code |-> "content", build |-> "content"], 3, 40000, 0, {"rom"}, Runtime),
   Code([code |-> "content"], 9, 90000, 0, {}, Runtime)}
Required == [b \in ToSet(Buckets) |-> IF b = "security" THEN 9 ELSE 0]

VARIABLE focus

Parts == {"identifiers", "findings", "validation", "workspace", "closure",
          "investigation", "memory", "schema", "workbench", "tokens", "logs",
          "roster", "intake", "planning"}

\* A component that does not act has one first state.
Init ==
  /\ focus \in Parts
  /\ IdInit /\ FindingInit /\ ValInit /\ WsInit /\ ClInit /\ InvInit
  /\ MemInit /\ SchemaInit /\ WbInit /\ TokInit /\ LogInit /\ RosterInit
  /\ IntakeInit /\ PlanningInit
  /\ focus # "validation" => manifest = [code |-> 0, pattern |-> FALSE, assertion |-> FALSE]
  /\ focus # "workspace" => disk = CHOOSE k \in Disk : TRUE
  /\ focus # "investigation" => fit = {}
  /\ focus # "schema" => tables = Release(CHOOSE n \in Made : TRUE).tables

\* Every component but this one stays as it is.
Only(part) ==
  /\ UNCHANGED focus
  /\ IF part = "identifiers" THEN TRUE ELSE UNCHANGED idVars
  /\ IF part = "findings" THEN TRUE ELSE UNCHANGED findingVars
  /\ IF part = "validation" THEN TRUE ELSE UNCHANGED valVars
  /\ IF part = "workspace" THEN TRUE ELSE UNCHANGED wsVars
  /\ IF part = "closure" THEN TRUE ELSE UNCHANGED clVars
  /\ IF part = "investigation" THEN TRUE ELSE UNCHANGED invVars
  /\ IF part = "memory" THEN TRUE ELSE UNCHANGED memVars
  /\ IF part = "schema" THEN TRUE ELSE UNCHANGED schemaVars
  /\ IF part = "workbench" THEN TRUE ELSE UNCHANGED wbVars
  /\ IF part = "tokens" THEN TRUE ELSE UNCHANGED tokVars
  /\ IF part = "logs" THEN TRUE ELSE UNCHANGED logVars
  /\ IF part = "roster" THEN TRUE ELSE UNCHANGED rosterVars
  /\ IF part = "intake" THEN TRUE ELSE UNCHANGED intakeVars
  /\ IF part = "planning" THEN TRUE ELSE UNCHANGED planningVars

Next ==
  \/ focus = "identifiers" /\ IdNext /\ Only("identifiers")
  \/ focus = "findings" /\ FindingNext /\ Only("findings")
  \/ focus = "validation" /\ ValNext /\ Only("validation")
  \/ focus = "workspace" /\ WsNext /\ Only("workspace")
  \/ focus = "closure" /\ ClNext /\ Only("closure")
  \/ focus = "investigation" /\ InvNext /\ Only("investigation")
  \/ focus = "memory" /\ MemNext /\ Only("memory")
  \/ focus = "schema" /\ SchemaNext /\ Only("schema")
  \/ focus = "workbench" /\ WbNext /\ Only("workbench")
  \/ focus = "tokens" /\ TokNext /\ Only("tokens")
  \/ focus = "logs" /\ LogNext /\ Only("logs")
  \/ focus = "roster" /\ RosterNext /\ Only("roster")
  \/ focus = "intake" /\ IntakeNext /\ Only("intake")
  \/ focus = "planning" /\ PlanningNext /\ Only("planning")

vars == <<focus, idVars, findingVars, valVars, wsVars, clVars, invVars,
          memVars, schemaVars, wbVars, tokVars, logVars, rosterVars,
          intakeVars, planningVars>>

Spec == Init /\ [][Next]_vars

\* The type invariant of the component that acts; the others are as in a first
\* state of theirs.
RecordsTypeOK ==
  /\ focus = "identifiers" => IdTypeOK
  /\ focus = "findings" => FindingTypeOK
  /\ focus = "validation" => ValTypeOK
  /\ focus = "workspace" => WsTypeOK
  /\ focus = "closure" => ClTypeOK
  /\ focus = "investigation" => InvTypeOK
  /\ focus = "memory" => MemTypeOK
  /\ focus = "schema" => SchemaTypeOK
  /\ focus = "workbench" => WbTypeOK
  /\ focus = "tokens" => TokTypeOK
  /\ focus = "logs" => LogTypeOK
  /\ focus = "roster" => RosterTypeOK
  /\ focus = "intake" => IntakeTypeOK
  /\ focus = "planning" => PlanningTypeOK
=============================================================================
