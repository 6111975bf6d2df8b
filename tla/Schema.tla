------------------------------- MODULE Schema -------------------------------
(***************************************************************************)
(* The schema of the database (history/database.py): every DatabaseService *)
(* passes over all its statements, and every request builds one.           *)
(*                                                                         *)
(* SQLite commits each statement on its own.  A table is created if it is  *)
(* not there; a column is added, and any error of that, a column already   *)
(* there as well as a locked database, is passed over.  A stage below is a *)
(* group of statements between which nothing is read; two passes that meet *)
(* within one do the same as one after the other.                          *)
(***************************************************************************)
EXTENDS Integers, Sequences, FiniteSets

CONSTANTS
  Pass,      \* threads that build a DatabaseService
  Made,      \* files to begin with: how many stages an earlier release had
  MaxLocks,  \* bound: statements that find the database locked for too long
  NoTable

ASSUME SchemaAssumption == Made \subseteq 0..10 /\ MaxLocks \in Nat

VARIABLES
  tables,   \* names of the tables there are
  columns,  \* pairs: the stage that adds them, the table they are added to
  pass,     \* how many stages a thread has done, and whether each statement ran
  locks,    \* statements given up so far
  unowned   \* there are rows from before project isolation, with no project_id

schemaVars == <<tables, columns, pass, locks, unowned>>

-----------------------------------------------------------------------------
(* The stages of _init_db.                                                 *)

WorkTables == {"tasks", "agents", "runs", "checkpoints"}
EvidenceTables == {"artifacts", "evidence", "findings", "events"}
MemoryTables == {"project_memory", "global_patterns", "research_strategies",
                 "research_outcomes", "memory_promotions"}
SourceTables == {"repository_snapshots", "source_files", "build_targets", "symbols",
                 "dependencies", "hw_sw_contracts"}
UnitTables == {"analysis_units", "security_surfaces", "secrets_quarantine",
               "context_expansions"}
IntelligenceTables ==
  {"global_concepts", "vulnerability_patterns", "security_invariants",
   "attack_surface_patterns", "investigation_strategies", "false_positive_patterns",
   "tool_evidence_patterns", "feedback_records", "knowledge_promotions"}
ReproducerTables == {"candidates", "repro_specs", "reproducers", "sandbox_executions",
                     "validation_results"}
ModelTables ==
  {"models", "agent_model_capabilities", "token_usage", "token_budgets",
   "repository_token_estimates", "agent_switches", "model_switches",
   "configuration_records"}
AnalystTables ==
  {"target_repositories", "analyst_instructions", "task_attempts", "tool_executions",
   "agent_role_assignments", "reproducer_versions", "chat_messages"}
ObjectiveTables ==
  {"specifications", "requirements", "soc_components", "interface_contracts",
   "security_assets", "threat_models", "verification_objectives",
   "verification_scenarios"}
PlanTables == {"verification_plans", "work_packages", "coverage_items", "gaps",
               "policy_candidates", "closure_snapshots"}
VerificationTables == ObjectiveTables \cup PlanTables
SequenceTables == {"project_id_sequences", "project_agent_preferences", "agent_handoffs"}

ApiColumns == {"events", "evidence", "findings", "validation_results", "reproducers",
               "repository_snapshots", "analysis_units", "agents", "runs", "tasks"}
FindingColumns == {"findings", "tasks"}
TimerColumns == {"runs"}
PlanColumns == {"tasks", "task_attempts", "runs"}

\* _project_scoped_tables; a table "analyst_questions" is never created.
ProjectScoped ==
  {"tasks", "runs", "questions", "analyst_questions", "analyst_instructions",
   "task_attempts", "findings", "evidence", "artifacts", "events", "verification_plans",
   "work_packages", "verification_objectives", "closure_snapshots", "coverage_items",
   "gaps", "tool_executions", "agent_role_assignments", "chat_messages",
   "run_control_events", "repository_snapshots", "analysis_units", "specifications",
   "requirements", "policy_candidates", "target_repositories", "token_usage",
   "token_budgets"}
NumberedTables == {"projects", "verification_plans", "work_packages",
                   "verification_objectives", "runs", "tasks", "evidence", "findings"}

Create(on, guarded) == [adds |-> "table", on |-> on, guarded |-> guarded]
Add(adds, on) == [adds |-> adds, on |-> on, guarded |-> TRUE]
BaseTables == WorkTables \cup EvidenceTables \cup MemoryTables \cup SourceTables
              \cup UnitTables \cup IntelligenceTables \cup ReproducerTables
\* Mutant: the columns of project isolation come before the tables.
ScopedBeforeTables ==
  << Add("plan", PlanColumns), Add("project_id", ProjectScoped), Create(VerificationTables, TRUE) >>

VerificationStages ==
  << Create(VerificationTables, TRUE), Add("plan", PlanColumns), Add("project_id", ProjectScoped) >>
Stages ==
  << Create(BaseTables, FALSE), Add("api", ApiColumns), Create(ModelTables \cup AnalystTables, FALSE),
     Add("finding", FindingColumns), Add("run_state", TimerColumns),
     Create({"run_control_events"}, TRUE), Create({"questions"}, FALSE),
     Add("timer", TimerColumns) >>
  \o VerificationStages
  \o << Add("legacy", {}), Create(SequenceTables, TRUE), Add("display_id", NumberedTables) >>

-----------------------------------------------------------------------------
NotBegun == [at |-> 0, clean |-> TRUE]
TableNames == (UNION {Stages[i].on : i \in DOMAIN Stages}) \cup {"projects"}
Kinds == {Stages[i].adds : i \in DOMAIN Stages}

ASSUME NoTableAssumption == NoTable \notin TableNames

\* Every variable has its type.
SchemaTypeOK ==
  /\ tables \subseteq TableNames
  /\ columns \subseteq Kinds \X TableNames
  /\ pass \in [Pass -> [at : 0..Len(Stages), clean : BOOLEAN]]
  /\ locks \in 0..MaxLocks
  /\ unowned \in BOOLEAN

\* What a stage leaves when the statement on one table is given up.
Effect(s, ts, cs, locked) ==
  IF s.adds = "table" THEN [tables |-> ts \cup (s.on \ {locked}), columns |-> cs]
  ELSE [tables |-> ts, columns |-> cs \cup ({s.adds} \X ((s.on \ {locked}) \cap ts))]

\* A file that no release or an earlier one has made: what its first n stages
\* leave, at most those before project isolation.
Release(n) ==
  LET made(k) == UNION {Stages[i].on : i \in {j \in 1..k : Stages[j].adds = "table"}}
      added == {j \in 1..n : Stages[j].adds # "table"}
  IN  [tables |-> made(n),
       columns |-> UNION {{Stages[i].adds} \X (Stages[i].on \cap made(i)) : i \in added}]

SchemaInit ==
  /\ \E n \in Made : /\ tables = Release(n).tables /\ columns = Release(n).columns
                      /\ unowned = (n > 0)
  /\ pass = [w \in Pass |-> NotBegun]
  /\ locks = 0

Passed(w) == pass[w].at = Len(Stages)

\* The legacy archive is not made and no row is given to it: `datetime` is not
\* imported, and the NameError is passed over.
RunStage(w) ==
  LET s == Stages[pass[w].at + 1] IN
  /\ ~ Passed(w)
  /\ tables' = Effect(s, tables, columns, NoTable).tables
  /\ columns' = Effect(s, tables, columns, NoTable).columns
  /\ pass' = [pass EXCEPT ![w].at = @ + 1]
  /\ UNCHANGED <<locks, unowned>>

\* One statement waits for busy_timeout in vain.  Where nothing catches that,
\* the request fails with what was done before it.
LockedStage(w) ==
  LET s == Stages[pass[w].at + 1] IN
  /\ ~ Passed(w) /\ locks < MaxLocks
  /\ \E t \in s.on :
       IF s.guarded
       THEN /\ tables' = Effect(s, tables, columns, t).tables
            /\ columns' = Effect(s, tables, columns, t).columns
            /\ pass' = [pass EXCEPT ![w] = [at |-> pass[w].at + 1, clean |-> FALSE]]
       ELSE /\ \E before \in {{}, s.on \ {t}} :
                 /\ tables' = Effect([s EXCEPT !.on = before], tables, columns, t).tables
                 /\ columns' = Effect([s EXCEPT !.on = before], tables, columns, t).columns
            /\ pass' = [pass EXCEPT ![w] = NotBegun]
  /\ locks' = locks + 1
  /\ UNCHANGED unowned

\* The process ends, or a request that has its service begins another.
RestartPass(w) ==
  /\ pass[w].at > 0
  /\ pass' = [pass EXCEPT ![w] = NotBegun]
  /\ UNCHANGED <<tables, columns, locks, unowned>>

\* ProjectRepository creates the table of projects.
CreateProjects ==
  /\ "projects" \notin tables
  /\ tables' = tables \cup {"projects"}
  /\ UNCHANGED <<columns, pass, locks, unowned>>

SchemaNext ==
  \/ \E w \in Pass : RunStage(w) \/ LockedStage(w) \/ RestartPass(w)
  \/ CreateProjects

SchemaSpec == SchemaInit /\ [][SchemaNext]_schemaVars

-----------------------------------------------------------------------------
(* Properties.                                                             *)

Whole ==
  \A i \in DOMAIN Stages :
    \A t \in Stages[i].on \ {"analyst_questions", "projects"} :
      IF Stages[i].adds = "table" THEN t \in tables ELSE <<Stages[i].adds, t>> \in columns

\* One pass that meets no lock leaves every table and column, whichever release
\* made the file and whatever passes broke off or run beside it: no statement
\* of _init_db needs a table that only a later one creates.
PassCompletes == \A w \in Pass : Passed(w) /\ pass[w].clean => Whole
=============================================================================
