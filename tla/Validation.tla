----------------------------- MODULE Validation -----------------------------
(***************************************************************************)
(* The independent validator (validator/service.py) as the command         *)
(* `validate` of llmorch/cli.py runs it: one process checks a reproducer,  *)
(* builds it, executes it in the sandbox, replays it, decides, and stores  *)
(* the evidence rows one by one and then the result.                       *)
(*                                                                         *)
(* An output of the sandbox is abstracted to what the expected failure can *)
(* tell apart.  The process may end between any two steps, and the command *)
(* may be given again: it then reads the reproducer as it was first saved. *)
(***************************************************************************)
EXTENDS Integers, Sequences, FiniteSets, SequencesExt

CONSTANTS
  RequestedReplays,  \* requested_replay_count
  FailCode,          \* an exit code of the program under test other than 0
  NoCode             \* the manifest expects no exit code

ASSUME ReplaysAssumption == RequestedReplays \in Nat

\* What SandboxRunner gives an execution the policy does not block.
Timeout == 124
LaunchFailed == 127
ASSUME CodesAssumption ==
  FailCode \in Int \ {0, Timeout, LaunchFailed} /\ NoCode \notin Int

Statuses == {"COMPLETED", "TIMEOUT", "SANDBOX_FAILED", "POLICY_BLOCKED"}
Outputs == [status : Statuses, exit : {0, FailCode, Timeout, LaunchFailed, -1},
            pattern : BOOLEAN, assertion : BOOLEAN, crash : BOOLEAN]
Manifests == [code : {0, FailCode, NoCode}, pattern : BOOLEAN, assertion : BOOLEAN]
Executions == [status : Statuses, exit : {0, FailCode, Timeout, LaunchFailed, -1},
               reproduced : BOOLEAN]
Verdicts == {"CONFIRMED", "REJECTED", "INCONCLUSIVE"}

VARIABLES
  manifest,    \* manifest.expected_failure
  phase,       \* what validate does next
  executions,  \* primary run and replays, in order
  successes,   \* reproduced_counts
  failures,    \* failure_counts
  verdict,     \* the decision: verdict, replay and success counts, executions
  unstored,    \* traces whose evidence row is still to be inserted
  results      \* validation_results: the latest row

valVars == <<manifest, phase, executions, successes, failures, verdict,
             unstored, results>>

Decisions == [verdict : Verdicts, replays : Nat, successes : Nat, runs : SUBSET Executions]
Phases == {"idle", "check", "build", "primary", "replay", "decide", "minimize", "store", "save"}
NoDecision == [verdict |-> "INCONCLUSIVE", replays |-> 0, successes |-> 0, runs |-> {}]

\* Every variable has its type.
ValTypeOK ==
  /\ manifest \in Manifests
  /\ phase \in Phases
  /\ executions \in Seq(Executions)
  /\ successes \in Nat /\ failures \in Nat
  /\ verdict \in Decisions
  /\ unstored \in Nat
  /\ results \subseteq Decisions

ValInit ==
  /\ manifest \in Manifests
  /\ phase = "idle"
  /\ executions = << >> /\ successes = 0 /\ failures = 0
  /\ verdict = NoDecision
  /\ unstored = 0
  /\ results = {}

Replays == IF RequestedReplays > 1 THEN RequestedReplays ELSE 1

\* An exit code and an output that can go together (SandboxRunner.execute).
Possible(o) ==
  CASE o.status = "COMPLETED" -> o.exit \in {0, FailCode}
    [] o.status = "TIMEOUT" -> o.exit = Timeout
    [] o.status = "SANDBOX_FAILED" -> o.exit = LaunchFailed
    [] o.status = "POLICY_BLOCKED" ->
         o.exit = -1 /\ ~ o.pattern /\ ~ o.assertion /\ ~ o.crash

\* _evaluate_failure_signal.
Reproduced(o) ==
  IF manifest.code = o.exit THEN manifest.pattern => o.pattern
  ELSE \/ manifest.assertion /\ o.assertion
       \/ manifest.pattern /\ o.pattern
       \/ o.exit # 0 /\ o.crash

Infrastructure == {"SANDBOX_FAILED", "POLICY_BLOCKED", "RESOURCE_EXHAUSTED", "ENVIRONMENT_FAILED"}

Execute(o) == [status |-> o.status, exit |-> o.exit, reproduced |-> Reproduced(o)]

\* _build_result: no verdict, and the evidence of the traces there are.
GiveUp(traces, replays, runs) ==
  /\ verdict' = [NoDecision EXCEPT !.replays = replays, !.runs = runs]
  /\ unstored' = traces
  /\ phase' = "store"

\* The process is over and its memory gone.
Exit ==
  /\ phase' = "idle"
  /\ executions' = << >> /\ successes' = 0 /\ failures' = 0
  /\ verdict' = NoDecision
  /\ unstored' = 0
  /\ UNCHANGED manifest

-----------------------------------------------------------------------------
Start ==
  /\ phase = "idle"
  /\ phase' = "check"
  /\ UNCHANGED <<manifest, executions, successes, failures, verdict, unstored, results>>

\* verify_tamper and the look for the required tools; a manifest may have no
\* build command.
CheckIntegrity ==
  /\ phase = "check"
  /\ \/ GiveUp(0, 0, {})
     \/ phase' \in {"build", "primary"} /\ UNCHANGED <<verdict, unstored>>
  /\ UNCHANGED <<manifest, executions, successes, failures, results>>

\* The build command.  One that the policy blocks has no trace, and reading its
\* exit code ends the process.
Build ==
  /\ phase = "build"
  /\ \/ phase' = "primary" /\ UNCHANGED <<verdict, unstored>>
     \/ GiveUp(1, 0, {})
     \/ phase' = "idle" /\ UNCHANGED <<verdict, unstored>>
  /\ UNCHANGED <<manifest, executions, successes, failures, results>>

\* The primary run: infrastructure failures give up, a timeout does not.
RunPrimary(o) ==
  LET e == Execute(o) IN
  /\ phase = "primary"
  /\ IF o.status \in Infrastructure
     THEN /\ GiveUp(IF o.status = "POLICY_BLOCKED" THEN 0 ELSE 1, 1, {e})
          /\ UNCHANGED <<executions, successes, failures>>
     ELSE /\ executions' = <<e>>
          /\ successes' = (IF e.reproduced THEN 1 ELSE 0)
          /\ failures' = (IF e.reproduced THEN 0 ELSE 1)
          /\ phase' = "replay"
          /\ UNCHANGED <<verdict, unstored>>
  /\ UNCHANGED <<manifest, results>>

\* One replay; what the sandbox did of it is not looked at.  The policy blocks
\* the same command every time.
Replay(o) ==
  LET e == Execute(o) IN
  /\ phase = "replay" /\ Len(executions) < Replays
  /\ o.status # "POLICY_BLOCKED"
  /\ executions' = Append(executions, e)
  /\ successes' = IF e.reproduced THEN successes + 1 ELSE successes
  /\ failures' = IF e.reproduced THEN failures ELSE failures + 1
  /\ UNCHANGED <<manifest, phase, verdict, unstored, results>>

\* Whether a minimised run of its own reproduces decides which artifact is kept,
\* not the verdict.
Minimize ==
  /\ phase = "replay" /\ Len(executions) = Replays
  /\ phase' = "decide"
  /\ UNCHANGED <<manifest, executions, successes, failures, verdict, unstored,
                 results>>

\* Mutant: most of the replays are enough.
DeterministicMostly == 2 * successes >= Replays

Deterministic ==
  \/ successes = Replays
  \/ failures = Replays /\ \A i \in DOMAIN executions : executions[i].exit = 0
Decide ==
  LET primary == executions[1]
      outcome == CASE Deterministic /\ primary.reproduced -> "CONFIRMED"
                   [] Deterministic /\ ~ primary.reproduced /\ primary.exit = 0 -> "REJECTED"
                   [] OTHER -> "INCONCLUSIVE"
  IN  /\ phase = "decide"
      /\ verdict' = [verdict |-> outcome, replays |-> Replays,
                     successes |-> successes, runs |-> Range(executions)]
      /\ unstored' = Len(executions)
      /\ phase' = "store"
      /\ UNCHANGED <<manifest, executions, successes, failures, results>>

\* _create_evidence_record: a transaction for each trace; its failure is passed
\* over.
StoreEvidence ==
  /\ phase = "store" /\ unstored > 0
  /\ unstored' = unstored - 1
  /\ UNCHANGED <<manifest, phase, executions, successes, failures, verdict, results>>

\* run_validate saves the result; the reproducer is not saved.
SaveResult ==
  /\ phase = "store" /\ unstored = 0
  /\ results' = {verdict}
  /\ Exit

\* The process ends; the evidence rows it inserted belong to no result.
EndProcess ==
  /\ phase # "idle"
  /\ Exit
  /\ UNCHANGED results

ValNext ==
  \/ Start \/ CheckIntegrity \/ Build \/ Minimize \/ Decide
  \/ StoreEvidence \/ SaveResult \/ EndProcess
  \/ \E o \in Outputs : Possible(o) /\ (RunPrimary(o) \/ Replay(o))

ValSpec == ValInit /\ [][ValNext]_valVars

-----------------------------------------------------------------------------
(* Properties.                                                             *)

Justified(d) ==
  /\ d.verdict = "CONFIRMED" =>
       /\ d.replays = Replays /\ d.successes = Replays
       /\ \A e \in d.runs : e.reproduced
  /\ d.verdict = "REJECTED" =>
       /\ d.replays = Replays
       /\ \A e \in d.runs : ~ e.reproduced /\ e.exit = 0

\* A stored result says CONFIRMED only when the primary run and every replay of
\* that validation reproduced, and REJECTED only when all of them exited with 0
\* and none reproduced: no process that gave up or ended early, and no replay
\* whose sandbox failed, leaves a verdict (validator/service.py).
VerdictJustified == \A d \in results : Justified(d)
=============================================================================
