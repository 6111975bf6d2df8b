---------------------------- MODULE Investigation ----------------------------
(***************************************************************************)
(* The investigation of `llmorch investigate`                              *)
(* (orchestrator/investigation.py): a root task, one child task per        *)
(* assignment in a thread pool, and when all have ended the finding, its   *)
(* outcome, the project memory and the promotion.                          *)
(*                                                                         *)
(* The configuration may have an agent fail before it executes; the        *)
(* failover engine (see Failover) then works on the child's row while the  *)
(* worker keeps the copy it made before.  The process may end anywhere.    *)
(***************************************************************************)
EXTENDS Integers, FiniteSets

CONSTANTS
  Worker,      \* agents that may be assigned, one child each
  Spare,       \* registered agents that are not
  Simulated    \* agents whose failure is simulated

ASSUME InvestigationAssumption == Simulated \subseteq Worker /\ Worker \cap Spare = {}

VARIABLES
  root,     \* the root task: status
  chosen,   \* the agents assigned
  child,    \* the child of an agent: its row, and where its thread is
  fit,      \* agents the registry of the process has as AVAILABLE
  trials,   \* runs: of which child, who executes, status
  saved     \* what is stored of the outcome, in order

invVars == <<root, chosen, child, fit, trials, saved>>

RootStates == {"ABSENT", "QUEUED", "RUNNING", "BLOCKED", "SUCCEEDED"}
ChildStates == {"ABSENT", "QUEUED", "RUNNING", "BLOCKED", "SUCCEEDED", "FAILED"}
ChildSteps == {"none", "start", "ready", "failover", "execute", "finish", "done", "raised"}
Trials == [of : Worker, by : Worker \cup Spare, status : {"RUNNING", "SUCCEEDED", "FAILED"}]

\* Every variable has its type.
InvTypeOK ==
  /\ root \in RootStates
  /\ chosen \subseteq Worker
  /\ child \in [Worker -> [status : ChildStates, agent : Worker \cup Spare,
                           runner : Worker \cup Spare, step : ChildSteps]]
  /\ fit \subseteq Worker \cup Spare
  /\ trials \subseteq Trials
  /\ saved \in 0..3

InvInit ==
  /\ root = "ABSENT" /\ chosen = {}
  /\ child = [a \in Worker |-> [status |-> "ABSENT", agent |-> a, runner |-> a, step |-> "none"]]
  /\ fit \in SUBSET (Worker \cup Spare)
  /\ trials = {}
  /\ saved = 0

\* Whether the process is still there: a thread that raised ends it with the
\* others, and so does the end of run().
Running == \E a \in Worker : child[a].step \notin {"none", "done", "raised"}
Over == root \in {"BLOCKED", "SUCCEEDED"}

Step(a, s) == child' = [child EXCEPT ![a].step = s]

-----------------------------------------------------------------------------
(* run                                                                     *)

CreateRoot ==
  /\ root = "ABSENT"
  /\ root' = "QUEUED"
  /\ UNCHANGED <<chosen, child, fit, trials, saved>>

\* The strategy engine takes the first of the eligible agents, up to a count.
Assign ==
  /\ root = "QUEUED"
  /\ \E agents \in SUBSET (fit \cap Worker) :
       /\ chosen' = agents
       /\ root' = IF agents = {} THEN "BLOCKED" ELSE "RUNNING"
       /\ child' = [a \in Worker |->
            IF a \in agents THEN [child[a] EXCEPT !.step = "start"] ELSE child[a]]
  /\ UNCHANGED <<fit, trials, saved>>

\* Mutant: the pool is not waited for.
RecordEarly ==
  /\ root = "RUNNING" /\ saved < 3
  /\ saved' = saved + 1
  /\ UNCHANGED <<root, chosen, child, fit, trials>>

\* The outcome, the project memory and the promotion, when the pool is empty
\* and no thread raised.
RecordNext ==
  /\ root = "RUNNING"
  /\ \A a \in chosen : child[a].step = "done"
  /\ saved < 3
  /\ saved' = saved + 1
  /\ UNCHANGED <<root, chosen, child, fit, trials>>

SucceedRoot ==
  /\ root = "RUNNING" /\ saved = 3
  /\ root' = "SUCCEEDED"
  /\ UNCHANGED <<chosen, child, fit, trials, saved>>

-----------------------------------------------------------------------------
(* _execute_child_task                                                     *)

\* TaskRepository.save: the whole row, as the caller's copy has it.  A worker's
\* copy has the agent it was made with.
SaveRow(a, status, step) ==
  child' = [child EXCEPT ![a].status = status, ![a].agent = a, ![a].step = step]

\* RunRepository.save: a run has an id of its own, and ends with its record.
SaveRun(a, by, status) == trials' = trials \cup {[of |-> a, by |-> by, status |-> status]}

SaveChild(a) ==
  /\ child[a].step = "start" /\ child[a].status = "ABSENT"
  /\ SaveRow(a, "QUEUED", "start")
  /\ UNCHANGED <<root, chosen, fit, trials, saved>>

\* Dispatched and running in one save.
RunChild(a) ==
  /\ child[a].step = "start" /\ child[a].status = "QUEUED"
  /\ SaveRow(a, "RUNNING", IF a \in Simulated THEN "ready" ELSE "execute")
  /\ UNCHANGED <<root, chosen, fit, trials, saved>>

\* handle_failure_and_recover takes the agent out of the registry, ...
ReportFailure(a) ==
  /\ child[a].step = "ready"
  /\ fit' = fit \ {a}
  /\ Step(a, "failover")
  /\ UNCHANGED <<root, chosen, trials, saved>>

\* ... and gives the child another one with a run, or blocks it.  The worker
\* executes in either case.
Replace(a) ==
  /\ child[a].step = "failover"
  /\ IF fit = {}
     THEN /\ child' = [child EXCEPT ![a].status = "BLOCKED", ![a].step = "execute"]
          /\ UNCHANGED trials
     ELSE \E b \in fit :
            /\ child' = [child EXCEPT ![a].agent = b, ![a].runner = b, ![a].step = "execute"]
            /\ SaveRun(a, b, "RUNNING")
  /\ UNCHANGED <<root, chosen, fit, saved>>

ExecuteChild(a) ==
  /\ child[a].step = "execute"
  /\ \E s \in {"SUCCEEDED", "FAILED"} :
       SaveRun(a, child[a].runner, s)
  /\ Step(a, "finish")
  /\ UNCHANGED <<root, chosen, fit, saved>>

\* The worker's copy is saved over the row: its agent is the first one again.
FinishChild(a) ==
  /\ child[a].step = "finish"
  /\ \E t \in trials :
       /\ t.of = a /\ t.status # "RUNNING"
       /\ SaveRow(a, t.status, "done")
  /\ UNCHANGED <<root, chosen, fit, trials, saved>>

\* The workspace cannot be made or the adapter raises: the other threads end,
\* and the root stays RUNNING.
RaiseInChild(a) ==
  /\ \/ child[a].step = "start" /\ child[a].status = "QUEUED"
     \/ child[a].step = "execute"
  /\ Step(a, "raised")
  /\ UNCHANGED <<root, chosen, fit, trials, saved>>

EndInvestigation ==
  /\ root # "ABSENT" /\ ~ Over /\ Running
  /\ child' = [a \in Worker |->
       IF child[a].step \in {"none", "done"} THEN child[a] ELSE [child[a] EXCEPT !.step = "raised"]]
  /\ UNCHANGED <<root, chosen, fit, trials, saved>>

InvNext ==
  \/ CreateRoot \/ Assign \/ RecordNext \/ SucceedRoot \/ EndInvestigation
  \/ \E a \in Worker :
       \/ SaveChild(a) \/ RunChild(a) \/ ReportFailure(a) \/ Replace(a)
       \/ ExecuteChild(a) \/ FinishChild(a) \/ RaiseInChild(a)

InvSpec == InvInit /\ [][InvNext]_invVars

-----------------------------------------------------------------------------
(* Properties.                                                             *)

Ended == {"SUCCEEDED", "FAILED"}

\* An investigation reports what it did: the root is SUCCEEDED only when every
\* child has ended as a run of it did and the outcome, the memory and the
\* promotion are stored, and nothing of them is stored while a child is out or
\* after a thread raised.  A child the failover engine blocked ends as well.
ResultsBeforeSuccess ==
  /\ root = "SUCCEEDED" => saved = 3
  /\ saved > 0 =>
       /\ chosen # {}
       /\ \A a \in chosen : /\ child[a].status \in Ended
                            /\ \E t \in trials : t.of = a /\ t.status = child[a].status
=============================================================================
