------------------------------ MODULE Failover ------------------------------
(***************************************************************************)
(* Recovery of a task whose agent failed (scheduler/failover.py) and the   *)
(* analyst's switch of a task to another agent (scheduler/                 *)
(* agent_switcher.py), over the tasks and runs tables and the registry of  *)
(* agents.                                                                 *)
(*                                                                         *)
(* A recovery runs in the worker thread of its task; the workers share the *)
(* registry and interleave between any two saves, each of which is a       *)
(* transaction of its own.  The switch belongs to an `async def` endpoint  *)
(* that does not await before it has written everything.                   *)
(***************************************************************************)
EXTENDS Integers, Sequences, FiniteSets

CONSTANTS
  Task,
  Agent,        \* the registered agents
  Enabled,      \* the agents that the configuration enables
  Rank,         \* Rank[a]: position of a in the registry
  Capable,      \* Capable[t]: executable by policy, with the capabilities t needs
  MaxRetries,   \* FailoverEngine.max_retries_per_task
  Codes,        \* the error codes that are reported
  Reported,     \* the tasks whose runs fail
  Switched,     \* the tasks the analyst switches
  Resumptions,  \* the analyst's values of resume_action
  MaxRuns       \* bound: switches stop at this many runs of a task

ASSUME AgentsAssumption ==
  /\ Rank \in [Agent -> Nat]
  /\ \A a, b \in Agent : Rank[a] = Rank[b] => a = b
  /\ Capable \in [Task -> SUBSET Agent]
ASSUME RetriesAssumption == MaxRetries \in Nat /\ MaxRuns \in Nat

TaskStatuses == { "QUEUED", "DISPATCHED", "RUNNING", "WAITING", "SUCCEEDED",
                  "FAILED", "CANCELED", "BLOCKED" }
RunStatuses == { "RUNNING", "SUCCEEDED", "FAILED", "CANCELLED", "TIMEOUT",
                 "INTERRUPTED" }
Healths == { "AVAILABLE", "QUOTA_LIMITED", "AUTH_REQUIRED", "UNAVAILABLE" }
ErrorCodes == { "AGENT_UNAVAILABLE", "AGENT_TIMEOUT", "AGENT_PROCESS_FAILURE",
                "AUTH_FAILURE", "QUOTA_EXHAUSTED", "ADAPTER_FAILURE",
                "WORKSPACE_FAILURE", "TOOL_FAILURE", "POLICY_BLOCKED",
                "INVALID_STATE_TRANSITION", "UNKNOWN_FAILURE" }
ASSUME CodesAssumption == Codes \subseteq ErrorCodes

VARIABLES
  health,  \* registry: health of each agent
  row,     \* tasks: status, assigned_agent_id, retry_count
  runs,    \* runs of a task by start_time: agent, parent_run_id, status
  job      \* the recovery of a task in progress, and what it has read

vars == <<health, row, runs, job>>

Unknown == 0  \* a parent_run_id that names no run of the table
Rows == [status : TaskStatuses, agent : Agent, retries : Nat]
Runs == [agent : Agent, parent : Nat, status : RunStatuses]
Resting == [step |-> "none"]
Recoveries ==
  [step : {"run", "agent", "budget", "exhausted", "choose", "blocked", "spawn", "resume"},
   failed : Nat, code : Codes, copy : Rows, tried : SUBSET Agent, count : Nat,
   pick : Agent]

\* Every variable has its type.
TypeOK ==
  /\ health \in [Agent -> Healths]
  /\ row \in [Task -> Rows]
  /\ runs \in [Task -> Seq(Runs)]
  /\ job \in [Task -> Recoveries \cup {Resting}]

\* A task has its first run, or is about to fail before it has one
\* (_execute_child_task simulates that).  A disabled agent is registered with
\* availability False, which for selection is as good as UNAVAILABLE.
Init ==
  /\ health = [a \in Agent |-> IF a \in Enabled THEN "AVAILABLE" ELSE "UNAVAILABLE"]
  /\ row \in [Task -> [status : {"QUEUED", "RUNNING"}, agent : Agent, retries : {0}]]
  /\ \A t \in Task : row[t].agent \in Capable[t]
  /\ runs \in [Task -> {<< >>} \cup
                 { <<[agent |-> a, parent |-> Unknown, status |-> "RUNNING"]>> : a \in Agent }]
  /\ \A t \in Task : runs[t] # << >> => runs[t][1].agent = row[t].agent
  /\ job = [t \in Task |-> Resting]

-----------------------------------------------------------------------------
(* TaskStateMachine.                                                       *)

LegalTransitions ==
  [ QUEUED     |-> {"DISPATCHED", "BLOCKED", "FAILED", "CANCELED"},
    DISPATCHED |-> {"RUNNING", "FAILED", "CANCELED"},
    RUNNING    |-> {"WAITING", "SUCCEEDED", "FAILED", "CANCELED", "BLOCKED"},
    WAITING    |-> {"RUNNING", "FAILED", "CANCELED"},
    BLOCKED    |-> {"RUNNING", "QUEUED", "FAILED", "CANCELED"},
    SUCCEEDED  |-> {},
    FAILED     |-> {},
    CANCELED   |-> {} ]
Legal(s, new) == new \in LegalTransitions[s]

-----------------------------------------------------------------------------
(* handle_failure_and_recover                                              *)

AtStep(t, s) == job[t].step = s

\* The task's row and the failed run are read.  A failure before the first run
\* is the simulated one, reported with an identifier that names no run.
Report(t, i, code) ==
  /\ t \in Reported /\ AtStep(t, "none")
  /\ \/ i \in 1 .. Len(runs[t]) /\ runs[t][i].status = "RUNNING"
     \/ /\ i = Unknown /\ runs[t] = << >> /\ row[t].status = "RUNNING"
        /\ code \in {"QUOTA_EXHAUSTED", "AGENT_PROCESS_FAILURE"}
  /\ job' = [job EXCEPT ![t] =
               [step |-> "run", failed |-> i, code |-> code, copy |-> row[t],
                tried |-> {}, count |-> 0, pick |-> row[t].agent]]
  /\ UNCHANGED <<health, row, runs>>

\* Mutant: the error code itself is stored as the run's status.
EndingByCode(code) == code
Ending(code) == IF code = "AGENT_TIMEOUT" THEN "TIMEOUT" ELSE "FAILED"

\* Mutant: all the runs of the task are failed, not the reported one alone.
FailAllRuns(t) ==
  /\ AtStep(t, "run")
  /\ runs' = [runs EXCEPT ![t] =
                [i \in 1 .. Len(runs[t]) |-> [runs[t][i] EXCEPT !.status = Ending(job[t].code)]]]
  /\ job' = [job EXCEPT ![t].step = "agent"]
  /\ UNCHANGED <<health, row>>

FailRun(t) ==
  /\ AtStep(t, "run")
  /\ runs' = IF job[t].failed = Unknown THEN runs
             ELSE [runs EXCEPT ![t][job[t].failed].status = Ending(job[t].code)]
  /\ job' = [job EXCEPT ![t].step = "agent"]
  /\ UNCHANGED <<health, row>>

FailedAgent(t) ==
  IF job[t].failed = Unknown THEN job[t].copy.agent ELSE runs[t][job[t].failed].agent

\* The other codes leave the agent as it is.
HealthAfter(code, h) ==
  CASE code = "QUOTA_EXHAUSTED" -> "QUOTA_LIMITED"
    [] code = "AUTH_FAILURE" -> "AUTH_REQUIRED"
    [] code \in {"AGENT_TIMEOUT", "AGENT_PROCESS_FAILURE", "ADAPTER_FAILURE"} -> "UNAVAILABLE"
    [] OTHER -> h

MarkAgent(t) ==
  /\ AtStep(t, "agent")
  /\ health' = [health EXCEPT ![FailedAgent(t)] = HealthAfter(job[t].code, @)]
  /\ job' = [job EXCEPT ![t].step = "budget"]
  /\ UNCHANGED <<row, runs>>

AgentsOf(t) == { runs[t][i].agent : i \in 1 .. Len(runs[t]) }

\* Mutant: off by one.
ExhaustedAtLimit(n) == n >= MaxRetries
Exhausted(n) == n > MaxRetries

\* The past runs of the task are read, and counted against the limit.
ReadRuns(t) ==
  /\ AtStep(t, "budget")
  /\ job' = [job EXCEPT ![t].step = IF Exhausted(Len(runs[t])) THEN "exhausted" ELSE "choose",
                        ![t].tried = AgentsOf(t),
                        ![t].count = Len(runs[t])]
  /\ UNCHANGED <<health, row, runs>>

\* The task as it was read goes to status s, or the state machine raises.
Settle(t, s) ==
  /\ row' = IF Legal(job[t].copy.status, s)
            THEN [row EXCEPT ![t] = [job[t].copy EXCEPT !.status = s]] ELSE row
  /\ job' = [job EXCEPT ![t] = Resting]
  /\ UNCHANGED <<health, runs>>

GiveUp(t) == AtStep(t, "exhausted") /\ Settle(t, "FAILED")

\* Mutant: agents that have failed the task before are not excluded.
EligibleByHealth(t) == { a \in Capable[t] : health[a] = "AVAILABLE" }
\* Mutant: only the first capable agent of the registry is looked at.
EligibleFirst(t) ==
  { a \in Capable[t] \ job[t].tried :
      /\ health[a] = "AVAILABLE"
      /\ \A b \in Capable[t] : Rank[a] <= Rank[b] }
Eligible(t) == { a \in Capable[t] \ job[t].tried : health[a] = "AVAILABLE" }

\* The checkpoint is saved; the first eligible agent of the registry is picked.
Choose(t) ==
  /\ AtStep(t, "choose")
  /\ \E a \in Eligible(t) :
       /\ \A b \in Eligible(t) : Rank[a] <= Rank[b]
       /\ job' = [job EXCEPT ![t].step = "spawn", ![t].pick = a]
  /\ UNCHANGED <<health, row, runs>>

ChooseNobody(t) ==
  /\ AtStep(t, "choose") /\ Eligible(t) = {}
  /\ job' = [job EXCEPT ![t].step = "blocked"]
  /\ UNCHANGED <<health, row, runs>>

Block(t) == AtStep(t, "blocked") /\ Settle(t, "BLOCKED")

Replacement(a, parent) == [agent |-> a, parent |-> parent, status |-> "RUNNING"]

\* The replacement run is saved before the task.
Spawn(t) ==
  /\ AtStep(t, "spawn")
  /\ runs' = [runs EXCEPT ![t] = Append(@, Replacement(job[t].pick, job[t].failed))]
  /\ job' = [job EXCEPT ![t].step = "resume"]
  /\ UNCHANGED <<health, row>>

\* By way of DISPATCHED when QUEUED; from a terminal status it raises.
Resumable(s) == s \in {"RUNNING", "QUEUED"} \/ Legal(s, "RUNNING")

\* Mutant: the task keeps the agent that failed.
ResumeKeepsAgent(t) ==
  /\ AtStep(t, "resume")
  /\ row' = IF Resumable(job[t].copy.status)
            THEN [row EXCEPT ![t] = [status |-> "RUNNING", agent |-> job[t].copy.agent,
                                     retries |-> job[t].count]]
            ELSE row
  /\ job' = [job EXCEPT ![t] = Resting]
  /\ UNCHANGED <<health, runs>>

Resume(t) ==
  /\ AtStep(t, "resume")
  /\ row' = IF Resumable(job[t].copy.status)
            THEN [row EXCEPT ![t] = [status |-> "RUNNING", agent |-> job[t].pick,
                                     retries |-> job[t].count]]
            ELSE row
  /\ job' = [job EXCEPT ![t] = Resting]
  /\ UNCHANGED <<health, runs>>

-----------------------------------------------------------------------------
(* switch_agent                                                            *)

\* The run with the earliest start_time is taken for the active one and
\* cancelled if RUNNING.  The registry is built anew from the configuration, so
\* recorded health plays no part.  With "PAUSE" the new run's status is looked
\* up in an enumeration that lacks it: the request fails there.
Retired(t) ==
  IF runs[t] # << >> /\ runs[t][1].status = "RUNNING"
  THEN [runs[t] EXCEPT ![1].status = "CANCELLED"] ELSE runs[t]

Switch(t, a, how) ==
  /\ t \in Switched /\ a \in Capable[t] /\ a # row[t].agent
  /\ Len(runs[t]) < MaxRuns
  /\ LET parent == IF runs[t] = << >> THEN Unknown ELSE 1
     IN IF how = "PAUSE"
        THEN runs' = [runs EXCEPT ![t] = Retired(t)] /\ UNCHANGED row
        ELSE /\ runs' = [runs EXCEPT ![t] = Append(Retired(t), Replacement(a, parent))]
             /\ row' = [row EXCEPT ![t] = [status |-> "DISPATCHED", agent |-> a,
                                           retries |-> @.retries + 1]]
  /\ UNCHANGED <<health, job>>

-----------------------------------------------------------------------------
Recover(t) ==
  \/ FailRun(t) \/ MarkAgent(t) \/ ReadRuns(t) \/ GiveUp(t) \/ Choose(t)
  \/ ChooseNobody(t) \/ Block(t) \/ Spawn(t) \/ Resume(t)

Next ==
  \E t \in Task :
    \/ Recover(t)
    \/ \E code \in Codes : \E i \in 0 .. Len(runs[t]) : Report(t, i, code)
    \/ \E a \in Agent : \E how \in Resumptions : Switch(t, a, how)

Spec == Init /\ [][Next]_vars

-----------------------------------------------------------------------------
(* Properties.                                                             *)

Recovered == Task \ Switched  \* whose runs only recoveries create
Live(t) == { i \in 1 .. Len(runs[t]) : runs[t][i].status = "RUNNING" }

\* "Loop Prevention": recovery never gives a task to an agent that has had it,
\* whatever the error codes did to the health of the agents.
NoAgentTwice ==
  \A t \in Recovered : \A i, j \in 1 .. Len(runs[t]) :
    runs[t][i].agent = runs[t][j].agent => i = j

\* The tasks row and the runs table, written in separate transactions, agree
\* whenever no recovery is under way: an active task is served by its latest
\* run, which is RUNNING with the assigned agent, and by no other run unless an
\* analyst switched it.
LatestRunServes ==
  \A t \in Task :
    AtStep(t, "none") /\ row[t].status \in {"RUNNING", "DISPATCHED"} /\ runs[t] # << >> =>
      /\ Len(runs[t]) \in Live(t)
      /\ runs[t][Len(runs[t])].agent = row[t].agent
      /\ t \in Recovered => Live(t) = {Len(runs[t])}

\* A task is BLOCKED only when every capable agent has failed it or is down,
\* although the agents' health changes while the decision is made.
BlockedWithoutAgent ==
  \A t \in Recovered : \A a \in Capable[t] :
    row[t].status = "BLOCKED" => a \in AgentsOf(t) \/ health[a] # "AVAILABLE"

\* max_retries_per_task caps the runs of a task, and recovery is not given up
\* before the cap is reached.
RetriesCapped ==
  \A t \in Recovered :
    /\ Len(runs[t]) <= MaxRetries + 1
    /\ row[t].status = "FAILED" => Len(runs[t]) = MaxRetries + 1

\* "Durable Lineage": no run disappears, changes agent or parent, or ends
\* twice, and a run's parent has ended before the run is created.
SameRun(new, old) ==
  /\ new.agent = old.agent /\ new.parent = old.parent
  /\ old.status # "RUNNING" => new.status = old.status
Continues(new, old) ==
  /\ Len(new) >= Len(old)
  /\ \A i \in 1 .. Len(old) : SameRun(new[i], old[i])
  /\ \A i \in Len(old) + 1 .. Len(new) :
       /\ new[i].parent \in 0 .. i - 1
       /\ new[i].parent # Unknown => new[new[i].parent].status # "RUNNING"
DurableLineage == [][\A t \in Task : Continues(runs'[t], runs[t])]_runs

-----------------------------------------------------------------------------
(* What the repository says of the program and the program does not do.    *)

\* The endpoint "retires the old run to prevent duplicate execution".
NoDuplicateExecution == \A t \in Task : Cardinality(Live(t)) <= 1
=============================================================================
