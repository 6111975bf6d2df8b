---------------------------- MODULE RunExecution ----------------------------
(***************************************************************************)
(* Approval of one verification plan, the dispatcher coroutine that every  *)
(* approval launches, the run controls (pause, resume, stop, emergency     *)
(* stop) and the requests that write the same rows meanwhile: task retry   *)
(* and re-run, the watchdog, the reconcilers, the analyst's task actions.  *)
(*                                                                         *)
(* The program is one event loop plus a pool of request threads, all over  *)
(* one SQLite file.  A coroutine (dispatcher, `async def` handler) gives   *)
(* up the loop only where it awaits; `loop` names the dispatcher that has  *)
(* not yet awaited.  A `def` handler runs in a thread and interleaves      *)
(* between any two transactions.  One transaction is one action here.      *)
(***************************************************************************)
EXTENDS Integers, Sequences, FiniteSets

CONSTANTS
  MaxRuns,      \* bound: how many times the plan is approved
  Package,      \* the plan's work packages
  Deps,         \* Deps[p]: the packages p depends on
  Recommended,  \* the packages of wave RECOMMENDED; wave FULL is Package
  Root,         \* stands for the root task of a run
  Handler,      \* bound: control requests in flight at the same time
  Reproducers,  \* the target is Rust firmware with candidate vulnerabilities
  MaxRetries,   \* TaskWatchdogConfig.max_retries
  MaxAttempts,  \* bound: attempts one task may collect
  Aimed,        \* bound: the places whose tasks get requests and grow stale
  Ops           \* the requests the environment makes

ASSUME RunsAssumption == MaxRuns \in Nat \ {0}
ASSUME PlanAssumption ==
  /\ Root \notin Package
  /\ Deps \in [Package -> SUBSET Package]
  /\ Recommended \subseteq Package
  /\ Aimed \subseteq Package \cup {Root}
ASSUME LimitsAssumption ==
  /\ MaxRetries \in Nat
  /\ MaxAttempts \in Nat \ {0}
  /\ Reproducers \in BOOLEAN

Run   == 1 .. MaxRuns          \* in the order of approval, so of created_at
Place == Package \cup {Root}
Task  == Run \X Place
Leaf  == Run \X Package
Target == Run \X Aimed
RootOf(r) == <<r, Root>>
None  == <<0, Root>>           \* no task in hand
Free  == 0                     \* no dispatcher holds the event loop

RunStates == { "NONE", "RUNNING", "PAUSE_REQUESTED", "PAUSED",
               "RESUME_REQUESTED", "STOP_REQUESTED", "DRAINING", "STOPPED",
               "EMERGENCY_STOPPED", "COMPLETED" }
RunStatuses == RunStates \cup { "COMPLETED_WITH_FAILURES", "CANCELLED" }
TaskStatuses == { "NONE", "QUEUED", "BLOCKED", "WAITING_FOR_AGENT", "RUNNING",
                  "SUCCEEDED", "FAILED", "STOPPED", "COMPLETED",
                  "PAUSED", "CANCELLED", "READY" }
AttemptStatuses == { "PENDING", "RUNNING", "SUCCEEDED", "FAILED",
                     "TIMED_OUT", "COMPLETED" }
PlanStatuses == { "DRAFT", "ACTIVE", "COMPLETED", "REJECTED" }
PackageStatuses == { "PROPOSED", "APPROVED", "REJECTED", "HELD", "BLOCKED",
                     "QUEUED", "COMPLETED", "FAILED" }
Steps == { "none", "launch", "check", "resolve", "route", "tool", "finish",
           "settle", "tally", "summary", "count", "close", "done", "lost" }

VARIABLES
  plan,      \* verification_plans.status
  wp,        \* work_packages.status
  runState,  \* runs.run_state
  runStatus, \* runs.status
  status,    \* tasks.status
  retries,   \* tasks.retry_count
  attempts,  \* task_attempts.status, by attempt number
  lastExec,  \* exit of the latest row of tool_executions
  stale,     \* tasks whose heartbeat_at is older than the watchdog limit
  agentOn,   \* some agent is enabled and eligible
  pc, cur, todo, exit,  \* per dispatcher: step, task, blocked rows, outcome
  late,      \* history: tasks a dispatcher began while its run was stopped
  loop,      \* the dispatcher running without having awaited
  ctl,       \* per control request: what it still has to write, to which run
  thr        \* the request thread that has read and not yet written

taskVars == <<status, retries, attempts, lastExec, stale>>
runVars  == <<runState, runStatus>>
planVars == <<plan, wp>>
dispVars == <<pc, cur, todo, exit, late, loop>>
vars == <<planVars, runVars, taskVars, agentOn, dispVars, ctl, thr>>

Idle  == [op |-> "idle", run |-> 0]
Asleep == [kind |-> "idle"]

PlanTypeOK ==
  /\ plan \in PlanStatuses
  /\ wp \in [Package -> PackageStatuses]
RunTypeOK ==
  /\ runState \in [Run -> RunStates]
  /\ runStatus \in [Run -> RunStatuses]
TaskTypeOK ==
  /\ status \in [Task -> TaskStatuses]
  /\ retries \in [Task -> Nat]
  /\ attempts \in [Task -> Seq(AttemptStatuses)]
  /\ lastExec \in [Task -> {"none", "ok", "fail"}]
  /\ stale \subseteq Task
DispatchTypeOK ==
  /\ pc \in [Run -> Steps]
  /\ cur \in [Run -> Task \cup {None}]
  /\ todo \in [Run -> SUBSET Task]
  /\ exit \in [Run -> {"ok", "fail"}]
  /\ late \in [Run -> Nat]
  /\ loop \in Run \cup {Free}
ControlTypeOK ==
  ctl \in [Handler -> [op : {"idle", "pause", "resume", "drain", "stop"},
                       run : Run \cup {0}]]
ThreadTypeOK ==
  thr \in {Asleep}
          \cup [kind : {"watchdog"}, fail : SUBSET Task, block : SUBSET Task]
          \cup [kind : {"reconcile"}, good : SUBSET Task, bad : SUBSET Task,
                runs : BOOLEAN]

\* Every variable has its type.
TypeOK ==
  /\ PlanTypeOK /\ RunTypeOK /\ TaskTypeOK /\ DispatchTypeOK
  /\ ControlTypeOK /\ ThreadTypeOK /\ agentOn \in BOOLEAN

Init ==
  /\ plan = "DRAFT"
  /\ wp = [p \in Package |-> "PROPOSED"]
  /\ runState = [r \in Run |-> "NONE"]
  /\ runStatus = [r \in Run |-> "NONE"]
  /\ status = [t \in Task |-> "NONE"]
  /\ retries = [t \in Task |-> 0]
  /\ attempts = [t \in Task |-> << >>]
  /\ lastExec = [t \in Task |-> "none"]
  /\ stale = {}
  /\ agentOn \in BOOLEAN
  /\ pc = [r \in Run |-> "none"]
  /\ cur = [r \in Run |-> None]
  /\ todo = [r \in Run |-> {}]
  /\ exit = [r \in Run |-> "ok"]
  /\ late = [r \in Run |-> 0]
  /\ loop = Free
  /\ ctl = [h \in Handler |-> Idle]
  /\ thr = Asleep

-----------------------------------------------------------------------------
(* Helpers: UPDATE statements and the row sets they select.                *)

Rows(S) == { t \in Task : status[t] \in S }

SetStatus(S, v) == [t \in Task |-> IF t \in S THEN v ELSE status[t]]

\* Mutant: only the latest attempt is closed.
RetagLatest(s, from, v) ==
  [i \in 1 .. Len(s) |-> IF i = Len(s) /\ s[i] \in from THEN v ELSE s[i]]
\* UPDATE task_attempts SET status = v WHERE task_id in S AND status in from
Retag(s, from, v) ==
  [i \in 1 .. Len(s) |-> IF s[i] \in from THEN v ELSE s[i]]
MarkAttempts(S, from, v) ==
  [t \in Task |-> IF t \in S THEN Retag(attempts[t], from, v) ELSE attempts[t]]

\* Mutant: a dependency that has failed releases its dependents too.
DepEnded(d) ==
  \E q \in Run : /\ status[<<q, d>>] \in {"SUCCEEDED", "FAILED"}
                 /\ \A s \in Run : s < q => status[<<s, d>>] = "NONE"
\* The row a dependency resolves to: the first of the package's tasks in the
\* table, which is the oldest run's.
DepSucceeded(d) ==
  \E q \in Run : /\ status[<<q, d>>] = "SUCCEEDED"
                 /\ \A s \in Run : s < q => status[<<s, d>>] = "NONE"
DepsDone(t) == t[2] \in Package => \A d \in Deps[t[2]] : DepSucceeded(d)

\* ORDER BY created_at: older runs first, and a root before the run's others;
\* the tasks of one activation share a timestamp.
Older(t, u) == t[1] < u[1] \/ (t[1] = u[1] /\ t[2] = Root /\ u[2] # Root)

\* Mutant: the validator's word for success.
VerdictPassed(x) == IF x = "ok" THEN "PASSED" ELSE "FAILED"
Verdict(x) == IF x = "ok" THEN "SUCCEEDED" ELSE "FAILED"
Settled(x) == IF x = "ok" THEN "COMPLETED" ELSE "FAILED"   \* of a package

HasLoop(r) == loop \in {Free, r}
Goto(r, step, holder) ==
  /\ pc' = [pc EXCEPT ![r] = step]
  /\ loop' = holder

-----------------------------------------------------------------------------
(* approve_and_execute_plan                                                *)

InitialStatus(p, wave) ==
  CASE p = Root -> "RUNNING"
    [] p \in wave /\ Deps[p] = {} -> "QUEUED"
    [] p \in wave /\ Deps[p] # {} -> "BLOCKED"
    [] OTHER -> "NONE"

\* WorkPackageStatus has neither value, so list_for_plan raises on such a row.
Unreadable == {"HELD", "REJECTED"}
Readable(w) == \A p \in Package : w[p] \notin Unreadable

\* The idempotency check only looks for a run whose run_state is RUNNING.  The
\* packages are read before their tasks are made and again after it; what is
\* committed by then stays, and no dispatcher is launched.
Approve(r, wave) ==
  /\ loop = Free
  /\ \A q \in Run : runState[q] # "RUNNING"
  /\ \A q \in Run : pc[q] = "none" <=> q >= r
  /\ plan' = "ACTIVE"
  /\ runState' = [runState EXCEPT ![r] = "RUNNING"]
  /\ runStatus' = [runStatus EXCEPT ![r] = "RUNNING"]
  /\ \/ /\ Readable(wp)
        /\ wp' = [p \in Package |-> IF p \in wave THEN InitialStatus(p, wave) ELSE "HELD"]
        /\ status' = [t \in Task |-> IF t[1] = r THEN InitialStatus(t[2], wave)
                                     ELSE status[t]]
        /\ attempts' = [t \in Task |-> IF t[1] = r /\ t[2] \in wave
                                       THEN <<"PENDING">> ELSE attempts[t]]
     \/ /\ ~Readable(wp)
        /\ status' = SetStatus({RootOf(r)}, "RUNNING")
        /\ UNCHANGED <<wp, attempts>>
  /\ pc' = [pc EXCEPT ![r] = IF Readable(wp) /\ Readable(wp') THEN "launch" ELSE "lost"]
  /\ UNCHANGED <<retries, lastExec, stale, agentOn, cur, todo, exit, late,
                 loop, ctl, thr>>

-----------------------------------------------------------------------------
(* dispatch_and_execute_run                                                *)

\* No active agent: the waiting tasks are marked and the coroutine returns,
\* leaving the run RUNNING.
LaunchWithoutAgent(r) ==
  /\ pc[r] = "launch" /\ loop = Free /\ ~agentOn
  /\ status' = SetStatus(Rows({"QUEUED", "BLOCKED"}), "WAITING_FOR_AGENT")
  /\ Goto(r, "done", Free)
  /\ UNCHANGED <<planVars, runVars, retries, attempts, lastExec, stale, agentOn,
                 cur, todo, exit, late, ctl, thr>>

Launch(r) ==
  /\ pc[r] = "launch" /\ loop = Free /\ agentOn
  /\ Goto(r, "check", Free)
  /\ UNCHANGED <<planVars, runVars, taskVars, agentOn, cur, todo, exit, late,
                 ctl, thr>>

\* Mutant: the dispatcher looks for the emergency stop alone.
HaltedInEmergency(r) == runState[r] = "EMERGENCY_STOPPED"
Halted(r) == runState[r] \in {"STOPPED", "EMERGENCY_STOPPED"}

\* Mutant: a stopped run sleeps on, as a paused one does.
CheckStoppedSleeps(r) ==
  /\ pc[r] = "check" /\ loop = Free
  /\ runState[r] = "EMERGENCY_STOPPED"
  /\ Goto(r, "summary", Free)
  /\ UNCHANGED <<planVars, runVars, taskVars, agentOn, cur, todo, exit, late,
                 ctl, thr>>

\* Top of the loop.  A PAUSED run sleeps; the other control states go on.
CheckStopped(r) ==
  /\ pc[r] = "check" /\ loop = Free
  /\ Halted(r)
  /\ Goto(r, "summary", Free)
  /\ UNCHANGED <<planVars, runVars, taskVars, agentOn, cur, todo, exit, late,
                 ctl, thr>>

CheckRunning(r) ==
  /\ pc[r] = "check" /\ loop = Free
  /\ ~Halted(r) /\ runState[r] # "PAUSED"
  /\ todo' = [todo EXCEPT ![r] = Rows({"BLOCKED"})]
  /\ Goto(r, "resolve", r)
  /\ UNCHANGED <<planVars, runVars, taskVars, agentOn, cur, exit, late, ctl, thr>>

\* One row of the BLOCKED rows read above; the UPDATE does not look at the
\* row's present status, and the event after it gives up the loop.
Resolve(r) ==
  /\ pc[r] = "resolve" /\ HasLoop(r)
  /\ \E bt \in todo[r] :
       /\ todo' = [todo EXCEPT ![r] = @ \ {bt}]
       /\ \/ /\ DepsDone(bt)
             /\ status' = SetStatus({bt}, "QUEUED")
             /\ loop' = Free
          \/ /\ ~DepsDone(bt)
             /\ loop' = r
             /\ UNCHANGED status
  /\ UNCHANGED <<planVars, runVars, retries, attempts, lastExec, stale, agentOn,
                 pc, cur, exit, late, ctl, thr>>

Dispatchable == Rows({"QUEUED", "WAITING_FOR_AGENT"})

\* Mutant: the dispatcher awaits between its SELECT and the task's UPDATE.
PickThenAwait(r) ==
  /\ pc[r] = "resolve" /\ HasLoop(r) /\ todo[r] = {}
  /\ \E t \in Dispatchable :
       /\ \A u \in Dispatchable : ~Older(u, t)
       /\ cur' = [cur EXCEPT ![r] = t]
  /\ Goto(r, "route", Free)
  /\ UNCHANGED <<planVars, runVars, taskVars, agentOn, todo, exit, late, ctl, thr>>

Pick(r) ==
  /\ pc[r] = "resolve" /\ HasLoop(r) /\ todo[r] = {}
  /\ \E t \in Dispatchable :
       /\ \A u \in Dispatchable : ~Older(u, t)
       /\ cur' = [cur EXCEPT ![r] = t]
  /\ Goto(r, "route", r)
  /\ UNCHANGED <<planVars, runVars, taskVars, agentOn, todo, exit, late, ctl, thr>>

\* Mutant: the run's own root task, RUNNING all along, is waited for as well.
WaitedForWithRoot(r) == Rows({"RUNNING"})
\* Every root but the run's own is waited for: another run's too.
WaitedFor(r) == Rows({"RUNNING"}) \ {RootOf(r)}

\* Nothing to pick: wait for tasks that are RUNNING, or leave the loop.
PickNothing(r) ==
  /\ pc[r] = "resolve" /\ HasLoop(r) /\ todo[r] = {}
  /\ Dispatchable = {}
  /\ Goto(r, IF WaitedFor(r) # {} THEN "check" ELSE "summary", Free)
  /\ UNCHANGED <<planVars, runVars, taskVars, agentOn, cur, todo, exit, late,
                 ctl, thr>>

RouteNoAgent(r) ==
  /\ pc[r] = "route" /\ HasLoop(r) /\ ~agentOn
  /\ status' = SetStatus({cur[r]}, "WAITING_FOR_AGENT")
  /\ cur' = [cur EXCEPT ![r] = None]
  /\ Goto(r, "summary", Free)
  /\ UNCHANGED <<planVars, runVars, retries, attempts, lastExec, stale, agentOn,
                 todo, exit, late, ctl, thr>>

\* The task, whatever its status is by now, becomes RUNNING.
Begin(r) ==
  /\ pc[r] = "route" /\ HasLoop(r) /\ agentOn
  /\ status' = SetStatus({cur[r]}, "RUNNING")
  /\ attempts' = MarkAttempts({cur[r]}, {"PENDING"}, "RUNNING")
  /\ stale' = stale \ {cur[r]}
  /\ late' = IF runState[r] \in {"STOPPED", "EMERGENCY_STOPPED"}
             THEN [late EXCEPT ![r] = @ + 1] ELSE late
  /\ Goto(r, "tool", Free)
  /\ UNCHANGED <<planVars, runVars, retries, lastExec, agentOn, cur, todo, exit,
                 ctl, thr>>

\* A tool that does not start, or exceeds its 30 s, counts as one that failed.
ToolExits == {"ok", "fail"}
\* Of the task's latest row in tool_executions: on Rust firmware that is a
\* reproducer's, with an exit code of its own.
LatestExits(x) == IF Reproducers THEN {"ok", "fail"} ELSE {x}

\* The tool ran and its execution is recorded.
UseTool(r) ==
  /\ pc[r] = "tool" /\ loop = Free
  /\ \E x \in ToolExits : \E y \in LatestExits(x) :
       /\ exit' = [exit EXCEPT ![r] = x]
       /\ lastExec' = [lastExec EXCEPT ![cur[r]] = y]
  /\ Goto(r, "finish", Free)
  /\ UNCHANGED <<planVars, runVars, status, retries, attempts, stale, agentOn,
                 cur, todo, late, ctl, thr>>

WorkPackageOf(t, v) ==
  IF t[2] \in Package THEN [wp EXCEPT ![t[2]] = v] ELSE wp

Finish(r) ==
  /\ pc[r] = "finish" /\ loop = Free
  /\ status' = SetStatus({cur[r]}, Verdict(exit[r]))
  /\ attempts' = MarkAttempts({cur[r]}, {"RUNNING"}, Verdict(exit[r]))
  /\ wp' = WorkPackageOf(cur[r], Settled(exit[r]))
  /\ Goto(r, "settle", r)
  /\ UNCHANGED <<plan, runVars, retries, lastExec, stale, agentOn, cur, todo,
                 exit, late, ctl, thr>>

\* finalize_task on a root: the other tasks of the plan, of every run, must
\* have ended (STOPPED and the waiting states have not).
Siblings(r) == { t \in Task : t # RootOf(r) /\ status[t] # "NONE" }
RootOutcome(r) ==
  IF \E t \in Siblings(r) :
       status[t] \notin {"SUCCEEDED", "COMPLETED", "FAILED", "CANCELLED"}
  THEN status[RootOf(r)]
  ELSE IF \E t \in Siblings(r) : status[t] \in {"FAILED", "CANCELLED"}
       THEN "FAILED" ELSE "SUCCEEDED"

\* finalize_task on a leaf: the latest tool execution decides.
SettleLeaf(r) ==
  /\ pc[r] = "settle" /\ HasLoop(r) /\ cur[r] \in Leaf
  /\ status' = SetStatus({cur[r]}, Verdict(lastExec[cur[r]]))
  /\ attempts' = MarkAttempts({cur[r]}, {"RUNNING"}, Verdict(lastExec[cur[r]]))
  /\ wp' = WorkPackageOf(cur[r], Settled(lastExec[cur[r]]))
  /\ cur' = [cur EXCEPT ![r] = None]
  /\ Goto(r, "tally", Free)
  /\ UNCHANGED <<plan, runVars, retries, lastExec, stale, agentOn, todo, exit,
                 late, ctl, thr>>

\* A root task can be picked like any other once the watchdog has blocked it.
SettleRoot(r) ==
  /\ pc[r] = "settle" /\ HasLoop(r) /\ cur[r] \notin Leaf
  /\ status' = SetStatus({cur[r]}, RootOutcome(cur[r][1]))
  /\ cur' = [cur EXCEPT ![r] = None]
  /\ Goto(r, "tally", Free)
  /\ UNCHANGED <<planVars, runVars, retries, attempts, lastExec, stale, agentOn,
                 todo, exit, late, ctl, thr>>

\* WAITING_FOR_AGENT is not among the states that keep the loop going.
Tally(r) ==
  /\ pc[r] = "tally" /\ loop = Free
  /\ Goto(r, IF Rows({"QUEUED", "RUNNING", "BLOCKED"}) \ {RootOf(r)} = {}
             THEN "summary" ELSE "check", Free)
  /\ UNCHANGED <<planVars, runVars, taskVars, agentOn, cur, todo, exit, late,
                 ctl, thr>>

-----------------------------------------------------------------------------
(* finalize_run: three transactions, no await between them.                *)

\* Mutant: the run is reported COMPLETED first.
FinalizeRootLast(r) ==
  /\ pc[r] = "summary" /\ loop = Free
  /\ runState' = [runState EXCEPT ![r] = "COMPLETED"]
  /\ status' = SetStatus({RootOf(r)}, RootOutcome(r))
  /\ Goto(r, "count", r)
  /\ UNCHANGED <<planVars, runStatus, retries, attempts, lastExec, stale, agentOn,
                 cur, todo, exit, late, ctl, thr>>

FinalizeRoot(r) ==
  /\ pc[r] = "summary" /\ loop = Free
  /\ status' = SetStatus({RootOf(r)}, RootOutcome(r))
  /\ Goto(r, "count", r)
  /\ UNCHANGED <<planVars, runVars, retries, attempts, lastExec, stale, agentOn,
                 cur, todo, exit, late, ctl, thr>>

\* Mutant: the verdict on the root task stands for all of them.
FailuresOfRoot(r) == Rows({"FAILED"}) \cap {RootOf(r)}
Failures(r) == Rows({"FAILED", "CANCELLED"}) \ {RootOf(r)}

CountFailures(r) ==
  /\ pc[r] = "count" /\ HasLoop(r)
  /\ exit' = [exit EXCEPT ![r] =
                IF Failures(r) # {} THEN "fail" ELSE "ok"]
  /\ Goto(r, "close", r)
  /\ UNCHANGED <<planVars, runVars, taskVars, agentOn, cur, todo, late, ctl, thr>>

CloseRun(r) ==
  /\ pc[r] = "close" /\ HasLoop(r)
  /\ runState' = [runState EXCEPT ![r] = "COMPLETED"]
  /\ runStatus' = [runStatus EXCEPT ![r] =
                     IF exit[r] = "ok" THEN "COMPLETED" ELSE "COMPLETED_WITH_FAILURES"]
  /\ status' = SetStatus({RootOf(r)}, "COMPLETED")
  /\ plan' = "COMPLETED"
  /\ Goto(r, "done", Free)
  /\ UNCHANGED <<wp, retries, attempts, lastExec, stale, agentOn, cur, todo,
                 exit, late, ctl, thr>>

-----------------------------------------------------------------------------
(* Run controls.  A handler checks the state it read against _TRANSITIONS  *)
(* once; after each await it writes its next state unconditionally.        *)

\* The states and the targets that some handler writes.
Transitions ==
  [ RUNNING           |-> {"PAUSE_REQUESTED", "STOP_REQUESTED", "COMPLETED"},
    PAUSE_REQUESTED   |-> {"PAUSED", "RUNNING", "STOP_REQUESTED"},
    PAUSED            |-> {"RESUME_REQUESTED", "RUNNING", "STOP_REQUESTED"},
    RESUME_REQUESTED  |-> {"RUNNING", "PAUSED"},
    STOP_REQUESTED    |-> {"DRAINING", "STOPPED"},
    DRAINING          |-> {"STOPPED"},
    STOPPED           |-> {},
    COMPLETED         |-> {},
    EMERGENCY_STOPPED |-> {} ]
Allowed(r, s) == runState[r] # "NONE" /\ s \in Transitions[runState[r]]

ControlFrame == UNCHANGED <<planVars, retries, attempts, lastExec, stale, agentOn,
                            dispVars, thr>>

\* A handler's first part: check, write `first`, and await.
Request(op, h, r, first, next) ==
  /\ op \in Ops /\ loop = Free /\ ctl[h] = Idle
  /\ Allowed(r, first)
  /\ runState' = [runState EXCEPT ![r] = first]
  /\ runStatus' = [runStatus EXCEPT ![r] = first]
  /\ ctl' = [ctl EXCEPT ![h] = [op |-> next, run |-> r]]
  /\ UNCHANGED status
  /\ ControlFrame

PauseRun(h, r)  == Request("pause", h, r, "PAUSE_REQUESTED", "pause")
ResumeRun(h, r) == Request("resume", h, r, "RESUME_REQUESTED", "resume")
StopRun(h, r)   == Request("stop", h, r, "STOP_REQUESTED", "drain")

\* The last part of pause and of resume.
Complete(h, op, s) ==
  /\ ctl[h].op = op /\ loop = Free
  /\ runState' = [runState EXCEPT ![ctl[h].run] = s]
  /\ runStatus' = [runStatus EXCEPT ![ctl[h].run] = s]
  /\ ctl' = [ctl EXCEPT ![h] = Idle]
  /\ UNCHANGED status
  /\ ControlFrame

PauseDone(h)  == Complete(h, "pause", "PAUSED")
ResumeDone(h) == Complete(h, "resume", "RUNNING")

StopDrain(h) ==
  /\ ctl[h].op = "drain" /\ loop = Free
  /\ runState' = [runState EXCEPT ![ctl[h].run] = "DRAINING"]
  /\ ctl' = [ctl EXCEPT ![h].op = "stop"]
  /\ UNCHANGED <<runStatus, status>>
  /\ ControlFrame

\* CHECKPOINTING and STOPPED follow each other without an await; the tasks
\* of every run and plan are stopped.
StopDone(h) ==
  /\ ctl[h].op = "stop" /\ loop = Free
  /\ status' = SetStatus(Rows({"RUNNING"}), "STOPPED")
  /\ runState' = [runState EXCEPT ![ctl[h].run] = "STOPPED"]
  /\ runStatus' = [runStatus EXCEPT ![ctl[h].run] = "STOPPED"]
  /\ ctl' = [ctl EXCEPT ![h] = Idle]
  /\ ControlFrame

\* Mutant: finished work keeps its status.
SparedWithSucceeded == {"NONE", "COMPLETED", "FAILED", "SUCCEEDED"}
\* SUCCEEDED is not among the statuses an emergency stop leaves alone.
Spared == {"NONE", "COMPLETED", "FAILED"}

EmergencyStop(r) ==
  /\ "emergency" \in Ops /\ loop = Free
  /\ runState[r] \notin {"NONE", "STOPPED", "EMERGENCY_STOPPED", "COMPLETED"}
  /\ runState' = [runState EXCEPT ![r] = "EMERGENCY_STOPPED"]
  /\ runStatus' = [runStatus EXCEPT ![r] = "STOPPED"]
  /\ status' = SetStatus(Task \ Rows(Spared), "STOPPED")
  /\ UNCHANGED ctl
  /\ ControlFrame

-----------------------------------------------------------------------------
(* Analyst requests on tasks, runs, plans and agents.                      *)

TaskFrame == UNCHANGED <<planVars, runVars, lastExec, agentOn, dispVars, ctl>>

\* execute_retry_attempt: no look at the status; heartbeat_at is not renewed.
Retry(t) ==
  /\ "retry" \in Ops
  /\ status[t] # "NONE" /\ Len(attempts[t]) < MaxAttempts
  /\ attempts' = [attempts EXCEPT ![t] = Append(@, "RUNNING")]
  /\ retries' = [retries EXCEPT ![t] = @ + 1]
  /\ status' = SetStatus({t}, "RUNNING")
  /\ UNCHANGED <<stale, thr>>
  /\ TaskFrame

\* /instructions and /re-run: a RUNNING attempt, the task as it was.
Rerun(t) ==
  /\ "rerun" \in Ops /\ loop = Free
  /\ status[t] # "NONE" /\ Len(attempts[t]) < MaxAttempts
  /\ attempts' = [attempts EXCEPT ![t] = Append(@, "RUNNING")]
  /\ retries' = [retries EXCEPT ![t] = Len(attempts[t])]
  /\ UNCHANGED <<status, stale, thr>>
  /\ TaskFrame

\* /api/controls/action on a task.
TaskAction(t) ==
  /\ "action" \in Ops /\ loop = Free
  /\ status[t] # "NONE"
  /\ \E v \in {"PAUSED", "RUNNING", "CANCELLED", "READY"} : status' = SetStatus({t}, v)
  /\ UNCHANGED <<retries, attempts, stale, thr>>
  /\ TaskFrame

\* /api/controls/action "cancel" on a run: run_state is left alone.
CancelRun(r) ==
  /\ "action" \in Ops /\ loop = Free
  /\ runState[r] # "NONE"
  /\ runStatus' = [runStatus EXCEPT ![r] = "CANCELLED"]
  /\ UNCHANGED <<planVars, runState, taskVars, agentOn, dispVars, ctl, thr>>

RejectPlan ==
  /\ "reject" \in Ops
  /\ plan' = "REJECTED"
  /\ UNCHANGED <<wp, runVars, taskVars, agentOn, dispVars, ctl, thr>>

\* approve_work_package and reject_work_package, whatever the row says
DecidePackage ==
  /\ "decide" \in Ops
  /\ \E p \in Package \cap Aimed, v \in {"APPROVED", "REJECTED"} : wp' = [wp EXCEPT ![p] = v]
  /\ UNCHANGED <<plan, runVars, taskVars, agentOn, dispVars, ctl, thr>>

\* enable_agent and disable_agent
ToggleAgents ==
  /\ "agents" \in Ops /\ loop = Free
  /\ agentOn' = ~agentOn
  /\ UNCHANGED <<planVars, runVars, taskVars, dispVars, ctl, thr>>

-----------------------------------------------------------------------------
(* check_watchdogs and the reconcilers: a SELECT, which opens no            *)
(* transaction, then all the UPDATEs in one.  One thread at a time.        *)

\* Time passes without a heartbeat on t.
Age(t) ==
  /\ "watchdog" \in Ops
  /\ status[t] # "NONE" /\ t \notin stale
  /\ stale' = stale \cup {t}
  /\ UNCHANGED <<status, retries, attempts, thr>>
  /\ TaskFrame

WatchdogScan ==
  /\ "watchdog" \in Ops /\ thr = Asleep
  /\ LET active == Rows({"RUNNING", "WAITING_FOR_AGENT"})
     IN thr' = [kind  |-> "watchdog",
                fail  |-> active \cap stale,
                block |-> { t \in active \ stale : retries[t] >= MaxRetries }]
  /\ UNCHANGED <<status, retries, attempts, stale>>
  /\ TaskFrame

WatchdogWrite ==
  /\ thr.kind = "watchdog"
  /\ status' = [t \in Task |-> IF t \in thr.fail THEN "FAILED"
                               ELSE IF t \in thr.block THEN "BLOCKED" ELSE status[t]]
  /\ attempts' = MarkAttempts(thr.fail, {"RUNNING"}, "TIMED_OUT")
  /\ thr' = Asleep
  /\ UNCHANGED <<retries, stale>>
  /\ TaskFrame

\* Mutant: the reconciler's UPDATE forgets its condition on the status.
OpenOrEnded == AttemptStatuses
Open == {"RUNNING", "PENDING"}

Good  == {"COMPLETED", "SUCCEEDED"}
Ended == Good \cup {"FAILED", "CANCELLED", "STOPPED"}

\* The ended tasks among S are read ...
ReconcileRead(S, runs) ==
  /\ "reconcile" \in Ops /\ thr = Asleep
  /\ thr' = [kind |-> "reconcile", good |-> S \cap Rows(Good),
             bad |-> S \cap Rows(Ended \ Good), runs |-> runs]
  /\ UNCHANGED <<status, retries, attempts, stale>>
  /\ TaskFrame

\* GET /{task_id} and /{task_id}/reconcile on a task that has ended
ReconcileTask(t) == status[t] \in Ended /\ ReconcileRead({t}, FALSE)
\* /api/debug/reconcile
ReconcileAll == ReconcileRead(Task, TRUE)

\* ... and the attempts these have open by then are closed; the second also
\* writes runs.status (not run_state) of the RUNNING runs if no task is left.
ReconcileWrite ==
  /\ thr.kind = "reconcile"
  /\ attempts' = [t \in Task |->
                    IF t \in thr.good THEN Retag(attempts[t], Open, "COMPLETED")
                    ELSE IF t \in thr.bad THEN Retag(attempts[t], Open, "FAILED")
                    ELSE attempts[t]]
  /\ runStatus' = [r \in Run |->
                     IF thr.runs /\ runStatus[r] = "RUNNING"
                        /\ Rows(Ended \cup {"NONE"}) = Task
                     THEN "COMPLETED" ELSE runStatus[r]]
  /\ thr' = Asleep
  /\ UNCHANGED <<planVars, runState, status, retries, lastExec, stale, agentOn,
                 dispVars, ctl>>

-----------------------------------------------------------------------------
\* The server dies: coroutines and requests are gone, the rows stay, and
\* nothing at startup picks a RUNNING run up again.
Restart ==
  /\ "restart" \in Ops
  /\ \E r \in Run : pc[r] \notin {"none", "done", "lost"}
  /\ pc' = [r \in Run |-> IF pc[r] \in {"none", "done"} THEN pc[r] ELSE "lost"]
  /\ cur' = [r \in Run |-> None]
  /\ loop' = Free
  /\ ctl' = [h \in Handler |-> Idle]
  /\ thr' = Asleep
  /\ UNCHANGED <<planVars, runVars, taskVars, agentOn, todo, exit, late>>

Dispatch(r) ==
  \/ LaunchWithoutAgent(r) \/ Launch(r) \/ CheckStopped(r) \/ CheckRunning(r)
  \/ Resolve(r) \/ Pick(r) \/ PickNothing(r) \/ RouteNoAgent(r) \/ Begin(r)
  \/ UseTool(r) \/ Finish(r) \/ SettleLeaf(r) \/ SettleRoot(r) \/ Tally(r)
  \/ FinalizeRoot(r) \/ CountFailures(r) \/ CloseRun(r)

Control(h) ==
  \/ \E r \in Run : PauseRun(h, r) \/ ResumeRun(h, r) \/ StopRun(h, r)
  \/ PauseDone(h) \/ ResumeDone(h) \/ StopDrain(h) \/ StopDone(h)

Next ==
  \/ \E r \in Run : \E wave \in {Package, Recommended} : Approve(r, wave)
  \/ \E r \in Run : Dispatch(r)
  \/ \E h \in Handler : Control(h)
  \/ \E r \in Run : EmergencyStop(r) \/ CancelRun(r)
  \/ \E t \in Target : Retry(t) \/ Rerun(t) \/ TaskAction(t) \/ Age(t) \/ ReconcileTask(t)
  \/ RejectPlan \/ DecidePackage \/ ToggleAgents \/ WatchdogScan \/ WatchdogWrite
  \/ ReconcileAll \/ ReconcileWrite \/ Restart

\* The event loop serves the coroutines whose await has ended in turn, though
\* others hold it in between; a tool runs for 30 s at most; a thread that has
\* read goes on to write.  No analyst has to make a request.
Fairness ==
  /\ \A r \in Run : SF_vars(Dispatch(r))
  /\ \A h \in Handler : SF_vars(PauseDone(h) \/ ResumeDone(h) \/ StopDrain(h) \/ StopDone(h))
  /\ WF_vars(WatchdogWrite \/ ReconcileWrite)

Spec == Init /\ [][Next]_vars /\ Fairness

-----------------------------------------------------------------------------
(* Properties.                                                             *)

\* A run reads COMPLETED only when its dispatcher has ended: no tool runs, and
\* no task will begin, on behalf of a run already reported complete
\* (finalize_run is the dispatcher's last write, and nobody else's).
CompletedRunIsIdle ==
  \A r \in Run : runState[r] = "COMPLETED" => pc[r] \in {"done", "lost"}

\* Two dispatchers never work on the same task, though both select from all
\* the tasks of the plan: unless it has dependencies, so that a list of BLOCKED
\* rows read before it was begun requeues it, or the watchdog has blocked it.
Working(r) == pc[r] \in {"route", "tool", "finish", "settle"}
Requeued(t) == \/ t[2] \in Package /\ Deps[t[2]] # {}
               \/ retries[t] >= MaxRetries
SoleExecutor ==
  \A q, r \in Run :
    Working(q) /\ Working(r) /\ cur[q] = cur[r] => q = r \/ Requeued(cur[q])

\* Once a package's task has SUCCEEDED or FAILED none of its attempts is left
\* RUNNING, however dispatcher, retry, watchdog and reconciler interleave.
NoneRunning(s) == \A i \in 1 .. Len(s) : s[i] # "RUNNING"
SettledTaskHasNoRunningAttempt ==
  \A t \in Leaf : status[t] \in {"SUCCEEDED", "FAILED"} => NoneRunning(attempts[t])

\* Attempt lineage: an attempt never disappears and never gets a second
\* ending ("without overwriting historical records", execute_retry_attempt).
EndedAttempt == AttemptStatuses \ {"PENDING", "RUNNING"}
Extends(new, old) ==
  \A i \in 1 .. Len(old) :
    /\ Len(new) >= Len(old)
    /\ old[i] \in EndedAttempt => new[i] = old[i]
AttemptHistoryImmutable ==
  [][\A t \in Task : Extends(attempts'[t], attempts[t])]_attempts

\* After a stop the dispatcher of the run begins at most the one task it was
\* about to select: it looks at run_state only at the top of its loop.
OneTaskAfterStop == \A r \in Run : late[r] <= 1

\* No dispatcher begins a task of a run that reads EMERGENCY_STOPPED, although
\* it may be halfway through a list of BLOCKED tasks read before the stop.
EmergencyStartsNothing ==
  [][\A r \in Run : pc[r] = "route" /\ pc'[r] = "tool" =>
       runState[cur[r][1]] # "EMERGENCY_STOPPED"]_vars

\* A run whose status reads COMPLETED, not COMPLETED_WITH_FAILURES, left no
\* released package without success.
CleanCompletion ==
  \A r \in Run : runStatus[r] = "COMPLETED" =>
    \A p \in Package : status[<<r, p>>] \in {"NONE", "SUCCEEDED"}

\* Every run that is not left paused comes to its end: the dispatcher does not
\* wait for ever on blocked dependencies or on a root task.  (Not so once the root
\* task has used up its retries: a watchdog that goes on blocking it and the
\* dispatcher, which releases and runs it each time, never come to an end.)
WornOut(t) == retries[t] >= MaxRetries
RunEnds == \A r \in Run : pc[r] = "launch" ~> ( \/ pc[r] = "done"
                                               \/ runState[r] = "PAUSED"
                                               \/ WornOut(RootOf(r)) )

\* A stopped run's dispatcher ends.
StoppedRunDrains == \A r \in Run : runState[r] = "STOPPED" ~> pc[r] \in {"done", "lost"}

\* The first run executes its packages as PlanSchedule promises.
Executing(r, p) == \E q \in Run : cur[q] = <<r, p>> /\ pc[q] \in {"tool", "finish", "settle"}
PhaseOf(r, p) ==
  CASE Executing(r, p) -> "executing"
    [] lastExec[<<r, p>>] = "ok" /\ ~Executing(r, p) -> "succeeded"
    [] lastExec[<<r, p>>] = "fail" /\ ~Executing(r, p) -> "failed"
    [] OTHER -> "idle"
Schedule == INSTANCE PlanSchedule WITH
  phase  <- [p \in Package |-> PhaseOf(1, p)],
  closed <- pc[1] = "done"
ImplementsSchedule == Schedule!Spec

-----------------------------------------------------------------------------
(* What the repository says of the program and the program does not do.    *)

\* approve_and_execute_plan "creates run, instantiates concrete tasks, emits
\* lifecycle events, and launches background executor": a run that is created
\* RUNNING has its dispatcher.
ApprovedRunIsLaunched ==
  [][\A r \in Run : runState[r] = "NONE" /\ runState'[r] = "RUNNING" =>
       pc'[r] = "launch"]_vars

\* _TRANSITIONS: "STOPPED": [] , "none (terminal state)".
StoppedIsTerminal ==
  [][\A r \in Run : runState[r] \in {"STOPPED", "EMERGENCY_STOPPED"} =>
       runState'[r] = runState[r]]_vars

\* "Check if all child tasks have concluded" and leave the loop: when every
\* package of the plan has, a dispatcher that nobody keeps paused ends.
AllConcluded == \A t \in Leaf : status[t] \in Ended \cup {"NONE"}
ConcludedRunEnds ==
  \A r \in Run : (pc[r] = "check" /\ AllConcluded) ~>
    (pc[r] = "done" \/ ~AllConcluded \/ \E q \in Run : runState[q] = "PAUSED")
=============================================================================
