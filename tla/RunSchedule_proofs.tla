------------------------- MODULE RunSchedule_proofs -------------------------
(***************************************************************************)
(* What one approval of a plan promises, for every plan and every set of   *)
(* requests: its packages run as PlanSchedule says, none is begun after an *)
(* emergency stop, and a run reported COMPLETED has executed them all.  A  *)
(* second approval and the watchdog break each of the first two,           *)
(* a restart the first; the third asks for requests that leave             *)
(* the packages' tasks to the dispatcher: see README.md.                   *)
(***************************************************************************)
EXTENDS RunExecution_proofs, WellFoundedInduction

-----------------------------------------------------------------------------
(* Everybody but the dispatcher.                                           *)

\* No watchdog has read the tasks.
NoScan == thr.kind # "watchdog"

\* What requests, controls and reconcilers do: no task gets into line or
\* SUCCEEDED, and the dispatcher stays where it is.
Quiet ==
  /\ \A t \in Task : status'[t] = status[t] \/ status'[t] \notin InLine \cup {"SUCCEEDED"}
  /\ UNCHANGED <<lastExec, todo>>

LEMMA RequestsAreQuiet ==
  ASSUME "watchdog" \notin Ops, TypeInv, NoScan, [Next]_vars,
         \A r \in Run : ~Dispatch(r),
         \A r \in Run : \A wave \in {Package, Recommended} : ~Approve(r, wave)
  PROVE  /\ Quiet
         /\ UNCHANGED <<pc, cur>> \/ Restart
<1> USE DEF TypeInv, TypeOK, TaskTypeOK, Quiet, InLine
<1>1. ASSUME NEW h \in Handler, Control(h) PROVE Quiet /\ UNCHANGED <<pc, cur>>
  <2>1. CASE StopDone(h)
    BY <2>1 DEF StopDone, SetStatus, ControlFrame, dispVars
  <2>2. CASE ~StopDone(h)
    BY <1>1, <2>2 DEF Control, PauseRun, ResumeRun, StopRun, Request, PauseDone,
       ResumeDone, Complete, StopDrain, ControlFrame, dispVars
  <2> QED BY <2>1, <2>2
<1>2. ASSUME NEW r \in Run, EmergencyStop(r) \/ CancelRun(r)
      PROVE  Quiet /\ UNCHANGED <<pc, cur>>
  BY <1>2 DEF EmergencyStop, CancelRun, taskVars, SetStatus, ControlFrame, dispVars
<1>3. ASSUME NEW u \in Target,
             Retry(u) \/ Rerun(u) \/ TaskAction(u) \/ Age(u) \/ ReconcileTask(u)
      PROVE  Quiet /\ UNCHANGED <<pc, cur>>
  BY <1>3 DEF Retry, Rerun, TaskAction, Age, ReconcileTask, ReconcileRead, SetStatus,
     TaskFrame, dispVars
<1>4. ~WatchdogWrite
  BY DEF NoScan, WatchdogWrite
<1>5. CASE WatchdogScan \/ ReconcileWrite \/ ReconcileAll \/ RejectPlan \/ DecidePackage
           \/ ToggleAgents \/ UNCHANGED vars
  BY <1>5 DEF WatchdogScan, ReconcileWrite, ReconcileAll, ReconcileRead, RejectPlan,
     DecidePackage, ToggleAgents, vars, taskVars, TaskFrame, dispVars
<1>6. CASE Restart
  BY <1>6 DEF Restart, taskVars
<1> HIDE DEF Quiet
<1> QED BY <1>1, <1>2, <1>3, <1>4, <1>5, <1>6 DEF Next

LEMMA NoScanStep ==
  ASSUME "watchdog" \notin Ops, NoScan, [Next]_vars
  PROVE  NoScan'
<1> USE DEF NoScan
<1>1. ASSUME NEW r \in Run, NEW wave \in {Package, Recommended}, Approve(r, wave)
      PROVE  NoScan'
  BY <1>1 DEF Approve
<1>2. ASSUME NEW r \in Run, Dispatch(r) PROVE NoScan'
  BY <1>2 DEF Dispatch, LaunchWithoutAgent, Launch, CheckStopped, CheckRunning, Resolve,
     Pick, PickNothing, RouteNoAgent, Begin, UseTool, Finish, SettleLeaf, SettleRoot,
     Tally, FinalizeRoot, CountFailures, CloseRun
<1>3. ASSUME NEW h \in Handler, Control(h) PROVE NoScan'
  BY <1>3 DEF Control, PauseRun, ResumeRun, StopRun, Request, PauseDone, ResumeDone,
     Complete, StopDrain, StopDone, ControlFrame
<1>4. ASSUME NEW r \in Run, EmergencyStop(r) \/ CancelRun(r) PROVE NoScan'
  BY <1>4 DEF EmergencyStop, CancelRun, ControlFrame
<1>5. ASSUME NEW u \in Target,
             Retry(u) \/ Rerun(u) \/ TaskAction(u) \/ Age(u) \/ ReconcileTask(u)
      PROVE  NoScan'
  BY <1>5 DEF Retry, Rerun, TaskAction, Age, ReconcileTask, ReconcileRead
<1>6. CASE WatchdogScan \/ WatchdogWrite \/ ReconcileWrite \/ ReconcileAll
           \/ RejectPlan \/ DecidePackage \/ ToggleAgents \/ Restart \/ UNCHANGED vars
  BY <1>6 DEF WatchdogScan, WatchdogWrite, ReconcileWrite, ReconcileAll, ReconcileRead,
     RejectPlan, DecidePackage, ToggleAgents, Restart, Asleep, vars
<1> HIDE DEF NoScan
<1> QED BY <1>1, <1>2, <1>3, <1>4, <1>5, <1>6 DEF Next

-----------------------------------------------------------------------------
(* The invariant behind the schedule.                                      *)

\* A package that waits for its execution, in a line, on a list or in hand, has
\* had none.
Fresh ==
  \A t \in Leaf :
    \/ ~Approved(t) \/ status[t] \in InLine \/ t \in todo[t[1]]
    \/ pc[t[1]] \in {"route", "tool"} /\ cur[t[1]] = t
    => lastExec[t] = "none"
\* What a dispatcher has begun has left the line.
Taken == \A t \in Leaf : pc[t[1]] = "tool" /\ cur[t[1]] = t => status[t] \notin InLine
\* The list of blocked rows does not outlive the loop over it.
ListsRead == \A r \in Run : todo[r] # {} => pc[r] = "resolve"
\* A package that a dispatcher may take up has its dependencies executed with
\* success.  (Without an agent every waiting task is given to the next
\* dispatcher, and there is none.)
Ready ==
  \A t \in Leaf :
    /\ pc[t[1]] \notin {"done", "lost"}
    /\ \/ status[t] \in {"QUEUED", "WAITING_FOR_AGENT"}
       \/ pc[t[1]] = "route" /\ cur[t[1]] = t
    => \A d \in Deps[t[2]] : lastExec[<<t[1], d>>] = "ok"
\* SUCCEEDED rests on an execution, but for the moment between the validator's
\* verdict and that of finalize_task.
Succeeded ==
  \A t \in Leaf :
    status[t] = "SUCCEEDED" => lastExec[t] = "ok" \/ (pc[t[1]] = "settle" /\ cur[t[1]] = t)
\* What is being finished has its execution.
Recorded ==
  \A r \in Run : pc[r] \in {"finish", "settle"} /\ cur[r] \in Leaf => lastExec[cur[r]] # "none"
ScheduleInv ==
  LineageInv /\ NoScan /\ Fresh /\ Taken /\ ListsRead /\ Ready /\ Succeeded /\ Recorded

LEMMA ScheduleDispatch ==
  ASSUME MaxRuns = 1, ScheduleInv, NEW r \in Run, Dispatch(r)
  PROVE  (Fresh /\ Taken /\ ListsRead /\ Ready /\ Succeeded /\ Recorded)'
<1> DEFINE Fine(u) == /\ \/ ~Approved(u) \/ status[u] \in InLine \/ u \in todo[r]
                         \/ pc[r] \in {"route", "tool"} /\ cur[r] = u
                         => lastExec[u] = "none"
                      /\ pc[r] = "tool" /\ cur[r] = u => status[u] \notin InLine
                      /\ /\ pc[r] \notin {"done", "lost"}
                         /\ \/ status[u] \in {"QUEUED", "WAITING_FOR_AGENT"}
                            \/ pc[r] = "route" /\ cur[r] = u
                         => \A d \in Deps[u[2]] : lastExec[<<r, d>>] = "ok"
                      /\ status[u] = "SUCCEEDED"
                         => lastExec[u] = "ok" \/ (pc[r] = "settle" /\ cur[r] = u)
<1>0. /\ status \in [Task -> TaskStatuses] /\ lastExec \in [Task -> {"none", "ok", "fail"}]
      /\ pc \in [Run -> Steps] /\ cur \in [Run -> Task \cup {None}]
      /\ todo \in [Run -> SUBSET Task]
  BY DEF ScheduleInv, LineageInv, TypeInv, TypeOK, TaskTypeOK, DispatchTypeOK
<1>1. Run = {r}
  BY DEF Run
<1>2. \A u \in Leaf : /\ u \in Task /\ u[1] = r /\ u[2] \in Package
                      /\ Deps[u[2]] \subseteq Package
                      /\ \A d \in Deps[u[2]] : <<r, d>> \in Leaf
  BY <1>1, PlanAssumption DEF Leaf, Task, Place
<1>3. \A u \in Leaf : Fine(u)
  BY <1>2 DEF ScheduleInv, Fresh, Taken, Ready, Succeeded
<1>4. todo[r] # {} => pc[r] = "resolve"
  BY DEF ScheduleInv, ListsRead
<1>5. pc[r] \in {"finish", "settle"} /\ cur[r] \in Leaf => lastExec[cur[r]] # "none"
  BY DEF ScheduleInv, Recorded
<1>6. \A u \in Leaf : Approved(u) /\ Approved(u)'
  BY <1>0, <1>2 DEF Approved, Dispatch, LaunchWithoutAgent, Launch, CheckStopped,
     CheckRunning, Resolve, Pick, PickNothing, RouteNoAgent, Begin, UseTool, Finish,
     SettleLeaf, SettleRoot, Tally, FinalizeRoot, CountFailures, CloseRun, Goto
<1> SUFFICES ASSUME NEW t
             PROVE  /\ t \in Leaf => Fine(t)'
                    /\ (todo[r] # {} => pc[r] = "resolve")'
                    /\ (pc[r] \in {"finish", "settle"} /\ cur[r] \in Leaf
                        => lastExec[cur[r]] # "none")'
  <2>1. (\A u \in Leaf : Fine(u)') => (Fresh /\ Taken /\ Ready /\ Succeeded)'
    BY <1>2 DEF Fresh, Taken, Ready, Succeeded
  <2> HIDE DEF Fine
  <2> QED BY <1>1, <2>1 DEF ListsRead, Recorded
<1> USE DEF InLine
\* Steps that change no task.
<1>7. CASE Launch(r) \/ CheckStopped(r) \/ PickNothing(r) \/ Tally(r) \/ CountFailures(r)
  BY <1>0, <1>3, <1>4, <1>6, <1>7 DEF Launch, CheckStopped, PickNothing, Tally,
     CountFailures, Goto, taskVars
<1>8. CASE LaunchWithoutAgent(r)
  BY <1>0, <1>2, <1>3, <1>4, <1>6, <1>8 DEF LaunchWithoutAgent, Goto, SetStatus, Rows
<1>9. CASE CheckRunning(r)
  BY <1>0, <1>2, <1>3, <1>6, <1>9 DEF CheckRunning, Goto, taskVars, Rows
<1>10. CASE Resolve(r)
  <2>1. PICK u \in todo[r] : /\ todo' = [todo EXCEPT ![r] = @ \ {u}]
                            /\ \/ DepsDone(u) /\ status' = SetStatus({u}, "QUEUED")
                               \/ status' = status
    BY <1>10 DEF Resolve
  <2>2. t \in Leaf /\ u = t /\ DepsDone(u) => \A d \in Deps[t[2]] : lastExec[<<r, d>>] = "ok"
    <3> SUFFICES ASSUME t \in Leaf, DepsDone(t), NEW d \in Deps[t[2]] PROVE lastExec[<<r, d>>] = "ok"
      OBVIOUS
    <3>1. status[<<r, d>>] = "SUCCEEDED" /\ <<r, d>> \in Leaf
      BY <1>1, <1>2 DEF DepsDone, DepSucceeded
    <3>2. pc[r] # "settle"
      BY <1>10 DEF Resolve
    <3> QED BY <1>3, <3>1, <3>2
  <2>3. pc' = pc /\ cur' = cur /\ lastExec' = lastExec /\ pc[r] = "resolve"
    BY <1>10 DEF Resolve
  <2> QED BY <1>0, <1>2, <1>3, <1>6, <2>1, <2>2, <2>3 DEF SetStatus
<1>11. CASE Pick(r)
  BY <1>0, <1>2, <1>3, <1>6, <1>11 DEF Pick, Dispatchable, Rows, Goto, taskVars
<1>12. CASE RouteNoAgent(r)
  BY <1>0, <1>2, <1>3, <1>4, <1>6, <1>12 DEF RouteNoAgent, SetStatus, Goto
<1>13. CASE Begin(r)
  BY <1>0, <1>2, <1>3, <1>4, <1>6, <1>13 DEF Begin, SetStatus, Goto
<1>14. CASE UseTool(r)
  <2>1. PICK y \in {"ok", "fail"} : lastExec' = [lastExec EXCEPT ![cur[r]] = y]
    BY <1>14 DEF UseTool, ToolExits, LatestExits
  <2>2. cur[r] \in Leaf => lastExec[cur[r]] = "none"
    BY <1>2, <1>3, <1>14 DEF UseTool
  <2>3. /\ status' = status /\ todo' = todo /\ cur' = cur
        /\ pc[r] = "tool" /\ pc'[r] = "finish" /\ todo[r] = {}
    BY <1>0, <1>4, <1>14 DEF UseTool, Goto
  <2>4. \A u \in Leaf : lastExec'[u] = lastExec[u] \/ (u = cur[r] /\ lastExec'[u] = y)
    BY <1>0, <1>2, <2>1
  <2>5. t \in Leaf =>
          \A d \in Deps[t[2]] : lastExec[<<r, d>>] = "ok" => lastExec'[<<r, d>>] = "ok"
    BY <1>2, <2>2, <2>4
  <2>6. cur[r] \in Leaf => lastExec'[cur[r]] = y
    BY <1>0, <1>2, <2>1
  <2> QED BY <1>3, <1>6, <2>2, <2>3, <2>4, <2>5, <2>6
<1>15. CASE Finish(r)
  BY <1>0, <1>2, <1>3, <1>4, <1>5, <1>6, <1>15 DEF Finish, SetStatus, Goto, Verdict
<1>16. CASE SettleLeaf(r)
  BY <1>0, <1>2, <1>3, <1>4, <1>5, <1>6, <1>16 DEF SettleLeaf, SetStatus, Goto, Verdict
<1>17. CASE SettleRoot(r)
  BY <1>0, <1>2, <1>3, <1>4, <1>6, <1>17 DEF SettleRoot, SetStatus, Goto
<1>18. CASE FinalizeRoot(r) \/ CloseRun(r)
  <2>1. t \in Leaf => t # RootOf(r)
    BY <1>2, PlanAssumption DEF RootOf
  <2>2. t \in Leaf => status'[t] = status[t]
    BY <1>2, <1>18, <2>1 DEF FinalizeRoot, CloseRun, SetStatus
  <2> QED BY <1>0, <1>3, <1>4, <1>6, <1>18, <2>2 DEF FinalizeRoot, CloseRun, Goto
<1> QED BY <1>7, <1>8, <1>9, <1>10, <1>11, <1>12, <1>13, <1>14, <1>15, <1>16, <1>17, <1>18
        DEF Dispatch

LEMMA ScheduleStep ==
  ASSUME MaxRuns = 1, "watchdog" \notin Ops, "restart" \notin Ops, ScheduleInv, [Next]_vars
  PROVE  ScheduleInv'
<1>1. LineageInv' /\ NoScan'
  BY LineageStep, NoScanStep DEF ScheduleInv
<1>2. ASSUME NEW r \in Run, Dispatch(r) PROVE ScheduleInv'
  BY <1>1, <1>2, ScheduleDispatch DEF ScheduleInv
<1>3. ASSUME NEW r \in Run, NEW wave \in {Package, Recommended}, Approve(r, wave)
      PROVE  ScheduleInv'
  <2>1. \A t \in Leaf : t \in Task /\ t[1] = r /\ t[2] \in Package
    BY PlanAssumption DEF Leaf, Run, Task, Place
  <2>2. pc[r] = "none" /\ todo[r] = {}
    BY <1>3, RunsAssumption DEF Approve, ScheduleInv, ListsRead, Run
  <2>3. /\ pc' = [pc EXCEPT ![r] = pc'[r]] /\ pc'[r] \in {"launch", "lost"}
        /\ UNCHANGED <<lastExec, cur, todo>>
    BY <1>3 DEF Approve, ScheduleInv, LineageInv, TypeInv, TypeOK, DispatchTypeOK
  <2>4. \A t \in Leaf : status[t] = "NONE" /\ lastExec[t] = "none"
    BY <2>1, <2>2 DEF ScheduleInv, LineageInv, Untouched, Fresh, Approved
  <2>5. \A t \in Leaf : /\ status'[t] \in {"NONE", "QUEUED", "BLOCKED"}
                        /\ status'[t] = "QUEUED" => Deps[t[2]] = {}
    <3>1. CASE Released(r, wave)
      <4>1. \A t \in Leaf : status'[t] = InitialStatus(t[2], wave)
        BY <2>1, <3>1 DEF Released
      <4>2. \A t \in Leaf : t[2] # Root
        BY <2>1, PlanAssumption
      <4> QED BY <4>1, <4>2 DEF InitialStatus
    <3>2. CASE BrokenOff(r)
      BY <2>1, <2>4, <3>2, PlanAssumption DEF BrokenOff, SetStatus, RootOf
    <3> QED BY <1>3, <3>1, <3>2, ApprovedRows
  <2>6. pc \in [Run -> Steps]
    BY DEF ScheduleInv, LineageInv, TypeInv, TypeOK, DispatchTypeOK
  <2>7. Run = {r}
    BY DEF Run
  <2>8. Fresh' /\ Taken' /\ Ready' /\ Succeeded'
    BY <2>1, <2>2, <2>3, <2>4, <2>5, <2>6 DEF Fresh, Taken, Ready, Succeeded
  <2>9. ListsRead' /\ Recorded'
    BY <2>2, <2>3, <2>6, <2>7 DEF ListsRead, Recorded
  <2> QED BY <1>1, <2>8, <2>9 DEF ScheduleInv
<1>4. ASSUME \A r \in Run : ~Dispatch(r),
             \A r \in Run : \A wave \in {Package, Recommended} : ~Approve(r, wave)
      PROVE  ScheduleInv'
  <2>1. Quiet /\ UNCHANGED <<pc, cur>>
    BY <1>4, RequestsAreQuiet DEF Restart, ScheduleInv, LineageInv
  <2>2. \A t \in Leaf : t \in Task
    BY DEF Leaf, Task, Place
  <2>3. \A t \in Leaf : status'[t] = status[t]
                        \/ status'[t] \notin {"QUEUED", "BLOCKED", "WAITING_FOR_AGENT", "SUCCEEDED"}
    BY <2>1, <2>2 DEF Quiet, InLine
  <2>4. UNCHANGED <<lastExec, todo>>
    BY <2>1 DEF Quiet
  <2>5. Fresh' /\ Taken' /\ Ready' /\ Succeeded'
    BY <2>1, <2>3, <2>4 DEF ScheduleInv, Fresh, Taken, Ready, Succeeded, Approved, InLine
  <2>6. ListsRead' /\ Recorded'
    BY <2>1, <2>4 DEF ScheduleInv, ListsRead, Recorded
  <2> QED BY <1>1, <2>5, <2>6 DEF ScheduleInv
<1> QED BY <1>2, <1>3, <1>4

LEMMA ScheduleInit == Init => ScheduleInv
<1> SUFFICES ASSUME Init PROVE ScheduleInv
  OBVIOUS
<1>1. \A t \in Leaf : t \in Task /\ t[1] \in Run
  BY DEF Leaf, Task, Place
<1>2. Fresh /\ Taken /\ Ready /\ Succeeded
  BY <1>1 DEF Init, Fresh, Taken, Ready, Succeeded, InLine
<1>3. NoScan /\ ListsRead /\ Recorded
  BY DEF Init, NoScan, ListsRead, Recorded, Asleep
<1> QED BY <1>2, <1>3, LineageInit DEF ScheduleInv

-----------------------------------------------------------------------------
(* The steps of a run are steps of PlanSchedule.                           *)

\* What a package's phase is made of.
LEMMA PhaseFromRows ==
  ASSUME MaxRuns = 1, NEW p \in Package
  PROVE  PhaseOf(1, p) = IF cur[1] = <<1, p>> /\ pc[1] \in {"tool", "finish", "settle"}
                         THEN "executing"
                         ELSE CASE lastExec[<<1, p>>] = "ok" -> "succeeded"
                                [] lastExec[<<1, p>>] = "fail" -> "failed"
                                [] OTHER -> "idle"
<1>1. Executing(1, p) <=> cur[1] = <<1, p>> /\ pc[1] \in {"tool", "finish", "settle"}
  BY DEF Executing, Run
<1> QED BY <1>1 DEF PhaseOf

\* A step that neither moves a dispatcher in or out of an execution, nor records
\* one, nor ends the run, is a step of no package.
LEMMA NoPhaseChange ==
  ASSUME MaxRuns = 1,
         \A p \in Package :
           /\ (PhaseOf(1, p) = "executing") <=> (PhaseOf(1, p) = "executing")'
           /\ lastExec'[<<1, p>>] = lastExec[<<1, p>>] \/ PhaseOf(1, p) = "executing",
         (pc[1] = "done") <=> (pc'[1] = "done")
  PROVE  UNCHANGED Schedule!vars
<1>1. ASSUME NEW p \in Package PROVE PhaseOf(1, p)' = PhaseOf(1, p)
  BY DEF PhaseOf, Executing
<1> QED BY <1>1 DEF Schedule!vars

LEMMA ScheduleRefined ==
  ASSUME MaxRuns = 1, "watchdog" \notin Ops, "restart" \notin Ops, ScheduleInv, [Next]_vars
  PROVE  [Schedule!Next]_(Schedule!vars)
<1> DEFINE exec(p) == cur[1] = <<1, p>> /\ pc[1] \in {"tool", "finish", "settle"}
<1>0. /\ lastExec \in [Task -> {"none", "ok", "fail"}] /\ pc \in [Run -> Steps]
      /\ cur \in [Run -> Task \cup {None}] /\ 1 \in Run
  BY DEF ScheduleInv, LineageInv, TypeInv, TypeOK, TaskTypeOK, DispatchTypeOK, Run
<1>1. \A p \in Package : <<1, p>> \in Leaf /\ <<1, p>> \in Task /\ p # Root
  BY <1>0, PlanAssumption DEF Leaf, Task, Place
<1>2. \A p \in Package :
        PhaseOf(1, p) = IF exec(p) THEN "executing"
                        ELSE CASE lastExec[<<1, p>>] = "ok" -> "succeeded"
                               [] lastExec[<<1, p>>] = "fail" -> "failed"
                               [] OTHER -> "idle"
  BY PhaseFromRows
<1>3. \A p \in Package :
        PhaseOf(1, p)' = IF exec(p)' THEN "executing"
                         ELSE CASE lastExec'[<<1, p>>] = "ok" -> "succeeded"
                                [] lastExec'[<<1, p>>] = "fail" -> "failed"
                                [] OTHER -> "idle"
  BY DEF PhaseOf, Executing, Run
<1>4. \A p \in Package : PhaseOf(1, p) = "executing" <=> exec(p)
  BY <1>2
<1>5. \A p \in Package : PhaseOf(1, p)' = "executing" <=> exec(p)'
  BY <1>3
<1>20. \A p \in Package : lastExec[<<1, p>>] \in {"none", "ok", "fail"}
  BY <1>0, <1>1
<1>21. cur[1] \in Leaf => \E p \in Package : cur[1] = <<1, p>>
  BY DEF Leaf, Run
<1>6. CASE Begin(1)
  <2>1. /\ pc[1] = "route" /\ pc'[1] = "tool" /\ cur' = cur /\ lastExec' = lastExec
    BY <1>0, <1>6 DEF Begin, Goto
  <2>2. \A p \in Package : ~exec(p)
    BY <2>1
  <2>3. CASE cur[1] \notin Leaf
    <3>1. \A p \in Package : ~exec(p)'
      BY <1>1, <2>1, <2>3
    <3> HIDE DEF exec
    <3> QED BY <1>4, <1>5, <2>1, <2>2, <3>1, NoPhaseChange
  <2>4. CASE cur[1] \in Leaf
    <3>1. PICK p \in Package : cur[1] = <<1, p>>
      BY <1>21, <2>4
    <3>2. lastExec[<<1, p>>] = "none"
      BY <1>1, <2>1, <3>1 DEF ScheduleInv, Fresh
    <3>3. \A d \in Deps[p] : d \in Package /\ lastExec[<<1, d>>] = "ok"
      BY <1>1, <2>1, <3>1, PlanAssumption DEF ScheduleInv, Ready
    <3>4. PhaseOf(1, p) = "idle" /\ PhaseOf(1, p)' = "executing"
      BY <1>2, <1>5, <2>1, <2>2, <3>1, <3>2
    <3>5. \A q \in Package : PhaseOf(1, q) # "executing"
      BY <1>4, <2>2
    <3>6. \A d \in Deps[p] : PhaseOf(1, d) = "succeeded"
      BY <1>2, <2>2, <3>3
    <3>7. \A q \in Package \ {p} : PhaseOf(1, q)' = PhaseOf(1, q)
      <4> SUFFICES ASSUME NEW q \in Package \ {p} PROVE PhaseOf(1, q)' = PhaseOf(1, q)
        OBVIOUS
      <4>1. ~exec(q) /\ ~exec(q)'
        BY <2>1, <2>2, <3>1
      <4> HIDE DEF exec
      <4> QED BY <1>2, <1>3, <2>1, <4>1
    <3>8. ~(pc[1] = "done") /\ ~(pc'[1] = "done")
      BY <2>1
    <3>9. Schedule!Begin(p)
      BY <3>3, <3>4, <3>5, <3>6, <3>7, <3>8 DEF Schedule!Begin
    <3> QED BY <3>9 DEF Schedule!Next
  <2> QED BY <2>3, <2>4
<1>7. CASE SettleLeaf(1)
  <2>1. /\ pc[1] = "settle" /\ pc'[1] = "tally" /\ lastExec' = lastExec /\ cur[1] \in Leaf
    BY <1>0, <1>7 DEF SettleLeaf, Goto
  <2>2. PICK p \in Package : cur[1] = <<1, p>>
    BY <1>21, <2>1
  <2>3. lastExec[<<1, p>>] \in {"ok", "fail"}
    BY <1>0, <1>20, <2>1, <2>2 DEF ScheduleInv, Recorded
  <2>4. PhaseOf(1, p) = "executing"
    BY <1>4, <2>1, <2>2
  <2>5. PhaseOf(1, p)' \in {"succeeded", "failed"}
    BY <1>3, <2>1, <2>3
  <2>6. \A q \in Package \ {p} : PhaseOf(1, q)' = PhaseOf(1, q)
    <3> SUFFICES ASSUME NEW q \in Package \ {p} PROVE PhaseOf(1, q)' = PhaseOf(1, q)
      OBVIOUS
    <3>1. ~exec(q) /\ ~exec(q)'
      BY <2>1, <2>2
    <3> HIDE DEF exec
    <3> QED BY <1>2, <1>3, <2>1, <3>1
  <2>7. ~(pc[1] = "done") /\ ~(pc'[1] = "done")
    BY <2>1
  <2>8. Schedule!End(p)
    BY <2>4, <2>5, <2>6, <2>7 DEF Schedule!End
  <2> QED BY <2>8 DEF Schedule!Next
<1>8. CASE LaunchWithoutAgent(1) \/ CloseRun(1)
  <2>1. /\ pc[1] \in {"launch", "close"} /\ pc'[1] = "done" /\ lastExec' = lastExec
    BY <1>0, <1>8 DEF LaunchWithoutAgent, CloseRun, Goto, taskVars
  <2>2. \A p \in Package : PhaseOf(1, p)' = PhaseOf(1, p) /\ PhaseOf(1, p) # "executing"
    BY <1>2, <1>3, <2>1
  <2>3. Schedule!Close
    BY <2>1, <2>2 DEF Schedule!Close
  <2> QED BY <2>3 DEF Schedule!Next
\* An execution goes on; its outcome does not show yet.
<1>9. CASE UseTool(1) \/ Finish(1)
  <2>1. /\ pc[1] \in {"tool", "finish"} /\ pc'[1] \in {"finish", "settle"} /\ cur' = cur
        /\ \A t \in Task : lastExec'[t] = lastExec[t] \/ t = cur[1]
    BY <1>0, <1>9 DEF UseTool, Finish, Goto, taskVars
  <2>2. \A p \in Package : exec(p) <=> exec(p)'
    BY <2>1
  <2>3. \A p \in Package : lastExec'[<<1, p>>] = lastExec[<<1, p>>] \/ exec(p)
    BY <1>1, <2>1
  <2> HIDE DEF exec
  <2> QED BY <1>4, <1>5, <2>1, <2>2, <2>3, NoPhaseChange
<1> HIDE DEF exec
<1>10. CASE Launch(1) \/ CheckStopped(1) \/ CheckRunning(1) \/ Resolve(1) \/ Pick(1)
            \/ PickNothing(1) \/ RouteNoAgent(1) \/ SettleRoot(1) \/ Tally(1)
            \/ FinalizeRoot(1) \/ CountFailures(1)
  <2>1. lastExec' = lastExec /\ pc[1] # "done" /\ pc'[1] # "done"
    BY <1>0, <1>10 DEF Launch, CheckStopped, CheckRunning, Resolve, Pick, PickNothing,
       RouteNoAgent, SettleRoot, Tally, FinalizeRoot, CountFailures, Goto, taskVars
  <2>2. \A p \in Package : ~exec(p)'
    BY <1>0, <1>10 DEF Launch, CheckStopped, CheckRunning, Resolve, Pick, PickNothing,
       RouteNoAgent, SettleRoot, Tally, FinalizeRoot, CountFailures, Goto, exec
  <2>3. ASSUME NEW p \in Package PROVE ~exec(p)
    <3>1. SettleRoot(1) => cur[1] # <<1, p>>
      BY <1>1 DEF SettleRoot
    <3> QED BY <1>10, <3>1 DEF Launch, CheckStopped, CheckRunning, Resolve, Pick,
        PickNothing, RouteNoAgent, SettleRoot, Tally, FinalizeRoot, CountFailures, exec
  <2> QED BY <1>4, <1>5, <2>1, <2>2, <2>3, NoPhaseChange
<1>11. CASE \A r \in Run : ~Dispatch(r)
  <2>1. ASSUME NEW r \in Run, NEW wave \in {Package, Recommended}, Approve(r, wave)
        PROVE  UNCHANGED Schedule!vars
    <3>1. /\ pc[1] = "none" /\ pc'[1] \in {"launch", "lost"}
          /\ lastExec' = lastExec /\ cur' = cur
      BY <1>0, <2>1, RunsAssumption DEF Approve, Run
    <3>2. \A p \in Package : ~exec(p) /\ ~exec(p)'
      BY <3>1 DEF exec
    <3> QED BY <1>4, <1>5, <3>1, <3>2, NoPhaseChange
  <2>2. ASSUME \A r \in Run : \A wave \in {Package, Recommended} : ~Approve(r, wave)
        PROVE  UNCHANGED Schedule!vars
    <3>1. UNCHANGED <<pc, cur, lastExec>>
      BY <1>11, <2>2, RequestsAreQuiet DEF Restart, Quiet, ScheduleInv, LineageInv
    <3>2. \A p \in Package : exec(p) <=> exec(p)'
      BY <3>1 DEF exec
    <3> QED BY <1>4, <1>5, <3>1, <3>2, NoPhaseChange
  <2> QED BY <2>1, <2>2
<1>12. ASSUME NEW r \in Run, Dispatch(r) PROVE Dispatch(1)
  BY <1>12 DEF Run
<1> QED BY <1>6, <1>7, <1>8, <1>9, <1>10, <1>11, <1>12 DEF Dispatch

LEMMA ScheduleInitial == Init => Schedule!Init
<1> SUFFICES ASSUME Init PROVE Schedule!Init
  OBVIOUS
<1>1. ASSUME NEW p \in Package PROVE PhaseOf(1, p) = "idle"
  <2>1. 1 \in Run /\ <<1, p>> \in Task
    BY RunsAssumption DEF Run, Task, Place
  <2>2. ~Executing(1, p) /\ lastExec[<<1, p>>] = "none"
    BY <2>1 DEF Init, Executing
  <2> QED BY <2>2 DEF PhaseOf
<1>2. pc[1] # "done"
  BY RunsAssumption DEF Init, Run
<1> QED BY <1>1, <1>2 DEF Schedule!Init

\* Where neither the watchdog nor a restart takes a task out of its dispatcher's
\* hands, the one run of a plan executes it as PlanSchedule promises: one package
\* at a time, each at most once, and only after those it depends on succeeded,
\* whatever pauses, stops, retries and actions of the analyst come in between
\* (dispatch_and_execute_run, finalize_task, finalize_run).
THEOREM ScheduleIsKept ==
  ASSUME MaxRuns = 1, "watchdog" \notin Ops, "restart" \notin Ops
  PROVE  Spec => ImplementsSchedule
<1>1. Init => ScheduleInv /\ Schedule!Init
  BY ScheduleInit, ScheduleInitial
<1>2. ScheduleInv /\ [Next]_vars => ScheduleInv'
  BY ScheduleStep
<1>3. ScheduleInv /\ [Next]_vars => [Schedule!Next]_(Schedule!vars)
  BY ScheduleRefined
<1> QED BY <1>1, <1>2, <1>3, PTL DEF Spec, ImplementsSchedule, Schedule!Spec

-----------------------------------------------------------------------------
(* After an emergency stop.                                                *)

\* What is blocked, or was when a dispatcher read its list, has dependencies.
BlockedDepends ==
  \A t \in Task : status[t] = "BLOCKED" \/ t \in todo[t[1]] => t[2] \in Package /\ Deps[t[2]] # {}
\* While the run reads EMERGENCY_STOPPED nothing is in line, no task is in hand,
\* and a dispatcher that is halfway through its list of blocked rows finds no
\* dependency SUCCEEDED: the stop has overwritten that too.
Ceased ==
  \A r \in Run : runState[r] = "EMERGENCY_STOPPED" =>
    /\ pc[r] # "route"
    /\ \A t \in Task : status[t] \notin InLine
    /\ pc[r] = "resolve" => \A t \in Leaf : status[t] # "SUCCEEDED"
CeasedInv == TypeInv /\ NoScan /\ Holding /\ BlockedDepends /\ Ceased

LEMMA BlockedDependsStep ==
  ASSUME MaxRuns = 1, "watchdog" \notin Ops, CeasedInv, [Next]_vars
  PROVE  BlockedDepends'
<1> DEFINE ok(t) == t[2] \in Package /\ Deps[t[2]] # {}
<1>0. /\ status \in [Task -> TaskStatuses] /\ todo \in [Run -> SUBSET Task]
      /\ \A t \in Task : status[t] = "BLOCKED" \/ t \in todo[t[1]] => ok(t)
      /\ \A t \in Task : t[1] \in Run /\ t[2] \in Package \cup {Root}
  BY DEF CeasedInv, BlockedDepends, TypeInv, TypeOK, TaskTypeOK, DispatchTypeOK, Task, Place
<1> SUFFICES ASSUME NEW t \in Task, status'[t] = "BLOCKED" \/ t \in todo'[t[1]] PROVE ok(t)
  BY DEF BlockedDepends
<1> HIDE DEF ok
<1>1. ASSUME NEW r \in Run, NEW wave \in {Package, Recommended}, Approve(r, wave)
      PROVE  ok(t)
  <2>1. todo' = todo
    BY <1>1 DEF Approve
  <2>2. CASE Released(r, wave)
    <3>1. status'[t] = "BLOCKED" => status[t] = "BLOCKED" \/ InitialStatus(t[2], wave) = "BLOCKED"
      BY <2>2 DEF Released
    <3>2. InitialStatus(t[2], wave) = "BLOCKED" => ok(t)
      BY PlanAssumption DEF InitialStatus, ok
    <3> QED BY <1>0, <2>1, <3>1, <3>2
  <2>3. CASE BrokenOff(r)
    BY <1>0, <2>1, <2>3 DEF BrokenOff, SetStatus
  <2> QED BY <1>1, <2>2, <2>3, ApprovedRows
<1>2. ASSUME NEW r \in Run, Dispatch(r) PROVE ok(t)
  <2>1. CASE CheckRunning(r)
    BY <1>0, <2>1 DEF CheckRunning, taskVars, Rows
  <2>2. CASE Resolve(r)
    BY <1>0, <2>2 DEF Resolve, SetStatus
  <2>3. CASE SettleRoot(r) \/ FinalizeRoot(r)
    <3>1. RootOutcome(r) \in {"FAILED", "SUCCEEDED", status[RootOf(r)]}
      BY DEF RootOutcome
    <3>2. SettleRoot(r) => cur[r] = RootOf(r)
      BY DEF SettleRoot, CeasedInv, TypeInv, HasTask, Working, Leaf, Task, Place, Run, RootOf
    <3>3. status'[t] = status[t] \/ (t = RootOf(r) /\ status'[t] = RootOutcome(r))
      BY <2>3, <3>2 DEF SettleRoot, FinalizeRoot, SetStatus, RootOf
    <3>4. todo' = todo
      BY <2>3 DEF SettleRoot, FinalizeRoot
    <3> QED BY <1>0, <3>1, <3>3, <3>4
  <2>4. CASE ~CheckRunning(r) /\ ~Resolve(r) /\ ~SettleRoot(r) /\ ~FinalizeRoot(r)
    BY <1>0, <1>2, <2>4 DEF Dispatch, LaunchWithoutAgent, Launch, CheckStopped, Pick,
       PickNothing, RouteNoAgent, Begin, UseTool, Finish, SettleLeaf, Tally, CountFailures,
       CloseRun, taskVars, SetStatus, Rows, Verdict
  <2> QED BY <2>1, <2>2, <2>3, <2>4
<1>3. ASSUME \A r \in Run : ~Dispatch(r),
             \A r \in Run : \A wave \in {Package, Recommended} : ~Approve(r, wave)
      PROVE  ok(t)
  <2>1. Quiet
    BY <1>3, RequestsAreQuiet DEF CeasedInv
  <2> QED BY <1>0, <2>1 DEF Quiet, InLine
<1> QED BY <1>1, <1>2, <1>3

LEMMA CeasedStep ==
  ASSUME MaxRuns = 1, "watchdog" \notin Ops, CeasedInv, [Next]_vars
  PROVE  Ceased'
<1>0. /\ status \in [Task -> TaskStatuses] /\ runState \in [Run -> RunStates]
      /\ pc \in [Run -> Steps] /\ todo \in [Run -> SUBSET Task] /\ Leaf \subseteq Task
      /\ cur \in [Run -> Task \cup {None}]
  BY DEF CeasedInv, TypeInv, TypeOK, TaskTypeOK, RunTypeOK, DispatchTypeOK, Task, Place, Leaf
<1> SUFFICES ASSUME NEW r \in Run, runState'[r] = "EMERGENCY_STOPPED"
             PROVE  /\ pc'[r] # "route"
                    /\ \A t \in Task : status'[t] \notin InLine
                    /\ pc'[r] = "resolve" => \A t \in Leaf : status'[t] # "SUCCEEDED"
  BY DEF Ceased
<1>1. Run = {r} /\ \A t \in Task : t[1] = r
  BY DEF Run, Task
<1>2. runState[r] = "EMERGENCY_STOPPED" =>
        /\ pc[r] # "route"
        /\ \A t \in Task : status[t] \notin InLine
        /\ pc[r] = "resolve" => \A t \in Leaf : status[t] # "SUCCEEDED"
  BY DEF CeasedInv, Ceased
<1>3. ASSUME NEW wave \in {Package, Recommended}, Approve(r, wave) PROVE FALSE
  BY <1>0, <1>3 DEF Approve
<1>4. CASE Dispatch(r)
  <2>0. runState[r] = "EMERGENCY_STOPPED"
    BY <1>0, <1>4 DEF Dispatch, LaunchWithoutAgent, Launch, CheckStopped, CheckRunning,
       Resolve, Pick, PickNothing, RouteNoAgent, Begin, UseTool, Finish, SettleLeaf,
       SettleRoot, Tally, FinalizeRoot, CountFailures, CloseRun, runVars
  <2>1. CASE Resolve(r)
    <3>1. PICK u \in todo[r] : status' = status \/ (DepsDone(u) /\ pc[r] = "resolve")
      BY <2>1 DEF Resolve
    <3>2. u \in Task /\ u[2] \in Package /\ Deps[u[2]] # {} /\ Deps[u[2]] \subseteq Package
      BY <1>0, <1>1, PlanAssumption DEF CeasedInv, BlockedDepends
    <3>3. ASSUME DepsDone(u) PROVE \E t \in Leaf : status[t] = "SUCCEEDED"
      BY <3>2, <3>3 DEF DepsDone, DepSucceeded, Leaf
    <3> QED BY <1>2, <2>0, <2>1, <3>1, <3>3 DEF Resolve
  <2>2. ~CheckRunning(r) /\ ~Pick(r) /\ ~RouteNoAgent(r) /\ ~Begin(r)
    BY <1>2, <2>0 DEF CheckRunning, Halted, Pick, Dispatchable, Rows, RouteNoAgent, Begin, InLine
  <2>3. CASE SettleRoot(r) \/ FinalizeRoot(r)
    <3>1. pc'[r] \in {"tally", "count"}
      BY <1>0, <2>3 DEF SettleRoot, FinalizeRoot, Goto
    <3>2. \A q \in Run : RootOutcome(q) \in {"FAILED", "SUCCEEDED", status[RootOf(q)]}
      BY DEF RootOutcome
    <3>3. \A q \in Run : RootOf(q) \in Task
      BY DEF RootOf, Task, Place
    <3>4. SettleRoot(r) => cur[r][1] \in Run
      BY <1>1 DEF SettleRoot, CeasedInv, TypeInv, HasTask, Working
    <3>5. \A t \in Task : status'[t] = status[t] \/ \E q \in Run : status'[t] = RootOutcome(q)
      BY <2>3, <3>4 DEF SettleRoot, FinalizeRoot, SetStatus
    <3> QED BY <1>2, <2>0, <3>1, <3>2, <3>3, <3>5 DEF InLine
  <2>4. CASE LaunchWithoutAgent(r)
    <3>1. pc'[r] = "done" /\ Rows({"QUEUED", "BLOCKED"}) = {}
      BY <1>0, <1>2, <2>0, <2>4 DEF LaunchWithoutAgent, Goto, Rows, InLine
    <3> QED BY <1>2, <2>0, <2>4, <3>1 DEF LaunchWithoutAgent, SetStatus
  <2>5. CASE Launch(r) \/ CheckStopped(r) \/ PickNothing(r) \/ UseTool(r) \/ Tally(r)
             \/ CountFailures(r) \/ Finish(r) \/ SettleLeaf(r) \/ CloseRun(r)
    <3>1. pc'[r] \notin {"route", "resolve"}
      BY <1>0, <2>5 DEF Launch, CheckStopped, PickNothing, UseTool, Tally, CountFailures,
         Finish, SettleLeaf, CloseRun, Goto
    <3>2. \A t \in Task : status'[t] \in {status[t], "SUCCEEDED", "FAILED", "COMPLETED"}
      BY <2>5 DEF Launch, CheckStopped, PickNothing, UseTool, Tally, CountFailures,
         Finish, SettleLeaf, CloseRun, taskVars, SetStatus, Verdict
    <3> QED BY <1>2, <2>0, <3>1, <3>2 DEF InLine
  <2> QED BY <1>4, <2>1, <2>2, <2>3, <2>4, <2>5 DEF Dispatch
\* The stop itself: it does not fall between a dispatcher's choice and its start.
<1>5. CASE EmergencyStop(r)
  <2>1. pc'[r] # "route"
    BY <1>5 DEF EmergencyStop, ControlFrame, dispVars, CeasedInv, Holding, Free, Run
  <2>2. \A t \in Task : status'[t] \in Spared \cup {"STOPPED"}
    BY <1>5 DEF EmergencyStop, SetStatus, Rows
  <2> QED BY <1>0, <2>1, <2>2 DEF Spared, InLine
<1>6. CASE ~Dispatch(r) /\ ~EmergencyStop(r)
  <2>1. Quiet /\ (UNCHANGED <<pc, cur>> \/ Restart)
    BY <1>1, <1>3, <1>6, RequestsAreQuiet DEF CeasedInv
  <2>2. pc'[r] \in {"route", "resolve"} => pc'[r] = pc[r]
    BY <2>1 DEF Restart
  <2>3. ASSUME NEW h \in Handler, Control(h) PROVE runState[r] = "EMERGENCY_STOPPED"
    BY <1>0, <2>3 DEF Control, PauseRun, ResumeRun, StopRun, Request, PauseDone, ResumeDone,
       Complete, StopDrain, StopDone
  <2>4. runState[r] = "EMERGENCY_STOPPED"
    BY <1>1, <1>3, <1>6, <2>3 DEF Next, CancelRun, Retry, Rerun, TaskAction, Age,
       ReconcileTask, ReconcileRead, TaskFrame, RejectPlan, DecidePackage, ToggleAgents,
       WatchdogScan, WatchdogWrite, ReconcileAll, ReconcileWrite, Restart, vars, runVars
  <2> QED BY <1>0, <1>2, <2>1, <2>2, <2>4 DEF Quiet
<1> QED BY <1>4, <1>5, <1>6

\* In the one run of a plan no task begins after an emergency stop, although its
\* dispatcher looks at run_state only at the top of its loop and goes on with what
\* it has read: not even in the iteration that the stop interrupts, nor when the
\* server is restarted or pause and resume requests overwrite the stop.
THEOREM EmergencyIsFinal ==
  ASSUME MaxRuns = 1, "watchdog" \notin Ops
  PROVE  Spec => EmergencyStartsNothing
<1>1. Init => CeasedInv
  <2> SUFFICES ASSUME Init PROVE CeasedInv
    OBVIOUS
  <2>1. NoScan /\ Holding /\ Ceased
    BY DEF Init, NoScan, Holding, Ceased, Asleep
  <2>2. BlockedDepends
    BY DEF Init, BlockedDepends, Task
  <2> QED BY <2>1, <2>2, TypeInit DEF CeasedInv
<1>2. CeasedInv /\ [Next]_vars => CeasedInv'
  BY TypeStep, NoScanStep, HoldingStep, BlockedDependsStep, CeasedStep DEF CeasedInv
<1>3. CeasedInv /\ [Next]_vars =>
        [\A r \in Run : pc[r] = "route" /\ pc'[r] = "tool" =>
           runState[cur[r][1]] # "EMERGENCY_STOPPED"]_vars
  <2> SUFFICES ASSUME CeasedInv, NEW r \in Run, pc[r] = "route"
               PROVE  runState[cur[r][1]] # "EMERGENCY_STOPPED"
    OBVIOUS
  <2>1. cur[r] \in Task
    BY DEF CeasedInv, TypeInv, HasTask, Working
  <2>2. cur[r][1] = r
    BY <2>1 DEF Task, Run
  <2> QED BY <2>2 DEF CeasedInv, Ceased
<1> QED BY <1>1, <1>2, <1>3, PTL DEF Spec, EmergencyStartsNothing

-----------------------------------------------------------------------------
(* A run that reads COMPLETED.                                             *)

\* What an analyst may ask for without touching a package's task or the agents.
Gentle ==
  {"pause", "resume", "retry", "rerun", "action", "watchdog", "decide", "reject", "restart"}
Prerequisite == {e \in Package \X Package : e[1] \in Deps[e[2]]}

AllIn(S) == \A t \in Leaf : status[t] \in S
Roots == Run \X {Root}

\* Nobody is about to stop the run, and the watchdog has only root tasks to act on.
Undisturbed ==
  /\ thr.kind # "reconcile"
  /\ thr.kind = "watchdog" => thr.fail \subseteq Roots /\ thr.block \subseteq Roots
  /\ \A h \in Handler : ctl[h].op \notin {"drain", "stop"}
  /\ \A r \in Run : ~Halted(r)
  /\ stale \subseteq Roots
  /\ \A t \in Leaf : retries[t] = 0
\* A dispatcher that has a loop has all the packages of the plan in it, and an agent.
HeldByRun ==
  \A r \in Run :
    /\ pc[r] = "launch" => AllIn({"QUEUED", "BLOCKED"})
    /\ pc[r] \notin {"none", "launch", "done", "lost"} =>
         agentOn /\ AllIn({"QUEUED", "BLOCKED", "RUNNING", "SUCCEEDED", "FAILED"})
\* A blocked package that the dispatcher has looked at really waits.
Waits ==
  \A r \in Run : pc[r] = "resolve" =>
    \A t \in Leaf : status[t] = "BLOCKED" => t \in todo[r] \/ ~DepsDone(t)
\* A dispatcher leaves its loop when each package succeeded, or when one failed.
Over ==
  \A r \in Run :
    /\ pc[r] \in {"summary", "count", "close"} =>
         AllIn({"SUCCEEDED"}) \/ \E t \in Leaf : status[t] = "FAILED"
    /\ pc[r] = "close" /\ exit[r] = "ok" => AllIn({"SUCCEEDED"})
    /\ runStatus[r] = "COMPLETED" => pc[r] \in {"done", "lost"} /\ AllIn({"SUCCEEDED"})
CleanInv == TypeInv /\ Undisturbed /\ HeldByRun /\ Waits /\ Over

\* The requests leave the packages' tasks and the dispatcher's lists as they are.
Aside ==
  /\ \A t \in Leaf : status'[t] = status[t]
  /\ UNCHANGED <<agentOn, todo, exit>>
  /\ \A r \in Run : pc'[r] = pc[r] \/ (pc[r] # "none" /\ pc'[r] = "lost")
  /\ \A r \in Run : runStatus'[r] = "COMPLETED" => runStatus[r] = "COMPLETED"

LEMMA GentleRequests ==
  ASSUME Ops \subseteq Gentle, Aimed \subseteq {Root}, MaxRetries > 0,
         TypeInv, Undisturbed, [Next]_vars, \A r \in Run : ~Dispatch(r),
         \A r \in Run : \A wave \in {Package, Recommended} : ~Approve(r, wave)
  PROVE  Undisturbed' /\ Aside
<1> USE DEF TypeInv, TypeOK, RunTypeOK, TaskTypeOK, Undisturbed, Aside, Halted
<1>0. /\ Leaf \subseteq Task /\ Leaf \cap Roots = {} /\ Target \subseteq Roots
      /\ Roots \subseteq Task
  BY PlanAssumption DEF Leaf, Task, Place, Roots, Target
<1>1. ASSUME NEW h \in Handler, Control(h) PROVE Undisturbed' /\ Aside
  <2>1. ~StopDone(h) /\ ~StopDrain(h) /\ \A r \in Run : ~StopRun(h, r)
    BY DEF StopDone, StopDrain, StopRun, Request, Gentle
  <2>2. ASSUME NEW r \in Run, PauseRun(h, r) \/ ResumeRun(h, r) PROVE Undisturbed' /\ Aside
    <3>1. PICK v \in {"PAUSE_REQUESTED", "RESUME_REQUESTED"} :
            /\ runState' = [runState EXCEPT ![r] = v]
            /\ runStatus' = [runStatus EXCEPT ![r] = v]
      BY <2>2 DEF PauseRun, ResumeRun, Request
    <3>2. PICK o \in {"pause", "resume"} : ctl' = [ctl EXCEPT ![h] = [op |-> o, run |-> r]]
      BY <2>2 DEF PauseRun, ResumeRun, Request
    <3>3. UNCHANGED <<status, retries, stale, agentOn, dispVars, thr>>
      BY <2>2 DEF PauseRun, ResumeRun, Request, ControlFrame
    <3> QED BY <3>1, <3>2, <3>3 DEF ControlTypeOK, dispVars
  <2>3. CASE PauseDone(h) \/ ResumeDone(h)
    <3>1. PICK v \in {"PAUSED", "RUNNING"} :
            /\ runState' = [runState EXCEPT ![ctl[h].run] = v]
            /\ runStatus' = [runStatus EXCEPT ![ctl[h].run] = v]
      BY <2>3 DEF PauseDone, ResumeDone, Complete
    <3>2. ctl' = [ctl EXCEPT ![h] = [op |-> "idle", run |-> 0]]
      BY <2>3 DEF PauseDone, ResumeDone, Complete, Idle
    <3>3. UNCHANGED <<status, retries, stale, agentOn, dispVars, thr>>
      BY <2>3 DEF PauseDone, ResumeDone, Complete, ControlFrame
    <3> QED BY <3>1, <3>2, <3>3 DEF ControlTypeOK, dispVars
  <2> QED BY <1>1, <2>1, <2>2, <2>3 DEF Control
<1>2. ASSUME NEW r \in Run, EmergencyStop(r) \/ CancelRun(r) PROVE Undisturbed' /\ Aside
  <2>1. ~EmergencyStop(r)
    BY DEF EmergencyStop, Gentle
  <2> QED BY <1>2, <2>1 DEF CancelRun, taskVars, dispVars
<1>3. \A t \in Target : ~ReconcileTask(t)
  BY DEF ReconcileTask, ReconcileRead, Gentle
<1>4. ~ToggleAgents /\ ~ReconcileAll /\ ~ReconcileWrite
  BY DEF ToggleAgents, ReconcileAll, ReconcileRead, ReconcileWrite, Gentle
<1>5. ASSUME NEW t \in Target, Retry(t) \/ Rerun(t) \/ TaskAction(t) \/ Age(t)
      PROVE  Undisturbed' /\ Aside
  <2>1. t \in Task /\ t \notin Leaf /\ t \in Roots
    BY <1>0
  <2>2. CASE Retry(t)
    BY <1>0, <2>1, <2>2 DEF Retry, SetStatus, TaskFrame, dispVars, runVars
  <2>3. CASE Rerun(t) \/ TaskAction(t) \/ Age(t)
    BY <1>0, <2>1, <2>3 DEF Rerun, TaskAction, Age, SetStatus, TaskFrame, dispVars, runVars
  <2> QED BY <1>5, <2>2, <2>3
<1>6. CASE RejectPlan \/ DecidePackage \/ UNCHANGED vars
  BY <1>6 DEF RejectPlan, DecidePackage, vars, taskVars, dispVars, runVars
<1>7. CASE WatchdogScan
  <2>1. \A t \in Rows({"RUNNING", "WAITING_FOR_AGENT"}) : retries[t] >= MaxRetries => t \in Roots
    BY <1>0, LimitsAssumption DEF Rows, Leaf, Task, Place, Roots
  <2> QED BY <1>7, <2>1 DEF WatchdogScan, TaskFrame, dispVars, runVars
<1>8. CASE WatchdogWrite
  BY <1>0, <1>8 DEF WatchdogWrite, Asleep, TaskFrame, dispVars, runVars
<1>9. CASE Restart
  BY <1>9 DEF Restart, Asleep, Idle, taskVars, runVars
<1> HIDE DEF TypeInv, Undisturbed, Aside
<1> QED BY <1>1, <1>2, <1>3, <1>4, <1>5, <1>6, <1>7, <1>8, <1>9 DEF Next

\* The packages of an acyclic plan that wait for others cannot all wait for each
\* other: the first of them waits for one that has failed.
LEMMA BlockedForFailure ==
  ASSUME MaxRuns = 1, IsWellFoundedOn(Prerequisite, Package), NEW r \in Run,
         AllIn({"BLOCKED", "SUCCEEDED", "FAILED"}),
         \A t \in Leaf : status[t] = "BLOCKED" => ~DepsDone(t)
  PROVE  AllIn({"SUCCEEDED"}) \/ \E t \in Leaf : status[t] = "FAILED"
<1> DEFINE waiting == {p \in Package : status[<<1, p>>] = "BLOCKED"}
<1>0. r = 1 /\ Run = {1} /\ Leaf = {1} \X Package
  BY DEF Run, Leaf
<1>1. CASE waiting = {}
  BY <1>0, <1>1 DEF AllIn
<1>2. CASE waiting # {}
  <2>1. PICK p \in waiting : \A q \in waiting : ~(<<q, p>> \in Prerequisite)
    BY <1>2, WFMin
  <2>2. PICK d \in Deps[p] : ~DepSucceeded(d)
    BY <1>0, <2>1 DEF DepsDone
  <2>3. d \in Package /\ d \notin waiting
    BY <2>1, <2>2, PlanAssumption DEF Prerequisite
  <2>4. status[<<1, d>>] # "SUCCEEDED"
    BY <1>0, <2>2 DEF DepSucceeded
  <2>5. status[<<1, d>>] = "FAILED"
    BY <1>0, <2>3, <2>4 DEF AllIn
  <2> QED BY <1>0, <2>3, <2>5
<1> QED BY <1>1, <1>2

LEMMA CleanApproval ==
  ASSUME MaxRuns = 1, CleanInv, NEW r \in Run, NEW wave \in {Package, Recommended},
         Approve(r, wave)
  PROVE  Undisturbed' /\ HeldByRun' /\ Waits' /\ Over'
<1>0. /\ Run = {r} /\ pc \in [Run -> Steps] /\ Leaf \subseteq Task
      /\ runState \in [Run -> RunStates] /\ runStatus \in [Run -> RunStatuses]
  BY DEF Run, CleanInv, TypeInv, TypeOK, DispatchTypeOK, RunTypeOK, Leaf, Task, Place
<1>1. Undisturbed'
  BY <1>0 DEF Approve, CleanInv, Undisturbed, Halted
<1>2. pc'[r] \in {"launch", "lost"} /\ runStatus'[r] = "RUNNING"
  BY <1>0 DEF Approve
<1>3. ASSUME pc'[r] = "launch" PROVE AllIn({"QUEUED", "BLOCKED"})'
  <2>1. Readable(wp) /\ Readable(wp')
    BY <1>0, <1>3 DEF Approve
  <2>2. /\ wp' = [p \in Package |-> IF p \in wave THEN InitialStatus(p, wave) ELSE "HELD"]
        /\ status' = [t \in Task |-> IF t[1] = r THEN InitialStatus(t[2], wave) ELSE status[t]]
    BY <2>1 DEF Approve
  <2>3. \A p \in Package : p \in wave
    BY <2>1, <2>2 DEF Readable, Unreadable
  <2>4. \A p \in Package : InitialStatus(p, wave) \in {"QUEUED", "BLOCKED"}
    BY <2>3, PlanAssumption DEF InitialStatus
  <2> QED BY <1>0, <2>2, <2>4 DEF AllIn, Leaf
<1> QED BY <1>0, <1>1, <1>2, <1>3 DEF HeldByRun, Waits, Over

LEMMA CleanDispatch ==
  ASSUME MaxRuns = 1, IsWellFoundedOn(Prerequisite, Package), CleanInv,
         NEW r \in Run, Dispatch(r)
  PROVE  Undisturbed' /\ HeldByRun' /\ Waits' /\ Over'
<1>0. /\ Run = {r} /\ pc \in [Run -> Steps] /\ Leaf \subseteq Task
      /\ \A t \in Leaf : t[1] = r
      /\ status \in [Task -> TaskStatuses] /\ runState \in [Run -> RunStates]
      /\ runStatus \in [Run -> RunStatuses] /\ exit \in [Run -> {"ok", "fail"}]
      /\ todo \in [Run -> SUBSET Task] /\ pc[r] \notin {"none", "done", "lost"}
  BY DEF Run, CleanInv, TypeInv, TypeOK, DispatchTypeOK, RunTypeOK, TaskTypeOK, Leaf, Task,
     Place, Dispatch, LaunchWithoutAgent, Launch, CheckStopped, CheckRunning, Resolve, Pick,
     PickNothing, RouteNoAgent, Begin, UseTool, Finish, SettleLeaf, SettleRoot, Tally,
     FinalizeRoot, CountFailures, CloseRun
<1>1. /\ ~Halted(r) /\ runStatus[r] # "COMPLETED"
      /\ pc[r] = "launch" => AllIn({"QUEUED", "BLOCKED"})
      /\ pc[r] # "launch" =>
           agentOn /\ AllIn({"QUEUED", "BLOCKED", "RUNNING", "SUCCEEDED", "FAILED"})
  BY <1>0 DEF CleanInv, Undisturbed, HeldByRun, Over
<1>2. Undisturbed'
  <2>1. UNCHANGED <<thr, ctl, retries>> /\ stale' \subseteq stale
    BY DEF Dispatch, LaunchWithoutAgent, Launch, CheckStopped, CheckRunning, Resolve, Pick,
       PickNothing, RouteNoAgent, Begin, UseTool, Finish, SettleLeaf, SettleRoot, Tally,
       FinalizeRoot, CountFailures, CloseRun, taskVars
  <2>2. ~Halted(r)'
    BY <1>0, <1>1 DEF Dispatch, LaunchWithoutAgent, Launch, CheckStopped, CheckRunning,
       Resolve, Pick, PickNothing, RouteNoAgent, Begin, UseTool, Finish, SettleLeaf,
       SettleRoot, Tally, FinalizeRoot, CountFailures, CloseRun, runVars, Halted
  <2> QED BY <1>0, <2>1, <2>2 DEF CleanInv, Undisturbed
<1> SUFFICES HeldByRun' /\ Waits' /\ Over'
  BY <1>2
<1>3. CASE LaunchWithoutAgent(r)
  BY <1>0, <1>1, <1>3 DEF LaunchWithoutAgent, Goto, runVars, HeldByRun, Waits, Over
<1>4. CASE Launch(r) \/ CheckRunning(r)
  <2>1. /\ UNCHANGED <<status, runStatus, agentOn>> /\ pc'[r] \in {"check", "resolve"} /\ agentOn
        /\ pc'[r] = "resolve" => todo'[r] = Rows({"BLOCKED"})
    BY <1>0, <1>1, <1>4 DEF Launch, CheckRunning, Goto, runVars, taskVars
  <2>2. HeldByRun' /\ Over'
    BY <1>0, <1>1, <2>1 DEF HeldByRun, Over, AllIn
  <2>3. Waits'
    BY <1>0, <2>1 DEF Waits, Rows
  <2> QED BY <2>2, <2>3
<1>5. CASE Resolve(r)
  <2>0. pc[r] = "resolve" /\ UNCHANGED <<pc, runStatus, agentOn>>
    BY <1>5 DEF Resolve, runVars
  <2>1. PICK u \in todo[r] :
          /\ todo' = [todo EXCEPT ![r] = @ \ {u}]
          /\ \/ DepsDone(u) /\ status' = SetStatus({u}, "QUEUED")
             \/ ~DepsDone(u) /\ status' = status
    BY <1>5 DEF Resolve
  <2>2. HeldByRun' /\ Over'
    BY <1>0, <1>1, <2>0, <2>1 DEF HeldByRun, Over, AllIn, SetStatus
  <2>3. ASSUME NEW t \in Leaf, status'[t] = "BLOCKED" PROVE t \in todo'[r] \/ ~DepsDone(t)'
    <3>1. status[t] = "BLOCKED" /\ (t = u => ~DepsDone(u))
      BY <1>0, <2>1, <2>3 DEF SetStatus
    <3>2. t \in todo[r] \/ ~DepsDone(t)
      BY <2>0, <3>1 DEF CleanInv, Waits
    <3>3. DepsDone(t)' => DepsDone(t)
      BY <1>0, <2>1, PlanAssumption DEF DepsDone, DepSucceeded, SetStatus, Task, Place, Leaf
    <3> QED BY <1>0, <2>1, <3>1, <3>2, <3>3
  <2> QED BY <1>0, <2>0, <2>2, <2>3 DEF Waits
<1>6. CASE Pick(r) \/ UseTool(r)
  BY <1>0, <1>1, <1>6 DEF Pick, UseTool, Goto, runVars, taskVars, HeldByRun, Waits, Over, AllIn
<1>7. CASE PickNothing(r)
  <2>1. /\ UNCHANGED <<status, runStatus, agentOn>> /\ pc'[r] \in {"check", "summary"}
        /\ pc[r] = "resolve" /\ todo[r] = {} /\ Dispatchable = {}
        /\ pc'[r] = "summary" => WaitedFor(r) = {}
    BY <1>0, <1>7 DEF PickNothing, Goto, runVars, taskVars
  <2>2. ASSUME pc'[r] = "summary"
        PROVE  AllIn({"SUCCEEDED"}) \/ \E t \in Leaf : status[t] = "FAILED"
    <3>1. AllIn({"BLOCKED", "SUCCEEDED", "FAILED"})
      BY <1>0, <1>1, <2>1, <2>2, PlanAssumption
         DEF AllIn, Dispatchable, WaitedFor, Rows, Leaf, RootOf
    <3>2. \A t \in Leaf : status[t] = "BLOCKED" => ~DepsDone(t)
      BY <2>1 DEF CleanInv, Waits
    <3> QED BY <3>1, <3>2, BlockedForFailure
  <2> QED BY <1>0, <1>1, <2>1, <2>2 DEF HeldByRun, Waits, Over, AllIn
<1>8. CASE RouteNoAgent(r) \/ CheckStopped(r)
  BY <1>1, <1>8 DEF RouteNoAgent, CheckStopped
<1>9. CASE Begin(r) \/ Finish(r) \/ SettleLeaf(r)
  <2>1. /\ pc'[r] \in {"tool", "settle", "tally"} /\ UNCHANGED <<runStatus, agentOn>>
        /\ \A t \in Task : status'[t] \in {status[t], "RUNNING", "SUCCEEDED", "FAILED"}
    BY <1>0, <1>9 DEF Begin, Finish, SettleLeaf, Goto, runVars, SetStatus, Verdict
  <2>2. AllIn({"QUEUED", "BLOCKED", "RUNNING", "SUCCEEDED", "FAILED"})'
    BY <1>0, <1>1, <1>9, <2>1 DEF AllIn, Begin, Finish, SettleLeaf
  <2>3. agentOn'
    BY <1>1, <1>9, <2>1 DEF Begin, Finish, SettleLeaf
  <2> QED BY <1>0, <1>1, <2>1, <2>2, <2>3 DEF HeldByRun, Waits, Over
<1>10. CASE SettleRoot(r) \/ FinalizeRoot(r) \/ Tally(r) \/ CountFailures(r)
  <2>1. \A t \in Leaf : status'[t] = status[t]
    BY <1>0, <1>10, PlanAssumption
       DEF SettleRoot, FinalizeRoot, Tally, CountFailures, SetStatus, RootOf, Leaf, taskVars
  <2>2. UNCHANGED <<runStatus, agentOn>> /\ pc'[r] \in {"tally", "check", "summary", "count", "close"}
    BY <1>0, <1>10 DEF SettleRoot, FinalizeRoot, Tally, CountFailures, Goto, runVars
  <2>3. pc'[r] \in {"summary", "count", "close"} =>
          AllIn({"SUCCEEDED"}) \/ \E t \in Leaf : status[t] = "FAILED"
    <3>1. CASE Tally(r)
      BY <1>0, <1>1, <3>1, PlanAssumption DEF Tally, Goto, Rows, AllIn, Leaf, RootOf
    <3>2. CASE ~Tally(r)
      BY <1>0, <1>10, <3>2 DEF SettleRoot, FinalizeRoot, CountFailures, Goto, CleanInv, Over
    <3> QED BY <3>1, <3>2
  <2>4. pc'[r] = "close" /\ exit'[r] = "ok" => \A t \in Leaf : status[t] # "FAILED"
    <3>1. pc'[r] = "close" => CountFailures(r)
      BY <1>0, <1>10 DEF SettleRoot, FinalizeRoot, Tally, Goto
    <3>2. CountFailures(r) /\ exit'[r] = "ok" => Failures(r) = {}
      BY <1>0 DEF CountFailures
    <3> QED BY <1>0, <3>1, <3>2, PlanAssumption DEF Failures, Rows, Leaf, RootOf
  <2>5. pc[r] # "launch"
    BY <1>10 DEF SettleRoot, FinalizeRoot, Tally, CountFailures
  <2> QED BY <1>0, <1>1, <2>1, <2>2, <2>3, <2>4, <2>5 DEF HeldByRun, Waits, Over, AllIn
<1>11. CASE CloseRun(r)
  <2>1. pc[r] = "close" /\ pc'[r] = "done"
    BY <1>0, <1>11 DEF CloseRun, Goto
  <2>2. \A t \in Leaf : status'[t] = status[t]
    BY <1>0, <1>11, PlanAssumption DEF CloseRun, SetStatus, RootOf, Leaf
  <2>3. runStatus'[r] = "COMPLETED" => exit[r] = "ok"
    BY <1>0, <1>11 DEF CloseRun
  <2> QED BY <1>0, <2>1, <2>2, <2>3 DEF CleanInv, HeldByRun, Waits, Over, AllIn
<1> QED BY <1>3, <1>4, <1>5, <1>6, <1>7, <1>8, <1>9, <1>10, <1>11 DEF Dispatch

\* A run reported COMPLETED has executed its whole plan with success, if the plan
\* is acyclic and nobody stops the run, acts on a package's task, switches the
\* agents or has the runs reconciled: the dispatcher finds nothing more to do only
\* then, or after a failure, which finalize_run counts (dispatch_and_execute_run).
THEOREM CompletionIsClean ==
  ASSUME MaxRuns = 1, Ops \subseteq Gentle, Aimed \subseteq {Root}, MaxRetries > 0,
         IsWellFoundedOn(Prerequisite, Package)
  PROVE  Spec => []CleanCompletion
<1>1. Init => CleanInv
  <2> SUFFICES ASSUME Init PROVE Undisturbed /\ HeldByRun /\ Waits /\ Over
    BY TypeInit DEF CleanInv
  <2> QED BY DEF Init, Undisturbed, HeldByRun, Waits, Over, Halted, Asleep, Idle, Leaf, Task,
      Place, Run
<1>2. CleanInv /\ [Next]_vars => CleanInv'
  <2> SUFFICES ASSUME CleanInv, [Next]_vars PROVE CleanInv'
    OBVIOUS
  <2>1. TypeInv'
    BY TypeStep DEF CleanInv
  <2>2. ASSUME NEW r \in Run, NEW wave \in {Package, Recommended}, Approve(r, wave)
        PROVE  CleanInv'
    BY <2>1, <2>2, CleanApproval DEF CleanInv
  <2>3. ASSUME NEW r \in Run, Dispatch(r) PROVE CleanInv'
    BY <2>1, <2>3, CleanDispatch DEF CleanInv
  <2>4. ASSUME \A r \in Run : ~Dispatch(r),
               \A r \in Run : \A wave \in {Package, Recommended} : ~Approve(r, wave)
        PROVE  CleanInv'
    <3>1. Undisturbed' /\ Aside
      BY <2>4, GentleRequests DEF CleanInv
    <3>2. \A S : AllIn(S) => AllIn(S)'
      BY <3>1 DEF Aside, AllIn
    <3>3. \A t \in Leaf : DepsDone(t)' => DepsDone(t)
      <4>1. \A q \in Run : \A d \in Package : status'[<<q, d>>] = status[<<q, d>>]
        BY <3>1 DEF Aside, Leaf
      <4>2. \A d \in Package : DepSucceeded(d)' => DepSucceeded(d)
        <5> SUFFICES ASSUME NEW d \in Package, DepSucceeded(d)' PROVE DepSucceeded(d)
          OBVIOUS
        <5>1. PICK q \in Run : /\ status'[<<q, d>>] = "SUCCEEDED"
                               /\ \A s \in Run : s < q => status'[<<s, d>>] = "NONE"
          BY DEF DepSucceeded
        <5> QED BY <4>1, <5>1 DEF DepSucceeded
      <4> QED BY <4>2, PlanAssumption DEF DepsDone, Leaf
    <3>4. HeldByRun' /\ Over'
      BY <3>1, <3>2 DEF CleanInv, HeldByRun, Over, Aside
    <3>5. Waits'
      BY <3>1, <3>3 DEF CleanInv, Waits, Aside
    <3> QED BY <2>1, <3>1, <3>4, <3>5 DEF CleanInv
  <2> QED BY <2>2, <2>3, <2>4
<1>3. CleanInv => CleanCompletion
  BY DEF CleanInv, Over, AllIn, CleanCompletion, Leaf
<1> QED BY <1>1, <1>2, <1>3, PTL DEF Spec

=============================================================================
