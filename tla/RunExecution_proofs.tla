------------------------ MODULE RunExecution_proofs ------------------------
(***************************************************************************)
(* What holds of RunExecution for every number of approvals, every plan,   *)
(* every retry limit and every set of requests.                            *)
(***************************************************************************)
EXTENDS RunExecution, TLAPS

\* A dispatcher that works has a task in hand: its Settle step looks the
\* task's run up, so TypeOK alone is not inductive.
HasTask == \A r \in Run : Working(r) => cur[r] \in Task
TypeInv == TypeOK /\ HasTask

USE RunsAssumption, PlanAssumption, LimitsAssumption DEF Run, Place, Task, RootOf

-----------------------------------------------------------------------------
(* The helpers that compute new rows keep the type of the table.           *)

LEMMA SetStatusType ==
  ASSUME status \in [Task -> TaskStatuses], NEW S, NEW v \in TaskStatuses
  PROVE  SetStatus(S, v) \in [Task -> TaskStatuses]
BY DEF SetStatus

LEMMA RetagType ==
  ASSUME NEW s \in Seq(AttemptStatuses), NEW from, NEW v \in AttemptStatuses
  PROVE  /\ Retag(s, from, v) \in Seq(AttemptStatuses)
         /\ Len(Retag(s, from, v)) = Len(s)
         /\ \A i \in 1 .. Len(s) :
              Retag(s, from, v)[i] = IF s[i] \in from THEN v ELSE s[i]
<1> DEFINE f == [i \in 1 .. Len(s) |-> IF s[i] \in from THEN v ELSE s[i]]
<1>1. f \in [1 .. Len(s) -> AttemptStatuses]
  OBVIOUS
<1>2. f \in Seq(AttemptStatuses) /\ Len(f) = Len(s)
  BY <1>1
<1> QED BY <1>2 DEF Retag

LEMMA MarkAttemptsType ==
  ASSUME attempts \in [Task -> Seq(AttemptStatuses)], NEW S, NEW from,
         NEW v \in AttemptStatuses
  PROVE  MarkAttempts(S, from, v) \in [Task -> Seq(AttemptStatuses)]
BY RetagType DEF MarkAttempts

LEMMA VerdictType ==
  ASSUME NEW x PROVE Verdict(x) \in TaskStatuses \cap AttemptStatuses
BY DEF Verdict, TaskStatuses, AttemptStatuses

LEMMA WorkPackageOfType ==
  ASSUME wp \in [Package -> PackageStatuses], NEW t \in Task \cup {None}, NEW x
  PROVE  WorkPackageOf(t, Settled(x)) \in [Package -> PackageStatuses]
BY DEF WorkPackageOf, Settled, PackageStatuses

-----------------------------------------------------------------------------
(* Type correctness.                                                       *)

LEMMA TypeInit == Init => TypeInv
<1> SUFFICES ASSUME Init PROVE TypeInv
  OBVIOUS
<1> USE DEF Init
<1>1. PlanTypeOK /\ RunTypeOK
  BY DEF PlanTypeOK, RunTypeOK, PlanStatuses, PackageStatuses, RunStates, RunStatuses
<1>2. TaskTypeOK
  BY DEF TaskTypeOK, TaskStatuses
<1>3. DispatchTypeOK /\ HasTask
  BY DEF DispatchTypeOK, HasTask, Working, Steps, Free
<1>4. ControlTypeOK /\ ThreadTypeOK
  BY DEF ControlTypeOK, ThreadTypeOK, Idle, Asleep
<1> QED BY <1>1, <1>2, <1>3, <1>4 DEF TypeInv, TypeOK

\* A step that leaves a group of variables alone keeps their type.
LEMMA Frames ==
  /\ PlanTypeOK /\ UNCHANGED planVars => PlanTypeOK'
  /\ RunTypeOK /\ UNCHANGED runVars => RunTypeOK'
  /\ TaskTypeOK /\ UNCHANGED taskVars => TaskTypeOK'
  /\ DispatchTypeOK /\ UNCHANGED dispVars => DispatchTypeOK'
  /\ HasTask /\ UNCHANGED dispVars => HasTask'
  /\ ControlTypeOK /\ UNCHANGED ctl => ControlTypeOK'
  /\ ThreadTypeOK /\ UNCHANGED thr => ThreadTypeOK'
BY DEF PlanTypeOK, planVars, RunTypeOK, runVars, TaskTypeOK, taskVars, DispatchTypeOK,
       HasTask, Working, dispVars, ControlTypeOK, ThreadTypeOK

LEMMA GotoType ==
  ASSUME DispatchTypeOK, NEW r \in Run, NEW step \in Steps, NEW holder \in Run \cup {Free},
         Goto(r, step, holder)
  PROVE  /\ pc' \in [Run -> Steps] /\ loop' \in Run \cup {Free}
         /\ pc'[r] = step /\ \A q \in Run \ {r} : pc'[q] = pc[q]
BY DEF DispatchTypeOK, Goto

LEMMA HasTaskStep ==
  ASSUME DispatchTypeOK, HasTask, NEW r \in Run, NEW step, NEW holder,
         Goto(r, step, holder),
         step \in {"route", "tool", "finish", "settle"} => cur'[r] \in Task,
         \A q \in Run \ {r} : cur'[q] = cur[q]
  PROVE  HasTask'
<1> SUFFICES ASSUME NEW q \in Run, Working(q)' PROVE cur'[q] \in Task
  BY DEF HasTask
<1>1. CASE q = r
  BY <1>1 DEF Working, Goto, DispatchTypeOK
<1>2. CASE q # r
  BY <1>2 DEF Working, Goto, DispatchTypeOK, HasTask
<1> QED BY <1>1, <1>2

LEMMA DispatchType ==
  ASSUME TypeInv, NEW r \in Run, Dispatch(r)
  PROVE  TypeInv'
<1> USE DEF TypeInv, TypeOK
<1>1. CASE LaunchWithoutAgent(r)
  <2>1. TaskTypeOK'
    BY <1>1, SetStatusType DEF LaunchWithoutAgent, TaskTypeOK, TaskStatuses
  <2>2. DispatchTypeOK'
    BY <1>1, GotoType DEF LaunchWithoutAgent, DispatchTypeOK, Steps, Free
  <2>3. HasTask'
    BY <1>1, HasTaskStep DEF LaunchWithoutAgent, DispatchTypeOK, HasTask, Working
  <2> QED BY <1>1, <2>1, <2>2, <2>3, Frames DEF LaunchWithoutAgent, planVars, runVars
<1>2. CASE Launch(r) \/ CheckStopped(r)
  <2>1. DispatchTypeOK'
    BY <1>2, GotoType DEF Launch, CheckStopped, DispatchTypeOK, Steps, Free
  <2>2. HasTask'
    BY <1>2, HasTaskStep DEF Launch, CheckStopped, DispatchTypeOK, HasTask, Working
  <2> QED BY <1>2, <2>1, <2>2, Frames DEF Launch, CheckStopped
<1>3. CASE CheckRunning(r)
  <2>1. DispatchTypeOK'
    BY <1>3, GotoType DEF CheckRunning, Rows, DispatchTypeOK, Steps, Free
  <2>2. HasTask'
    BY <1>3, HasTaskStep DEF CheckRunning, Rows, DispatchTypeOK, HasTask, Working
  <2> QED BY <1>3, <2>1, <2>2, Frames DEF CheckRunning
<1>4. CASE Resolve(r)
  <2>1. TaskTypeOK'
    BY <1>4, SetStatusType DEF Resolve, TaskTypeOK, TaskStatuses
  <2>2. DispatchTypeOK'
    BY <1>4, SMTT(40) DEF Resolve, DispatchTypeOK
  <2>3. HasTask'
    BY <1>4 DEF Resolve, HasTask, Working
  <2> QED BY <1>4, <2>1, <2>2, <2>3, Frames DEF Resolve
<1>5. CASE Pick(r)
  <2>1. PICK t \in Task : cur' = [cur EXCEPT ![r] = t]
    BY <1>5 DEF Pick, Dispatchable, Rows
  <2>2. pc' \in [Run -> Steps] /\ loop' \in Run \cup {Free}
    BY <1>5, GotoType DEF Pick, Steps
  <2>3. DispatchTypeOK'
    BY <1>5, <2>1, <2>2 DEF Pick, DispatchTypeOK
  <2>4. HasTask'
    BY <1>5, <2>1, HasTaskStep DEF Pick, DispatchTypeOK
  <2> QED BY <1>5, <2>3, <2>4, Frames DEF Pick
<1>6. CASE PickNothing(r)
  <2>1. DispatchTypeOK'
    BY <1>6, GotoType DEF PickNothing, DispatchTypeOK, Steps, Free
  <2>2. HasTask'
    BY <1>6, HasTaskStep DEF PickNothing, DispatchTypeOK, HasTask, Working
  <2> QED BY <1>6, <2>1, <2>2, Frames DEF PickNothing
<1>7. CASE RouteNoAgent(r)
  <2>1. TaskTypeOK'
    BY <1>7, SetStatusType DEF RouteNoAgent, TaskTypeOK, TaskStatuses
  <2>2. DispatchTypeOK'
    BY <1>7, GotoType DEF RouteNoAgent, DispatchTypeOK, Steps, Free
  <2>3. HasTask'
    BY <1>7, HasTaskStep DEF RouteNoAgent, DispatchTypeOK, HasTask, Working
  <2> QED BY <1>7, <2>1, <2>2, <2>3, Frames DEF RouteNoAgent
<1>8. CASE Begin(r)
  <2>1. TaskTypeOK'
    BY <1>8, SetStatusType, MarkAttemptsType DEF Begin, TaskTypeOK, TaskStatuses, AttemptStatuses
  <2>2. late' \in [Run -> Nat]
    BY <1>8, SMTT(40) DEF Begin, DispatchTypeOK
  <2>4. DispatchTypeOK'
    BY <1>8, <2>2, GotoType DEF Begin, DispatchTypeOK, Steps, Free
  <2>3. HasTask'
    BY <1>8, HasTaskStep DEF Begin, DispatchTypeOK, HasTask, Working
  <2> QED BY <1>8, <2>1, <2>3, <2>4, Frames DEF Begin
<1>9. CASE UseTool(r)
  <2>0. cur[r] \in Task
    BY <1>9 DEF UseTool, HasTask, Working
  <2>4. PICK y \in {"ok", "fail"} : lastExec' = [lastExec EXCEPT ![cur[r]] = y]
    BY <1>9 DEF UseTool, ToolExits, LatestExits
  <2>5. lastExec' \in [Task -> {"none", "ok", "fail"}]
    BY <2>4 DEF TaskTypeOK
  <2>1. TaskTypeOK'
    BY <1>9, <2>5 DEF UseTool, TaskTypeOK
  <2>2. DispatchTypeOK'
    BY <1>9, GotoType, ZenonT(60) DEF UseTool, ToolExits, DispatchTypeOK, Steps, Free
  <2>3. HasTask'
    BY <1>9, HasTaskStep DEF UseTool, DispatchTypeOK, HasTask, Working
  <2> QED BY <1>9, <2>1, <2>2, <2>3, Frames DEF UseTool
<1>10. CASE Finish(r)
  <2>1. PlanTypeOK'
    BY <1>10, WorkPackageOfType DEF Finish, PlanTypeOK, DispatchTypeOK
  <2>2. TaskTypeOK'
    BY <1>10, SetStatusType, MarkAttemptsType, VerdictType DEF Finish, TaskTypeOK
  <2>3. DispatchTypeOK'
    BY <1>10, GotoType DEF Finish, DispatchTypeOK, Steps, Free
  <2>4. HasTask'
    BY <1>10, HasTaskStep DEF Finish, DispatchTypeOK, HasTask, Working
  <2> QED BY <1>10, <2>1, <2>2, <2>3, <2>4, Frames DEF Finish
<1>11. CASE SettleLeaf(r)
  <2>1. PlanTypeOK'
    BY <1>11, WorkPackageOfType DEF SettleLeaf, PlanTypeOK, DispatchTypeOK
  <2>2. TaskTypeOK'
    BY <1>11, SetStatusType, MarkAttemptsType, VerdictType DEF SettleLeaf, TaskTypeOK
  <2>3. DispatchTypeOK'
    BY <1>11, GotoType DEF SettleLeaf, DispatchTypeOK, Steps, Free
  <2>4. HasTask'
    BY <1>11, HasTaskStep DEF SettleLeaf, DispatchTypeOK, HasTask, Working
  <2> QED BY <1>11, <2>1, <2>2, <2>3, <2>4, Frames DEF SettleLeaf
<1>12. CASE SettleRoot(r)
  <2>1. cur[r] \in Task
    BY <1>12 DEF SettleRoot, HasTask, Working
  <2>2. TaskTypeOK'
    BY <1>12, <2>1, SetStatusType, ZenonT(60) DEF SettleRoot, RootOutcome, TaskTypeOK, TaskStatuses
  <2>3. DispatchTypeOK'
    BY <1>12, GotoType DEF SettleRoot, DispatchTypeOK, Steps, Free
  <2>4. HasTask'
    BY <1>12, HasTaskStep DEF SettleRoot, DispatchTypeOK, HasTask, Working
  <2> QED BY <1>12, <2>1, <2>2, <2>3, <2>4, Frames DEF SettleRoot
<1>13. CASE Tally(r)
  <2>1. DispatchTypeOK'
    BY <1>13, GotoType DEF Tally, DispatchTypeOK, Steps, Free
  <2>2. HasTask'
    BY <1>13, HasTaskStep DEF Tally, DispatchTypeOK, HasTask, Working
  <2> QED BY <1>13, <2>1, <2>2, Frames DEF Tally
<1>14. CASE FinalizeRoot(r)
  <2>1. TaskTypeOK'
    BY <1>14, SetStatusType DEF FinalizeRoot, RootOutcome, TaskTypeOK, TaskStatuses
  <2>2. DispatchTypeOK'
    BY <1>14, GotoType DEF FinalizeRoot, DispatchTypeOK, Steps, Free
  <2>3. HasTask'
    BY <1>14, HasTaskStep DEF FinalizeRoot, DispatchTypeOK, HasTask, Working
  <2> QED BY <1>14, <2>1, <2>2, <2>3, Frames DEF FinalizeRoot
<1>15. CASE CountFailures(r)
  <2>1. DispatchTypeOK'
    BY <1>15, GotoType DEF CountFailures, DispatchTypeOK, Steps, Free
  <2>2. HasTask'
    BY <1>15, HasTaskStep DEF CountFailures, DispatchTypeOK, HasTask, Working
  <2> QED BY <1>15, <2>1, <2>2, Frames DEF CountFailures
<1>16. CASE CloseRun(r)
  <2>1. PlanTypeOK' /\ RunTypeOK'
    BY <1>16 DEF CloseRun, PlanTypeOK, RunTypeOK, PlanStatuses, RunStates, RunStatuses
  <2>2. TaskTypeOK'
    BY <1>16, SetStatusType DEF CloseRun, TaskTypeOK, TaskStatuses
  <2>3. DispatchTypeOK'
    BY <1>16, GotoType DEF CloseRun, DispatchTypeOK, Steps, Free
  <2>4. HasTask'
    BY <1>16, HasTaskStep DEF CloseRun, DispatchTypeOK, HasTask, Working
  <2> QED BY <1>16, <2>1, <2>2, <2>3, <2>4, Frames DEF CloseRun
<1> QED
  BY <1>1, <1>2, <1>3, <1>4, <1>5, <1>6, <1>7, <1>8, <1>9, <1>10, <1>11, <1>12, <1>13, <1>14, <1>15, <1>16 DEF Dispatch

LEMMA ControlType ==
  ASSUME TypeInv, NEW h \in Handler, Control(h)
  PROVE  TypeInv'
<1> USE DEF TypeInv, TypeOK
<1>1. CASE \E r \in Run : PauseRun(h, r) \/ ResumeRun(h, r) \/ StopRun(h, r)
  <2>1. RunTypeOK'
    BY <1>1 DEF PauseRun, ResumeRun, StopRun, Request, RunTypeOK, RunStates, RunStatuses
  <2>3. ControlTypeOK'
    BY <1>1 DEF PauseRun, ResumeRun, StopRun, Request, ControlTypeOK, Idle
  <2>2. TaskTypeOK'
    BY <1>1, SetStatusType DEF PauseRun, ResumeRun, StopRun, Request, ControlFrame, TaskTypeOK, TaskStatuses
  <2> QED BY <1>1, <2>1, <2>2, <2>3, Frames DEF PauseRun, ResumeRun, StopRun, Request, ControlFrame
<1>2. CASE PauseDone(h) \/ ResumeDone(h)
  <2>1. RunTypeOK'
    BY <1>2, ZenonT(60) DEF PauseDone, ResumeDone, Complete, RunTypeOK, RunStates, RunStatuses
  <2>3. ControlTypeOK'
    BY <1>2 DEF PauseDone, ResumeDone, Complete, ControlTypeOK, Idle
  <2>2. TaskTypeOK'
    BY <1>2, SetStatusType DEF PauseDone, ResumeDone, Complete, ControlFrame, TaskTypeOK, TaskStatuses
  <2> QED BY <1>2, <2>1, <2>2, <2>3, Frames DEF PauseDone, ResumeDone, Complete, ControlFrame
<1>3. CASE StopDrain(h)
  <2>1. RunTypeOK'
    BY <1>3 DEF StopDrain, RunTypeOK, RunStates, RunStatuses
  <2>3. ControlTypeOK'
    BY <1>3 DEF StopDrain, ControlTypeOK, Idle
  <2>2. TaskTypeOK'
    BY <1>3, SetStatusType DEF StopDrain, ControlFrame, TaskTypeOK, TaskStatuses
  <2> QED BY <1>3, <2>1, <2>2, <2>3, Frames DEF StopDrain, ControlFrame
<1>4. CASE StopDone(h)
  <2>1. RunTypeOK' /\ ControlTypeOK'
    BY <1>4 DEF StopDone, RunTypeOK, ControlTypeOK, RunStates, RunStatuses, Idle
  <2>2. TaskTypeOK'
    BY <1>4, SetStatusType DEF StopDone, ControlFrame, TaskTypeOK, TaskStatuses
  <2> QED BY <1>4, <2>1, <2>2, Frames DEF StopDone, ControlFrame
<1> QED
  BY <1>1, <1>2, <1>3, <1>4 DEF Control

LEMMA ReconcileReadType ==
  ASSUME TypeInv, NEW S \in SUBSET Task, NEW b \in BOOLEAN, ReconcileRead(S, b)
  PROVE  TypeInv'
<1> USE DEF TypeInv, TypeOK
<1>1. TaskTypeOK'
  BY DEF ReconcileRead, TaskFrame, TaskTypeOK, TaskStatuses, AttemptStatuses
<1>2. ThreadTypeOK'
  BY DEF ReconcileRead, ThreadTypeOK
<1> QED BY <1>1, <1>2, Frames DEF ReconcileRead, TaskFrame

\* What the reconciler's transaction does to the attempts of one task.
LEMMA ReconciledRow ==
  ASSUME ReconcileWrite, NEW t \in Task
  PROVE  attempts'[t] \in {attempts[t], MarkAttempts({t}, Open, "COMPLETED")[t],
                          MarkAttempts({t}, Open, "FAILED")[t]}
BY DEF ReconcileWrite, MarkAttempts

LEMMA TaskRequestType ==
  ASSUME TypeInv, NEW t \in Target,
         Retry(t) \/ Rerun(t) \/ TaskAction(t) \/ Age(t) \/ ReconcileTask(t)
  PROVE  TypeInv'
<1> USE DEF TypeInv, TypeOK
<1>0. t \in Task
  BY DEF Target
<1>1. CASE Retry(t)
  <2>1. TaskTypeOK'
    BY <1>1, <1>0, SetStatusType, SMTT(40) DEF Retry, TaskFrame, TaskTypeOK, TaskStatuses, AttemptStatuses
  <2> QED BY <1>1, <2>1, Frames DEF Retry, TaskFrame
<1>2. CASE Rerun(t)
  <2>1. TaskTypeOK'
    BY <1>2, <1>0 DEF Rerun, TaskFrame, TaskTypeOK, TaskStatuses, AttemptStatuses
  <2> QED BY <1>2, <2>1, Frames DEF Rerun, TaskFrame
<1>3. CASE TaskAction(t)
  <2>1. PICK v \in {"PAUSED", "RUNNING", "CANCELLED", "READY"} : status' = SetStatus({t}, v)
    BY <1>3 DEF TaskAction
  <2>2. TaskTypeOK'
    BY <1>3, <2>1, SetStatusType DEF TaskAction, TaskFrame, TaskTypeOK, TaskStatuses
  <2> QED BY <1>3, <2>2, Frames DEF TaskAction, TaskFrame
<1>4. CASE Age(t)
  <2>1. TaskTypeOK'
    BY <1>4, <1>0 DEF Age, TaskFrame, TaskTypeOK, TaskStatuses, AttemptStatuses
  <2> QED BY <1>4, <2>1, Frames DEF Age, TaskFrame
<1>5. CASE ReconcileTask(t)
  BY <1>5, <1>0, ReconcileReadType DEF ReconcileTask
<1> QED
  BY <1>1, <1>2, <1>3, <1>4, <1>5

LEMMA BackgroundType ==
  ASSUME TypeInv, \/ WatchdogScan \/ WatchdogWrite \/ ReconcileWrite \/ ReconcileAll
                  \/ RejectPlan \/ DecidePackage \/ ToggleAgents \/ Restart
  PROVE  TypeInv'
<1> USE DEF TypeInv, TypeOK
<1>1. CASE WatchdogScan
  <2>1. TaskTypeOK' /\ ThreadTypeOK'
    BY <1>1 DEF WatchdogScan, Rows, TaskFrame, TaskTypeOK, ThreadTypeOK
  <2> QED BY <1>1, <2>1, Frames DEF WatchdogScan, TaskFrame
<1>2. CASE WatchdogWrite
  <2>1. TaskTypeOK'
    BY <1>2, MarkAttemptsType DEF WatchdogWrite, TaskFrame, TaskTypeOK, TaskStatuses, AttemptStatuses
  <2>2. ThreadTypeOK'
    BY <1>2 DEF WatchdogWrite, ThreadTypeOK
  <2> QED BY <1>2, <2>1, <2>2, Frames DEF WatchdogWrite, TaskFrame
<1>3. CASE ReconcileWrite
  <2>1. TaskTypeOK'
    BY <1>3, RetagType DEF ReconcileWrite, TaskTypeOK, AttemptStatuses
  <2>2. RunTypeOK' /\ ThreadTypeOK'
    BY <1>3 DEF ReconcileWrite, RunTypeOK, RunStatuses, RunStates, ThreadTypeOK
  <2> QED BY <1>3, <2>1, <2>2, Frames DEF ReconcileWrite
<1>4. CASE ReconcileAll
  BY <1>4, ReconcileReadType DEF ReconcileAll
<1>5. CASE RejectPlan \/ DecidePackage \/ ToggleAgents
  <2>1. PlanTypeOK' /\ agentOn' \in BOOLEAN
    BY <1>5 DEF RejectPlan, DecidePackage, ToggleAgents, PlanTypeOK, PlanStatuses,
       PackageStatuses, planVars
  <2> QED BY <1>5, <2>1, Frames DEF RejectPlan, DecidePackage, ToggleAgents
<1>6. CASE Restart
  <2>1. DispatchTypeOK'
    BY <1>6 DEF Restart, DispatchTypeOK, Steps, Free, None
  <2>2. HasTask'
    BY <1>6 DEF Restart, HasTask, Working
  <2>3. ControlTypeOK' /\ ThreadTypeOK'
    BY <1>6 DEF Restart, ControlTypeOK, ThreadTypeOK, Idle
  <2> QED BY <1>6, <2>1, <2>2, <2>3, Frames DEF Restart
<1> QED
  BY <1>1, <1>2, <1>3, <1>4, <1>5, <1>6

\* An approval makes the rows of its run, or the root's alone.
Released(r, wave) ==
  /\ status' = [t \in Task |-> IF t[1] = r THEN InitialStatus(t[2], wave) ELSE status[t]]
  /\ attempts' = [t \in Task |-> IF t[1] = r /\ t[2] \in wave
                                 THEN <<"PENDING">> ELSE attempts[t]]
BrokenOff(r) == status' = SetStatus({RootOf(r)}, "RUNNING") /\ attempts' = attempts

LEMMA ApprovedRows ==
  ASSUME NEW r, NEW wave, Approve(r, wave)
  PROVE  Released(r, wave) \/ BrokenOff(r)
BY DEF Approve, Released, BrokenOff

LEMMA TypeStep == TypeInv /\ [Next]_vars => TypeInv'
<1> SUFFICES ASSUME TypeInv, [Next]_vars PROVE TypeInv'
  OBVIOUS
<1>1. ASSUME NEW r \in Run, NEW wave \in {Package, Recommended}, Approve(r, wave)
      PROVE  TypeInv'
  <2> USE DEF TypeInv, TypeOK
  <2>1. \A p \in Place : InitialStatus(p, wave) \in TaskStatuses
    BY DEF InitialStatus, TaskStatuses
  <2>2. PlanTypeOK'
    BY <1>1 DEF Approve, InitialStatus, PlanTypeOK, PlanStatuses, PackageStatuses
  <2>3. RunTypeOK'
    BY <1>1 DEF Approve, RunTypeOK, RunStates, RunStatuses
  <2>4. TaskTypeOK'
    <3>1. CASE Released(r, wave)
      <4>1. status' \in [Task -> TaskStatuses]
        BY <2>1, <3>1 DEF Released, TaskTypeOK
      <4>2. <<"PENDING">> \in Seq(AttemptStatuses)
        BY DEF AttemptStatuses
      <4>3. attempts' \in [Task -> Seq(AttemptStatuses)]
        BY <3>1, <4>2 DEF Released, TaskTypeOK
      <4> QED BY <1>1, <4>1, <4>3 DEF Approve, TaskTypeOK
    <3>2. CASE BrokenOff(r)
      <4>1. "RUNNING" \in TaskStatuses
        BY DEF TaskStatuses
      <4>2. status' \in [Task -> TaskStatuses]
        BY <3>2, <4>1, SetStatusType DEF BrokenOff, TaskTypeOK
      <4> QED BY <1>1, <3>2, <4>2 DEF Approve, BrokenOff, TaskTypeOK
    <3> QED BY <1>1, <3>1, <3>2, ApprovedRows
  <2>5. DispatchTypeOK' /\ HasTask'
    BY <1>1 DEF Approve, DispatchTypeOK, HasTask, Working, Steps
  <2> QED BY <1>1, <2>2, <2>3, <2>4, <2>5, Frames DEF Approve
<1>2. ASSUME NEW r \in Run, EmergencyStop(r) \/ CancelRun(r) PROVE TypeInv'
  <2> USE DEF TypeInv, TypeOK
  <2>1. RunTypeOK'
    BY <1>2 DEF EmergencyStop, CancelRun, RunTypeOK, RunStates, RunStatuses
  <2>2. TaskTypeOK'
    BY <1>2, SetStatusType DEF EmergencyStop, CancelRun, ControlFrame, taskVars,
       TaskTypeOK, TaskStatuses
  <2> QED BY <1>2, <2>1, <2>2, Frames DEF EmergencyStop, CancelRun, ControlFrame
<1>3. CASE UNCHANGED vars
  BY <1>3, Frames DEF vars, TypeInv, TypeOK
<1> QED
  BY <1>1, <1>2, <1>3, DispatchType, ControlType, TaskRequestType, BackgroundType
  DEF Next

\* Every variable has its type in every reachable state, and a dispatcher that
\* works has a task.
LEMMA TypeInvariant == Spec => []TypeInv
<1>1. Init => TypeInv
  BY TypeInit
<1>2. TypeInv /\ [Next]_vars => TypeInv'
  BY TypeStep
<1> QED BY <1>1, <1>2, PTL DEF Spec

\* Whatever the interleaving, the tables hold no value their columns do not
\* declare.
THEOREM TypeCorrect == Spec => []TypeOK
<1>1. TypeInv => TypeOK
  BY DEF TypeInv
<1> QED BY <1>1, TypeInvariant, PTL

-----------------------------------------------------------------------------
(* A run reported complete has no dispatcher left.                         *)

\* The type invariant is all the strengthening it needs: finalize_run is the
\* dispatcher's last step, and a dispatcher that has ended does not come back.
LEMMA IdleStep == TypeInv /\ CompletedRunIsIdle /\ [Next]_vars => CompletedRunIsIdle'
<1> SUFFICES ASSUME TypeInv, CompletedRunIsIdle, [Next]_vars PROVE CompletedRunIsIdle'
  OBVIOUS
<1> USE DEF TypeInv, TypeOK, RunTypeOK, DispatchTypeOK, CompletedRunIsIdle
<1>1. ASSUME NEW r \in Run, NEW wave \in {Package, Recommended}, Approve(r, wave)
      PROVE  CompletedRunIsIdle'
  BY <1>1 DEF Approve
<1>2. ASSUME NEW r \in Run, Dispatch(r) PROVE CompletedRunIsIdle'
  <2>1. CASE CloseRun(r)
    BY <2>1 DEF CloseRun, Goto
  <2>2. CASE Resolve(r)
    BY <2>2 DEF Resolve, runVars
  <2>3. CASE ~CloseRun(r) /\ ~Resolve(r)
    <3>1. runState' = runState
      BY <1>2, <2>3 DEF Dispatch, LaunchWithoutAgent, Launch, CheckStopped, CheckRunning,
         Pick, PickNothing, RouteNoAgent, Begin, UseTool, Finish, SettleLeaf, SettleRoot,
         Tally, FinalizeRoot, CountFailures, runVars
    <3>2. pc[r] \notin {"done", "lost"} /\ \A q \in Run \ {r} : pc'[q] = pc[q]
      BY <1>2, <2>3 DEF Dispatch, LaunchWithoutAgent, Launch, CheckStopped, CheckRunning,
         Pick, PickNothing, RouteNoAgent, Begin, UseTool, Finish, SettleLeaf, SettleRoot,
         Tally, FinalizeRoot, CountFailures, Goto
    <3> QED BY <3>1, <3>2
  <2> QED BY <2>1, <2>2, <2>3
<1>3. ASSUME NEW h \in Handler, Control(h) PROVE CompletedRunIsIdle'
  BY <1>3, SMTT(40) DEF Control, PauseRun, ResumeRun, StopRun, Request, PauseDone, ResumeDone,
     Complete, StopDrain, StopDone, ControlFrame, dispVars
<1>4. ASSUME NEW r \in Run, EmergencyStop(r) \/ CancelRun(r) PROVE CompletedRunIsIdle'
  BY <1>4 DEF EmergencyStop, CancelRun, ControlFrame, dispVars
<1>5. ASSUME NEW t \in Target,
             Retry(t) \/ Rerun(t) \/ TaskAction(t) \/ Age(t) \/ ReconcileTask(t)
      PROVE  CompletedRunIsIdle'
  BY <1>5 DEF Retry, Rerun, TaskAction, Age, ReconcileTask, ReconcileRead, TaskFrame, runVars, dispVars
<1>6. CASE WatchdogScan \/ WatchdogWrite \/ ReconcileWrite \/ ReconcileAll
  BY <1>6 DEF WatchdogScan, WatchdogWrite, ReconcileWrite, ReconcileAll, ReconcileRead, TaskFrame,
     runVars, dispVars
<1>7. CASE RejectPlan \/ DecidePackage \/ ToggleAgents \/ UNCHANGED vars
  BY <1>7 DEF RejectPlan, DecidePackage, ToggleAgents, vars, runVars, dispVars
<1>8. CASE Restart
  BY <1>8 DEF Restart, runVars
<1> QED
  BY <1>1, <1>2, <1>3, <1>4, <1>5, <1>6, <1>7, <1>8 DEF Next

\* No dispatcher works, or will ever work, for a run that reads COMPLETED.
THEOREM CompletedRunStaysIdle == Spec => []CompletedRunIsIdle
<1>1. Init => CompletedRunIsIdle
  BY DEF Init, CompletedRunIsIdle
<1>2. TypeInv /\ CompletedRunIsIdle /\ [Next]_vars => CompletedRunIsIdle'
  BY IdleStep
<1> QED BY <1>1, <1>2, TypeInvariant, PTL DEF Spec

-----------------------------------------------------------------------------
(* Attempt lineage.                                                        *)

\* The rows of a run that was never approved do not exist, and nobody has one
\* in hand: no dispatcher, no list of blocked rows, no request thread.
Approved(t) == pc[t[1]] # "none"
Untouched == \A t \in Task : ~Approved(t) => status[t] = "NONE" /\ attempts[t] = << >>
InHand ==
  /\ \A r \in Run : Working(r) => Approved(cur[r])
  /\ \A r \in Run : \A t \in todo[r] : Approved(t)
  /\ thr.kind = "watchdog" => \A t \in thr.fail \cup thr.block : Approved(t)
  /\ thr.kind = "reconcile" => \A t \in thr.good \cup thr.bad : Approved(t)
LineageInv == TypeInv /\ Untouched /\ InHand

\* An approved run stays approved.
LEMMA ApprovedForGood ==
  ASSUME TypeInv, [Next]_vars, NEW t \in Task, Approved(t)
  PROVE  Approved(t)'
<1> USE DEF TypeInv, TypeOK, DispatchTypeOK, Approved
<1>1. ASSUME NEW r \in Run, NEW wave \in {Package, Recommended}, Approve(r, wave)
      PROVE  Approved(t)'
  BY <1>1 DEF Approve
<1>2. ASSUME NEW r \in Run, Dispatch(r) PROVE Approved(t)'
  BY <1>2 DEF Dispatch, LaunchWithoutAgent, Launch, CheckStopped, CheckRunning, Resolve,
     Pick, PickNothing, RouteNoAgent, Begin, UseTool, Finish, SettleLeaf, SettleRoot,
     Tally, FinalizeRoot, CountFailures, CloseRun, Goto
<1>3. ASSUME NEW h \in Handler, Control(h) PROVE Approved(t)'
  BY <1>3 DEF Control, PauseRun, ResumeRun, StopRun, Request, PauseDone, ResumeDone,
     Complete, StopDrain, StopDone, ControlFrame, dispVars
<1>4. ASSUME NEW r \in Run, EmergencyStop(r) \/ CancelRun(r) PROVE Approved(t)'
  BY <1>4 DEF EmergencyStop, CancelRun, ControlFrame, dispVars
<1>5. ASSUME NEW u \in Target,
             Retry(u) \/ Rerun(u) \/ TaskAction(u) \/ Age(u) \/ ReconcileTask(u)
      PROVE  Approved(t)'
  BY <1>5 DEF Retry, Rerun, TaskAction, Age, ReconcileTask, ReconcileRead, TaskFrame, dispVars
<1>6. CASE WatchdogScan \/ WatchdogWrite \/ ReconcileWrite \/ ReconcileAll
           \/ RejectPlan \/ DecidePackage \/ ToggleAgents \/ UNCHANGED vars
  BY <1>6 DEF WatchdogScan, WatchdogWrite, ReconcileWrite, ReconcileAll, ReconcileRead,
     RejectPlan, DecidePackage, ToggleAgents, TaskFrame, vars, dispVars
<1>7. CASE Restart
  BY <1>7 DEF Restart
<1> QED BY <1>1, <1>2, <1>3, <1>4, <1>5, <1>6, <1>7 DEF Next

\* What a request thread has in hand are tasks.
LEMMA ThreadTasks ==
  ASSUME TypeInv
  PROVE  /\ thr.kind = "watchdog" => thr.fail \cup thr.block \subseteq Task
         /\ thr.kind = "reconcile" => thr.good \cup thr.bad \subseteq Task
BY DEF TypeInv, TypeOK, ThreadTypeOK, Asleep, AttemptStatuses

\* The dispatcher's tasks: what it selects exists.
LEMMA DispatchInHand ==
  ASSUME LineageInv, NEW r \in Run, Dispatch(r)
  PROVE  (Untouched /\ InHand)'
<1> USE DEF LineageInv, TypeInv, TypeOK, DispatchTypeOK, TaskTypeOK
<1>1. \A t \in Task : Approved(t) => Approved(t)'
  BY ApprovedForGood DEF Next, LineageInv
<1>2. \A t \in Task : Approved(t)' => Approved(t)
  BY DEF Approved, Dispatch, LaunchWithoutAgent, Launch, CheckStopped, CheckRunning, Resolve,
     Pick, PickNothing, RouteNoAgent, Begin, UseTool, Finish, SettleLeaf, SettleRoot,
     Tally, FinalizeRoot, CountFailures, CloseRun, Goto
<1>3. UNCHANGED thr
  BY DEF Dispatch, LaunchWithoutAgent, Launch, CheckStopped, CheckRunning, Resolve,
     Pick, PickNothing, RouteNoAgent, Begin, UseTool, Finish, SettleLeaf, SettleRoot,
     Tally, FinalizeRoot, CountFailures, CloseRun
<1>4. \A S : \A t \in Task : status[t] \in S /\ "NONE" \notin S => Approved(t)
  BY DEF Untouched
<1>5. ASSUME NEW t \in Task, ~Approved(t)
      PROVE  status'[t] = status[t] /\ attempts'[t] = attempts[t]
  <2>1. CASE LaunchWithoutAgent(r)
    BY <1>4, <1>5, <2>1 DEF LaunchWithoutAgent, SetStatus, Rows
  <2>2. CASE Launch(r) \/ CheckStopped(r) \/ CheckRunning(r) \/ Pick(r) \/ PickNothing(r)
             \/ UseTool(r) \/ Tally(r) \/ CountFailures(r)
    BY <2>2 DEF Launch, CheckStopped, CheckRunning, Pick, PickNothing, UseTool, Tally,
       CountFailures, taskVars
  <2>3. CASE Resolve(r)
    BY <1>5, <2>3 DEF Resolve, SetStatus, InHand
  <2>4. CASE RouteNoAgent(r) \/ SettleRoot(r)
    BY <1>5, <2>4 DEF RouteNoAgent, SettleRoot, SetStatus, InHand, Working
  <2>5. CASE Begin(r) \/ Finish(r) \/ SettleLeaf(r)
    BY <1>5, <2>5 DEF Begin, Finish, SettleLeaf, SetStatus, MarkAttempts, InHand, Working
  <2>6. CASE FinalizeRoot(r) \/ CloseRun(r)
    BY <1>5, <2>6 DEF FinalizeRoot, CloseRun, SetStatus, Approved
  <2> QED BY <2>1, <2>2, <2>3, <2>4, <2>5, <2>6 DEF Dispatch
<1>6. Untouched'
  BY <1>1, <1>5 DEF Untouched
<1>7. ASSUME NEW q \in Run, Working(q)' PROVE Approved(cur[q])'
  <2>1. CASE Working(q) /\ cur'[q] = cur[q]
    <3>1. cur[q] \in Task /\ Approved(cur[q])
      BY <2>1 DEF InHand, HasTask
    <3> QED BY <1>1, <2>1, <3>1 DEF Approved
  <2>2. CASE q = r /\ Pick(r)
    <3>1. PICK t \in Dispatchable : cur' = [cur EXCEPT ![r] = t]
      BY <2>2 DEF Pick
    <3>2. t \in Task /\ Approved(t)
      BY <1>4, <3>1 DEF Dispatchable, Rows
    <3> QED BY <1>1, <2>2, <3>1, <3>2 DEF Approved
  <2>3. CASE ~(q = r /\ Pick(r))
    <3>1. CASE q = r
      <4>1. Begin(r) \/ UseTool(r) \/ Finish(r)
        BY <1>7, <2>3, <3>1 DEF Working, Dispatch, LaunchWithoutAgent, Launch, CheckStopped,
           CheckRunning, Resolve, PickNothing, RouteNoAgent, SettleLeaf, SettleRoot, Tally,
           FinalizeRoot, CountFailures, CloseRun, Goto
      <4>2. Working(q) /\ cur'[q] = cur[q]
        BY <3>1, <4>1 DEF Working, Begin, UseTool, Finish
      <4> QED BY <2>1, <4>2
    <3>2. CASE q # r
      <4>1. Working(q)
        BY <1>7, <3>2 DEF Working, Dispatch, LaunchWithoutAgent, Launch, CheckStopped,
           CheckRunning, Resolve, Pick, PickNothing, RouteNoAgent, Begin, UseTool, Finish,
           SettleLeaf, SettleRoot, Tally, FinalizeRoot, CountFailures, CloseRun, Goto
      <4>2. cur'[q] = cur[q]
        BY <3>2 DEF Dispatch, LaunchWithoutAgent, Launch, CheckStopped,
           CheckRunning, Resolve, Pick, PickNothing, RouteNoAgent, Begin, UseTool, Finish,
           SettleLeaf, SettleRoot, Tally, FinalizeRoot, CountFailures, CloseRun
      <4> QED BY <2>1, <4>1, <4>2
    <3> QED BY <3>1, <3>2
  <2> QED BY <2>2, <2>3
<1>8. ASSUME NEW q \in Run, NEW t \in todo'[q] PROVE Approved(t)'
  <2>1. CASE CheckRunning(r) /\ q = r
    BY <1>1, <1>4, <1>8, <2>1 DEF CheckRunning, Rows
  <2>2. CASE ~(CheckRunning(r) /\ q = r)
    <3>1. CASE Resolve(r)
      <4>1. PICK bt \in todo[r] : todo' = [todo EXCEPT ![r] = @ \ {bt}]
        BY <3>1 DEF Resolve
      <4>2. t \in todo[q]
        BY <1>8, <4>1
      <4>3. t \in Task /\ Approved(t)
        BY <4>2 DEF InHand
      <4> QED BY <1>1, <4>3
    <3>2. CASE ~Resolve(r)
      BY <1>1, <1>8, <2>2, <3>2 DEF InHand, Dispatch, LaunchWithoutAgent, Launch,
         CheckStopped, CheckRunning, Pick, PickNothing, RouteNoAgent, Begin, UseTool, Finish,
         SettleLeaf, SettleRoot, Tally, FinalizeRoot, CountFailures, CloseRun
    <3> QED BY <3>1, <3>2
  <2> QED BY <2>1, <2>2
<1>9. /\ thr.kind = "watchdog" => \A t \in thr.fail \cup thr.block : Approved(t)'
      /\ thr.kind = "reconcile" => \A t \in thr.good \cup thr.bad : Approved(t)'
  BY <1>1, ThreadTasks DEF InHand, Approved
<1>10. InHand'
  <2>1. (\A q \in Run : Working(q) => Approved(cur[q]))'
    BY <1>7
  <2>2. (\A q \in Run : \A t \in todo[q] : Approved(t))'
    BY <1>8
  <2>3. (/\ thr.kind = "watchdog" => \A t \in thr.fail \cup thr.block : Approved(t)
         /\ thr.kind = "reconcile" => \A t \in thr.good \cup thr.bad : Approved(t))'
    BY <1>3, <1>9 DEF Approved
  <2> QED BY <2>1, <2>2, <2>3 DEF InHand
<1> QED BY <1>6, <1>10

LEMMA LineageInit == Init => LineageInv
<1> SUFFICES ASSUME Init PROVE LineageInv
  OBVIOUS
<1>1. TypeInv
  BY TypeInit
<1>2. Untouched /\ InHand
  BY DEF Init, Untouched, InHand, Working, Asleep
<1> QED BY <1>1, <1>2 DEF LineageInv

LEMMA LineageStep == LineageInv /\ [Next]_vars => LineageInv'
<1> SUFFICES ASSUME LineageInv, [Next]_vars PROVE (Untouched /\ InHand)'
  BY TypeStep DEF LineageInv
<1> USE DEF LineageInv, TypeInv, TypeOK, DispatchTypeOK, TaskTypeOK
<1>1. \A t \in Task : Approved(t) => Approved(t)'
  BY ApprovedForGood
<1>2. \A S : \A t \in Task : status[t] \in S /\ "NONE" \notin S => Approved(t)
  BY DEF Untouched
\* A step that gives no dispatcher a task keeps InHand.
<1>3. ASSUME pc' = pc, cur' = cur, todo' = todo, thr' = thr PROVE InHand'
  BY <1>3, <1>1 DEF InHand, Working, Approved
<1>4. ASSUME \A t \in Task : ~Approved(t) =>
               status'[t] = status[t] /\ attempts'[t] = attempts[t]
      PROVE  Untouched'
  BY <1>1, <1>4 DEF Untouched
<1>5. ASSUME NEW r \in Run, NEW wave \in {Package, Recommended}, Approve(r, wave)
      PROVE  (Untouched /\ InHand)'
  <2>1. Untouched'
    <3>1. pc[r] = "none" /\ pc'[r] # "none" /\ \A q \in Run \ {r} : pc'[q] = pc[q]
      BY <1>5 DEF Approve
    <3>2. ASSUME NEW t \in Task, ~Approved(t)'
          PROVE  status'[t] = status[t] /\ attempts'[t] = attempts[t] /\ ~Approved(t)
      <4>1. t[1] # r /\ ~Approved(t)
        BY <3>1, <3>2 DEF Approved
      <4>2. CASE Released(r, wave)
        BY <4>1, <4>2 DEF Released
      <4>3. CASE BrokenOff(r)
        BY <4>1, <4>3 DEF BrokenOff, SetStatus
      <4> QED BY <1>5, <4>1, <4>2, <4>3, ApprovedRows
    <3> QED BY <3>2 DEF Untouched
  <2>2. InHand'
    BY <1>5, <1>1, ThreadTasks, ZenonT(60) DEF Approve, InHand, Working, Approved, HasTask
  <2> QED BY <2>1, <2>2
<1>6. ASSUME NEW r \in Run, Dispatch(r) PROVE (Untouched /\ InHand)'
  BY <1>6, DispatchInHand
<1>7. ASSUME NEW h \in Handler, Control(h) PROVE (Untouched /\ InHand)'
  <2>1. \A t \in Task : ~Approved(t) => status'[t] = status[t] /\ attempts'[t] = attempts[t]
    <3>1. CASE StopDone(h)
      BY <1>2, <3>1 DEF StopDone, ControlFrame, SetStatus, Rows
    <3>2. CASE ~StopDone(h)
      BY <1>7, <3>2 DEF Control, PauseRun, ResumeRun, StopRun, Request, PauseDone,
         ResumeDone, Complete, StopDrain, ControlFrame
    <3> QED BY <3>1, <3>2
  <2>2. pc' = pc /\ cur' = cur /\ todo' = todo /\ thr' = thr
    BY <1>7 DEF Control, PauseRun, ResumeRun, StopRun, Request, PauseDone, ResumeDone,
       Complete, StopDrain, StopDone, ControlFrame, dispVars
  <2> QED BY <1>3, <1>4, <2>1, <2>2
<1>8. ASSUME NEW r \in Run, EmergencyStop(r) \/ CancelRun(r) PROVE (Untouched /\ InHand)'
  <2>1. \A t \in Task : ~Approved(t) => status'[t] = status[t] /\ attempts'[t] = attempts[t]
    BY <1>8 DEF EmergencyStop, CancelRun, ControlFrame, taskVars, SetStatus, Rows, Spared,
       Untouched
  <2>2. pc' = pc /\ cur' = cur /\ todo' = todo /\ thr' = thr
    BY <1>8 DEF EmergencyStop, CancelRun, ControlFrame, dispVars
  <2> QED BY <1>3, <1>4, <2>1, <2>2
<1>9. ASSUME NEW u \in Target,
             Retry(u) \/ Rerun(u) \/ TaskAction(u) \/ Age(u) \/ ReconcileTask(u)
      PROVE  (Untouched /\ InHand)'
  <2>1. u \in Task /\ Approved(u)
    BY <1>9 DEF Target, Retry, Rerun, TaskAction, Age, ReconcileTask, Untouched, Ended, Good
  <2>2. \A t \in Task : ~Approved(t) => status'[t] = status[t] /\ attempts'[t] = attempts[t]
    BY <1>9, <2>1 DEF Retry, Rerun, TaskAction, Age, ReconcileTask, ReconcileRead, SetStatus
  <2>3. pc' = pc /\ cur' = cur /\ todo' = todo
    BY <1>9 DEF Retry, Rerun, TaskAction, Age, ReconcileTask, ReconcileRead, TaskFrame, dispVars
  <2>4. thr' = thr \/ (thr'.kind = "reconcile" /\ thr'.good \cup thr'.bad \subseteq {u})
    BY <1>9 DEF Retry, Rerun, TaskAction, Age, ReconcileTask, ReconcileRead
  <2>5. InHand'
    BY <1>3, <2>1, <2>3, <2>4 DEF InHand, Working, Approved
  <2> QED BY <1>4, <2>2, <2>5
<1>10. CASE WatchdogScan
  <2>1. thr'.kind = "watchdog" /\ thr'.fail \cup thr'.block \subseteq Rows({"RUNNING", "WAITING_FOR_AGENT"})
    BY <1>10 DEF WatchdogScan
  <2>2. UNCHANGED <<status, attempts, pc, cur, todo>>
    BY <1>10 DEF WatchdogScan, TaskFrame, dispVars
  <2>3. \A t \in thr'.fail \cup thr'.block : t \in Task /\ Approved(t)
    BY <1>2, <2>1 DEF Rows
  <2>4. InHand'
    BY <2>1, <2>2, <2>3 DEF InHand, Working, Approved
  <2> QED BY <1>4, <2>2, <2>4
<1>11. CASE WatchdogWrite \/ ReconcileWrite
  <2>1. \A t \in Task : ~Approved(t) => status'[t] = status[t] /\ attempts'[t] = attempts[t]
    BY <1>11, SMTT(40) DEF WatchdogWrite, ReconcileWrite, MarkAttempts, InHand
  <2>2. UNCHANGED <<pc, cur, todo>> /\ thr' = Asleep
    BY <1>11 DEF WatchdogWrite, ReconcileWrite, TaskFrame, dispVars
  <2>3. InHand'
    BY <2>2 DEF InHand, Working, Approved, Asleep
  <2> QED BY <1>4, <2>1, <2>3
<1>12. CASE ReconcileAll
  <2>1. /\ thr'.kind = "reconcile"
        /\ thr'.good \cup thr'.bad \subseteq Rows(Ended)
    BY <1>12 DEF ReconcileAll, ReconcileRead, Rows, Ended
  <2>2. UNCHANGED <<status, attempts, pc, cur, todo>>
    BY <1>12 DEF ReconcileAll, ReconcileRead, TaskFrame, dispVars
  <2>3. \A t \in thr'.good \cup thr'.bad : t \in Task /\ Approved(t)
    BY <1>2, <2>1 DEF Rows, Ended, Good
  <2>4. InHand'
    BY <2>1, <2>2, <2>3 DEF InHand, Working, Approved
  <2> QED BY <1>4, <2>2, <2>4
<1>13. CASE RejectPlan \/ DecidePackage \/ ToggleAgents \/ UNCHANGED vars
  <2>1. UNCHANGED <<status, attempts, pc, cur, todo, thr>>
    BY <1>13 DEF RejectPlan, DecidePackage, ToggleAgents, vars, taskVars, dispVars
  <2> QED BY <1>3, <1>4, <2>1
<1>14. CASE Restart
  <2>1. UNCHANGED <<status, attempts, todo>> /\ thr' = Asleep /\ \A q \in Run : ~Working(q)'
    BY <1>14 DEF Restart, taskVars, Working
  <2>2. InHand'
    BY <1>1, <2>1 DEF InHand, Asleep
  <2> QED BY <1>4, <2>1, <2>2
<1> QED
  BY <1>5, <1>6, <1>7, <1>8, <1>9, <1>10, <1>11, <1>12, <1>13, <1>14 DEF Next

LEMMA ExtendsRefl == ASSUME NEW s PROVE Extends(s, s)
BY DEF Extends

\* An UPDATE that selects attempts by an open status keeps the history.
LEMMA MarkAttemptsExtends ==
  ASSUME attempts \in [Task -> Seq(AttemptStatuses)], NEW S, NEW from,
         NEW v \in AttemptStatuses, from \subseteq {"PENDING", "RUNNING"}, NEW t \in Task
  PROVE  Extends(MarkAttempts(S, from, v)[t], attempts[t])
<1>1. CASE t \in S
  <2>1. \A i \in 1 .. Len(attempts[t]) :
           Retag(attempts[t], from, v)[i] = IF attempts[t][i] \in from THEN v ELSE attempts[t][i]
    BY DEF Retag
  <2>2. Len(Retag(attempts[t], from, v)) = Len(attempts[t]) /\ Len(attempts[t]) \in Nat
    <3>1. attempts[t] \in Seq(AttemptStatuses)
      OBVIOUS
    <3> QED BY <3>1, RetagType
  <2>3. MarkAttempts(S, from, v)[t] = Retag(attempts[t], from, v)
    BY <1>1 DEF MarkAttempts
  <2>4. \A x \in EndedAttempt : x \notin from
    BY DEF EndedAttempt
  <2> QED BY <2>1, <2>2, <2>3, <2>4 DEF Extends
<1>2. CASE t \notin S
  BY <1>2 DEF MarkAttempts, Extends
<1> QED BY <1>1, <1>2

LEMMA AppendExtends ==
  ASSUME NEW s \in Seq(AttemptStatuses), NEW v PROVE Extends(Append(s, v), s)
BY DEF Extends

LEMMA HistoryStep ==
  ASSUME LineageInv, [Next]_vars, NEW t \in Task
  PROVE  Extends(attempts'[t], attempts[t])
<1> USE DEF LineageInv, TypeInv, TypeOK, TaskTypeOK
<1>1. ASSUME NEW r \in Run, NEW wave \in {Package, Recommended}, Approve(r, wave)
      PROVE  Extends(attempts'[t], attempts[t])
  <2>1. CASE t[1] = r
    BY <1>1, <2>1 DEF Approve, Untouched, Approved, Extends
  <2>2. CASE t[1] # r
    BY <1>1, <2>2, ExtendsRefl DEF Approve
  <2> QED BY <2>1, <2>2
<1>2. ASSUME NEW r \in Run, Dispatch(r) PROVE Extends(attempts'[t], attempts[t])
  <2>1. CASE Begin(r)
    BY <2>1, MarkAttemptsExtends DEF Begin, AttemptStatuses
  <2>2. CASE Finish(r) \/ SettleLeaf(r)
    BY <2>2, MarkAttemptsExtends, VerdictType DEF Finish, SettleLeaf
  <2>3. CASE ~Begin(r) /\ ~Finish(r) /\ ~SettleLeaf(r)
    BY <1>2, <2>3, ExtendsRefl DEF Dispatch, LaunchWithoutAgent, Launch, CheckStopped,
       CheckRunning, Resolve, Pick, PickNothing, RouteNoAgent, UseTool, SettleRoot, Tally,
       FinalizeRoot, CountFailures, CloseRun, taskVars
  <2> QED BY <2>1, <2>2, <2>3
<1>3. ASSUME NEW u \in Target, Retry(u) \/ Rerun(u) PROVE Extends(attempts'[t], attempts[t])
  <2>1. attempts' = [attempts EXCEPT ![u] = Append(attempts[u], "RUNNING")]
    BY <1>3 DEF Retry, Rerun
  <2>2. CASE t = u
    BY <2>1, <2>2, AppendExtends
  <2>3. CASE t # u
    BY <2>1, <2>3, ExtendsRefl
  <2> QED BY <2>2, <2>3
<1>4. CASE WatchdogWrite
  BY <1>4, MarkAttemptsExtends DEF WatchdogWrite, AttemptStatuses
<1>5. CASE ReconcileWrite
  <2>1. /\ Extends(MarkAttempts({t}, Open, "COMPLETED")[t], attempts[t])
        /\ Extends(MarkAttempts({t}, Open, "FAILED")[t], attempts[t])
    BY MarkAttemptsExtends DEF Open, AttemptStatuses
  <2> QED BY <1>5, <2>1, ReconciledRow, ExtendsRefl
<1>6. CASE ReconcileAll
  BY <1>6, ExtendsRefl DEF ReconcileAll, ReconcileRead
<1>7. CASE UNCHANGED attempts
  BY <1>7, ExtendsRefl
<1> QED
  <2>1. ASSUME NEW h \in Handler, Control(h) PROVE UNCHANGED attempts
    BY <2>1 DEF Control, PauseRun, ResumeRun, StopRun, Request, PauseDone, ResumeDone,
       Complete, StopDrain, StopDone, ControlFrame
  <2>2. ASSUME NEW r \in Run, EmergencyStop(r) \/ CancelRun(r) PROVE UNCHANGED attempts
    BY <2>2 DEF EmergencyStop, CancelRun, ControlFrame, taskVars
  <2>3. ASSUME NEW u \in Target, TaskAction(u) \/ Age(u) \/ ReconcileTask(u)
        PROVE  UNCHANGED attempts
    BY <2>3 DEF TaskAction, Age, ReconcileTask, ReconcileRead
  <2>4. RejectPlan \/ DecidePackage \/ ToggleAgents \/ WatchdogScan \/ Restart => UNCHANGED attempts
    BY DEF RejectPlan, DecidePackage, ToggleAgents, WatchdogScan, Restart, taskVars
  <2>5. UNCHANGED vars => UNCHANGED attempts
    BY DEF vars, taskVars
  <2> QED BY <1>1, <1>2, <1>3, <1>4, <1>5, <1>6, <1>7, <2>1, <2>2, <2>3, <2>4, <2>5 DEF Next

\* No request, dispatcher or watchdog rewrites the end of an attempt.
THEOREM AttemptLineage == Spec => AttemptHistoryImmutable
<1>1. Init => LineageInv
  BY LineageInit
<1>2. LineageInv /\ [Next]_vars => LineageInv'
  BY LineageStep
<1>3. LineageInv /\ [Next]_vars => [\A t \in Task : Extends(attempts'[t], attempts[t])]_attempts
  BY HistoryStep
<1> QED BY <1>1, <1>2, <1>3, PTL DEF Spec, AttemptHistoryImmutable

-----------------------------------------------------------------------------
(* One dispatcher per task.                                                *)

\* A task collects an attempt with every retry it is charged.
Counted == \A t \in Task : retries[t] <= Len(attempts[t])

LEMMA RetriesGrow ==
  ASSUME LineageInv, Counted, [Next]_vars, NEW t \in Task
  PROVE  retries[t] <= retries'[t] /\ retries'[t] <= Len(attempts'[t])
<1> USE DEF LineageInv, TypeInv, TypeOK, TaskTypeOK
<1>1. retries[t] \in Nat /\ attempts[t] \in Seq(AttemptStatuses) /\ retries[t] <= Len(attempts[t])
  BY DEF Counted
<1>2. \A S, from : \A v \in AttemptStatuses :
        Len(MarkAttempts(S, from, v)[t]) = Len(attempts[t])
  BY <1>1, RetagType DEF MarkAttempts
<1>3. ASSUME NEW r \in Run, NEW wave \in {Package, Recommended}, Approve(r, wave)
      PROVE  retries'[t] = retries[t] /\ Len(attempts'[t]) >= Len(attempts[t])
  <2>1. t[1] = r => attempts[t] = << >>
    BY <1>3 DEF Approve, Untouched, Approved
  <2> QED BY <1>1, <1>3, <2>1 DEF Approve
<1>4. ASSUME NEW r \in Run, Dispatch(r)
      PROVE  retries'[t] = retries[t] /\ Len(attempts'[t]) = Len(attempts[t])
  <2>1. CASE Begin(r)
    BY <1>2, <2>1 DEF Begin, AttemptStatuses
  <2>2. CASE Finish(r) \/ SettleLeaf(r)
    BY <1>2, <2>2, VerdictType DEF Finish, SettleLeaf
  <2>3. CASE ~Begin(r) /\ ~Finish(r) /\ ~SettleLeaf(r)
    BY <1>4, <2>3 DEF Dispatch, LaunchWithoutAgent, Launch, CheckStopped,
       CheckRunning, Resolve, Pick, PickNothing, RouteNoAgent, UseTool, SettleRoot, Tally,
       FinalizeRoot, CountFailures, CloseRun, taskVars
  <2> QED BY <2>1, <2>2, <2>3
<1>5. ASSUME NEW u \in Target, Retry(u) \/ Rerun(u)
      PROVE  retries[t] <= retries'[t] /\ retries'[t] <= Len(attempts'[t])
  <2>1. attempts' = [attempts EXCEPT ![u] = Append(attempts[u], "RUNNING")]
    BY <1>5 DEF Retry, Rerun
  <2>2. retries' = [retries EXCEPT ![u] = retries[u] + 1]
        \/ retries' = [retries EXCEPT ![u] = Len(attempts[u])]
    BY <1>5 DEF Retry, Rerun
  <2>3. CASE t = u
    <3>1. Len(attempts'[t]) = Len(attempts[t]) + 1
      BY <1>1, <2>1, <2>3
    <3>2. retries'[t] = retries[t] + 1 \/ retries'[t] = Len(attempts[t])
      BY <2>2, <2>3
    <3>3. Len(attempts[t]) \in Nat
      BY <1>1
    <3> QED BY <1>1, <3>1, <3>2, <3>3
  <2>4. CASE t # u
    BY <1>1, <2>1, <2>2, <2>4
  <2> QED BY <2>3, <2>4
<1>6. CASE WatchdogWrite
  BY <1>1, <1>2, <1>6 DEF WatchdogWrite, AttemptStatuses
<1>7. CASE ReconcileWrite
  <2>1. retries' = retries
    BY <1>7 DEF ReconcileWrite
  <2>2. /\ Len(MarkAttempts({t}, Open, "COMPLETED")[t]) = Len(attempts[t])
        /\ Len(MarkAttempts({t}, Open, "FAILED")[t]) = Len(attempts[t])
    BY <1>2 DEF AttemptStatuses
  <2>3. Len(attempts'[t]) = Len(attempts[t])
    <3>1. attempts'[t] \in {attempts[t], MarkAttempts({t}, Open, "COMPLETED")[t],
                           MarkAttempts({t}, Open, "FAILED")[t]}
      BY <1>7, ReconciledRow
    <3> QED BY <2>2, <3>1
  <2> QED BY <1>1, <2>1, <2>3
<1>8. CASE UNCHANGED <<retries, attempts>>
  BY <1>1, <1>8
<1>9. (retries'[t] = retries[t] /\ Len(attempts'[t]) >= Len(attempts[t]))
        => retries[t] <= retries'[t] /\ retries'[t] <= Len(attempts'[t])
  <2> SUFFICES ASSUME retries'[t] = retries[t], Len(attempts'[t]) >= Len(attempts[t])
               PROVE  retries[t] <= retries'[t] /\ retries'[t] <= Len(attempts'[t])
    OBVIOUS
  <2>1. attempts'[t] \in Seq(AttemptStatuses)
    BY TypeStep
  <2> QED BY <1>1, <2>1
<1> QED
  <2>1. ASSUME NEW h \in Handler, Control(h) PROVE UNCHANGED <<retries, attempts>>
    BY <2>1 DEF Control, PauseRun, ResumeRun, StopRun, Request, PauseDone, ResumeDone,
       Complete, StopDrain, StopDone, ControlFrame
  <2>2. ASSUME NEW r \in Run, EmergencyStop(r) \/ CancelRun(r)
        PROVE  UNCHANGED <<retries, attempts>>
    BY <2>2 DEF EmergencyStop, CancelRun, ControlFrame, taskVars
  <2>3. ASSUME NEW u \in Target, TaskAction(u) \/ Age(u) \/ ReconcileTask(u)
        PROVE  UNCHANGED <<retries, attempts>>
    BY <2>3 DEF TaskAction, Age, ReconcileTask, ReconcileRead
  <2>4. RejectPlan \/ DecidePackage \/ ToggleAgents \/ WatchdogScan \/ ReconcileAll \/ Restart
          => UNCHANGED <<retries, attempts>>
    BY DEF RejectPlan, DecidePackage, ToggleAgents, WatchdogScan, ReconcileAll, ReconcileRead,
       Restart, taskVars
  <2>5. UNCHANGED vars => UNCHANGED <<retries, attempts>>
    BY DEF vars, taskVars
  <2>6. Len(attempts[t]) \in Nat
    BY <1>1
  <2> QED BY <1>3, <1>4, <1>5, <1>6, <1>7, <1>8, <1>9, <2>1, <2>2, <2>3, <2>4, <2>5, <2>6
          DEF Next

\* A dispatcher that has selected a task and not begun it holds the event loop.
Holding == \A r \in Run : pc[r] = "route" => loop = r

LEMMA HoldingStep == TypeInv /\ Holding /\ [Next]_vars => Holding'
<1> SUFFICES ASSUME TypeInv, Holding, [Next]_vars, NEW q \in Run, pc'[q] = "route"
             PROVE  loop' = q
  BY DEF Holding
<1> USE DEF TypeInv, TypeOK, DispatchTypeOK, Holding
<1>1. ASSUME NEW r \in Run, NEW wave \in {Package, Recommended}, Approve(r, wave)
      PROVE  loop' = q
  BY <1>1 DEF Approve
<1>2. ASSUME NEW r \in Run, Dispatch(r) PROVE loop' = q
  <2>1. CASE Resolve(r)
    BY <2>1 DEF Resolve, HasLoop, Free
  <2>2. CASE Pick(r)
    BY <2>2 DEF Pick, HasLoop, Goto, Free
  <2>3. CASE ~Resolve(r) /\ ~Pick(r)
    <3>1. q # r
      BY <1>2, <2>3 DEF Dispatch, LaunchWithoutAgent, Launch, CheckStopped, CheckRunning,
         PickNothing, RouteNoAgent, Begin, UseTool, Finish, SettleLeaf, SettleRoot, Tally,
         FinalizeRoot, CountFailures, CloseRun, Goto
    <3>2. pc[q] = "route"
      BY <1>2, <2>3, <3>1 DEF Dispatch, LaunchWithoutAgent, Launch, CheckStopped,
         CheckRunning, PickNothing, RouteNoAgent, Begin, UseTool, Finish, SettleLeaf,
         SettleRoot, Tally, FinalizeRoot, CountFailures, CloseRun, Goto
    <3>3. loop = Free \/ loop = r
      BY <1>2, <2>3 DEF Dispatch, LaunchWithoutAgent, Launch, CheckStopped, CheckRunning,
         PickNothing, RouteNoAgent, Begin, UseTool, Finish, SettleLeaf, SettleRoot, Tally,
         FinalizeRoot, CountFailures, CloseRun, HasLoop
    <3> QED BY <3>1, <3>2, <3>3 DEF Free
  <2> QED BY <2>1, <2>2, <2>3
<1>3. ASSUME NEW h \in Handler, Control(h) PROVE loop' = q
  BY <1>3 DEF Control, PauseRun, ResumeRun, StopRun, Request, PauseDone, ResumeDone,
     Complete, StopDrain, StopDone, ControlFrame, dispVars
<1>4. ASSUME NEW r \in Run, EmergencyStop(r) \/ CancelRun(r) PROVE loop' = q
  BY <1>4 DEF EmergencyStop, CancelRun, ControlFrame, dispVars
<1>5. ASSUME NEW u \in Target,
             Retry(u) \/ Rerun(u) \/ TaskAction(u) \/ Age(u) \/ ReconcileTask(u)
      PROVE  loop' = q
  BY <1>5 DEF Retry, Rerun, TaskAction, Age, ReconcileTask, ReconcileRead, TaskFrame, dispVars
<1>6. CASE WatchdogScan \/ WatchdogWrite \/ ReconcileWrite \/ ReconcileAll
           \/ RejectPlan \/ DecidePackage \/ ToggleAgents \/ UNCHANGED vars
  BY <1>6 DEF WatchdogScan, WatchdogWrite, ReconcileWrite, ReconcileAll, ReconcileRead,
     RejectPlan, DecidePackage, ToggleAgents, TaskFrame, vars, dispVars
<1>7. CASE Restart
  BY <1>7 DEF Restart
<1> QED BY <1>1, <1>2, <1>3, <1>4, <1>5, <1>6, <1>7 DEF Next

\* Only a task with dependencies, or one that has used up its retries, is ever
\* put back in line; a task with a dispatcher is otherwise in no line.
InLine == {"QUEUED", "BLOCKED", "WAITING_FOR_AGENT"}
Begun(r) == pc[r] \in {"tool", "finish", "settle"}
BlockedRequeued == \A t \in Task : status[t] = "BLOCKED" => Requeued(t)
ListsRequeued ==
  /\ \A r \in Run : \A t \in todo[r] : Requeued(t)
  /\ thr.kind = "watchdog" => \A t \in thr.block : Requeued(t)
BegunLeftLine == \A r \in Run : Begun(r) /\ ~Requeued(cur[r]) => status[cur[r]] \notin InLine
SoleInv ==
  /\ LineageInv /\ Counted /\ Holding
  /\ BlockedRequeued /\ ListsRequeued /\ BegunLeftLine /\ SoleExecutor

\* What is put back in line stays so: no retry is ever forgotten.
LEMMA RequeuedForGood ==
  ASSUME LineageInv, Counted, [Next]_vars, NEW t \in Task, Requeued(t)
  PROVE  Requeued(t)'
<1>1. retries[t] \in Nat /\ retries'[t] \in Nat
  BY TypeStep DEF LineageInv, TypeInv, TypeOK, TaskTypeOK
<1>2. retries[t] <= retries'[t]
  BY RetriesGrow
<1> QED BY <1>1, <1>2 DEF Requeued

\* A task that has been begun gets into line only through those two doors.
LEMMA LineStep ==
  ASSUME SoleInv, [Next]_vars, NEW q \in Run, Begun(q), ~Requeued(cur[q]),
         cur'[q] = cur[q], Begun(q)'
  PROVE  status'[cur[q]] \notin InLine
<1> DEFINE own == cur[q]
<1> USE DEF InLine
<1>0. TypeOK /\ HasTask /\ InHand /\ ListsRequeued /\ BegunLeftLine /\ SoleExecutor
  BY DEF SoleInv, LineageInv, TypeInv
<1>1. own \in Task /\ Approved(own) /\ status[own] \notin InLine
  BY <1>0 DEF Begun, Working, HasTask, InHand, BegunLeftLine
<1>11. pc \in [Run -> Steps] /\ pc[q] # "none"
  BY <1>0 DEF TypeOK, DispatchTypeOK, Begun
<1> SUFFICES status'[own] \notin InLine
  OBVIOUS
<1> HIDE DEF own
<1>2. ASSUME NEW r \in Run, NEW wave \in {Package, Recommended}, Approve(r, wave)
      PROVE  status'[own] \notin InLine
  <2>1. own[1] # r
    BY <1>1, <1>2 DEF Approve, Approved
  <2>2. CASE Released(r, wave)
    BY <1>1, <2>1, <2>2 DEF Released
  <2>3. CASE BrokenOff(r)
    BY <1>1, <2>3 DEF BrokenOff, SetStatus
  <2> QED BY <1>2, <2>2, <2>3, ApprovedRows
<1>3. ASSUME NEW r \in Run, Dispatch(r) PROVE status'[own] \notin InLine
  <2>1. CASE LaunchWithoutAgent(r)
    BY <1>1, <2>1 DEF LaunchWithoutAgent, SetStatus, Rows
  <2>2. CASE Resolve(r)
    <3>1. own \notin todo[r]
      BY <1>0 DEF ListsRequeued, own
    <3> QED BY <1>1, <2>2, <3>1 DEF Resolve, SetStatus
  <2>3. CASE RouteNoAgent(r)
    <3>1. r # q
      BY <2>3 DEF RouteNoAgent, Begun
    <3>2. cur[r] # own
      BY <1>0, <2>3, <3>1 DEF RouteNoAgent, SoleExecutor, Working, Begun, own
    <3> QED BY <1>1, <2>3, <3>2 DEF RouteNoAgent, SetStatus
  <2>4. CASE Begin(r) \/ CloseRun(r)
    BY <1>1, <2>4 DEF Begin, CloseRun, SetStatus
  <2>5. CASE Finish(r) \/ SettleLeaf(r)
    <3>1. PICK v \in {"SUCCEEDED", "FAILED"} : status' = SetStatus({cur[r]}, v)
      BY <2>5 DEF Finish, SettleLeaf, Verdict
    <3> QED BY <1>1, <3>1 DEF SetStatus
  <2>6. CASE SettleRoot(r)
    <3>1. r # q
      BY <1>11, <2>6 DEF SettleRoot, Goto, Begun
    <3>2. cur[r] # own
      BY <1>0, <2>6, <3>1 DEF SettleRoot, SoleExecutor, Working, Begun, own
    <3> QED BY <1>1, <2>6, <3>2 DEF SettleRoot, SetStatus
  <2>7. CASE FinalizeRoot(r)
    BY <1>1, <2>7 DEF FinalizeRoot, SetStatus, RootOutcome
  <2>8. CASE Launch(r) \/ CheckStopped(r) \/ CheckRunning(r) \/ Pick(r) \/ PickNothing(r)
             \/ UseTool(r) \/ Tally(r) \/ CountFailures(r)
    BY <1>1, <2>8 DEF Launch, CheckStopped, CheckRunning, Pick, PickNothing, UseTool, Tally,
       CountFailures, taskVars
  <2> QED BY <1>3, <2>1, <2>2, <2>3, <2>4, <2>5, <2>6, <2>7, <2>8 DEF Dispatch
<1>4. ASSUME NEW h \in Handler, Control(h) PROVE status'[own] \notin InLine
  <2>1. CASE StopDone(h)
    BY <1>1, <2>1 DEF StopDone, SetStatus
  <2>2. CASE ~StopDone(h)
    BY <1>1, <1>4, <2>2 DEF Control, PauseRun, ResumeRun, StopRun, Request, PauseDone,
       ResumeDone, Complete, StopDrain
  <2> QED BY <2>1, <2>2
<1>5. ASSUME NEW r \in Run, EmergencyStop(r) \/ CancelRun(r) PROVE status'[own] \notin InLine
  BY <1>1, <1>5 DEF EmergencyStop, CancelRun, taskVars, SetStatus
<1>6. ASSUME NEW u \in Target,
             Retry(u) \/ Rerun(u) \/ TaskAction(u) \/ Age(u) \/ ReconcileTask(u)
      PROVE  status'[own] \notin InLine
  BY <1>1, <1>6 DEF Retry, Rerun, TaskAction, Age, ReconcileTask, ReconcileRead, SetStatus
<1>7. CASE WatchdogWrite
  <2>1. own \notin thr.block
    BY <1>0, <1>7 DEF WatchdogWrite, ListsRequeued, own
  <2> QED BY <1>1, <1>7, <2>1 DEF WatchdogWrite
<1>8. CASE WatchdogScan \/ ReconcileWrite \/ ReconcileAll \/ RejectPlan \/ DecidePackage
           \/ ToggleAgents \/ Restart \/ UNCHANGED vars
  BY <1>1, <1>8 DEF WatchdogScan, ReconcileWrite, ReconcileAll, ReconcileRead, RejectPlan,
     DecidePackage, ToggleAgents, Restart, vars, taskVars
<1> HIDE DEF InLine
<1> QED BY <1>2, <1>3, <1>4, <1>5, <1>6, <1>7, <1>8 DEF Next

\* What a dispatcher's step does to its own place in the program.
LEMMA PlaceStep ==
  ASSUME TypeInv, NEW r \in Run, Dispatch(r)
  PROVE  /\ \A q \in Run \ {r} : pc'[q] = pc[q] /\ cur'[q] = cur[q]
         /\ pc'[r] = "route" => Pick(r)
         /\ Begun(r)' => Begin(r) \/ UseTool(r) \/ Finish(r)
<1> USE DEF TypeInv, TypeOK, DispatchTypeOK
<1>1. CASE Resolve(r)
  BY <1>1 DEF Resolve, Begun
<1>2. CASE Pick(r)
  BY <1>2 DEF Pick, Goto, Begun
<1>3. CASE LaunchWithoutAgent(r) \/ Launch(r) \/ CheckStopped(r) \/ CheckRunning(r)
           \/ PickNothing(r) \/ RouteNoAgent(r) \/ Begin(r) \/ UseTool(r) \/ Finish(r)
           \/ SettleLeaf(r) \/ SettleRoot(r) \/ Tally(r) \/ FinalizeRoot(r)
           \/ CountFailures(r) \/ CloseRun(r)
  BY <1>3, ZenonT(60) DEF LaunchWithoutAgent, Launch, CheckStopped, CheckRunning,
     PickNothing, RouteNoAgent, Begin, UseTool, Finish, SettleLeaf, SettleRoot, Tally,
     FinalizeRoot, CountFailures, CloseRun, Goto, Begun
<1> QED BY <1>1, <1>2, <1>3 DEF Dispatch

\* A step of nobody's program leaves the dispatchers where they are, or ends them.
LEMMA OtherPlaceStep ==
  ASSUME TypeInv, [Next]_vars, \A r \in Run : ~Dispatch(r), NEW q \in Run, Working(q)'
  PROVE  Working(q) /\ pc'[q] = pc[q] /\ cur'[q] = cur[q]
<1> USE DEF TypeInv, TypeOK, DispatchTypeOK, Working
<1>1. ASSUME NEW r \in Run, NEW wave \in {Package, Recommended}, Approve(r, wave)
      PROVE  Working(q) /\ pc'[q] = pc[q] /\ cur'[q] = cur[q]
  BY <1>1 DEF Approve
<1>2. CASE Restart
  BY <1>2 DEF Restart
<1>3. CASE pc' = pc /\ cur' = cur
  BY <1>3
<1>4. ASSUME NEW h \in Handler, Control(h) PROVE pc' = pc /\ cur' = cur
  BY <1>4 DEF Control, PauseRun, ResumeRun, StopRun, Request, PauseDone, ResumeDone,
     Complete, StopDrain, StopDone, ControlFrame, dispVars
<1>5. ASSUME NEW r \in Run, EmergencyStop(r) \/ CancelRun(r) PROVE pc' = pc /\ cur' = cur
  BY <1>5 DEF EmergencyStop, CancelRun, ControlFrame, dispVars
<1>6. ASSUME NEW u \in Target,
             Retry(u) \/ Rerun(u) \/ TaskAction(u) \/ Age(u) \/ ReconcileTask(u)
      PROVE  pc' = pc /\ cur' = cur
  BY <1>6 DEF Retry, Rerun, TaskAction, Age, ReconcileTask, ReconcileRead, TaskFrame, dispVars
<1>7. CASE WatchdogScan \/ WatchdogWrite \/ ReconcileWrite \/ ReconcileAll
           \/ RejectPlan \/ DecidePackage \/ ToggleAgents \/ UNCHANGED vars
  BY <1>3, <1>7 DEF WatchdogScan, WatchdogWrite, ReconcileWrite, ReconcileAll, ReconcileRead,
     RejectPlan, DecidePackage, ToggleAgents, TaskFrame, vars, dispVars
<1> HIDE DEF TypeInv, TypeOK, DispatchTypeOK, Working
<1> QED BY <1>1, <1>2, <1>3, <1>4, <1>5, <1>6, <1>7 DEF Next

\* A row turns BLOCKED at its approval, for its dependencies, or by the watchdog.
LEMMA BlockedStep == SoleInv /\ [Next]_vars => BlockedRequeued'
<1> SUFFICES ASSUME SoleInv, [Next]_vars, NEW t \in Task, status'[t] = "BLOCKED"
             PROVE  Requeued(t)'
  BY DEF BlockedRequeued
<1>0. /\ LineageInv /\ Counted /\ BlockedRequeued /\ ListsRequeued /\ HasTask
      /\ status \in [Task -> TaskStatuses]
  BY DEF SoleInv, LineageInv, TypeInv, TypeOK, TaskTypeOK
<1>1. Requeued(t) => Requeued(t)'
  BY <1>0, RequeuedForGood
<1>2. CASE status'[t] = status[t]
  BY <1>0, <1>1, <1>2 DEF BlockedRequeued
<1>3. ASSUME NEW r \in Run, NEW wave \in {Package, Recommended}, Approve(r, wave)
      PROVE  Requeued(t)'
  <2>1. CASE Released(r, wave)
    <3>1. CASE t[1] = r
      <4>1. InitialStatus(t[2], wave) = "BLOCKED"
        BY <2>1, <3>1 DEF Released
      <4>2. t[2] \in wave /\ Deps[t[2]] # {}
        BY <4>1 DEF InitialStatus
      <4> QED BY <1>1, <4>2 DEF Requeued
    <3>2. CASE t[1] # r
      BY <1>2, <2>1, <3>2 DEF Released
    <3> QED BY <3>1, <3>2
  <2>2. CASE BrokenOff(r)
    BY <1>2, <2>2 DEF BrokenOff, SetStatus
  <2> QED BY <1>3, <2>1, <2>2, ApprovedRows
<1>4. ASSUME NEW r \in Run, Dispatch(r) PROVE status'[t] = status[t]
  <2>1. CASE LaunchWithoutAgent(r) \/ Resolve(r) \/ RouteNoAgent(r) \/ Begin(r) \/ CloseRun(r)
    BY <2>1 DEF LaunchWithoutAgent, Resolve, RouteNoAgent, Begin, CloseRun, SetStatus
  <2>2. CASE Finish(r) \/ SettleLeaf(r)
    BY <2>2 DEF Finish, SettleLeaf, SetStatus, Verdict
  <2>3. CASE FinalizeRoot(r)
    BY <2>3 DEF FinalizeRoot, SetStatus, RootOutcome
  <2>4. CASE SettleRoot(r)
    <3>1. cur[r] \in Task /\ cur[r] \notin Leaf
      BY <1>0, <2>4 DEF SettleRoot, HasTask, Working
    <3>2. cur[r] = RootOf(cur[r][1])
      BY <3>1 DEF Leaf
    <3> QED BY <2>4, <3>1, <3>2 DEF SettleRoot, SetStatus, RootOutcome
  <2>5. CASE Launch(r) \/ CheckStopped(r) \/ CheckRunning(r) \/ Pick(r) \/ PickNothing(r)
             \/ UseTool(r) \/ Tally(r) \/ CountFailures(r)
    BY <2>5 DEF Launch, CheckStopped, CheckRunning, Pick, PickNothing, UseTool, Tally,
       CountFailures, taskVars
  <2> QED BY <1>4, <2>1, <2>2, <2>3, <2>4, <2>5 DEF Dispatch
<1>5. ASSUME NEW h \in Handler, Control(h) PROVE status'[t] = status[t]
  <2>1. CASE StopDone(h)
    BY <2>1 DEF StopDone, SetStatus
  <2>2. CASE ~StopDone(h)
    BY <1>5, <2>2 DEF Control, PauseRun, ResumeRun, StopRun, Request, PauseDone,
       ResumeDone, Complete, StopDrain
  <2> QED BY <2>1, <2>2
<1>6. ASSUME NEW r \in Run, EmergencyStop(r) \/ CancelRun(r) PROVE status'[t] = status[t]
  BY <1>6 DEF EmergencyStop, CancelRun, taskVars, SetStatus
<1>7. ASSUME NEW u \in Target,
             Retry(u) \/ Rerun(u) \/ TaskAction(u) \/ Age(u) \/ ReconcileTask(u)
      PROVE  status'[t] = status[t]
  BY <1>7 DEF Retry, Rerun, TaskAction, Age, ReconcileTask, ReconcileRead, SetStatus
<1>8. CASE WatchdogWrite
  <2>1. CASE t \in thr.block
    BY <1>0, <1>1, <1>8, <2>1 DEF WatchdogWrite, ListsRequeued
  <2>2. CASE t \notin thr.block
    BY <1>2, <1>8, <2>2 DEF WatchdogWrite
  <2> QED BY <2>1, <2>2
<1>9. CASE WatchdogScan \/ ReconcileWrite \/ ReconcileAll \/ RejectPlan \/ DecidePackage
           \/ ToggleAgents \/ Restart \/ UNCHANGED vars
  BY <1>2, <1>9 DEF WatchdogScan, ReconcileWrite, ReconcileAll, ReconcileRead, RejectPlan,
     DecidePackage, ToggleAgents, Restart, vars, taskVars
<1> QED BY <1>2, <1>3, <1>4, <1>5, <1>6, <1>7, <1>8, <1>9 DEF Next

\* The lists of rows that will be put back in line name no others.
LEMMA ListsStep == SoleInv /\ [Next]_vars => ListsRequeued'
<1> SUFFICES ASSUME SoleInv, [Next]_vars PROVE ListsRequeued'
  OBVIOUS
<1>0. /\ LineageInv /\ Counted /\ BlockedRequeued /\ ListsRequeued /\ TypeInv
      /\ todo \in [Run -> SUBSET Task]
  BY DEF SoleInv, LineageInv, TypeInv, TypeOK, DispatchTypeOK
<1>1. \A t \in Task : Requeued(t) => Requeued(t)'
  BY <1>0, RequeuedForGood
<1>2. ASSUME NEW q \in Run, NEW t \in todo'[q] PROVE Requeued(t)'
  <2>1. t \in todo[q] => Requeued(t)'
    BY <1>0, <1>1 DEF ListsRequeued
  <2>2. ASSUME NEW r \in Run, Dispatch(r) PROVE Requeued(t)'
    <3>1. CASE CheckRunning(r)
      <4>1. todo' = [todo EXCEPT ![r] = Rows({"BLOCKED"})]
        BY <3>1 DEF CheckRunning
      <4>2. CASE q = r
        BY <1>0, <1>1, <1>2, <4>1, <4>2 DEF Rows, BlockedRequeued
      <4>3. CASE q # r
        BY <1>2, <2>1, <4>1, <4>3
      <4> QED BY <4>2, <4>3
    <3>2. CASE Resolve(r)
      BY <1>0, <1>2, <2>1, <3>2 DEF Resolve
    <3>3. CASE ~CheckRunning(r) /\ ~Resolve(r)
      BY <1>2, <2>1, <2>2, <3>3 DEF Dispatch, LaunchWithoutAgent, Launch, CheckStopped, Pick,
         PickNothing, RouteNoAgent, Begin, UseTool, Finish, SettleLeaf, SettleRoot, Tally,
         FinalizeRoot, CountFailures, CloseRun
    <3> QED BY <3>1, <3>2, <3>3
  <2>3. CASE \A r \in Run : ~Dispatch(r)
    <3>1. ASSUME NEW r \in Run, NEW wave \in {Package, Recommended}, Approve(r, wave)
          PROVE  todo' = todo
      BY <3>1 DEF Approve
    <3>2. ASSUME NEW h \in Handler, Control(h) PROVE todo' = todo
      BY <3>2 DEF Control, PauseRun, ResumeRun, StopRun, Request, PauseDone, ResumeDone,
         Complete, StopDrain, StopDone, ControlFrame, dispVars
    <3>3. ASSUME NEW r \in Run, EmergencyStop(r) \/ CancelRun(r) PROVE todo' = todo
      BY <3>3 DEF EmergencyStop, CancelRun, ControlFrame, dispVars
    <3>4. ASSUME NEW u \in Target,
                 Retry(u) \/ Rerun(u) \/ TaskAction(u) \/ Age(u) \/ ReconcileTask(u)
          PROVE  todo' = todo
      BY <3>4 DEF Retry, Rerun, TaskAction, Age, ReconcileTask, ReconcileRead, TaskFrame, dispVars
    <3>5. WatchdogScan \/ WatchdogWrite \/ ReconcileWrite \/ ReconcileAll \/ RejectPlan
          \/ DecidePackage \/ ToggleAgents \/ Restart \/ UNCHANGED vars => todo' = todo
      BY DEF WatchdogScan, WatchdogWrite, ReconcileWrite, ReconcileAll, ReconcileRead,
         RejectPlan, DecidePackage, ToggleAgents, Restart, TaskFrame, vars, dispVars
    <3>6. todo' = todo
      BY <2>3, <3>1, <3>2, <3>3, <3>4, <3>5 DEF Next
    <3> QED BY <1>2, <2>1, <3>6
  <2> QED BY <2>2, <2>3
<1>3. ASSUME thr'.kind = "watchdog", NEW t \in thr'.block PROVE Requeued(t)'
  <2>1. CASE thr' = thr
    <3>1. t \in Task /\ Requeued(t)
      BY <1>0, <1>3, <2>1, ThreadTasks DEF ListsRequeued
    <3> QED BY <1>1, <3>1
  <2>2. CASE WatchdogScan
    BY <1>1, <1>3, <2>2 DEF WatchdogScan, Rows, Requeued
  <2>3. CASE thr' = Asleep
    BY <1>3, <2>3 DEF Asleep
  <2>4. CASE thr'.kind = "reconcile"
    BY <1>3, <2>4
  <2>5. ASSUME NEW r \in Run, NEW wave \in {Package, Recommended}, Approve(r, wave)
        PROVE  thr' = thr
    BY <2>5 DEF Approve
  <2>6. ASSUME NEW r \in Run, Dispatch(r) PROVE thr' = thr
    BY <2>6 DEF Dispatch, LaunchWithoutAgent, Launch, CheckStopped, CheckRunning, Resolve,
       Pick, PickNothing, RouteNoAgent, Begin, UseTool, Finish, SettleLeaf, SettleRoot,
       Tally, FinalizeRoot, CountFailures, CloseRun
  <2>7. ASSUME NEW h \in Handler, Control(h) PROVE thr' = thr
    BY <2>7 DEF Control, PauseRun, ResumeRun, StopRun, Request, PauseDone, ResumeDone,
       Complete, StopDrain, StopDone, ControlFrame
  <2>8. ASSUME NEW r \in Run, EmergencyStop(r) \/ CancelRun(r) PROVE thr' = thr
    BY <2>8 DEF EmergencyStop, CancelRun, ControlFrame
  <2>9. ASSUME NEW u \in Target,
               Retry(u) \/ Rerun(u) \/ TaskAction(u) \/ Age(u) \/ ReconcileTask(u)
        PROVE  thr' = thr \/ thr'.kind = "reconcile"
    BY <2>9 DEF Retry, Rerun, TaskAction, Age, ReconcileTask, ReconcileRead
  <2>10. /\ WatchdogWrite \/ ReconcileWrite \/ Restart => thr' = Asleep
         /\ ReconcileAll => thr'.kind = "reconcile"
         /\ RejectPlan \/ DecidePackage \/ ToggleAgents \/ UNCHANGED vars => thr' = thr
    BY DEF WatchdogWrite, ReconcileWrite, Restart, ReconcileAll, ReconcileRead, RejectPlan,
       DecidePackage, ToggleAgents, vars
  <2> QED BY <2>1, <2>2, <2>3, <2>4, <2>5, <2>6, <2>7, <2>8, <2>9, <2>10 DEF Next
<1> QED BY <1>2, <1>3 DEF ListsRequeued

LEMMA BegunStep == SoleInv /\ [Next]_vars => BegunLeftLine'
<1> SUFFICES ASSUME SoleInv, [Next]_vars, NEW q \in Run, Begun(q)', ~Requeued(cur[q])'
             PROVE  status'[cur'[q]] \notin InLine
  BY DEF BegunLeftLine
<1>0. LineageInv /\ Counted /\ TypeInv /\ HasTask
  BY DEF SoleInv, LineageInv, TypeInv
\* A task that was begun before the step is the matter of LineStep.
<1>1. ASSUME Begun(q), cur'[q] = cur[q] PROVE status'[cur'[q]] \notin InLine
  <2>1. cur[q] \in Task
    BY <1>0, <1>1 DEF HasTask, Working, Begun
  <2>2. Requeued(cur[q]) => Requeued(cur[q])'
    <3>1. Requeued(cur[q]) => (cur[q][2] \in Package /\ Deps[cur[q][2]] # {})
                              \/ retries'[cur[q]] >= MaxRetries
      <4>1. \A t \in Task : retries[t] \in Nat /\ retries'[t] \in Nat
        BY <1>0, TypeStep DEF LineageInv, TypeInv, TypeOK, TaskTypeOK
      <4>2. retries[cur[q]] <= retries'[cur[q]]
        BY <1>0, <2>1, RetriesGrow
      <4> QED BY <2>1, <4>1, <4>2 DEF Requeued
    <3> QED BY <1>1, <3>1 DEF Requeued
  <2>3. ~Requeued(cur[q])
    BY <2>2
  <2> QED BY <1>1, <2>3, LineStep
<1>2. CASE \A r \in Run : ~Dispatch(r)
  <2>1. Working(q) /\ pc'[q] = pc[q] /\ cur'[q] = cur[q]
    BY <1>0, <1>2, OtherPlaceStep DEF Begun, Working
  <2> QED BY <1>1, <2>1 DEF Begun
<1>3. ASSUME NEW r \in Run, Dispatch(r) PROVE status'[cur'[q]] \notin InLine
  <2>1. CASE q # r
    BY <1>0, <1>1, <1>3, <2>1, PlaceStep DEF Begun
  <2>2. CASE q = r
    <3>1. CASE Begin(r)
      <4>1. cur[r] \in Task /\ cur' = cur
        BY <1>0, <3>1 DEF Begin, HasTask, Working
      <4> QED BY <2>2, <3>1, <4>1 DEF Begin, SetStatus, InLine
    <3>2. CASE UseTool(r) \/ Finish(r)
      BY <1>1, <2>2, <3>2 DEF UseTool, Finish, Begun
    <3> QED BY <1>0, <1>3, <2>2, <3>1, <3>2, PlaceStep
  <2> QED BY <2>1, <2>2
<1> QED BY <1>2, <1>3

\* A dispatcher that takes up a task finds no other on it: one that has begun
\* it took it out of line, and one that has not begun it would hold the loop.
LEMMA TakeUp ==
  ASSUME SoleInv, NEW r \in Run, Dispatch(r), NEW q \in Run \ {r},
         Working(r)', Working(q), cur'[r] = cur[q]
  PROVE  Requeued(cur[q])
<1>0. TypeInv /\ Holding /\ BegunLeftLine /\ SoleExecutor
  BY DEF SoleInv, LineageInv
<1>1. CASE Begun(r)'
  <2>1. Begin(r) \/ UseTool(r) \/ Finish(r)
    BY <1>0, <1>1, PlaceStep
  <2>2. Working(r) /\ cur'[r] = cur[r]
    BY <2>1 DEF Begin, UseTool, Finish, Working
  <2> QED BY <1>0, <2>2 DEF SoleExecutor
<1>2. CASE pc'[r] = "route"
  <2>1. Pick(r)
    BY <1>0, <1>2, PlaceStep
  <2>2. PICK t \in Dispatchable : cur' = [cur EXCEPT ![r] = t]
    BY <2>1 DEF Pick
  <2>3. status[cur[q]] \in InLine
    <3>1. cur'[r] = t
      BY <1>0, <2>2 DEF TypeInv, TypeOK, DispatchTypeOK
    <3> QED BY <2>2, <3>1 DEF Dispatchable, Rows, InLine
  <2>4. pc[q] # "route"
    BY <1>0, <2>1 DEF Pick, HasLoop, Holding, Free
  <2>5. Begun(q)
    BY <2>4 DEF Working, Begun
  <2> QED BY <1>0, <2>3, <2>5 DEF BegunLeftLine
<1> QED BY <1>1, <1>2 DEF Working, Begun

LEMMA SoleStep == SoleInv /\ [Next]_vars => SoleExecutor'
<1> SUFFICES ASSUME SoleInv, [Next]_vars, NEW q \in Run, NEW r \in Run, q # r,
                    Working(q)', Working(r)', cur'[q] = cur'[r]
             PROVE  Requeued(cur[q])'
  BY DEF SoleExecutor
<1>0. LineageInv /\ Counted /\ TypeInv /\ HasTask /\ SoleExecutor
  BY DEF SoleInv, LineageInv, TypeInv
<1>1. ASSUME NEW t \in Task, Requeued(t), t = cur'[q] PROVE Requeued(cur[q])'
  BY <1>0, <1>1, RequeuedForGood DEF Requeued
<1>2. CASE \A s \in Run : ~Dispatch(s)
  <2>1. Working(q) /\ Working(r) /\ cur'[q] = cur[q] /\ cur'[r] = cur[r]
    BY <1>0, <1>2, OtherPlaceStep
  <2>2. cur[q] \in Task /\ Requeued(cur[q])
    BY <1>0, <2>1 DEF SoleExecutor, HasTask
  <2> QED BY <1>1, <2>1, <2>2
<1>3. ASSUME NEW s \in Run, Dispatch(s) PROVE Requeued(cur[q])'
  <2>0. \A p \in Run \ {s} : /\ pc'[p] = pc[p] /\ cur'[p] = cur[p]
                             /\ Working(p)' => Working(p) /\ cur[p] \in Task
    BY <1>0, <1>3, PlaceStep DEF Working, HasTask
  <2>1. CASE s = q
    <3>1. r \in Run \ {s} /\ Working(r) /\ cur[r] \in Task /\ cur'[r] = cur[r]
      BY <2>0, <2>1
    <3>2. Requeued(cur[r])
      BY <1>3, <2>1, <3>1, TakeUp
    <3> QED BY <1>1, <3>1, <3>2
  <2>2. CASE s = r
    <3>1. q \in Run \ {s} /\ Working(q) /\ cur[q] \in Task /\ cur'[q] = cur[q]
      BY <2>0, <2>2
    <3>2. Requeued(cur[q])
      BY <1>3, <2>2, <3>1, TakeUp
    <3> QED BY <1>1, <3>1, <3>2
  <2>3. CASE s # q /\ s # r
    <3>1. Working(q) /\ Working(r) /\ cur[q] \in Task /\ cur'[q] = cur[q] /\ cur'[r] = cur[r]
      BY <2>0, <2>3
    <3>2. Requeued(cur[q])
      BY <1>0, <3>1 DEF SoleExecutor
    <3> QED BY <1>1, <3>1, <3>2
  <2> QED BY <2>1, <2>2, <2>3
<1> QED BY <1>2, <1>3

LEMMA SoleInit == Init => SoleInv
<1> SUFFICES ASSUME Init PROVE SoleInv
  OBVIOUS
<1>1. LineageInv
  BY LineageInit
<1>2. Counted
  BY DEF Init, Counted
<1>3. Holding /\ BlockedRequeued /\ ListsRequeued
  BY DEF Init, Holding, BlockedRequeued, ListsRequeued, Asleep
<1>4. BegunLeftLine /\ SoleExecutor
  BY DEF Init, BegunLeftLine, SoleExecutor, Begun, Working
<1> QED BY <1>1, <1>2, <1>3, <1>4 DEF SoleInv

\* However many dispatchers select from the tasks of one plan, two are on the
\* same task only where it has dependencies or its retries are used up.
THEOREM OneDispatcherPerTask == Spec => []SoleExecutor
<1>1. Init => SoleInv
  BY SoleInit
<1>2. SoleInv /\ [Next]_vars => SoleInv'
  <2> SUFFICES ASSUME SoleInv, [Next]_vars PROVE SoleInv'
    OBVIOUS
  <2>1. LineageInv'
    BY LineageStep DEF SoleInv
  <2>2. Counted'
    BY RetriesGrow DEF SoleInv, Counted
  <2>3. Holding'
    BY HoldingStep DEF SoleInv, LineageInv
  <2> QED BY <2>1, <2>2, <2>3, BlockedStep, ListsStep, BegunStep, SoleStep DEF SoleInv
<1>3. SoleInv => SoleExecutor
  BY DEF SoleInv
<1> QED BY <1>1, <1>2, <1>3, PTL DEF Spec

-----------------------------------------------------------------------------
(* Settled tasks and their attempts.                                       *)

LEMMA MarkAttemptsCloses ==
  ASSUME attempts \in [Task -> Seq(AttemptStatuses)], NEW S, NEW from,
         NEW v \in AttemptStatuses \ {"RUNNING"}, NEW t \in Task,
         NoneRunning(attempts[t]) \/ (t \in S /\ "RUNNING" \in from)
  PROVE  NoneRunning(MarkAttempts(S, from, v)[t])
<1>1. CASE t \in S
  <2>1. \A i \in 1 .. Len(attempts[t]) :
           Retag(attempts[t], from, v)[i] = IF attempts[t][i] \in from THEN v ELSE attempts[t][i]
    BY RetagType
  <2>2. Len(Retag(attempts[t], from, v)) = Len(attempts[t])
    BY RetagType
  <2>3. MarkAttempts(S, from, v)[t] = Retag(attempts[t], from, v)
    BY <1>1 DEF MarkAttempts
  <2> QED BY <2>1, <2>2, <2>3 DEF NoneRunning
<1>2. CASE t \notin S
  BY <1>2 DEF MarkAttempts
<1> QED BY <1>1, <1>2

\* Every step that settles a task closes its attempts, and every step that
\* opens an attempt makes its task RUNNING; Rerun alone does not.
LEMMA SettledStep ==
  ASSUME "rerun" \notin Ops, LineageInv, SettledTaskHasNoRunningAttempt, [Next]_vars,
         NEW t \in Leaf, status'[t] \in {"SUCCEEDED", "FAILED"}
  PROVE  NoneRunning(attempts'[t])
<1> USE DEF LineageInv, TypeInv, TypeOK, TaskTypeOK
<1>1. t \in Task /\ t[2] # Root
  BY DEF Leaf
<1>2. status'[t] = status[t] => NoneRunning(attempts[t])
  BY DEF SettledTaskHasNoRunningAttempt
<1>3. ASSUME NEW r \in Run, NEW wave \in {Package, Recommended}, Approve(r, wave)
      PROVE  NoneRunning(attempts'[t])
  <2>1. CASE Released(r, wave)
    <3>1. t[1] # r
      BY <1>1, <2>1 DEF Released, InitialStatus
    <3> QED BY <1>1, <1>2, <2>1, <3>1 DEF Released
  <2>2. CASE BrokenOff(r)
    <3>1. t # RootOf(r)
      BY <1>1
    <3> QED BY <1>1, <1>2, <2>2, <3>1 DEF BrokenOff, SetStatus
  <2> QED BY <1>3, <2>1, <2>2, ApprovedRows
<1>4. ASSUME NEW r \in Run, Dispatch(r) PROVE NoneRunning(attempts'[t])
  <2>1. CASE LaunchWithoutAgent(r) \/ Resolve(r) \/ RouteNoAgent(r)
    BY <1>1, <1>2, <2>1 DEF LaunchWithoutAgent, Resolve, RouteNoAgent, SetStatus
  <2>2. CASE Begin(r)
    <3>1. t # cur[r]
      BY <1>1, <2>2 DEF Begin, SetStatus
    <3> QED BY <1>1, <1>2, <2>2, <3>1 DEF Begin, SetStatus, MarkAttempts
  <2>3. CASE Finish(r)
    <3>1. NoneRunning(attempts[t]) \/ t \in {cur[r]}
      BY <1>1, <1>2, <2>3 DEF Finish, SetStatus
    <3>2. Verdict(exit[r]) \in AttemptStatuses \ {"RUNNING"}
      BY VerdictType DEF Verdict
    <3> QED BY <1>1, <2>3, <3>1, <3>2, MarkAttemptsCloses DEF Finish
  <2>4. CASE SettleLeaf(r)
    <3>1. NoneRunning(attempts[t]) \/ t \in {cur[r]}
      BY <1>1, <1>2, <2>4 DEF SettleLeaf, SetStatus
    <3>2. Verdict(lastExec[cur[r]]) \in AttemptStatuses \ {"RUNNING"}
      BY VerdictType DEF Verdict
    <3> QED BY <1>1, <2>4, <3>1, <3>2, MarkAttemptsCloses DEF SettleLeaf
  <2>5. CASE SettleRoot(r)
    <3>1. t # cur[r]
      BY <2>5 DEF SettleRoot
    <3> QED BY <1>1, <1>2, <2>5, <3>1 DEF SettleRoot, SetStatus
  <2>6. CASE FinalizeRoot(r) \/ CloseRun(r)
    <3>1. t # RootOf(r)
      BY <1>1
    <3> QED BY <1>1, <1>2, <2>6, <3>1 DEF FinalizeRoot, CloseRun, SetStatus
  <2>7. CASE Launch(r) \/ CheckStopped(r) \/ CheckRunning(r) \/ Pick(r) \/ PickNothing(r)
             \/ UseTool(r) \/ Tally(r) \/ CountFailures(r)
    BY <1>2, <2>7 DEF Launch, CheckStopped, CheckRunning, Pick, PickNothing, UseTool, Tally,
       CountFailures, taskVars
  <2> QED BY <1>4, <2>1, <2>2, <2>3, <2>4, <2>5, <2>6, <2>7 DEF Dispatch
<1>5. ASSUME NEW h \in Handler, Control(h) PROVE NoneRunning(attempts'[t])
  <2>1. CASE StopDone(h)
    BY <1>1, <1>2, <2>1 DEF StopDone, ControlFrame, SetStatus
  <2>2. CASE ~StopDone(h)
    BY <1>2, <1>5, <2>2 DEF Control, PauseRun, ResumeRun, StopRun, Request, PauseDone,
       ResumeDone, Complete, StopDrain, ControlFrame
  <2> QED BY <2>1, <2>2
<1>6. ASSUME NEW r \in Run, EmergencyStop(r) \/ CancelRun(r) PROVE NoneRunning(attempts'[t])
  BY <1>1, <1>2, <1>6 DEF EmergencyStop, CancelRun, ControlFrame, taskVars, SetStatus
<1>7. ASSUME NEW u \in Target, Retry(u) PROVE NoneRunning(attempts'[t])
  BY <1>1, <1>2, <1>7 DEF Target, Retry, SetStatus
<1>8. ASSUME NEW u \in Target, TaskAction(u) \/ Age(u) \/ ReconcileTask(u)
      PROVE  NoneRunning(attempts'[t])
  BY <1>1, <1>2, <1>8 DEF TaskAction, Age, ReconcileTask, ReconcileRead, SetStatus
<1>9. CASE WatchdogWrite
  <2>1. NoneRunning(attempts[t]) \/ t \in thr.fail
    BY <1>1, <1>2, <1>9 DEF WatchdogWrite
  <2> QED BY <1>1, <1>9, <2>1, MarkAttemptsCloses DEF WatchdogWrite, AttemptStatuses
<1>10. CASE ReconcileWrite
  <2>1. NoneRunning(attempts[t])
    BY <1>2, <1>10 DEF ReconcileWrite
  <2>2. ASSUME NEW v \in {"COMPLETED", "FAILED"}
        PROVE  NoneRunning(MarkAttempts({t}, Open, v)[t])
    <3>1. v \in AttemptStatuses \ {"RUNNING"}
      BY DEF AttemptStatuses
    <3> QED BY <1>1, <2>1, <3>1, MarkAttemptsCloses
  <2> QED BY <1>1, <1>10, <2>1, <2>2, ReconciledRow
<1>11. CASE ReconcileAll
  BY <1>2, <1>11 DEF ReconcileAll, ReconcileRead
<1>12. CASE RejectPlan \/ DecidePackage \/ ToggleAgents \/ WatchdogScan \/ Restart
  BY <1>2, <1>12 DEF RejectPlan, DecidePackage, ToggleAgents, WatchdogScan, Restart, taskVars
<1>13. CASE UNCHANGED vars
  BY <1>2, <1>13 DEF vars, taskVars
<1>14. ASSUME NEW u \in Target PROVE ~Rerun(u)
  BY DEF Rerun
<1> HIDE DEF LineageInv, TypeInv, TypeOK, TaskTypeOK, Run, Place, Task, RootOf
<1> QED
  BY <1>3, <1>4, <1>5, <1>6, <1>7, <1>8, <1>9, <1>10, <1>11, <1>12, <1>13, <1>14 DEF Next

\* Without a re-run request, a task that reads SUCCEEDED or FAILED has no
\* attempt in RUNNING.
THEOREM SettledAttemptsClosed ==
  ASSUME "rerun" \notin Ops
  PROVE  Spec => []SettledTaskHasNoRunningAttempt
<1>1. Init => LineageInv /\ SettledTaskHasNoRunningAttempt
  BY LineageInit DEF Init, SettledTaskHasNoRunningAttempt, Leaf
<1>2. LineageInv /\ SettledTaskHasNoRunningAttempt /\ [Next]_vars
        => LineageInv' /\ SettledTaskHasNoRunningAttempt'
  BY LineageStep, SettledStep DEF SettledTaskHasNoRunningAttempt
<1> QED BY <1>1, <1>2, PTL DEF Spec

-----------------------------------------------------------------------------
(* After a stop.                                                           *)

\* Where a stop is the only control, each request has its run to itself and
\* leads it from STOP_REQUESTED to STOPPED; the dispatcher may write COMPLETED
\* in between.
StopsOnly ==
  /\ \A h \in Handler :
       \/ ctl[h].op = "idle"
       \/ /\ "stop" \in Ops /\ ctl[h].run \in Run
          /\ \/ ctl[h].op = "drain" /\ runState[ctl[h].run] \in {"STOP_REQUESTED", "COMPLETED"}
             \/ ctl[h].op = "stop" /\ runState[ctl[h].run] \in {"DRAINING", "COMPLETED"}
  /\ \A h, k \in Handler :
       ctl[h].op # "idle" /\ ctl[k].op # "idle" /\ ctl[h].run = ctl[k].run => h = k
Unborn == \A r \in Run : pc[r] = "none" => runState[r] = "NONE"
\* A dispatcher that has begun its late task finds the stop at the top of its loop.
LateOnce ==
  \A r \in Run :
    \/ late[r] = 0
    \/ /\ late[r] = 1
       /\ \/ pc[r] \in {"tool", "finish", "settle", "tally", "check"} /\ Halted(r)
          \/ pc[r] \in {"summary", "count", "close", "done", "lost"}
LateInv == TypeInv /\ StopsOnly /\ Unborn /\ LateOnce

\* A stop once written stays until the dispatcher closes the run.
LEMMA HaltedStays ==
  ASSUME "pause" \notin Ops, "resume" \notin Ops, LateInv, [Next]_vars,
         NEW r \in Run, Halted(r), ~CloseRun(r)
  PROVE  Halted(r)'
<1> USE DEF LateInv, TypeInv, TypeOK, RunTypeOK, Halted
<1>1. ASSUME NEW q \in Run, NEW wave \in {Package, Recommended}, Approve(q, wave)
      PROVE  Halted(r)'
  <2>1. q # r
    BY <1>1 DEF Approve, Unborn
  <2> QED BY <1>1, <2>1 DEF Approve
<1>2. ASSUME NEW q \in Run, Dispatch(q) PROVE Halted(r)'
  BY <1>2 DEF Dispatch, LaunchWithoutAgent, Launch, CheckStopped, CheckRunning, Resolve,
     Pick, PickNothing, RouteNoAgent, Begin, UseTool, Finish, SettleLeaf, SettleRoot,
     Tally, FinalizeRoot, CountFailures, CloseRun, runVars
<1>3. ASSUME NEW h \in Handler, Control(h) PROVE Halted(r)'
  <2>1. CASE \E q \in Run : StopRun(h, q)
    BY <2>1 DEF StopRun, Request, Allowed, Transitions
  <2>2. CASE StopDrain(h)
    <3>1. ctl[h].run # r
      BY <2>2 DEF StopDrain, StopsOnly
    <3> QED BY <2>2, <3>1 DEF StopDrain
  <2>3. CASE StopDone(h)
    BY <2>3 DEF StopDone
  <2>4. ~PauseDone(h) /\ ~ResumeDone(h) /\ \A q \in Run : ~PauseRun(h, q) /\ ~ResumeRun(h, q)
    BY DEF PauseDone, ResumeDone, Complete, PauseRun, ResumeRun, Request, StopsOnly
  <2> QED BY <1>3, <2>1, <2>2, <2>3, <2>4 DEF Control
<1>4. ASSUME NEW q \in Run, EmergencyStop(q) \/ CancelRun(q) PROVE Halted(r)'
  BY <1>4 DEF EmergencyStop, CancelRun
<1>5. ASSUME NEW u \in Target,
             Retry(u) \/ Rerun(u) \/ TaskAction(u) \/ Age(u) \/ ReconcileTask(u)
      PROVE  Halted(r)'
  BY <1>5 DEF Retry, Rerun, TaskAction, Age, ReconcileTask, ReconcileRead, TaskFrame, runVars
<1>6. CASE WatchdogScan \/ WatchdogWrite \/ ReconcileWrite \/ ReconcileAll
           \/ RejectPlan \/ DecidePackage \/ ToggleAgents \/ Restart \/ UNCHANGED vars
  BY <1>6 DEF WatchdogScan, WatchdogWrite, ReconcileWrite, ReconcileAll, ReconcileRead,
     RejectPlan, DecidePackage, ToggleAgents, Restart, TaskFrame, vars, runVars
<1> HIDE DEF LateInv, TypeInv, TypeOK, RunTypeOK, Halted
<1> QED BY <1>1, <1>2, <1>3, <1>4, <1>5, <1>6 DEF Next

LEMMA StopsStep ==
  ASSUME "pause" \notin Ops, "resume" \notin Ops, ~({"stop", "emergency"} \subseteq Ops),
         LateInv, [Next]_vars
  PROVE  (StopsOnly /\ Unborn)'
<1> USE DEF LateInv, TypeInv, TypeOK, RunTypeOK, ControlTypeOK
<1>0. pc \in [Run -> Steps]
  BY DEF DispatchTypeOK
<1>1. ASSUME NEW q \in Run, NEW wave \in {Package, Recommended}, Approve(q, wave)
      PROVE  (StopsOnly /\ Unborn)'
  <2>1. runState[q] = "NONE" /\ runState' = [runState EXCEPT ![q] = "RUNNING"] /\ ctl' = ctl
    BY <1>1 DEF Approve, Unborn
  <2>2. StopsOnly'
    BY <2>1 DEF StopsOnly
  <2>3. Unborn'
    BY <1>0, <1>1, <2>1 DEF Approve, Unborn
  <2> QED BY <2>2, <2>3
<1>2. ASSUME NEW q \in Run, Dispatch(q) PROVE (StopsOnly /\ Unborn)'
  <2>1. ctl' = ctl /\ \A r \in Run : runState'[r] \in {runState[r], "COMPLETED"}
    BY <1>2 DEF Dispatch, LaunchWithoutAgent, Launch, CheckStopped, CheckRunning, Resolve,
       Pick, PickNothing, RouteNoAgent, Begin, UseTool, Finish, SettleLeaf, SettleRoot,
       Tally, FinalizeRoot, CountFailures, CloseRun, runVars
  <2>2. StopsOnly'
    BY <2>1 DEF StopsOnly
  <2>3. \A r \in Run : pc'[r] = "none" => pc[r] = "none" /\ runState'[r] = runState[r]
    BY <1>0, <1>2 DEF Dispatch, LaunchWithoutAgent, Launch, CheckStopped, CheckRunning, Resolve,
       Pick, PickNothing, RouteNoAgent, Begin, UseTool, Finish, SettleLeaf, SettleRoot,
       Tally, FinalizeRoot, CountFailures, CloseRun, runVars, Goto
  <2> QED BY <2>2, <2>3 DEF Unborn
<1>3. ASSUME NEW h \in Handler, Control(h) PROVE (StopsOnly /\ Unborn)'
  <2>0. ~PauseDone(h) /\ ~ResumeDone(h) /\ \A q \in Run : ~PauseRun(h, q) /\ ~ResumeRun(h, q)
    BY DEF PauseDone, ResumeDone, Complete, PauseRun, ResumeRun, Request, StopsOnly
  <2>1. ASSUME NEW r \in Run, StopRun(h, r) PROVE (StopsOnly /\ Unborn)'
    <3>1. /\ "stop" \in Ops /\ ctl[h] = Idle
          /\ runState[r] \notin {"NONE", "STOP_REQUESTED", "DRAINING", "COMPLETED"}
          /\ runState' = [runState EXCEPT ![r] = "STOP_REQUESTED"]
          /\ ctl' = [ctl EXCEPT ![h] = [op |-> "drain", run |-> r]]
          /\ pc' = pc
      BY <2>1 DEF StopRun, Request, Allowed, Transitions, ControlFrame, dispVars
    <3>2. \A k \in Handler : ctl[k].op # "idle" => ctl[k].run # r
      BY <3>1 DEF StopsOnly
    <3>3. StopsOnly'
      BY <3>1, <3>2 DEF StopsOnly
    <3> QED BY <3>1, <3>3 DEF Unborn
  <2>2. CASE StopDrain(h)
    <3>1. PICK r \in Run : ctl[h].run = r
      BY <2>2 DEF StopDrain, StopsOnly
    <3>2. /\ ctl[h].op = "drain" /\ runState' = [runState EXCEPT ![r] = "DRAINING"]
          /\ ctl' = [ctl EXCEPT ![h].op = "stop"] /\ pc' = pc
      BY <2>2, <3>1 DEF StopDrain, ControlFrame, dispVars
    <3>3. \A k \in Handler : ctl'[k].run = ctl[k].run /\ (k # h => ctl'[k] = ctl[k])
      BY <3>2
    <3>4. ctl'[h].op = "stop" /\ ctl'[h].run = r /\ "stop" \in Ops
      BY <3>1, <3>2 DEF StopsOnly
    <3>5. \A k \in Handler : ctl[k].op # "idle" /\ k # h => ctl[k].run # r
      BY <3>1, <3>2 DEF StopsOnly
    <3>6. StopsOnly'
      BY <3>1, <3>2, <3>3, <3>4, <3>5 DEF StopsOnly
    <3>7. runState[r] # "NONE"
      BY <3>1, <3>2 DEF StopsOnly
    <3> QED BY <3>2, <3>6, <3>7 DEF Unborn
  <2>3. CASE StopDone(h)
    <3>1. PICK r \in Run : ctl[h].run = r
      BY <2>3 DEF StopDone, StopsOnly
    <3>2. /\ ctl[h].op = "stop" /\ runState' = [runState EXCEPT ![r] = "STOPPED"]
          /\ ctl' = [ctl EXCEPT ![h] = Idle] /\ pc' = pc
      BY <2>3, <3>1 DEF StopDone, ControlFrame, dispVars
    <3>3. \A k \in Handler : ctl[k].op # "idle" /\ k # h => ctl[k].run # r
      BY <3>1, <3>2 DEF StopsOnly
    <3>4. StopsOnly'
      BY <3>1, <3>2, <3>3 DEF StopsOnly, Idle
    <3>5. runState[r] # "NONE"
      BY <3>1, <3>2 DEF StopsOnly
    <3> QED BY <3>2, <3>4, <3>5 DEF Unborn
  <2> QED BY <1>3, <2>0, <2>1, <2>2, <2>3 DEF Control
<1>4. ASSUME NEW q \in Run, EmergencyStop(q) \/ CancelRun(q) PROVE (StopsOnly /\ Unborn)'
  <2>1. CASE EmergencyStop(q)
    <3>1. "stop" \notin Ops /\ runState[q] # "NONE" /\ ctl' = ctl /\ pc' = pc
          /\ runState' = [runState EXCEPT ![q] = "EMERGENCY_STOPPED"]
      BY <2>1 DEF EmergencyStop, ControlFrame, dispVars
    <3> QED BY <3>1 DEF StopsOnly, Unborn
  <2>2. CASE CancelRun(q)
    BY <2>2 DEF CancelRun, dispVars, StopsOnly, Unborn
  <2> QED BY <1>4, <2>1, <2>2
<1>5. ASSUME NEW u \in Target,
             Retry(u) \/ Rerun(u) \/ TaskAction(u) \/ Age(u) \/ ReconcileTask(u)
      PROVE  (StopsOnly /\ Unborn)'
  BY <1>5 DEF Retry, Rerun, TaskAction, Age, ReconcileTask, ReconcileRead, TaskFrame, runVars,
     dispVars, StopsOnly, Unborn
<1>6. CASE WatchdogScan \/ WatchdogWrite \/ ReconcileWrite \/ ReconcileAll
           \/ RejectPlan \/ DecidePackage \/ ToggleAgents \/ UNCHANGED vars
  BY <1>6 DEF WatchdogScan, WatchdogWrite, ReconcileWrite, ReconcileAll, ReconcileRead,
     RejectPlan, DecidePackage, ToggleAgents, TaskFrame, vars, runVars, dispVars, StopsOnly, Unborn
<1>7. CASE Restart
  BY <1>0, <1>7 DEF Restart, runVars, StopsOnly, Unborn, Idle
<1> HIDE DEF LateInv, TypeInv, TypeOK, RunTypeOK, ControlTypeOK
<1> QED BY <1>1, <1>2, <1>3, <1>4, <1>5, <1>6, <1>7 DEF Next

LEMMA LateStep ==
  ASSUME "pause" \notin Ops, "resume" \notin Ops, LateInv, [Next]_vars
  PROVE  LateOnce'
<1> SUFFICES ASSUME NEW r \in Run
             PROVE  \/ late'[r] = 0
                    \/ /\ late'[r] = 1
                       /\ \/ pc'[r] \in {"tool", "finish", "settle", "tally", "check"} /\ Halted(r)'
                          \/ pc'[r] \in {"summary", "count", "close", "done", "lost"}
  BY DEF LateOnce
<1> DEFINE After(p, halted) == \/ p \in {"tool", "finish", "settle", "tally", "check"} /\ halted
                               \/ p \in {"summary", "count", "close", "done", "lost"}
<1>0. /\ late \in [Run -> Nat] /\ pc \in [Run -> Steps]
      /\ late[r] = 0 \/ (late[r] = 1 /\ After(pc[r], Halted(r)))
  BY DEF LateInv, TypeInv, TypeOK, DispatchTypeOK, LateOnce
<1>1. Halted(r) /\ ~CloseRun(r) => Halted(r)'
  BY HaltedStays
<1>2. CASE Dispatch(r)
  <2>1. CASE Begin(r)
    <3>1. late[r] = 0 /\ pc'[r] = "tool" /\ runState' = runState
      BY <1>0, <2>1 DEF Begin, Goto, runVars
    <3>2. late'[r] = 0 \/ (late'[r] = 1 /\ Halted(r))
      BY <1>0, <2>1, <3>1 DEF Begin, Halted
    <3> QED BY <3>1, <3>2 DEF Halted
  <2>2. CASE CloseRun(r)
    BY <1>0, <2>2 DEF CloseRun, Goto
  <2>3. CASE CheckRunning(r)
    BY <1>0, <2>3 DEF CheckRunning
  <2>4. CASE LaunchWithoutAgent(r) \/ Launch(r) \/ CheckStopped(r) \/ Resolve(r) \/ Pick(r)
             \/ PickNothing(r) \/ RouteNoAgent(r) \/ UseTool(r) \/ Finish(r) \/ SettleLeaf(r)
             \/ SettleRoot(r) \/ Tally(r) \/ FinalizeRoot(r) \/ CountFailures(r)
    <3>1. late' = late /\ ~CloseRun(r)
      BY <2>4 DEF LaunchWithoutAgent, Launch, CheckStopped, Resolve, Pick, PickNothing,
         RouteNoAgent, UseTool, Finish, SettleLeaf, SettleRoot, Tally, FinalizeRoot,
         CountFailures, CloseRun
    <3>2. late[r] = 1 => After(pc'[r], Halted(r))
      BY <1>0, <2>4 DEF LaunchWithoutAgent, Launch, CheckStopped, Resolve, Pick, PickNothing,
         RouteNoAgent, UseTool, Finish, SettleLeaf, SettleRoot, Tally, FinalizeRoot,
         CountFailures, Goto
    <3> QED BY <1>0, <1>1, <3>1, <3>2
  <2> QED BY <1>2, <2>1, <2>2, <2>3, <2>4 DEF Dispatch
\* Nobody else moves the dispatcher, but for a restart.
<1>3. ASSUME late'[r] = late[r], pc'[r] = pc[r], ~CloseRun(r)
      PROVE  late'[r] = 0 \/ (late'[r] = 1 /\ After(pc'[r], Halted(r)'))
  BY <1>0, <1>1, <1>3
<1>4. CASE ~Dispatch(r)
  <2>0. ~CloseRun(r)
    BY <1>4 DEF Dispatch
  <2>1. ASSUME NEW q \in Run, NEW wave \in {Package, Recommended}, Approve(q, wave)
        PROVE  late'[r] = 0 \/ (late'[r] = 1 /\ After(pc'[r], Halted(r)'))
    <3>1. late' = late /\ (q = r => pc[r] = "none") /\ (q # r => pc'[r] = pc[r])
      BY <1>0, <2>1 DEF Approve
    <3> QED BY <1>0, <1>3, <2>0, <3>1
  <2>2. ASSUME NEW q \in Run, Dispatch(q) PROVE late'[r] = late[r] /\ pc'[r] = pc[r]
    <3>1. q # r
      BY <1>4, <2>2
    <3> QED BY <1>0, <2>2, <3>1 DEF Dispatch, LaunchWithoutAgent, Launch, CheckStopped,
        CheckRunning, Resolve, Pick, PickNothing, RouteNoAgent, Begin, UseTool, Finish,
        SettleLeaf, SettleRoot, Tally, FinalizeRoot, CountFailures, CloseRun, Goto
  <2>3. ASSUME NEW h \in Handler, Control(h) PROVE late'[r] = late[r] /\ pc'[r] = pc[r]
    BY <2>3 DEF Control, PauseRun, ResumeRun, StopRun, Request, PauseDone, ResumeDone,
       Complete, StopDrain, StopDone, ControlFrame, dispVars
  <2>4. ASSUME NEW q \in Run, EmergencyStop(q) \/ CancelRun(q)
        PROVE  late'[r] = late[r] /\ pc'[r] = pc[r]
    BY <2>4 DEF EmergencyStop, CancelRun, ControlFrame, dispVars
  <2>5. ASSUME NEW u \in Target,
               Retry(u) \/ Rerun(u) \/ TaskAction(u) \/ Age(u) \/ ReconcileTask(u)
        PROVE  late'[r] = late[r] /\ pc'[r] = pc[r]
    BY <2>5 DEF Retry, Rerun, TaskAction, Age, ReconcileTask, ReconcileRead, TaskFrame, dispVars
  <2>6. WatchdogScan \/ WatchdogWrite \/ ReconcileWrite \/ ReconcileAll \/ RejectPlan
        \/ DecidePackage \/ ToggleAgents \/ UNCHANGED vars => late'[r] = late[r] /\ pc'[r] = pc[r]
    BY DEF WatchdogScan, WatchdogWrite, ReconcileWrite, ReconcileAll, ReconcileRead,
       RejectPlan, DecidePackage, ToggleAgents, TaskFrame, vars, dispVars
  <2>7. ASSUME Restart PROVE late'[r] = 0 \/ (late'[r] = 1 /\ After(pc'[r], Halted(r)'))
    <3>1. late' = late /\ pc'[r] = IF pc[r] \in {"none", "done"} THEN pc[r] ELSE "lost"
      BY <2>7 DEF Restart
    <3> QED BY <1>0, <3>1
  <2> HIDE DEF After
  <2>8. late'[r] = 0 \/ (late'[r] = 1 /\ After(pc'[r], Halted(r)'))
    BY <1>3, <2>0, <2>1, <2>2, <2>3, <2>4, <2>5, <2>6, <2>7 DEF Next
  <2> QED BY <2>8 DEF After
<1> QED BY <1>2, <1>4

\* Under a stop that no pause, resumption or emergency stop gets in the way of,
\* or an emergency stop alone, a dispatcher begins at most one task too many,
\* however many plans are approved meanwhile.
THEOREM OneLateTask ==
  ASSUME "pause" \notin Ops, "resume" \notin Ops, ~({"stop", "emergency"} \subseteq Ops)
  PROVE  Spec => []OneTaskAfterStop
<1>1. Init => LateInv
  <2> SUFFICES ASSUME Init PROVE LateInv
    OBVIOUS
  <2>1. StopsOnly /\ Unborn /\ LateOnce
    BY DEF Init, StopsOnly, Unborn, LateOnce, Idle
  <2> QED BY <2>1, TypeInit DEF LateInv
<1>2. LateInv /\ [Next]_vars => LateInv'
  BY TypeStep, StopsStep, LateStep DEF LateInv
<1>3. LateInv => OneTaskAfterStop
  BY DEF LateInv, LateOnce, OneTaskAfterStop
<1> QED BY <1>1, <1>2, <1>3, PTL DEF Spec

=============================================================================
