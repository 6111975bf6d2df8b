-------------------------- MODULE Failover_proofs --------------------------
(***************************************************************************)
(* What holds of Failover for every set of tasks, registry of agents,      *)
(* capability table, retry limit and set of reported error codes.          *)
(***************************************************************************)
EXTENDS Failover, TLAPS

USE AgentsAssumption, RetriesAssumption, CodesAssumption

-----------------------------------------------------------------------------
(* Type correctness.                                                       *)

RecoverySteps ==
  {"run", "agent", "budget", "exhausted", "choose", "blocked", "spawn", "resume"}

\* A recovery under way has all the fields, and reports a run of its task.
LEMMA JobType ==
  ASSUME TypeOK, NEW t \in Task, job[t].step # "none"
  PROVE  job[t] \in Recoveries
BY DEF TypeOK, Resting

LEMMA StepType ==
  ASSUME TypeOK, NEW t \in Task, NEW s \in RecoverySteps, job[t].step # "none",
         job' = [job EXCEPT ![t].step = s]
  PROVE  job' \in [Task -> Recoveries \cup {Resting}]
<1>1. job[t] \in Recoveries /\ job \in [Task -> Recoveries \cup {Resting}]
  BY JobType DEF TypeOK
<1>2. [job[t] EXCEPT !.step = s] \in Recoveries
  BY <1>1 DEF Recoveries, RecoverySteps
<1>3. job' = [job EXCEPT ![t] = [job[t] EXCEPT !.step = s]]
  OBVIOUS
<1> QED BY <1>1, <1>2, <1>3

LEMMA RestType ==
  ASSUME TypeOK, NEW t \in Task, job' = [job EXCEPT ![t] = Resting]
  PROVE  job' \in [Task -> Recoveries \cup {Resting}]
BY DEF TypeOK

LEMMA RunsType ==
  ASSUME TypeOK, NEW t \in Task, NEW s \in Seq(Runs), runs' = [runs EXCEPT ![t] = s]
  PROVE  runs' \in [Task -> Seq(Runs)]
BY DEF TypeOK

\* An UPDATE of one run's status keeps the type and every other field.
Restatus(s, i, v) == [s EXCEPT ![i].status = v]
LEMMA StatusUpdate ==
  ASSUME NEW s \in Seq(Runs), NEW i \in 1 .. Len(s), NEW v \in RunStatuses
  PROVE  /\ Restatus(s, i, v) \in Seq(Runs) /\ Len(Restatus(s, i, v)) = Len(s)
         /\ \A k \in 1 .. Len(s) : k # i => Restatus(s, i, v)[k] = s[k]
         /\ Restatus(s, i, v)[i].status = v
         /\ Restatus(s, i, v)[i].agent = s[i].agent
         /\ Restatus(s, i, v)[i].parent = s[i].parent
<1>1. s[i] \in Runs
  OBVIOUS
<1>2. [s[i] EXCEPT !.status = v] \in Runs
  BY <1>1 DEF Runs
<1>3. Restatus(s, i, v) = [s EXCEPT ![i] = [s[i] EXCEPT !.status = v]]
  BY DEF Restatus
<1>4. Restatus(s, i, v) \in Seq(Runs) /\ Len(Restatus(s, i, v)) = Len(s)
  BY <1>2, <1>3
<1>5. /\ Restatus(s, i, v)[i] = [s[i] EXCEPT !.status = v]
      /\ \A k \in 1 .. Len(s) : k # i => Restatus(s, i, v)[k] = s[k]
  BY <1>3, SMTT(40)
<1> QED BY <1>1, <1>4, <1>5 DEF Runs

LEMMA ReplacementType ==
  ASSUME NEW a \in Agent, NEW p \in Nat PROVE Replacement(a, p) \in Runs
BY DEF Replacement, Runs, RunStatuses

LEMMA EndingType ==
  ASSUME NEW code PROVE Ending(code) \in RunStatuses /\ Ending(code) # "RUNNING"
BY DEF Ending, RunStatuses

LEMMA RetiredType ==
  ASSUME TypeOK, NEW t \in Task
  PROVE  /\ Retired(t) \in Seq(Runs) /\ Len(Retired(t)) = Len(runs[t])
         /\ \A i \in 1 .. Len(runs[t]) : SameRun(Retired(t)[i], runs[t][i])
         /\ runs[t] # << >> => Retired(t)[1].status # "RUNNING"
<1>1. runs[t] \in Seq(Runs)
  BY DEF TypeOK
<1>2. CASE runs[t] # << >> /\ runs[t][1].status = "RUNNING"
  <2>1. 1 \in 1 .. Len(runs[t]) /\ "CANCELLED" \in RunStatuses
    BY <1>1, <1>2 DEF RunStatuses
  <2>2. Retired(t) = Restatus(runs[t], 1, "CANCELLED")
    BY <1>2 DEF Retired, Restatus
  <2>3. /\ Retired(t) \in Seq(Runs) /\ Len(Retired(t)) = Len(runs[t])
        /\ \A k \in 1 .. Len(runs[t]) : k # 1 => Retired(t)[k] = runs[t][k]
        /\ Retired(t)[1].status = "CANCELLED"
        /\ Retired(t)[1].agent = runs[t][1].agent /\ Retired(t)[1].parent = runs[t][1].parent
    BY <1>1, <2>1, <2>2, StatusUpdate
  <2> QED BY <1>2, <2>3 DEF SameRun
<1>3. CASE ~(runs[t] # << >> /\ runs[t][1].status = "RUNNING")
  BY <1>1, <1>3 DEF Retired, SameRun
<1> QED BY <1>2, <1>3

LEMMA FailRunEffect ==
  ASSUME TypeOK, NEW t \in Task, FailRun(t)
  PROVE  /\ runs' \in [Task -> Seq(Runs)] /\ Len(runs'[t]) = Len(runs[t])
         /\ \A i \in 1 .. Len(runs[t]) :
              /\ runs'[t][i].agent = runs[t][i].agent
              /\ runs'[t][i].parent = runs[t][i].parent
              /\ i = job[t].failed => runs'[t][i].status # "RUNNING"
              /\ i # job[t].failed => runs'[t][i] = runs[t][i]
         /\ \A u \in Task : u # t => runs'[u] = runs[u]
<1> DEFINE j == job[t].failed
<1>1. runs \in [Task -> Seq(Runs)] /\ runs[t] \in Seq(Runs)
  BY DEF TypeOK
<1>2. CASE j \in 1 .. Len(runs[t])
  <2> DEFINE new == Restatus(runs[t], j, Ending(job[t].code))
  <2>1. runs' = [runs EXCEPT ![t] = new]
    BY <1>2 DEF FailRun, Unknown, Restatus
  <2>2. Ending(job[t].code) \in RunStatuses /\ Ending(job[t].code) # "RUNNING"
    BY EndingType
  <2>3. /\ new \in Seq(Runs) /\ Len(new) = Len(runs[t])
        /\ \A k \in 1 .. Len(runs[t]) : k # j => new[k] = runs[t][k]
        /\ new[j].status = Ending(job[t].code)
        /\ new[j].agent = runs[t][j].agent /\ new[j].parent = runs[t][j].parent
    <3> HIDE DEF j
    <3> QED BY <1>1, <1>2, <2>2, StatusUpdate
  <2>4. runs'[t] = new
    BY <1>1, <2>1
  <2> HIDE DEF new
  <2> QED BY <1>1, <2>1, <2>2, <2>3, <2>4
<1>3. CASE j \notin 1 .. Len(runs[t])
  <2>1. CASE j = Unknown
    BY <1>1, <1>3, <2>1 DEF FailRun
  <2>2. CASE j # Unknown
    <3>1. [runs[t] EXCEPT ![j].status = Ending(job[t].code)] = runs[t]
      BY <1>1, <1>3
    <3>2. runs' = [runs EXCEPT ![t] = runs[t]]
      BY <2>2, <3>1 DEF FailRun
    <3> QED BY <1>1, <1>3, <3>2
  <2> QED BY <2>1, <2>2
<1> QED BY <1>2, <1>3

LEMMA AgentsOfType ==
  ASSUME TypeOK, NEW t \in Task
  PROVE  AgentsOf(t) \subseteq Agent /\ Len(runs[t]) \in Nat
<1>1. runs[t] \in Seq(Runs)
  BY DEF TypeOK
<1>2. \A i \in 1 .. Len(runs[t]) : runs[t][i] \in Runs
  BY <1>1
<1>3. \A x \in Runs : x.agent \in Agent
  BY DEF Runs
<1> QED BY <1>1, <1>2, <1>3 DEF AgentsOf

LEMMA TypeInit == Init => TypeOK
<1> SUFFICES ASSUME Init PROVE TypeOK
  OBVIOUS
<1>1. health \in [Agent -> Healths] /\ row \in [Task -> Rows]
  BY DEF Init, Healths, Rows, TaskStatuses
<1>2. \A a \in Agent : [agent |-> a, parent |-> Unknown, status |-> "RUNNING"] \in Runs
  BY DEF Runs, RunStatuses, Unknown
<1>5. /\ << >> \in Seq(Runs)
      /\ \A a \in Agent :
           <<[agent |-> a, parent |-> Unknown, status |-> "RUNNING"]>> \in Seq(Runs)
  BY <1>2
<1> DEFINE First == {<< >>} \cup
              { <<[agent |-> a, parent |-> Unknown, status |-> "RUNNING"]>> : a \in Agent }
<1>6. First \subseteq Seq(Runs)
  BY <1>5
<1>7. runs \in [Task -> First]
  BY DEF Init
<1>3. runs \in [Task -> Seq(Runs)]
  <2> HIDE DEF First
  <2> QED BY <1>6, <1>7
<1>4. job \in [Task -> Recoveries \cup {Resting}]
  BY DEF Init
<1> QED BY <1>1, <1>3, <1>4 DEF TypeOK

LEMMA TypeStep == TypeOK /\ [Next]_vars => TypeOK'
<1> SUFFICES ASSUME TypeOK, [Next]_vars PROVE TypeOK'
  OBVIOUS
<1>1. ASSUME NEW t \in Task, FailRun(t) PROVE TypeOK'
  <2>1. job' \in [Task -> Recoveries \cup {Resting}]
    BY <1>1, StepType DEF FailRun, AtStep, RecoverySteps
  <2> QED BY <1>1, <2>1, FailRunEffect DEF FailRun, TypeOK
<1>2. ASSUME NEW t \in Task, MarkAgent(t) PROVE TypeOK'
  <2>1. job' \in [Task -> Recoveries \cup {Resting}]
    BY <1>2, StepType DEF MarkAgent, AtStep, RecoverySteps
  <2>2. \A h \in Healths : HealthAfter(job[t].code, h) \in Healths
    BY DEF HealthAfter, Healths
  <2>3. health' \in [Agent -> Healths]
    BY <1>2, <2>2 DEF MarkAgent, TypeOK
  <2> QED BY <1>2, <2>1, <2>3 DEF MarkAgent, TypeOK
<1>3. ASSUME NEW t \in Task, ReadRuns(t) PROVE TypeOK'
  <2>1. job[t] \in Recoveries
    BY <1>3, JobType DEF ReadRuns, AtStep
  <2>2. job'[t] \in Recoveries
    BY <1>3, <2>1, AgentsOfType DEF ReadRuns, TypeOK, Recoveries
  <2>3. \A u \in Task : u # t => job'[u] = job[u]
    BY <1>3 DEF ReadRuns, TypeOK
  <2>4. job' \in [Task -> Recoveries \cup {Resting}]
    BY <1>3, <2>2, <2>3 DEF ReadRuns, TypeOK
  <2> QED BY <1>3, <2>4 DEF ReadRuns, TypeOK
<1>4. ASSUME NEW t \in Task, GiveUp(t) \/ Block(t) \/ Resume(t) PROVE TypeOK'
  <2>1. job[t] \in Recoveries
    BY <1>4, JobType DEF GiveUp, Block, Resume, AtStep
  <2>2. /\ [job[t].copy EXCEPT !.status = "FAILED"] \in Rows
        /\ [job[t].copy EXCEPT !.status = "BLOCKED"] \in Rows
        /\ [status |-> "RUNNING", agent |-> job[t].pick, retries |-> job[t].count] \in Rows
    BY <2>1 DEF Recoveries, Rows, TaskStatuses
  <2>3. row' \in [Task -> Rows]
    BY <1>4, <2>2 DEF GiveUp, Block, Resume, Settle, TypeOK
  <2>4. job' \in [Task -> Recoveries \cup {Resting}]
    BY <1>4, RestType DEF GiveUp, Block, Resume, Settle
  <2> QED BY <1>4, <2>3, <2>4 DEF GiveUp, Block, Resume, Settle, TypeOK
<1>5. ASSUME NEW t \in Task, Choose(t) PROVE TypeOK'
  <2>1. job[t] \in Recoveries
    BY <1>5, JobType DEF Choose, AtStep
  <2>2. PICK a \in Eligible(t) : job' = [job EXCEPT ![t].step = "spawn", ![t].pick = a]
    BY <1>5 DEF Choose
  <2>3. a \in Agent
    BY <2>2 DEF Eligible
  <2>4. job'[t] \in Recoveries
    BY <2>1, <2>2, <2>3 DEF TypeOK, Recoveries
  <2>5. job' \in [Task -> Recoveries \cup {Resting}]
    BY <2>2, <2>4 DEF TypeOK
  <2> QED BY <1>5, <2>5 DEF Choose, TypeOK
<1>6. ASSUME NEW t \in Task, ChooseNobody(t) PROVE TypeOK'
  BY <1>6, StepType DEF ChooseNobody, AtStep, RecoverySteps, TypeOK
<1>7. ASSUME NEW t \in Task, Spawn(t) PROVE TypeOK'
  <2>1. job[t] \in Recoveries
    BY <1>7, JobType DEF Spawn, AtStep
  <2>2. Replacement(job[t].pick, job[t].failed) \in Runs
    BY <2>1, ReplacementType DEF Recoveries
  <2>3. runs' \in [Task -> Seq(Runs)]
    BY <1>7, <2>2 DEF Spawn, TypeOK
  <2>4. job' \in [Task -> Recoveries \cup {Resting}]
    BY <1>7, StepType DEF Spawn, AtStep, RecoverySteps
  <2> QED BY <1>7, <2>3, <2>4 DEF Spawn, TypeOK
<1>8. ASSUME NEW t \in Task, NEW code \in Codes, NEW i \in 0 .. Len(runs[t]),
             Report(t, i, code)
      PROVE  TypeOK'
  <2>1. row[t] \in Rows /\ row[t].agent \in Agent /\ i \in Nat
    BY AgentsOfType DEF TypeOK, Rows
  <2>2. job' \in [Task -> Recoveries \cup {Resting}]
    BY <1>8, <2>1 DEF Report, TypeOK, Recoveries
  <2> QED BY <1>8, <2>2 DEF Report, TypeOK
<1>9. ASSUME NEW t \in Task, NEW a \in Agent, NEW how \in Resumptions, Switch(t, a, how)
      PROVE  TypeOK'
  <2> DEFINE parent == IF runs[t] = << >> THEN Unknown ELSE 1
  <2>1. Replacement(a, parent) \in Runs /\ Retired(t) \in Seq(Runs)
    BY ReplacementType, RetiredType DEF Unknown
  <2>2. Append(Retired(t), Replacement(a, parent)) \in Seq(Runs)
    BY <2>1
  <2>3. \/ runs' = [runs EXCEPT ![t] = Retired(t)]
        \/ runs' = [runs EXCEPT ![t] = Append(Retired(t), Replacement(a, parent))]
    BY <1>9 DEF Switch
  <2>4. runs' \in [Task -> Seq(Runs)]
    <3> HIDE DEF parent
    <3> QED BY <2>1, <2>2, <2>3 DEF TypeOK
  <2>5. [status |-> "DISPATCHED", agent |-> a, retries |-> row[t].retries + 1] \in Rows
    BY DEF TypeOK, Rows, TaskStatuses
  <2>6. row' \in [Task -> Rows]
    BY <1>9, <2>5 DEF Switch, TypeOK
  <2> QED BY <1>9, <2>4, <2>6 DEF Switch, TypeOK
<1>10. CASE UNCHANGED vars
  BY <1>10 DEF vars, TypeOK
<1> QED
  BY <1>1, <1>2, <1>3, <1>4, <1>5, <1>6, <1>7, <1>8, <1>9, <1>10 DEF Next, Recover

\* Every variable of Failover has its type, whatever fails and is switched.
THEOREM FailoverTypeCorrect == Spec => []TypeOK
BY TypeInit, TypeStep, PTL DEF Spec

-----------------------------------------------------------------------------
(* The inductive invariant of the recovered tasks.  The four promises of   *)
(* ChainInv are not inductive: what a recovery has read must still be true *)
(* when it acts on it, and the two tables must agree between recoveries.   *)

Ended(t) == \A i \in 1 .. Len(runs[t]) : runs[t][i].status # "RUNNING"
LastLive(t) ==
  \A i \in 1 .. Len(runs[t]) : runs[t][i].status = "RUNNING" <=> i = Len(runs[t])
Active(t) == row[t].status \in {"QUEUED", "RUNNING"}
ServedBy(t, a) == Len(runs[t]) > 0 => runs[t][Len(runs[t])].agent = a
NoneLeft(t) == \A a \in Capable[t] : a \in AgentsOf(t) \/ health[a] # "AVAILABLE"

ChainInv(t) ==
  /\ \A i, j \in 1 .. Len(runs[t]) : runs[t][i].agent = runs[t][j].agent => i = j
  /\ Len(runs[t]) <= MaxRetries + 1
  /\ row[t].status = "FAILED" => Len(runs[t]) = MaxRetries + 1
  /\ row[t].status = "BLOCKED" => NoneLeft(t)

\* Between recoveries an active task is served by its latest run alone.
RestInv(t) ==
  AtStep(t, "none") =>
    /\ Active(t) => LastLive(t) /\ ServedBy(t, row[t].agent)
    /\ ~Active(t) => row[t].status \in {"FAILED", "BLOCKED"} /\ Ended(t)

\* What a recovery has read is still so.
JobInv(t) ==
  ~AtStep(t, "none") =>
    /\ Active(t) /\ job[t].copy = row[t]
    /\ ~AtStep(t, "resume") => job[t].failed = Len(runs[t])
    /\ AtStep(t, "run") => LastLive(t)
    /\ ~AtStep(t, "run") /\ ~AtStep(t, "resume") => Ended(t)
    /\ AtStep(t, "exhausted") => Len(runs[t]) = MaxRetries + 1
    /\ job[t].step \in {"choose", "blocked", "spawn"} => Len(runs[t]) <= MaxRetries
    /\ AtStep(t, "choose") => job[t].tried = AgentsOf(t)
    /\ AtStep(t, "blocked") => NoneLeft(t)
    /\ AtStep(t, "spawn") => job[t].pick \notin AgentsOf(t)
    /\ AtStep(t, "resume") => LastLive(t) /\ ServedBy(t, job[t].pick)

TaskInv(t) == ChainInv(t) /\ RestInv(t) /\ JobInv(t)
FailoverInv == TypeOK /\ \A t \in Recovered : TaskInv(t)

\* A step elsewhere keeps the invariant of a task: health never improves.
LEMMA Elsewhere ==
  ASSUME FailoverInv, TypeOK', NEW t \in Recovered,
         runs'[t] = runs[t], row'[t] = row[t], job'[t] = job[t],
         \A a \in Agent : health'[a] = "AVAILABLE" => health[a] = "AVAILABLE"
  PROVE  TaskInv(t)'
<1> USE DEF FailoverInv, TaskInv
<1>1. NoneLeft(t) => NoneLeft(t)'
  BY DEF NoneLeft, AgentsOf, Recovered
<1>2. ChainInv(t)'
  BY <1>1 DEF ChainInv
<1>3. RestInv(t)'
  BY DEF RestInv, AtStep, Active, LastLive, ServedBy, Ended
<1>4. JobInv(t)'
  <2>1. /\ Active(t)' = Active(t) /\ Ended(t)' = Ended(t) /\ LastLive(t)' = LastLive(t)
        /\ AgentsOf(t)' = AgentsOf(t)
    BY DEF Active, Ended, LastLive, AgentsOf
  <2>2. ServedBy(t, job[t].pick)' = ServedBy(t, job[t].pick)
    BY DEF ServedBy
  <2>3. JobInv(t)
    OBVIOUS
  <2> HIDE DEF FailoverInv, TaskInv
  <2> QED BY <1>1, <2>1, <2>2, <2>3 DEF JobInv, AtStep
<1> QED BY <1>2, <1>3, <1>4

LEMMA FailoverInit == Init => FailoverInv
<1> SUFFICES ASSUME Init PROVE FailoverInv
  OBVIOUS
<1>1. TypeOK
  BY TypeInit
<1>2. ASSUME NEW t \in Recovered PROVE TaskInv(t)
  <2>1. t \in Task /\ row[t].status \in {"QUEUED", "RUNNING"} /\ job[t] = Resting
    BY <1>2 DEF Init, Recovered
  <2>2. \/ runs[t] = << >>
        \/ \E a \in Agent :
             runs[t] = <<[agent |-> a, parent |-> Unknown, status |-> "RUNNING"]>>
    BY <2>1 DEF Init
  <2>3. Len(runs[t]) \in {0, 1} /\ \A i \in 1 .. Len(runs[t]) : i = 1 /\ runs[t][i].status = "RUNNING"
    <3>1. runs[t] = << >> => Len(runs[t]) = 0
      OBVIOUS
    <3>2. ASSUME NEW a \in Agent,
                 runs[t] = <<[agent |-> a, parent |-> Unknown, status |-> "RUNNING"]>>
          PROVE  Len(runs[t]) = 1 /\ runs[t][1].status = "RUNNING"
      BY <3>2
    <3>3. Len(runs[t]) = 0 \/ (Len(runs[t]) = 1 /\ runs[t][1].status = "RUNNING")
      BY <2>2, <3>1, <3>2, Zenon
    <3> QED BY <3>3
  <2>4. Len(runs[t]) = 1 => runs[t][1].agent = row[t].agent
    <3>1. Len(runs[t]) = 1 => runs[t] # << >>
      OBVIOUS
    <3> QED BY <2>1, <3>1 DEF Init
  <2>5. ChainInv(t)
    BY <2>1, <2>3 DEF ChainInv
  <2>6. RestInv(t)
    BY <2>1, <2>3, <2>4 DEF RestInv, Active, LastLive, ServedBy
  <2>7. JobInv(t)
    BY <2>1 DEF JobInv, AtStep, Resting
  <2> QED BY <2>5, <2>6, <2>7 DEF TaskInv
<1> QED BY <1>1, <1>2 DEF FailoverInv

\* A task under recovery is QUEUED or RUNNING, so the state machine never raises.
LEMMA ActiveIsLegal ==
  ASSUME NEW s \in {"QUEUED", "RUNNING"}
  PROVE  Legal(s, "FAILED") /\ Legal(s, "BLOCKED") /\ Resumable(s)
BY DEF Legal, LegalTransitions, Resumable

LEMMA SettleStep ==
  ASSUME FailoverInv, TypeOK', NEW t \in Recovered, ~AtStep(t, "none"), Ended(t),
         NEW s \in {"FAILED", "BLOCKED"}, Settle(t, s),
         s = "FAILED" => Len(runs[t]) = MaxRetries + 1,
         s = "BLOCKED" => NoneLeft(t)
  PROVE  TaskInv(t)'
<1> USE DEF FailoverInv, TaskInv
<1>1. t \in Task /\ job[t].copy = row[t] /\ Active(t)
  BY DEF Recovered, JobInv
<1>2. Legal(row[t].status, s)
  BY <1>1, ActiveIsLegal DEF Active
<1>3. row'[t] = [row[t] EXCEPT !.status = s] /\ row'[t].status = s
  BY <1>1, <1>2 DEF Settle, TypeOK, Rows
<1>4. job'[t] = Resting /\ UNCHANGED <<runs, health>>
  BY <1>1 DEF Settle, TypeOK
<1>5. ChainInv(t)'
  BY <1>3, <1>4 DEF ChainInv, NoneLeft, AgentsOf
<1>6. RestInv(t)'
  BY <1>3, <1>4 DEF RestInv, Active, Ended
<1>7. JobInv(t)'
  BY <1>4 DEF JobInv, AtStep, Resting
<1> QED BY <1>5, <1>6, <1>7

LEMMA SpawnStep ==
  ASSUME FailoverInv, TypeOK', NEW t \in Recovered, Spawn(t)
  PROVE  TaskInv(t)'
<1> USE DEF FailoverInv, TaskInv
<1> DEFINE n == Len(runs[t])
           new == Replacement(job[t].pick, job[t].failed)
<1>1. t \in Task /\ runs[t] \in Seq(Runs) /\ n \in Nat /\ job[t] \in Recoveries
  BY JobType DEF Recovered, TypeOK, Spawn, AtStep
<1>2. /\ Active(t) /\ job[t].copy = row[t] /\ Ended(t) /\ n <= MaxRetries
      /\ job[t].pick \notin AgentsOf(t)
  BY DEF JobInv, AtStep, Spawn
<1>3. runs'[t] = Append(runs[t], new) /\ UNCHANGED <<health, row>>
  BY <1>1 DEF Spawn, TypeOK
<1>4. job'[t].step = "resume" /\ job'[t].copy = job[t].copy /\ job'[t].pick = job[t].pick
  BY <1>1 DEF Spawn, TypeOK, Recoveries
<1>5. new.agent = job[t].pick /\ new.status = "RUNNING"
  BY DEF Replacement
<1>6. /\ Len(runs'[t]) = n + 1 /\ runs'[t][n + 1] = new
      /\ \A i \in 1 .. n : runs'[t][i] = runs[t][i]
  <2> HIDE DEF new
  <2> QED BY <1>1, <1>3
<1>7. \A i \in 1 .. n : runs[t][i].agent # job[t].pick
  BY <1>2 DEF AgentsOf
<1> HIDE DEF new
<1>8. \A i, j \in 1 .. n + 1 : runs'[t][i].agent = runs'[t][j].agent => i = j
  <2>1. \A i, j \in 1 .. n : runs[t][i].agent = runs[t][j].agent => i = j
    BY DEF ChainInv
  <2>2. \A i \in 1 .. n + 1 : i \in 1 .. n \/ i = n + 1
    BY <1>1
  <2> HIDE DEF n
  <2> QED BY <1>5, <1>6, <1>7, <2>1, <2>2
<1>9. ChainInv(t)'
  BY <1>1, <1>2, <1>3, <1>6, <1>8, SMTT(40) DEF ChainInv, Active
<1>10. RestInv(t)'
  BY <1>4 DEF RestInv, AtStep
<1>11. LastLive(t)' /\ ServedBy(t, job[t].pick)'
  <2> HIDE DEF n, FailoverInv, TaskInv
  <2>1. \A i \in 1 .. n : runs'[t][i].status # "RUNNING"
    BY <1>2, <1>6 DEF Ended, n
  <2>2. \A i \in 1 .. n + 1 : i \in 1 .. n \/ i = n + 1
    BY <1>1
  <2>3. LastLive(t)'
    BY <1>1, <1>5, <1>6, <2>1, <2>2 DEF LastLive
  <2> QED BY <1>4, <1>5, <1>6, <2>3 DEF ServedBy
<1>12. JobInv(t)'
  BY <1>2, <1>3, <1>4, <1>11 DEF JobInv, AtStep, Active, ServedBy
<1> QED BY <1>9, <1>10, <1>12

LEMMA RecoverStep ==
  ASSUME FailoverInv, TypeOK', NEW t \in Recovered, Recover(t)
  PROVE  TaskInv(t)'
<1> USE DEF FailoverInv, TaskInv
<1>1. /\ t \in Task /\ ~AtStep(t, "none") /\ job[t] \in Recoveries
      /\ runs[t] \in Seq(Runs) /\ Len(runs[t]) \in Nat
  <2>1. t \in Task
    BY DEF Recovered
  <2>2. ~AtStep(t, "none")
    BY DEF Recover, FailRun, MarkAgent, ReadRuns, GiveUp, Choose, ChooseNobody, Block, Spawn,
       Resume, AtStep
  <2> QED BY <2>1, <2>2, JobType DEF AtStep, TypeOK
<1>2. Active(t) /\ job[t].copy = row[t] /\ row[t].status \notin {"BLOCKED", "FAILED"}
  BY <1>1 DEF JobInv, Active
\* The promises of ChainInv speak of the agents of the runs alone.
<1>3. ASSUME Active(t)', Len(runs'[t]) = Len(runs[t]),
             \A i \in 1 .. Len(runs[t]) : runs'[t][i].agent = runs[t][i].agent
      PROVE  ChainInv(t)'
  BY <1>1, <1>3 DEF ChainInv, Active
<1>4. CASE FailRun(t)
  <2>1. row'[t] = row[t] /\ job'[t] = [job[t] EXCEPT !.step = "agent"]
    BY <1>1, <1>4 DEF FailRun, TypeOK
  <2>2. job'[t].step = "agent" /\ job'[t].copy = job[t].copy /\ job'[t].failed = job[t].failed
    BY <1>1, <2>1 DEF Recoveries
  <2>3. LastLive(t) /\ job[t].failed = Len(runs[t])
    BY <1>1, <1>4 DEF JobInv, FailRun, AtStep
  <2>4. /\ Len(runs'[t]) = Len(runs[t])
        /\ \A i \in 1 .. Len(runs[t]) :
             /\ runs'[t][i].agent = runs[t][i].agent
             /\ i = job[t].failed => runs'[t][i].status # "RUNNING"
             /\ i # job[t].failed => runs'[t][i] = runs[t][i]
    BY <1>1, <1>4, FailRunEffect
  <2>5. Ended(t)'
    BY <2>3, <2>4 DEF Ended, LastLive
  <2>6. Active(t)'
    BY <1>2, <2>1 DEF Active
  <2>7. ChainInv(t)'
    BY <1>3, <2>4, <2>6
  <2>8. JobInv(t)' /\ RestInv(t)'
    BY <1>2, <2>1, <2>2, <2>3, <2>4, <2>5, <2>6 DEF JobInv, RestInv, AtStep
  <2> QED BY <2>7, <2>8
<1>5. CASE MarkAgent(t)
  <2>1. /\ job'[t].step = "budget" /\ job'[t].copy = job[t].copy
        /\ job'[t].failed = job[t].failed
    BY <1>1, <1>5 DEF MarkAgent, TypeOK, Recoveries
  <2>2. UNCHANGED <<row, runs>> /\ Ended(t) /\ job[t].failed = Len(runs[t])
    BY <1>1, <1>5 DEF MarkAgent, JobInv, AtStep
  <2>3. Active(t)' /\ ChainInv(t)'
    BY <1>2, <1>3, <2>2 DEF Active
  <2>4. JobInv(t)' /\ RestInv(t)'
    BY <1>2, <2>1, <2>2, <2>3 DEF JobInv, RestInv, AtStep, Ended
  <2> QED BY <2>3, <2>4
<1>6. CASE ReadRuns(t)
  <2>1. /\ job'[t].step = IF Exhausted(Len(runs[t])) THEN "exhausted" ELSE "choose"
        /\ job'[t].copy = job[t].copy /\ job'[t].failed = job[t].failed
        /\ job'[t].tried = AgentsOf(t)
    BY <1>1, <1>6 DEF ReadRuns, TypeOK, Recoveries
  <2>2. UNCHANGED <<row, runs>> /\ Ended(t) /\ job[t].failed = Len(runs[t])
    BY <1>1, <1>6 DEF ReadRuns, JobInv, AtStep
  <2>3. Active(t)' /\ ChainInv(t)'
    BY <1>2, <1>3, <2>2 DEF Active
  <2>4. IF Exhausted(Len(runs[t])) THEN Len(runs[t]) = MaxRetries + 1
                                   ELSE Len(runs[t]) <= MaxRetries
    BY <1>1 DEF ChainInv, Exhausted
  <2>5. JobInv(t)' /\ RestInv(t)'
    BY <1>2, <2>1, <2>2, <2>3, <2>4 DEF JobInv, RestInv, AtStep, Ended, AgentsOf
  <2> QED BY <2>3, <2>5
<1>7. CASE GiveUp(t)
  <2>1. Ended(t) /\ Len(runs[t]) = MaxRetries + 1
    BY <1>1, <1>7 DEF GiveUp, JobInv, AtStep
  <2> QED BY <1>1, <1>7, <2>1, SettleStep DEF GiveUp
<1>8. CASE Choose(t)
  <2>1. PICK a \in Eligible(t) : job' = [job EXCEPT ![t].step = "spawn", ![t].pick = a]
    BY <1>8 DEF Choose
  <2>2. /\ job'[t].step = "spawn" /\ job'[t].copy = job[t].copy
        /\ job'[t].failed = job[t].failed /\ job'[t].pick = a
    BY <1>1, <2>1 DEF TypeOK, Recoveries
  <2>3. /\ UNCHANGED <<row, runs>> /\ Ended(t) /\ job[t].failed = Len(runs[t])
        /\ job[t].tried = AgentsOf(t) /\ Len(runs[t]) <= MaxRetries
    BY <1>1, <1>8 DEF Choose, JobInv, AtStep
  <2>4. a \notin AgentsOf(t)
    BY <2>3 DEF Eligible
  <2>5. Active(t)' /\ ChainInv(t)'
    BY <1>2, <1>3, <2>3 DEF Active
  <2>6. JobInv(t)' /\ RestInv(t)'
    BY <1>2, <2>2, <2>3, <2>4, <2>5 DEF JobInv, RestInv, AtStep, Ended, AgentsOf
  <2> QED BY <2>5, <2>6
<1>9. CASE ChooseNobody(t)
  <2>1. /\ job'[t].step = "blocked" /\ job'[t].copy = job[t].copy
        /\ job'[t].failed = job[t].failed
    BY <1>1, <1>9 DEF ChooseNobody, TypeOK, Recoveries
  <2>2. /\ UNCHANGED <<health, row, runs>> /\ Ended(t) /\ job[t].failed = Len(runs[t])
        /\ job[t].tried = AgentsOf(t) /\ Len(runs[t]) <= MaxRetries
    BY <1>1, <1>9 DEF ChooseNobody, JobInv, AtStep
  <2>3. NoneLeft(t)
    BY <1>9, <2>2 DEF ChooseNobody, Eligible, NoneLeft
  <2>4. Active(t)' /\ ChainInv(t)'
    BY <1>2, <1>3, <2>2 DEF Active
  <2>5. JobInv(t)' /\ RestInv(t)'
    BY <1>2, <2>1, <2>2, <2>3, <2>4 DEF JobInv, RestInv, AtStep, Ended, NoneLeft, AgentsOf
  <2> QED BY <2>4, <2>5
<1>10. CASE Block(t)
  <2>1. Ended(t) /\ NoneLeft(t)
    BY <1>1, <1>10 DEF Block, JobInv, AtStep
  <2> QED BY <1>1, <1>10, <2>1, SettleStep DEF Block
<1>11. CASE Spawn(t)
  BY <1>11, SpawnStep
<1>12. CASE Resume(t)
  <2>1. LastLive(t) /\ ServedBy(t, job[t].pick) /\ UNCHANGED <<health, runs>>
    BY <1>1, <1>12 DEF Resume, JobInv, AtStep
  <2>2. Resumable(row[t].status)
    BY <1>2, ActiveIsLegal DEF Active
  <2>3. row'[t].status = "RUNNING" /\ row'[t].agent = job[t].pick
    BY <1>1, <1>2, <1>12, <2>2 DEF Resume, TypeOK
  <2>4. job'[t] = Resting
    BY <1>1, <1>12 DEF Resume, TypeOK
  <2>5. Active(t)' /\ ChainInv(t)'
    BY <1>3, <2>1, <2>3 DEF Active
  <2>6. RestInv(t)'
    BY <2>1, <2>3, <2>5 DEF RestInv, LastLive, ServedBy
  <2>7. JobInv(t)'
    BY <2>4 DEF JobInv, AtStep, Resting
  <2> QED BY <2>5, <2>6, <2>7
<1> QED
  BY <1>4, <1>5, <1>6, <1>7, <1>8, <1>9, <1>10, <1>11, <1>12 DEF Recover

LEMMA ReportStep ==
  ASSUME FailoverInv, TypeOK', NEW t \in Recovered, NEW code \in Codes,
         NEW i \in 0 .. Len(runs[t]), Report(t, i, code)
  PROVE  TaskInv(t)'
<1> USE DEF FailoverInv, TaskInv
<1>1. t \in Task /\ AtStep(t, "none") /\ UNCHANGED <<health, row, runs>>
  BY DEF Report, Recovered
<1>2. Active(t) /\ i = Len(runs[t]) /\ LastLive(t)
  <2>1. CASE i \in 1 .. Len(runs[t]) /\ runs[t][i].status = "RUNNING"
    BY <1>1, <2>1 DEF RestInv, Ended, LastLive
  <2>2. CASE i = Unknown /\ runs[t] = << >> /\ row[t].status = "RUNNING"
    BY <1>1, <2>2 DEF RestInv, Unknown, Active
  <2> QED BY <2>1, <2>2 DEF Report
<1>3. job'[t].step = "run" /\ job'[t].failed = i /\ job'[t].copy = row[t]
  BY <1>1 DEF Report, TypeOK
<1>4. ChainInv(t)' /\ Active(t)' /\ LastLive(t)'
  BY <1>1, <1>2, SMTT(40) DEF ChainInv, Active, LastLive, NoneLeft, AgentsOf
<1>5. JobInv(t)' /\ RestInv(t)'
  BY <1>1, <1>2, <1>3, <1>4 DEF JobInv, RestInv, AtStep
<1> QED BY <1>4, <1>5

\* No code makes an agent AVAILABLE, and only MarkAgent writes an agent's health.
LEMMA HealthStep ==
  ASSUME TypeOK, [Next]_vars, NEW a \in Agent, health'[a] = "AVAILABLE"
  PROVE  health[a] = "AVAILABLE"
<1>1. ASSUME NEW t \in Task, MarkAgent(t) PROVE health[a] = "AVAILABLE"
  <2>1. health'[a] \in {health[a], HealthAfter(job[t].code, health[a])}
    BY <1>1 DEF MarkAgent, TypeOK
  <2> QED BY <2>1 DEF HealthAfter
<1>2. ASSUME NEW t \in Task, Recover(t), ~MarkAgent(t) PROVE UNCHANGED health
  BY <1>2 DEF Recover, FailRun, ReadRuns, GiveUp, Choose, ChooseNobody, Block, Spawn, Resume,
     Settle
<1>3. ASSUME NEW t \in Task, NEW code \in Codes, NEW i \in 0 .. Len(runs[t]),
             Report(t, i, code)
      PROVE  UNCHANGED health
  BY <1>3 DEF Report
<1>4. ASSUME NEW t \in Task, NEW b \in Agent, NEW how \in Resumptions, Switch(t, b, how)
      PROVE  UNCHANGED health
  BY <1>4 DEF Switch
<1> QED BY <1>1, <1>2, <1>3, <1>4 DEF Next, vars

\* A step of one task writes no row, run or recovery of another.
LEMMA OwnRows ==
  ASSUME TypeOK, NEW t \in Task, NEW u \in Task, u # t,
         \/ Recover(t)
         \/ \E code \in Codes : \E i \in 0 .. Len(runs[t]) : Report(t, i, code)
         \/ \E a \in Agent : \E how \in Resumptions : Switch(t, a, how)
  PROVE  runs'[u] = runs[u] /\ row'[u] = row[u] /\ job'[u] = job[u]
<1>1. CASE FailRun(t)
  BY <1>1, FailRunEffect DEF FailRun, TypeOK
<1>2. CASE Recover(t) /\ ~FailRun(t)
  BY <1>2 DEF Recover, MarkAgent, ReadRuns, GiveUp, Choose, ChooseNobody, Block, Spawn,
     Resume, Settle, TypeOK
<1>3. CASE \E code \in Codes : \E i \in 0 .. Len(runs[t]) : Report(t, i, code)
  BY <1>3 DEF Report, TypeOK
<1>4. CASE \E a \in Agent : \E how \in Resumptions : Switch(t, a, how)
  BY <1>4 DEF Switch, TypeOK
<1> QED BY <1>1, <1>2, <1>3, <1>4, SMTT(40)

LEMMA FailoverStep == FailoverInv /\ [Next]_vars => FailoverInv'
<1> SUFFICES ASSUME FailoverInv, [Next]_vars PROVE FailoverInv'
  OBVIOUS
<1>1. TypeOK /\ TypeOK'
  BY TypeStep DEF FailoverInv
<1>2. ASSUME NEW t \in Recovered PROVE TaskInv(t)'
  <2>1. t \in Task /\ t \notin Switched
    BY DEF Recovered
  <2>2. \A a \in Agent : health'[a] = "AVAILABLE" => health[a] = "AVAILABLE"
    BY <1>1, HealthStep
  <2>3. CASE Recover(t)
    BY <1>1, <2>3, RecoverStep
  <2>4. CASE \E code \in Codes : \E i \in 0 .. Len(runs[t]) : Report(t, i, code)
    BY <1>1, <2>4, ReportStep
  <2>5. CASE UNCHANGED vars
    BY <1>1, <2>2, <2>5, Elsewhere DEF vars
  <2>6. ASSUME NEW u \in Task, u # t,
               \/ Recover(u)
               \/ \E code \in Codes : \E i \in 0 .. Len(runs[u]) : Report(u, i, code)
               \/ \E a \in Agent : \E how \in Resumptions : Switch(u, a, how)
        PROVE  TaskInv(t)'
    BY <1>1, <2>1, <2>2, <2>6, OwnRows, Elsewhere
  <2>7. ASSUME NEW a \in Agent, NEW how \in Resumptions PROVE ~Switch(t, a, how)
    BY <2>1 DEF Switch
  <2> QED BY <2>1, <2>3, <2>4, <2>5, <2>6, <2>7 DEF Next
<1> QED BY <1>1, <1>2 DEF FailoverInv

LEMMA FailoverInvariant == Spec => []FailoverInv
BY FailoverInit, FailoverStep, PTL DEF Spec

-----------------------------------------------------------------------------
(* The promises.                                                           *)

\* Loop prevention: handle_failure_and_recover gives no task to an agent twice,
\* for any number of agents, any retry limit and any sequence of error codes.
THEOREM LoopPrevention == Spec => []NoAgentTwice
<1>1. FailoverInv => NoAgentTwice
  BY DEF FailoverInv, TaskInv, ChainInv, NoAgentTwice
<1> QED BY <1>1, FailoverInvariant, PTL

\* The runs of a task are at most max_retries_per_task + 1, and recovery is
\* given up only when they are that many.
THEOREM RetryCap == Spec => []RetriesCapped
<1>1. FailoverInv => RetriesCapped
  BY DEF FailoverInv, TaskInv, ChainInv, RetriesCapped
<1> QED BY <1>1, FailoverInvariant, PTL

\* A task is BLOCKED only while no capable agent is left for it, though other
\* recoveries change the agents' health at the same time.
THEOREM BlockingIsJustified == Spec => []BlockedWithoutAgent
<1>1. FailoverInv => BlockedWithoutAgent
  BY DEF FailoverInv, TaskInv, ChainInv, NoneLeft, BlockedWithoutAgent
<1> QED BY <1>1, FailoverInvariant, PTL

-----------------------------------------------------------------------------
(* The latest run serves the task.                                         *)

\* Between an analyst's switches, each of which writes both tables before it
\* awaits, the latest run of the task is live and has the task's agent.
SwitchedInv ==
  \A t \in Switched \cap Task :
    /\ AtStep(t, "none")
    /\ runs[t] # << >> =>
         /\ runs[t][Len(runs[t])].status = "RUNNING"
         /\ runs[t][Len(runs[t])].agent = row[t].agent

LEMMA SwitchedInit == Init => SwitchedInv
<1> SUFFICES ASSUME Init, NEW t \in Switched \cap Task
             PROVE  /\ AtStep(t, "none")
                    /\ runs[t] # << >> =>
                         /\ runs[t][Len(runs[t])].status = "RUNNING"
                         /\ runs[t][Len(runs[t])].agent = row[t].agent
  BY DEF SwitchedInv
<1>1. AtStep(t, "none")
  BY DEF Init, AtStep, Resting
<1>2. runs[t] \in {<< >>} \cup
        { <<[agent |-> a, parent |-> Unknown, status |-> "RUNNING"]>> : a \in Agent }
  BY DEF Init
<1>3. ASSUME runs[t] # << >>
      PROVE  /\ runs[t][Len(runs[t])].status = "RUNNING"
             /\ runs[t][Len(runs[t])].agent = row[t].agent
  <2>1. PICK a \in Agent : runs[t] = <<[agent |-> a, parent |-> Unknown, status |-> "RUNNING"]>>
    BY <1>2, <1>3
  <2>2. Len(runs[t]) = 1 /\ runs[t][1].status = "RUNNING"
    BY <2>1
  <2>3. runs[t][1].agent = row[t].agent
    BY <1>3 DEF Init
  <2> QED BY <2>2, <2>3
<1> QED BY <1>1, <1>3

LEMMA SwitchStep ==
  ASSUME TypeOK, SwitchedInv, Switched \cap Reported = {}, "PAUSE" \notin Resumptions,
         [Next]_vars
  PROVE  SwitchedInv'
<1> SUFFICES ASSUME NEW u \in Switched \cap Task
             PROVE  (/\ AtStep(u, "none")
                     /\ runs[u] # << >> =>
                          /\ runs[u][Len(runs[u])].status = "RUNNING"
                          /\ runs[u][Len(runs[u])].agent = row[u].agent)'
  BY DEF SwitchedInv
<1> DEFINE Kept == runs'[u] = runs[u] /\ row'[u] = row[u] /\ job'[u] = job[u]
<1>1. ASSUME Kept
      PROVE  (/\ AtStep(u, "none")
              /\ runs[u] # << >> =>
                   /\ runs[u][Len(runs[u])].status = "RUNNING"
                   /\ runs[u][Len(runs[u])].agent = row[u].agent)'
  BY <1>1 DEF SwitchedInv, AtStep
<1>2. ASSUME NEW t \in Task,
             \/ Recover(t)
             \/ \E code \in Codes : \E i \in 0 .. Len(runs[t]) : Report(t, i, code)
      PROVE  Kept
  <2>1. CASE t = u
    <3>1. ~Recover(u)
      BY DEF SwitchedInv, Recover, FailRun, MarkAgent, ReadRuns, GiveUp, Choose, ChooseNobody,
             Block, Spawn, Resume, AtStep
    <3>2. u \notin Reported
      OBVIOUS
    <3> QED BY <1>2, <2>1, <3>1, <3>2 DEF Report
  <2>2. CASE t # u
    BY <1>2, <2>2, OwnRows
  <2> QED BY <2>1, <2>2
<1>3. ASSUME NEW t \in Task, NEW a \in Agent, NEW how \in Resumptions, Switch(t, a, how)
      PROVE  (/\ AtStep(u, "none")
              /\ runs[u] # << >> =>
                   /\ runs[u][Len(runs[u])].status = "RUNNING"
                   /\ runs[u][Len(runs[u])].agent = row[u].agent)'
  <2>1. how # "PAUSE" /\ job' = job
    BY <1>3 DEF Switch
  <2>2. PICK parent \in {Unknown, 1} :
          /\ runs' = [runs EXCEPT ![t] = Append(Retired(t), Replacement(a, parent))]
          /\ row' = [row EXCEPT ![t] = [status |-> "DISPATCHED", agent |-> a,
                                        retries |-> row[t].retries + 1]]
    BY <1>3, <2>1 DEF Switch
  <2>3. CASE t = u
    <3>1. Retired(u) \in Seq(Runs) /\ Replacement(a, parent) \in Runs
      BY RetiredType, ReplacementType DEF Unknown
    <3>2. /\ runs'[u] = Append(Retired(u), Replacement(a, parent))
          /\ row'[u].agent = a
      BY <2>2, <2>3 DEF TypeOK
    <3>3. runs'[u][Len(runs'[u])] = Replacement(a, parent)
      BY <3>1, <3>2
    <3> QED BY <2>1, <3>2, <3>3 DEF SwitchedInv, AtStep, Replacement
  <2>4. CASE t # u
    <3>1. Kept
      BY <2>1, <2>2, <2>4 DEF TypeOK
    <3> QED BY <1>1, <3>1
  <2> QED BY <2>3, <2>4
<1>4. CASE UNCHANGED vars
  BY <1>1, <1>4 DEF vars
<1> QED BY <1>1, <1>2, <1>3, <1>4 DEF Next

\* Whenever no recovery of it is under way, an active task is served by its
\* latest run with the assigned agent, and a task nobody switched by that run
\* alone: for every number of tasks, agents and runs, as long as a switch does
\* not pause the task and no task is both switched and failing.
THEOREM LatestRunIsServing ==
  ASSUME Switched \cap Reported = {}, "PAUSE" \notin Resumptions
  PROVE  Spec => []LatestRunServes
<1>1. FailoverInv /\ SwitchedInv => LatestRunServes
  <2> SUFFICES ASSUME FailoverInv, SwitchedInv, NEW t \in Task, AtStep(t, "none"),
                      row[t].status \in {"RUNNING", "DISPATCHED"}, runs[t] # << >>
               PROVE  /\ Len(runs[t]) \in Live(t)
                      /\ runs[t][Len(runs[t])].agent = row[t].agent
                      /\ t \in Recovered => Live(t) = {Len(runs[t])}
    BY DEF LatestRunServes
  <2>1. Len(runs[t]) \in 1 .. Len(runs[t])
    <3>1. runs[t] \in Seq(Runs)
      BY DEF FailoverInv, TypeOK
    <3> QED BY <3>1
  <2>2. CASE t \in Recovered
    BY <2>1, <2>2 DEF FailoverInv, TaskInv, RestInv, Active, LastLive, ServedBy, Live
  <2>3. CASE t \in Switched
    BY <2>1, <2>3 DEF SwitchedInv, Live, Recovered
  <2> QED BY <2>2, <2>3 DEF Recovered
<1>2. FailoverInv /\ SwitchedInv /\ [Next]_vars => SwitchedInv'
  BY SwitchStep DEF FailoverInv
<1> QED BY <1>1, <1>2, SwitchedInit, FailoverInvariant, PTL DEF Spec

-----------------------------------------------------------------------------
(* The lineage of the runs.                                                *)

\* No recovery of a task the analyst switches is under way.
Unreported == \A t \in Switched \cap Task : AtStep(t, "none")

LEMMA UnreportedStep ==
  ASSUME TypeOK, Unreported, Switched \cap Reported = {}, [Next]_vars
  PROVE  Unreported'
<1> SUFFICES ASSUME NEW u \in Switched \cap Task PROVE job'[u] = job[u]
  BY DEF Unreported, AtStep
<1>1. ASSUME NEW t \in Task,
             \/ Recover(t)
             \/ \E code \in Codes : \E i \in 0 .. Len(runs[t]) : Report(t, i, code)
      PROVE  job'[u] = job[u]
  <2>1. ~Recover(u) /\ u \notin Reported
    BY DEF Unreported, Recover, FailRun, MarkAgent, ReadRuns, GiveUp, Choose, ChooseNobody,
       Block, Spawn, Resume, AtStep
  <2>2. t # u
    BY <1>1, <2>1 DEF Report
  <2> QED BY <1>1, <2>2, OwnRows
<1>2. ASSUME NEW t \in Task, NEW a \in Agent, NEW how \in Resumptions, Switch(t, a, how)
      PROVE  job'[u] = job[u]
  BY <1>2 DEF Switch
<1> QED BY <1>1, <1>2 DEF Next, vars

\* What is appended to a task's runs names a parent that has ended.
LEMMA AppendContinues ==
  ASSUME NEW s \in Seq(Runs), NEW old \in Seq(Runs), Len(s) = Len(old),
         \A i \in 1 .. Len(old) : SameRun(s[i], old[i]),
         NEW a \in Agent, NEW parent \in 0 .. Len(old),
         parent # Unknown => s[parent].status # "RUNNING"
  PROVE  Continues(Append(s, Replacement(a, parent)), old)
<1> DEFINE run == Replacement(a, parent)
           new == Append(s, run)
<1>1. run \in Runs /\ run.parent = parent
  BY ReplacementType DEF Replacement
<1>2. /\ Len(new) = Len(old) + 1 /\ new[Len(old) + 1] = run
      /\ \A i \in 1 .. Len(old) : new[i] = s[i]
  <2> HIDE DEF run
  <2> QED BY <1>1
<1> HIDE DEF run, new
<1>3. \A i \in Len(old) + 1 .. Len(new) : i = Len(old) + 1
  BY <1>2
<1>4. parent # Unknown => new[parent].status # "RUNNING"
  BY <1>2 DEF Unknown
<1>5. Continues(new, old)
  BY <1>1, <1>2, <1>3, <1>4 DEF Continues
<1> QED BY <1>5 DEF new, run

LEMMA RecoveryContinues ==
  ASSUME FailoverInv, NEW t \in Recovered, Recover(t)
  PROVE  Continues(runs'[t], runs[t])
<1>1. t \in Task /\ TypeOK /\ TaskInv(t) /\ runs[t] \in Seq(Runs) /\ Len(runs[t]) \in Nat
  BY DEF FailoverInv, Recovered, TypeOK
<1>2. CASE FailRun(t)
  <2>1. LastLive(t) /\ job[t].failed = Len(runs[t])
    BY <1>1, <1>2 DEF TaskInv, JobInv, FailRun, AtStep
  <2>2. /\ Len(runs'[t]) = Len(runs[t])
        /\ \A i \in 1 .. Len(runs[t]) :
             /\ runs'[t][i].agent = runs[t][i].agent
             /\ runs'[t][i].parent = runs[t][i].parent
             /\ i # job[t].failed => runs'[t][i] = runs[t][i]
    BY <1>1, <1>2, FailRunEffect
  <2> QED BY <1>1, <2>1, <2>2 DEF LastLive, Continues, SameRun
<1>3. CASE Spawn(t)
  <2>1. Ended(t) /\ job[t].failed = Len(runs[t]) /\ job[t] \in Recoveries
    BY <1>1, <1>3, JobType DEF TaskInv, JobInv, Spawn, AtStep
  <2>2. runs'[t] = Append(runs[t], Replacement(job[t].pick, job[t].failed))
    BY <1>1, <1>3 DEF Spawn, TypeOK
  <2>3. \A i \in 1 .. Len(runs[t]) : SameRun(runs[t][i], runs[t][i])
    BY DEF SameRun
  <2>4. job[t].failed # Unknown => runs[t][job[t].failed].status # "RUNNING"
    BY <1>1, <2>1 DEF Ended, Unknown
  <2>5. job[t].pick \in Agent /\ job[t].failed \in 0 .. Len(runs[t])
    BY <1>1, <2>1 DEF Recoveries
  <2> QED BY <1>1, <2>2, <2>3, <2>4, <2>5, AppendContinues, SMTT(40)
<1>4. CASE ~FailRun(t) /\ ~Spawn(t)
  <2>1. runs' = runs
    BY <1>4 DEF Recover, MarkAgent, ReadRuns, GiveUp, Choose, ChooseNobody, Block, Settle, Resume
  <2> QED BY <1>1, <2>1 DEF Continues, SameRun
<1> QED BY <1>2, <1>3, <1>4

\* "Durable Lineage": whatever recoveries of other tasks and switches do in
\* between, a task's runs are only appended to, none changes its agent or its
\* parent or ends twice, and a parent has ended before its replacement begins, as
\* long as no task is both switched and failing (create_run and update_run in
\* scheduler/failover.py and scheduler/agent_switcher.py).
THEOREM LineageIsDurable ==
  ASSUME Switched \cap Reported = {}
  PROVE  Spec => DurableLineage
<1>1. Init => Unreported
  BY DEF Init, Unreported, AtStep, Resting
<1>2. FailoverInv /\ Unreported /\ [Next]_vars => Unreported'
  BY UnreportedStep DEF FailoverInv
<1>3. FailoverInv /\ Unreported /\ [Next]_vars =>
        [\A t \in Task : Continues(runs'[t], runs[t])]_runs
  <2> SUFFICES ASSUME FailoverInv, Unreported, [Next]_vars, NEW t \in Task
               PROVE  Continues(runs'[t], runs[t])
    OBVIOUS
  <2>0. runs[t] \in Seq(Runs) /\ Len(runs[t]) \in Nat /\ TypeOK
    BY DEF FailoverInv, TypeOK
  <2>1. ASSUME runs'[t] = runs[t] PROVE Continues(runs'[t], runs[t])
    BY <2>0, <2>1 DEF Continues, SameRun
  <2>2. ASSUME NEW u \in Task, Recover(u) PROVE Continues(runs'[t], runs[t])
    <3>1. u \in Recovered
      BY <2>2 DEF Unreported, Recovered, Recover, FailRun, MarkAgent, ReadRuns, GiveUp,
         Choose, ChooseNobody, Block, Spawn, Resume, AtStep
    <3> QED BY <2>0, <2>1, <2>2, <3>1, RecoveryContinues, OwnRows
  <2>3. ASSUME NEW u \in Task, NEW a \in Agent, NEW how \in Resumptions, Switch(u, a, how)
        PROVE  Continues(runs'[t], runs[t])
    <3>1. CASE u # t
      BY <2>0, <2>1, <2>3, <3>1 DEF Switch, TypeOK
    <3>2. CASE u = t
      <4>1. /\ Retired(t) \in Seq(Runs) /\ Len(Retired(t)) = Len(runs[t])
            /\ \A i \in 1 .. Len(runs[t]) : SameRun(Retired(t)[i], runs[t][i])
            /\ runs[t] # << >> => Retired(t)[1].status # "RUNNING"
        BY <2>0, RetiredType
      <4>2. \/ runs'[t] = Retired(t)
            \/ runs[t] = << >> /\ runs'[t] = Append(Retired(t), Replacement(a, Unknown))
            \/ runs[t] # << >> /\ runs'[t] = Append(Retired(t), Replacement(a, 1))
        BY <2>0, <2>3, <3>2 DEF Switch, TypeOK
      <4>3. CASE runs'[t] = Retired(t)
        BY <2>0, <4>1, <4>3 DEF Continues
      <4>4. CASE runs[t] = << >> /\ runs'[t] = Append(Retired(t), Replacement(a, Unknown))
        <5>1. Unknown \in 0 .. Len(runs[t])
          BY <2>0 DEF Unknown
        <5>2. Unknown # Unknown => Retired(t)[Unknown].status # "RUNNING"
          OBVIOUS
        <5>3. Continues(Append(Retired(t), Replacement(a, Unknown)), runs[t])
          BY <2>0, <4>1, <5>1, <5>2, AppendContinues
        <5> QED BY <4>4, <5>3
      <4>5. CASE runs[t] # << >> /\ runs'[t] = Append(Retired(t), Replacement(a, 1))
        <5>1. 1 \in 0 .. Len(runs[t])
          BY <2>0, <4>5
        <5> QED BY <2>0, <4>1, <4>5, <5>1, AppendContinues, SMTT(40)
      <4> QED BY <4>2, <4>3, <4>4, <4>5
    <3> QED BY <3>1, <3>2
  <2>4. CASE \E u \in Task : \E code \in Codes : \E i \in 0 .. Len(runs[u]) : Report(u, i, code)
    BY <2>1, <2>4 DEF Report
  <2> QED BY <2>1, <2>2, <2>3, <2>4 DEF Next, vars
<1> QED BY <1>1, <1>2, <1>3, FailoverInvariant, PTL DEF Spec, DurableLineage
=============================================================================
