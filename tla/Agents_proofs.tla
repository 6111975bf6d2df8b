--------------------------- MODULE Agents_proofs ----------------------------
(***************************************************************************)
(* What holds of the agents: of an investigation and of the roster for     *)
(* every set of agents, of the memory of what they found for every number  *)
(* of outcomes, projects and threads, and of the tokens they spend for     *)
(* every number of calls and budgets.                                      *)
(***************************************************************************)
EXTENDS Investigation, Roster, Memory, Tokens, FiniteSetTheorems,
        WellFoundedInduction, TLAPS

-----------------------------------------------------------------------------
(***************************************************************************)
(* An investigation, for every set of agents.                              *)
(***************************************************************************)
USE InvestigationAssumption

(* The inductive invariant: what the stored results rest on.               *)

\* Nothing is stored before the agents are assigned, and a root that is
\* SUCCEEDED has everything stored.
RootSound ==
  /\ root \in {"ABSENT", "QUEUED", "BLOCKED"} => saved = 0
  /\ root = "RUNNING" => chosen # {}
  /\ root = "SUCCEEDED" => saved = 3

\* A child whose thread has ended stands as a run of it did.
DoneSound ==
  \A a \in Worker : child[a].step = "done" =>
    /\ child[a].status \in Ended
    /\ \E t \in trials : t.of = a /\ t.status = child[a].status

\* Once something is stored every child is done, and stays so.
SavedSound ==
  saved > 0 => chosen # {} /\ \A a \in chosen : child[a].step = "done"

InvInv == InvTypeOK /\ RootSound /\ DoneSound /\ SavedSound

Child == [status : ChildStates, agent : Worker \cup Spare, runner : Worker \cup Spare,
          step : ChildSteps]

\* A step that moves one child which is not done, leaves the others and adds
\* at most runs.
OneChild(a) ==
  /\ child[a].step # "done"
  /\ \E c \in Child : child' = [child EXCEPT ![a] = c]
  /\ trials \subseteq trials' /\ trials' \subseteq Trials
  /\ fit' \subseteq fit
  /\ UNCHANGED <<root, chosen, saved>>

LEMMA InvestigationInitially == InvInit => InvInv
<1> SUFFICES ASSUME InvInit PROVE InvInv
  OBVIOUS
<1>1. InvTypeOK
  BY DEF InvInit, InvTypeOK, RootStates, ChildStates, ChildSteps, Trials
<1>2. RootSound /\ DoneSound /\ SavedSound
  BY DEF InvInit, RootSound, DoneSound, SavedSound
<1> QED BY <1>1, <1>2 DEF InvInv

\* The type and the stored results survive such a step; what the child itself
\* shows when it becomes done is asked of the step.
LEMMA OneChildStep ==
  ASSUME InvInv, NEW a \in Worker, OneChild(a),
         child'[a].step = "done" =>
           /\ child'[a].status \in Ended
           /\ \E t \in trials' : t.of = a /\ t.status = child'[a].status
  PROVE  InvInv'
<1>1. PICK c \in Child : child' = [child EXCEPT ![a] = c]
  BY DEF OneChild
<1>2. InvTypeOK'
  BY <1>1 DEF InvInv, InvTypeOK, OneChild, Child
<1>3. RootSound'
  BY DEF InvInv, RootSound, OneChild
<1>4. \A b \in Worker \ {a} : child'[b] = child[b]
  BY <1>1 DEF InvInv, InvTypeOK
<1>5. DoneSound'
  BY <1>4 DEF InvInv, DoneSound, OneChild
<1>6. SavedSound'
  BY <1>4 DEF InvInv, InvTypeOK, SavedSound, OneChild
<1> QED BY <1>2, <1>3, <1>5, <1>6 DEF InvInv

\* What SaveRow and Step make of a child is a child again.
LEMMA SaveRowMoves ==
  ASSUME InvInv, NEW a \in Worker, NEW s \in ChildStates, NEW p \in ChildSteps,
         SaveRow(a, s, p)
  PROVE  /\ child' = [child EXCEPT ![a] = child'[a]] /\ child'[a] \in Child
         /\ child'[a].status = s /\ child'[a].step = p
<1>1. child[a] \in Child
  BY DEF InvInv, InvTypeOK, Child
<1>2. child' = [child EXCEPT ![a] = [child[a] EXCEPT !.status = s, !.agent = a, !.step = p]]
  BY DEF SaveRow, InvInv, InvTypeOK
<1>3. [child[a] EXCEPT !.status = s, !.agent = a, !.step = p] \in Child
  BY <1>1 DEF Child
<1> QED BY <1>1, <1>2, <1>3 DEF InvInv, InvTypeOK, Child

LEMMA StepMoves ==
  ASSUME InvInv, NEW a \in Worker, NEW p \in ChildSteps, Step(a, p)
  PROVE  /\ child' = [child EXCEPT ![a] = child'[a]] /\ child'[a] \in Child
         /\ child'[a].step = p
<1>1. child[a] \in Child
  BY DEF InvInv, InvTypeOK, Child
<1>2. child' = [child EXCEPT ![a] = [child[a] EXCEPT !.step = p]]
  BY DEF Step, InvInv, InvTypeOK
<1> QED BY <1>1, <1>2 DEF InvInv, InvTypeOK, Child

LEMMA SaveRunAdds ==
  ASSUME InvInv, NEW a \in Worker, NEW b \in Worker \cup Spare,
         NEW s \in {"RUNNING", "SUCCEEDED", "FAILED"}, SaveRun(a, b, s)
  PROVE  trials \subseteq trials' /\ trials' \subseteq Trials
BY DEF SaveRun, InvInv, InvTypeOK, Trials

LEMMA WorkerStep ==
  ASSUME InvInv, NEW a \in Worker,
         \/ SaveChild(a) \/ RunChild(a) \/ ReportFailure(a) \/ Replace(a)
         \/ ExecuteChild(a) \/ FinishChild(a) \/ RaiseInChild(a)
  PROVE  InvInv'
<1> USE DEF ChildStates, ChildSteps
<1>0. /\ fit \subseteq Worker \cup Spare /\ trials \subseteq Trials
      /\ child[a] \in Child /\ child \in [Worker -> Child]
  BY DEF InvInv, InvTypeOK, Child
<1>1. CASE SaveChild(a)
  <2>1. SaveRow(a, "QUEUED", "start")
    BY <1>1 DEF SaveChild
  <2> QED BY <1>0, <1>1, <2>1, SaveRowMoves, OneChildStep DEF SaveChild, OneChild
<1>2. CASE RunChild(a)
  <2>1. \E p \in {"ready", "execute"} : SaveRow(a, "RUNNING", p)
    BY <1>2 DEF RunChild
  <2> QED BY <1>0, <1>2, <2>1, SaveRowMoves, OneChildStep DEF RunChild, OneChild
<1>3. CASE ReportFailure(a)
  <2>1. Step(a, "failover")
    BY <1>3 DEF ReportFailure
  <2> QED BY <1>0, <1>3, <2>1, StepMoves, OneChildStep DEF ReportFailure, OneChild
<1>4. CASE Replace(a)
  <2>1. child[a].step = "failover" /\ UNCHANGED <<root, chosen, fit, saved>>
    BY <1>4 DEF Replace
  <2>2. CASE fit = {}
    <3>1. child' = [child EXCEPT ![a] = [child[a] EXCEPT !.status = "BLOCKED", !.step = "execute"]]
      BY <1>0, <1>4, <2>2 DEF Replace
    <3>2. [child[a] EXCEPT !.status = "BLOCKED", !.step = "execute"] \in Child
      BY <1>0 DEF Child
    <3>3. child'[a].step = "execute" /\ trials' = trials
      BY <1>0, <1>4, <2>2, <3>1 DEF Replace, Child
    <3> QED BY <1>0, <2>1, <3>1, <3>2, <3>3, OneChildStep DEF OneChild
  <2>3. CASE fit # {}
    <3>1. PICK b \in fit :
            /\ child' = [child EXCEPT ![a].agent = b, ![a].runner = b, ![a].step = "execute"]
            /\ SaveRun(a, b, "RUNNING")
      BY <1>4, <2>3 DEF Replace
    <3>2. child' = [child EXCEPT ![a] =
                      [child[a] EXCEPT !.agent = b, !.runner = b, !.step = "execute"]]
      BY <1>0, <3>1
    <3>3. [child[a] EXCEPT !.agent = b, !.runner = b, !.step = "execute"] \in Child
      BY <1>0, <3>1 DEF Child
    <3>4. child'[a].step = "execute"
      BY <1>0, <3>2 DEF Child
    <3> QED BY <1>0, <2>1, <3>1, <3>2, <3>3, <3>4, SaveRunAdds, OneChildStep DEF OneChild
  <2> QED BY <2>2, <2>3, SMTT(40)
<1>5. CASE ExecuteChild(a)
  <2>1. PICK s \in {"SUCCEEDED", "FAILED"} : SaveRun(a, child[a].runner, s)
    BY <1>5 DEF ExecuteChild
  <2>2. child[a].runner \in Worker \cup Spare
    BY <1>0 DEF Child
  <2>3. trials \subseteq trials' /\ trials' \subseteq Trials
    BY <2>1, <2>2, SaveRunAdds
  <2>4. Step(a, "finish")
    BY <1>5 DEF ExecuteChild
  <2> QED BY <1>0, <1>5, <2>3, <2>4, StepMoves, OneChildStep DEF ExecuteChild, OneChild
<1>6. CASE FinishChild(a)
  <2>1. PICK t \in trials : t.of = a /\ t.status # "RUNNING" /\ SaveRow(a, t.status, "done")
    BY <1>6 DEF FinishChild
  <2>2. t.status \in Ended
    BY <1>0, <2>1 DEF Trials, Ended
  <2>3. /\ child' = [child EXCEPT ![a] = child'[a]] /\ child'[a] \in Child
        /\ child'[a].status = t.status
    BY <2>1, <2>2, SaveRowMoves DEF Ended
  <2> QED BY <1>0, <1>6, <2>1, <2>2, <2>3, OneChildStep DEF FinishChild, OneChild
<1>7. CASE RaiseInChild(a)
  <2>1. Step(a, "raised") /\ child[a].step # "done"
    BY <1>7 DEF RaiseInChild
  <2> QED BY <1>0, <1>7, <2>1, StepMoves, OneChildStep DEF RaiseInChild, OneChild
<1> QED BY <1>1, <1>2, <1>3, <1>4, <1>5, <1>6, <1>7

LEMMA InvestigationInvariance == InvInv /\ [InvNext]_invVars => InvInv'
<1> SUFFICES ASSUME InvInv, [InvNext]_invVars PROVE InvInv'
  OBVIOUS
<1> USE DEF RootStates, ChildStates, ChildSteps
<1>1. CASE CreateRoot
  BY <1>1 DEF CreateRoot, InvInv, InvTypeOK, RootSound, DoneSound, SavedSound
<1>2. CASE Assign
  <2>1. PICK agents \in SUBSET (fit \cap Worker) :
          /\ chosen' = agents
          /\ root' = IF agents = {} THEN "BLOCKED" ELSE "RUNNING"
          /\ child' = [a \in Worker |->
               IF a \in agents THEN [child[a] EXCEPT !.step = "start"] ELSE child[a]]
    BY <1>2 DEF Assign
  <2>2. saved = 0 /\ saved' = 0 /\ fit' = fit /\ trials' = trials
    BY <1>2 DEF Assign, InvInv, RootSound
  <2>3. InvTypeOK'
    BY <2>1, <2>2 DEF InvInv, InvTypeOK
  <2>4. \A a \in Worker : child'[a].step = "done" => child'[a] = child[a]
    BY <2>1 DEF InvInv, InvTypeOK
  <2>5. DoneSound'
    BY <2>2, <2>4 DEF InvInv, DoneSound
  <2> QED BY <2>1, <2>2, <2>3, <2>5 DEF InvInv, RootSound, SavedSound
<1>3. CASE RecordNext
  BY <1>3 DEF RecordNext, InvInv, InvTypeOK, RootSound, DoneSound, SavedSound
<1>4. CASE SucceedRoot
  BY <1>4 DEF SucceedRoot, InvInv, InvTypeOK, RootSound, DoneSound, SavedSound
<1>5. CASE EndInvestigation
  <2>1. /\ UNCHANGED <<root, chosen, fit, trials, saved>>
        /\ child' = [a \in Worker |->
             IF child[a].step \in {"none", "done"} THEN child[a]
             ELSE [child[a] EXCEPT !.step = "raised"]]
    BY <1>5 DEF EndInvestigation
  <2>2. InvTypeOK'
    BY <2>1 DEF InvInv, InvTypeOK
  <2>3. \A a \in Worker : /\ child[a].step = "done" => child'[a] = child[a]
                          /\ child'[a].step = "done" => child'[a] = child[a]
    BY <2>1 DEF InvInv, InvTypeOK
  <2>4. DoneSound' /\ SavedSound'
    BY <2>1, <2>3 DEF InvInv, InvTypeOK, DoneSound, SavedSound
  <2> QED BY <2>1, <2>2, <2>4 DEF InvInv, RootSound
<1>6. CASE \E a \in Worker :
             \/ SaveChild(a) \/ RunChild(a) \/ ReportFailure(a) \/ Replace(a)
             \/ ExecuteChild(a) \/ FinishChild(a) \/ RaiseInChild(a)
  BY <1>6, WorkerStep
<1>7. CASE UNCHANGED invVars
  BY <1>7 DEF invVars, InvInv, InvTypeOK, RootSound, DoneSound, SavedSound
<1> QED BY <1>1, <1>2, <1>3, <1>4, <1>5, <1>6, <1>7 DEF InvNext

-----------------------------------------------------------------------------
(* The theorems.                                                           *)

\* The rows of an investigation are what their readers take them for: every
\* variable has its type in every state of run().
THEOREM InvestigationTyped == InvSpec => []InvTypeOK
<1>1. InvInv => InvTypeOK
  BY DEF InvInv
<1> QED BY <1>1, InvestigationInitially, InvestigationInvariance, PTL DEF InvSpec

\* However the threads of an investigation, the failover of their agents and
\* the end of the process interleave: what run() stores, and the root it ends
\* as SUCCEEDED, rest on children that have all ended as a run of them did.
THEOREM ResultsAreThere == InvSpec => []ResultsBeforeSuccess
<1>1. InvInv => ResultsBeforeSuccess
  BY DEF InvInv, InvTypeOK, RootSound, DoneSound, SavedSound, ResultsBeforeSuccess
<1> QED BY <1>1, InvestigationInitially, InvestigationInvariance, PTL DEF InvSpec

HIDE InvestigationAssumption

-----------------------------------------------------------------------------
(***************************************************************************)
(* The roster, for every set of agents and any number of requests.         *)
(***************************************************************************)
USE RosterAssumption

(* The inductive invariant: an analyst's choice has a row to stand in, and *)
(* what the dispatcher looked up excludes whoever was ruled out.           *)

AgentRow == [exists : BOOLEAN, enabled : BOOLEAN, model : Models \cup {Resolved, NoModel}]

\* A choice is only made on a row that is there: no later seed writes over it.
ChoiceHasRow ==
  /\ \A a \in Rostered : choice[a] # "none" => rows[a].exists
  /\ toggle.at = "update" => toggle.agent \in Rostered /\ rows[toggle.agent].exists
  /\ toggle.at # "none" => toggle.agent \in Rostered

\* A change in progress is of an agent to a model.
ChangeSound == change.at # "none" => change.agent \in Rostered /\ change.model \in Models

\* Nobody who was ruled out is eligible.
RouteSound ==
  dispatch.at = "task" =>
    dispatch.eligible \cap dispatch.barred = {} /\ dispatch.preferred \subseteq dispatch.eligible

RosterInv ==
  RosterTypeOK /\ ChoiceHasRow /\ ChangeSound /\ RouteSound
    /\ ChoicesStand /\ ChoicesRouted /\ SwitchesAudited

\* The rows are agents' rows; a row that is there has stayed, and a row that
\* is new is the configuration's.
LEMMA SeededRows ==
  ASSUME RosterTypeOK
  PROVE  /\ Seeded \in [Rostered -> AgentRow]
         /\ \A a \in Rostered : Seeded[a].exists
         /\ \A a \in Rostered : rows[a].exists => Seeded[a] = rows[a]
         /\ \A a \in Rostered : Seeded[a].model \in {rows[a].model, FirstModel[a]}
<1>1. \A a \in Rostered : Configured(a) \in AgentRow /\ Configured(a).exists
                          /\ Configured(a).model = FirstModel[a]
  BY DEF Configured, AgentRow
<1> QED BY <1>1 DEF RosterTypeOK, Seeded, AgentRow

LEMMA RosterInitially == RosterInit => RosterInv
<1> SUFFICES ASSUME RosterInit PROVE RosterInv
  OBVIOUS
<1>1. RosterTypeOK
  BY DEF RosterInit, RosterTypeOK, Unlisted, NoToggle, NoChange, NoDispatch, Preferences
<1>2. ChoiceHasRow /\ ChangeSound /\ RouteSound
  BY DEF RosterInit, ChoiceHasRow, ChangeSound, RouteSound, NoToggle, NoChange, NoDispatch
<1>3. ChoicesStand /\ ChoicesRouted /\ SwitchesAudited
  BY DEF RosterInit, ChoicesStand, ChoicesRouted, SwitchesAudited, Unlisted
<1> QED BY <1>1, <1>2, <1>3 DEF RosterInv

\* A seed keeps what the analyst chose.
LEMMA SeedAgentsStep ==
  ASSUME RosterInv, rows' = Seeded,
         UNCHANGED <<preference, change, switches, dispatch, given, acts, choice>>,
         viewer' \in [Viewer -> {"none", "seed", "done"}],
         toggle' \in {toggle, [toggle EXCEPT !.at = "update"]},
         toggle' # toggle => toggle.at = "seed"
  PROVE  RosterInv'
<1>1. /\ RosterTypeOK /\ ChoiceHasRow /\ ChangeSound /\ RouteSound
      /\ ChoicesStand /\ ChoicesRouted /\ SwitchesAudited
  BY DEF RosterInv
<1>2. /\ rows' \in [Rostered -> AgentRow]
      /\ \A a \in Rostered : rows'[a].exists
      /\ \A a \in Rostered : rows[a].exists => rows'[a] = rows[a]
      /\ \A a \in Rostered : rows'[a].model \in {rows[a].model, FirstModel[a]}
  BY <1>1, SeededRows
<1>3. RosterTypeOK'
  BY <1>1, <1>2 DEF RosterTypeOK, AgentRow
<1>4. ChoiceHasRow'
  BY <1>1, <1>2 DEF RosterTypeOK, ChoiceHasRow
<1>5. ChangeSound' /\ RouteSound' /\ ChoicesRouted'
  BY <1>1 DEF ChangeSound, RouteSound, ChoicesRouted
<1>6. ChoicesStand'
  BY <1>1, <1>2 DEF ChoiceHasRow, ChoicesStand
<1>7. SwitchesAudited'
  BY <1>1, <1>2 DEF SwitchesAudited
<1> QED BY <1>3, <1>4, <1>5, <1>6, <1>7 DEF RosterInv

LEMMA UpdateEnabledStep == ASSUME RosterInv, UpdateEnabled PROVE RosterInv'
<1>1. /\ RosterTypeOK /\ ChoiceHasRow /\ ChangeSound /\ RouteSound
      /\ ChoicesStand /\ ChoicesRouted /\ SwitchesAudited
  BY DEF RosterInv
<1>2. PICK t \in Rostered : t = toggle.agent /\ rows[t].exists
  BY <1>1 DEF UpdateEnabled, ChoiceHasRow
<1>3. /\ rows' = [rows EXCEPT ![t] = [rows[t] EXCEPT !.enabled = toggle.on]]
      /\ choice' = [choice EXCEPT ![t] = IF toggle.on THEN "on" ELSE "off"]
      /\ toggle' = NoToggle
      /\ UNCHANGED <<preference, viewer, change, switches, dispatch, given, acts>>
  BY <1>1, <1>2 DEF UpdateEnabled, RosterTypeOK
<1>4. [rows[t] EXCEPT !.enabled = toggle.on] \in AgentRow
  <2>1. rows[t] \in AgentRow /\ toggle.on \in BOOLEAN
    BY <1>1 DEF RosterTypeOK, AgentRow
  <2>2. \A r \in AgentRow, b \in BOOLEAN : [r EXCEPT !.enabled = b] \in AgentRow
    BY DEF AgentRow
  <2> QED BY <2>1, <2>2
<1>5. /\ rows' \in [Rostered -> AgentRow]
      /\ \A a \in Rostered : /\ rows'[a].exists = rows[a].exists
                             /\ rows'[a].model = rows[a].model
      /\ \A a \in Rostered \ {t} : rows'[a] = rows[a]
      /\ rows'[t].enabled = toggle.on
  BY <1>1, <1>3, <1>4 DEF RosterTypeOK, AgentRow
<1>6. RosterTypeOK'
  BY <1>1, <1>3, <1>5 DEF RosterTypeOK, AgentRow, NoToggle
<1>7. ChoiceHasRow'
  BY <1>1, <1>2, <1>3, <1>5 DEF RosterTypeOK, ChoiceHasRow, NoToggle
<1>8. ChangeSound' /\ RouteSound' /\ ChoicesRouted'
  BY <1>1, <1>3 DEF ChangeSound, RouteSound, ChoicesRouted
<1>9. ChoicesStand'
  <2>1. toggle.on \in BOOLEAN
    BY <1>1 DEF RosterTypeOK
  <2>2. choice'[t] = (IF toggle.on THEN "on" ELSE "off")
        /\ \A a \in Rostered \ {t} : choice'[a] = choice[a]
    BY <1>1, <1>3 DEF RosterTypeOK
  <2> QED BY <1>1, <1>5, <2>1, <2>2 DEF ChoicesStand
<1>10. SwitchesAudited'
  BY <1>1, <1>3, <1>5 DEF SwitchesAudited
<1> QED BY <1>6, <1>7, <1>8, <1>9, <1>10 DEF RosterInv

\* Saving an agent takes the choice back with the row.
LEMMA SaveAgentStep == ASSUME RosterInv, NEW s \in Rostered, SaveAgent(s) PROVE RosterInv'
<1> DEFINE fresh == [exists |-> TRUE, enabled |-> TRUE, model |-> Resolved]
<1>1. /\ RosterTypeOK /\ ChoiceHasRow /\ ChangeSound /\ RouteSound
      /\ ChoicesStand /\ ChoicesRouted /\ SwitchesAudited
  BY DEF RosterInv
<1>2. /\ rows' = [rows EXCEPT ![s] = fresh]
      /\ choice' = [choice EXCEPT ![s] = "none"]
      /\ acts' = acts + 1 /\ acts < MaxActs
      /\ UNCHANGED <<preference, viewer, toggle, change, switches, dispatch, given>>
  BY DEF SaveAgent
<1>3. fresh \in AgentRow /\ fresh.exists /\ fresh.model = Resolved
  BY DEF AgentRow
<1> HIDE DEF fresh
<1>4. /\ rows' \in [Rostered -> AgentRow] /\ rows'[s] = fresh
      /\ \A a \in Rostered \ {s} : rows'[a] = rows[a] /\ choice'[a] = choice[a]
      /\ choice'[s] = "none"
  BY <1>1, <1>2, <1>3 DEF RosterTypeOK, AgentRow
<1>5. RosterTypeOK'
  BY <1>1, <1>2, <1>4 DEF RosterTypeOK, AgentRow
<1>6. ChoiceHasRow' /\ ChoicesStand'
  BY <1>1, <1>2, <1>3, <1>4 DEF ChoiceHasRow, ChoicesStand
<1>7. ChangeSound' /\ RouteSound' /\ ChoicesRouted'
  BY <1>1, <1>2 DEF ChangeSound, RouteSound, ChoicesRouted
<1>8. SwitchesAudited'
  BY <1>1, <1>2, <1>3, <1>4 DEF SwitchesAudited
<1> QED BY <1>5, <1>6, <1>7, <1>8 DEF RosterInv

\* The row gets its new model before the change is recorded.
LEMMA ChangeStep == ASSUME RosterInv, UpdateModel \/ RecordModel PROVE RosterInv'
<1>1. /\ RosterTypeOK /\ ChoiceHasRow /\ ChangeSound /\ RouteSound
      /\ ChoicesStand /\ ChoicesRouted /\ SwitchesAudited
  BY DEF RosterInv
<1>2. PICK c \in Rostered, m \in Models : c = change.agent /\ m = change.model
  BY <1>1 DEF ChangeSound, UpdateModel, RecordModel
<1>3. CASE UpdateModel
  <2>1. /\ \/ rows' = rows
           \/ rows' = [rows EXCEPT ![c] = [rows[c] EXCEPT !.model = m]]
        /\ change' = [change EXCEPT !.at = "record"] /\ change.at = "update"
        /\ UNCHANGED <<preference, viewer, toggle, switches, dispatch, given, acts, choice>>
    BY <1>1, <1>2, <1>3 DEF UpdateModel, RosterTypeOK
  <2>2. [rows[c] EXCEPT !.model = m] \in AgentRow
    BY <1>1, SMTT(40) DEF RosterTypeOK, AgentRow
  <2>3. /\ rows' \in [Rostered -> AgentRow]
        /\ \A a \in Rostered : /\ rows'[a].exists = rows[a].exists
                               /\ rows'[a].enabled = rows[a].enabled
        /\ \A a \in Rostered \ {c} : rows'[a] = rows[a]
        /\ rows'[c].model \in {rows[c].model, m}
    <3>1. CASE rows' = rows
      BY <1>1, <3>1 DEF RosterTypeOK, AgentRow
    <3>2. CASE rows' = [rows EXCEPT ![c] = [rows[c] EXCEPT !.model = m]]
      <4>1. rows \in [Rostered -> AgentRow]
        BY <1>1 DEF RosterTypeOK, AgentRow
      <4>2. /\ rows' \in [Rostered -> AgentRow]
            /\ rows'[c] = [rows[c] EXCEPT !.model = m]
            /\ \A a \in Rostered \ {c} : rows'[a] = rows[a]
        BY <2>2, <3>2, <4>1
      <4>3. /\ rows'[c].exists = rows[c].exists /\ rows'[c].enabled = rows[c].enabled
            /\ rows'[c].model = m
        BY <4>1, <4>2 DEF AgentRow
      <4> QED BY <4>2, <4>3
    <3> QED BY <2>1, <3>1, <3>2
  <2>4. change'.at = "record" /\ change'.agent = c /\ change'.model = m
    BY <1>1, <1>2, <2>1 DEF RosterTypeOK
  <2>5. RosterTypeOK'
    BY <1>1, <2>1, <2>3 DEF RosterTypeOK, AgentRow
  <2>6. ChoiceHasRow' /\ ChoicesStand'
    BY <1>1, <2>1, <2>3 DEF ChoiceHasRow, ChoicesStand
  <2>7. ChangeSound' /\ RouteSound' /\ ChoicesRouted'
    BY <1>1, <2>1, <2>4 DEF ChangeSound, RouteSound, ChoicesRouted
  <2>8. SwitchesAudited'
    BY <1>1, <2>1, <2>3, <2>4 DEF SwitchesAudited
  <2> QED BY <2>5, <2>6, <2>7, <2>8 DEF RosterInv
<1>4. CASE RecordModel
  <2>1. /\ switches' = switches \cup {[agent |-> c, model |-> m]}
        /\ change' = NoChange
        /\ UNCHANGED <<rows, preference, viewer, toggle, dispatch, given, acts, choice>>
    BY <1>2, <1>4 DEF RecordModel
  <2>2. RosterTypeOK'
    BY <1>1, <2>1 DEF RosterTypeOK, NoChange
  <2>3. ChoiceHasRow' /\ ChoicesStand'
    BY <1>1, <2>1 DEF ChoiceHasRow, ChoicesStand
  <2>4. ChangeSound' /\ RouteSound' /\ ChoicesRouted'
    BY <1>1, <2>1 DEF ChangeSound, RouteSound, ChoicesRouted, NoChange
  <2>5. SwitchesAudited'
    BY <1>1, <1>2, <2>1 DEF SwitchesAudited
  <2> QED BY <2>2, <2>3, <2>4, <2>5 DEF RosterInv
<1> QED BY <1>3, <1>4

LEMMA DispatchStep ==
  ASSUME RosterInv,
         \/ StartDispatch \/ LookForAgent \/ WaitForAgent \/ EndDispatch
         \/ \E assigned \in Rostered \cup {NoAgent} : GiveTask(assigned)
  PROVE  RosterInv'
<1>1. /\ RosterTypeOK /\ ChoiceHasRow /\ ChangeSound /\ RouteSound
      /\ ChoicesStand /\ ChoicesRouted /\ SwitchesAudited
  BY DEF RosterInv
<1>2. UNCHANGED <<rows, preference, viewer, toggle, change, switches, acts, choice>>
  BY DEF StartDispatch, LookForAgent, WaitForAgent, EndDispatch, GiveTask
<1>3. ChoiceHasRow' /\ ChangeSound' /\ ChoicesStand' /\ SwitchesAudited'
  BY <1>1, <1>2 DEF ChoiceHasRow, ChangeSound, ChoicesStand, SwitchesAudited
<1>4. CASE StartDispatch \/ WaitForAgent \/ EndDispatch
  <2>1. /\ given' = given
        /\ \/ dispatch' = NoDispatch
           \/ \E a \in Rostered : dispatch' = [NoDispatch EXCEPT !.at = "run", !.fallback = a]
    BY <1>4 DEF StartDispatch, WaitForAgent, EndDispatch, ActiveAgents
  <2>2. RosterTypeOK' /\ dispatch'.at # "task"
    <3>1. CASE dispatch' = NoDispatch
      BY <1>1, <1>2, <2>1, <3>1 DEF RosterTypeOK, NoDispatch
    <3>2. ASSUME NEW a \in Rostered, dispatch' = [NoDispatch EXCEPT !.at = "run", !.fallback = a]
          PROVE  RosterTypeOK' /\ dispatch'.at # "task"
      <4>1. dispatch' = [at |-> "run", fallback |-> a, eligible |-> {}, preferred |-> {},
                         barred |-> {}]
        BY <3>2 DEF NoDispatch
      <4> QED BY <1>1, <1>2, <2>1, <4>1, ZenonT(60) DEF RosterTypeOK
    <3> QED BY <2>1, <3>1, <3>2
  <2> QED BY <1>1, <1>3, <2>1, <2>2, ZenonT(60) DEF RosterInv, RouteSound, ChoicesRouted
<1>5. CASE LookForAgent
  <2>1. /\ dispatch' = [dispatch EXCEPT !.at = "task", !.eligible = EligibleAgents,
                          !.barred = Barred,
                          !.preferred = {a \in EligibleAgents : preference[a] = "preferred"}]
        /\ given' = [agent |-> NoAgent, barred |-> {}]
    BY <1>5 DEF LookForAgent
  <2>2. EligibleAgents \subseteq Rostered /\ Barred \subseteq Rostered
    BY DEF EligibleAgents, Barred
  <2>3. RosterTypeOK'
    BY <1>1, <1>2, <2>1, <2>2 DEF RosterTypeOK
  <2>4. EligibleAgents \cap Barred = {}
    BY <1>1 DEF RosterTypeOK, ChoiceHasRow, ChoicesStand, EligibleAgents, Barred, Permitted, Empty
  <2>5. RouteSound'
    BY <1>1, <2>1, <2>4 DEF RosterTypeOK, RouteSound
  <2>6. ChoicesRouted'
    BY <2>1 DEF ChoicesRouted
  <2> QED BY <1>3, <2>3, <2>5, <2>6 DEF RosterInv
<1>6. ASSUME NEW assigned \in Rostered \cup {NoAgent}, GiveTask(assigned)
      PROVE  RosterInv'
  <2>1. PICK a \in dispatch.eligible \cup dispatch.preferred :
          given' = [agent |-> a, barred |-> dispatch.barred]
    BY <1>6 DEF GiveTask
  <2>2. dispatch.at = "task" /\ dispatch' = [dispatch EXCEPT !.at = "run"]
    BY <1>6 DEF GiveTask
  <2>3. a \in dispatch.eligible /\ a \notin dispatch.barred
    BY <1>1, <2>1, <2>2 DEF RouteSound
  <2>4. RosterTypeOK'
    BY <1>1, <1>2, <2>1, <2>2, <2>3 DEF RosterTypeOK
  <2>5. RouteSound' /\ ChoicesRouted'
    BY <1>1, <2>1, <2>2, <2>3 DEF RosterTypeOK, RouteSound, ChoicesRouted
  <2> QED BY <1>3, <2>4, <2>5 DEF RosterInv
<1> QED BY <1>4, <1>5, <1>6

LEMMA RequestStep ==
  ASSUME RosterInv,
         \/ \E v \in Viewer : StartViewing(v)
         \/ \E a \in Rostered, on \in BOOLEAN : RequestToggle(a, on)
         \/ \E a \in Rostered, x \in Preferences : SavePreference(a, x)
         \/ \E a \in Rostered, m \in Models : RequestModel(a, m)
         \/ UNCHANGED rosterVars
  PROVE  RosterInv'
<1>1. /\ RosterTypeOK /\ ChoiceHasRow /\ ChangeSound /\ RouteSound
      /\ ChoicesStand /\ ChoicesRouted /\ SwitchesAudited
  BY DEF RosterInv
<1>2. UNCHANGED <<rows, switches, dispatch, given, choice>>
  BY DEF StartViewing, RequestToggle, SavePreference, RequestModel, rosterVars
<1>3. RosterTypeOK'
  BY <1>1, <1>2, SMTT(40) DEF RosterTypeOK, StartViewing, RequestToggle, SavePreference,
                    RequestModel, rosterVars
<1>4. ChoiceHasRow'
  BY <1>1, <1>2 DEF ChoiceHasRow, StartViewing, RequestToggle, SavePreference, RequestModel,
                    rosterVars
<1>5. ChangeSound'
  BY <1>1 DEF ChangeSound, StartViewing, RequestToggle, SavePreference, RequestModel, rosterVars
<1>6. RouteSound' /\ ChoicesStand' /\ ChoicesRouted'
  BY <1>1, <1>2 DEF RouteSound, ChoicesStand, ChoicesRouted
<1>7. SwitchesAudited'
  BY <1>1, <1>2 DEF SwitchesAudited, StartViewing, RequestToggle, SavePreference, RequestModel,
                    rosterVars
<1> QED BY <1>3, <1>4, <1>5, <1>6, <1>7 DEF RosterInv

LEMMA RosterInvariance == RosterInv /\ [RosterNext]_rosterVars => RosterInv'
<1> SUFFICES ASSUME RosterInv, [RosterNext]_rosterVars PROVE RosterInv'
  OBVIOUS
<1>1. CASE \E v \in Viewer : SeedForViewer(v)
  BY <1>1, SeedAgentsStep DEF SeedForViewer, RosterInv, RosterTypeOK
<1>2. CASE SeedForToggle
  BY <1>2, SeedAgentsStep DEF SeedForToggle, RosterInv, RosterTypeOK
<1>3. CASE UpdateEnabled
  BY <1>3, UpdateEnabledStep
<1>4. CASE \E a \in Rostered : SaveAgent(a)
  BY <1>4, SaveAgentStep
<1>5. CASE UpdateModel \/ RecordModel
  BY <1>5, ChangeStep
<1>6. CASE \/ StartDispatch \/ LookForAgent \/ WaitForAgent \/ EndDispatch
           \/ \E assigned \in Rostered \cup {NoAgent} : GiveTask(assigned)
  BY <1>6, DispatchStep
<1>7. CASE \/ \E v \in Viewer : StartViewing(v)
           \/ \E a \in Rostered, on \in BOOLEAN : RequestToggle(a, on)
           \/ \E a \in Rostered, x \in Preferences : SavePreference(a, x)
           \/ \E a \in Rostered, m \in Models : RequestModel(a, m)
           \/ UNCHANGED rosterVars
  BY <1>7, RequestStep
<1> QED BY <1>1, <1>2, <1>3, <1>4, <1>5, <1>6, <1>7 DEF RosterNext

-----------------------------------------------------------------------------
(* The theorems.                                                           *)

\* What the analyst chose for an agent outlives every listing, read, seed and
\* change of a model, the dispatcher gives no task to an agent that was ruled
\* out when it looked, and no model changes without a record, for any number
\* of agents and requests.
THEOREM ChoicesAreKept == RosterSpec => [](RosterTypeOK /\ ChoicesKept)
<1>1. RosterInv => ChoicesKept
  BY DEF RosterInv, ChoicesKept
<1>2. RosterInv => RosterTypeOK
  BY DEF RosterInv
<1> QED BY <1>1, <1>2, RosterInitially, RosterInvariance, PTL DEF RosterSpec

HIDE RosterAssumption

-----------------------------------------------------------------------------
(***************************************************************************)
(* Outcomes and the patterns promoted from them.                           *)
(***************************************************************************)
USE MemoryAssumption

\* Sets of outcomes are finite, and a non-empty one has a first element.
LEMMA FewerOutcomes ==
  ASSUME NEW n \in Nat, NEW B \in SUBSET (1 .. n), NEW A \in SUBSET B
  PROVE  /\ IsFiniteSet(A) /\ Cardinality(A) \in Nat /\ Cardinality(B) \in Nat
         /\ Cardinality(A) <= Cardinality(B)
<1>1. IsFiniteSet(B)
  <2>1. IsFiniteSet(1 .. n)
    BY FS_Interval
  <2> QED BY <2>1, FS_Subset
<1> QED BY <1>1, FS_Subset, FS_CardinalityType

LEMMA FirstOutcome ==
  ASSUME NEW n \in Nat, NEW T \in SUBSET (1 .. n), T # {}
  PROVE  \E m \in T : \A k \in T : m <= k
<1> DEFINE Below(m) == {k \in T : k <= m}
           Belows == {Below(m) : m \in T}
<1>1. IsWellFoundedOn(StrictSubsetOrdering(T), FiniteSubsetsOf(T))
  BY FS_StrictSubsetOrderingWellFounded
<1>2. \A m \in T : Below(m) \subseteq T /\ IsFiniteSet(Below(m))
  BY FewerOutcomes
<1>3. Belows \subseteq FiniteSubsetsOf(T) /\ Belows # {}
  BY <1>2 DEF FiniteSubsetsOf
<1>4. PICK S \in Belows : \A R \in Belows : <<R, S>> \notin StrictSubsetOrdering(T)
  BY <1>1, <1>3, WFMin
<1>5. PICK m \in T : S = Below(m)
  BY <1>4
<1>6. ASSUME NEW k \in T, k < m PROVE FALSE
  <2>1. Below(k) \subseteq Below(m) /\ m \in Below(m) /\ m \notin Below(k)
    <3>1. T \subseteq Nat /\ k \in Nat /\ m \in Nat
      OBVIOUS
    <3>2. \A x \in T : x <= k => x <= m
      BY <1>6, <3>1
    <3>3. m <= m /\ ~(m <= k)
      BY <1>6, <3>1
    <3> QED BY <3>2, <3>3
  <2>2. <<Below(k), Below(m)>> \in StrictSubsetOrdering(T)
    BY <2>1 DEF StrictSubsetOrdering
  <2> QED BY <1>4, <1>5, <2>2
<1>7. \A k \in T : k \in Nat /\ m \in Nat
  OBVIOUS
<1> QED BY <1>6, <1>7

-----------------------------------------------------------------------------
(* The inductive invariant.                                                *)

Copies == [struct : Signature \cup {0}, sem : Signature \cup {0}, validated : BOOLEAN, count : Nat]
Posts == [step : PromoterSteps, outcome : Nat, at : Nat, copy : Copies]

Carries(w) == promoter[w].step \in {"memory", "gates", "save"}

\* Outcomes that a process still carries to a pattern.
Carried == {i \in 1 .. Len(outcomes) : \E w \in Promoter : Carries(w) /\ promoter[w].outcome = i}

\* Every process carries an outcome of its own.
Apart ==
  /\ \A w \in Promoter : promoter[w].step # "none" => promoter[w].outcome \in 1 .. Len(outcomes)
  /\ \A v, w \in Promoter :
       Carries(v) /\ Carries(w) /\ promoter[v].outcome = promoter[w].outcome => v = w

\* The outcomes that support a pattern among O.
Behind(O, p) == {i \in 1 .. Len(O) : Admitted(O[i]) /\ Matches(p, O[i])}

\* A pattern counts outcomes that nobody carries any more; the copy of one to be
\* saved counts that of the process as well.
Earned(O, p, S) ==
  /\ 1 <= p.count /\ p.count <= Cardinality(Behind(O, p) \ S)
  /\ p.validated => \E j \in Behind(O, p) : O[j].validated

PatternsSound == \A i \in 1 .. Len(patterns) : Earned(outcomes, patterns[i], Carried)

Same(p, q) == p.struct = q.struct /\ p.sem = q.sem

CopySound(w) ==
  LET r == promoter[w] IN
  /\ r.step = "save" => /\ r.copy \in Patterns /\ Earned(outcomes, r.copy, Carried \ {r.outcome})
                        /\ r.outcome \in Behind(outcomes, r.copy)
                        /\ r.at # 0 => r.at \in 1 .. Len(patterns) /\ Same(r.copy, patterns[r.at])
  /\ r.step = "record" => r.at \in 1 .. Len(patterns) /\ r.outcome \in Behind(outcomes, patterns[r.at])

CopiesSound == \A w \in Promoter : CopySound(w)

PromotionsSound ==
  \A r \in promotions :
    r.pattern # 0 => r.pattern \in 1 .. Len(patterns) /\ r.outcome \in Behind(outcomes, patterns[r.pattern])

TypeSound ==
  /\ outcomes \in Seq(Outcomes) /\ patterns \in Seq(Patterns)
  /\ promoter \in [Promoter -> Posts]

MemInv == TypeSound /\ Apart /\ PatternsSound /\ CopiesSound /\ PromotionsSound

LEMMA MemInitially == MemInit => MemInv
BY DEF MemInit, MemInv, TypeSound, Apart, PatternsSound, CopiesSound, CopySound, PromotionsSound,
   Posts, Copies, Waiting, NoPattern, PromoterSteps, Carries

LEMMA MemTypes ==
  ASSUME MemInv
  PROVE  /\ Len(outcomes) \in Nat /\ DOMAIN outcomes = 1 .. Len(outcomes)
         /\ Len(patterns) \in Nat /\ DOMAIN patterns = 1 .. Len(patterns)
         /\ \A i \in 1 .. Len(outcomes) : outcomes[i] \in Outcomes
         /\ \A i \in 1 .. Len(patterns) : patterns[i] \in Patterns
         /\ \A w \in Promoter : promoter[w] \in Posts
BY DEF MemInv, TypeSound

\* With more outcomes, and fewer of the old ones carried, a pattern is earned still.
Extends(O, Q) == Len(O) \in Nat /\ Len(Q) \in Nat /\ Len(O) <= Len(Q)
                   /\ \A i \in 1 .. Len(O) : Q[i] = O[i]

LEMMA BehindMore ==
  ASSUME NEW O, NEW Q, Extends(O, Q), NEW p PROVE Behind(O, p) \subseteq Behind(Q, p)
BY DEF Behind, Extends

LEMMA EarnedMore ==
  ASSUME NEW O, NEW Q, Extends(O, Q), NEW p \in Patterns, NEW S, NEW R,
         \A i \in 1 .. Len(O) : i \in R => i \in S,
         Earned(O, p, S)
  PROVE  Earned(Q, p, R)
<1>1. Behind(O, p) \subseteq Behind(Q, p)
  BY BehindMore
<1>2. Behind(O, p) \ S \subseteq Behind(Q, p) \ R /\ Behind(Q, p) \ R \subseteq 1 .. Len(Q)
  BY <1>1 DEF Behind
<1>3. /\ Cardinality(Behind(O, p) \ S) <= Cardinality(Behind(Q, p) \ R)
      /\ Cardinality(Behind(O, p) \ S) \in Nat /\ Cardinality(Behind(Q, p) \ R) \in Nat
  BY <1>2, FewerOutcomes DEF Extends
<1>4. p.count \in Nat
  BY DEF Patterns
<1>5. p.validated => \E j \in Behind(Q, p) : Q[j].validated
  BY <1>1 DEF Earned, Extends, Behind
<1> QED BY <1>3, <1>4, <1>5 DEF Earned

-----------------------------------------------------------------------------
(* The steps.                                                              *)

\* A step of one process w that leaves the patterns and, of the outcomes there
\* were, has no other one carried.
LEMMA ProcessStep ==
  ASSUME MemInv, NEW w \in Promoter, NEW r \in Posts, promoter' = [promoter EXCEPT ![w] = r],
         outcomes' \in Seq(Outcomes), Extends(outcomes, outcomes'), UNCHANGED patterns,
         \/ r.step = "none"
         \/ /\ r.step \in {"gates", "save"} /\ Carries(w)
            /\ r.outcome = promoter[w].outcome
         \/ r.step = "memory" /\ r.outcome = Len(outcomes) + 1 /\ Len(outcomes') = Len(outcomes) + 1
  PROVE  /\ TypeSound' /\ Apart' /\ PatternsSound'
         /\ \A v \in Promoter \ {w} : CopySound(v)'
         /\ \A i \in 1 .. Len(outcomes) : i \in Carried' => i \in Carried
<1>1. /\ promoter' \in [Promoter -> Posts] /\ promoter'[w] = r
      /\ \A v \in Promoter \ {w} : promoter'[v] = promoter[v]
      /\ promoter[w] \in Posts
      /\ Len(outcomes) \in Nat /\ Len(outcomes') \in Nat
      /\ 1 .. Len(outcomes) \subseteq 1 .. Len(outcomes')
  BY DEF MemInv, TypeSound, Extends
<1>2. TypeSound'
  BY <1>1 DEF MemInv, TypeSound
<1>3. \A v \in Promoter : Carries(v)' =>
        \/ Carries(v) /\ promoter'[v].outcome = promoter[v].outcome
        \/ v = w /\ promoter'[v].outcome = Len(outcomes) + 1
  BY <1>1 DEF Carries
<1>4. \A i \in 1 .. Len(outcomes) : i \in Carried' => i \in Carried
  BY <1>1, <1>3 DEF Carried
<1>5. Apart'
  <2>1. ASSUME NEW v \in Promoter, promoter'[v].step # "none"
        PROVE  promoter'[v].outcome \in 1 .. Len(outcomes')
    <3>1. CASE v = w /\ r.step = "memory"
      BY <1>1, <3>1
    <3>2. CASE ~(v = w /\ r.step = "memory")
      <4>1. promoter[v].step # "none" /\ promoter'[v].outcome = promoter[v].outcome
        BY <1>1, <2>1, <3>2 DEF Carries
      <4> QED BY <1>1, <4>1 DEF MemInv, Apart
    <3> QED BY <3>1, <3>2
  <2>2. ASSUME NEW u \in Promoter, NEW v \in Promoter, Carries(u)', Carries(v)',
               promoter'[u].outcome = promoter'[v].outcome
        PROVE  u = v
    <3>1. \A x \in Promoter : Carries(x) => promoter[x].outcome # Len(outcomes) + 1
      BY <1>1 DEF MemInv, Apart, Carries
    <3> QED BY <1>3, <2>2, <3>1 DEF MemInv, Apart
  <2> QED BY <2>1, <2>2 DEF Apart
<1>6. PatternsSound'
  <2> SUFFICES ASSUME NEW i \in 1 .. Len(patterns) PROVE Earned(outcomes', patterns[i], Carried')
    BY DEF PatternsSound
  <2>1. patterns[i] \in Patterns /\ Earned(outcomes, patterns[i], Carried)
    BY MemTypes DEF MemInv, PatternsSound
  <2> QED BY <1>4, <2>1, EarnedMore
<1>7. ASSUME NEW v \in Promoter \ {w} PROVE CopySound(v)'
  <2>1. CopySound(v) /\ promoter'[v] = promoter[v]
    BY <1>1 DEF MemInv, CopiesSound
  <2>2. ASSUME promoter[v].step = "save"
        PROVE  Earned(outcomes', promoter[v].copy, Carried' \ {promoter[v].outcome})
    BY <1>4, <2>1, <2>2, EarnedMore DEF CopySound
  <2>3. \A p : Behind(outcomes, p) \subseteq Behind(outcomes', p)
    BY BehindMore
  <2> QED BY <2>1, <2>2, <2>3 DEF CopySound
<1> QED BY <1>2, <1>4, <1>5, <1>6, <1>7

LEMMA PlaceType ==
  ASSUME MemInv, NEW w \in Promoter
  PROVE  promoter[w] \in Posts /\ promoter \in [Promoter -> Posts] /\ CopySound(w)
         /\ outcomes \in Seq(Outcomes) /\ Extends(outcomes, outcomes) /\ Waiting \in Posts
BY MemTypes DEF MemInv, TypeSound, CopiesSound, Extends, Waiting, NoPattern, Posts, Copies, PromoterSteps

LEMMA RecordOutcomeStep ==
  ASSUME MemInv, NEW w \in Promoter, NEW o \in Outcomes, RecordOutcome(w, o)
  PROVE  MemInv'
<1> DEFINE r == [promoter[w] EXCEPT !.step = "memory", !.outcome = Len(outcomes) + 1]
<1>1. /\ outcomes' = Append(outcomes, o) /\ promoter' = [promoter EXCEPT ![w] = r]
      /\ UNCHANGED <<patterns, promotions>> /\ promoter[w] \in Posts
  BY PlaceType DEF RecordOutcome
<1>2. r \in Posts /\ r.step = "memory" /\ r.outcome = Len(outcomes) + 1
  <2>1. Len(outcomes) + 1 \in Nat
    BY MemTypes
  <2> QED BY <1>1, <2>1 DEF Posts, PromoterSteps
<1>3. /\ outcomes' \in Seq(Outcomes) /\ Extends(outcomes, outcomes')
      /\ Len(outcomes') = Len(outcomes) + 1
  BY <1>1, MemTypes DEF MemInv, TypeSound, Extends
<1> HIDE DEF r
<1>4. /\ TypeSound' /\ Apart' /\ PatternsSound'
      /\ \A v \in Promoter \ {w} : CopySound(v)'
  BY <1>1, <1>2, <1>3, ProcessStep
<1>5. CopySound(w)'
  <2>1. promoter'[w].step = "memory"
    BY <1>1, <1>2, PlaceType
  <2> QED BY <2>1 DEF CopySound
<1>6. PromotionsSound'
  <2>1. \A p : Behind(outcomes, p) \subseteq Behind(outcomes', p)
    BY <1>3, BehindMore
  <2> QED BY <1>1, <2>1 DEF MemInv, PromotionsSound
<1> QED BY <1>4, <1>5, <1>6 DEF MemInv, CopiesSound

\* The steps after which a process carries nothing to a pattern, or the same.
LEMMA PlainStep ==
  ASSUME MemInv, NEW w \in Promoter,
         \/ RecordProjectMemory(w) \/ RejectOutcome(w) \/ RecordPromotion(w) \/ EndPromoter(w)
  PROVE  MemInv'
<1> DEFINE r == promoter'[w]
<1>1. /\ promoter' = [promoter EXCEPT ![w] = r] /\ r \in Posts /\ UNCHANGED <<outcomes, patterns>>
      /\ \/ r.step = "none"
         \/ r.step = "gates" /\ Carries(w) /\ r.outcome = promoter[w].outcome
  <2>1. CASE RecordProjectMemory(w)
    <3>1. r = [promoter[w] EXCEPT !.step = "gates"]
      BY <2>1, PlaceType DEF RecordProjectMemory
    <3>2. r \in Posts /\ r.step = "gates" /\ r.outcome = promoter[w].outcome
      BY <3>1, PlaceType DEF Posts, PromoterSteps
    <3> QED BY <2>1, <3>1, <3>2, PlaceType DEF RecordProjectMemory, Carries
  <2>2. CASE RejectOutcome(w) \/ RecordPromotion(w) \/ EndPromoter(w)
    <3>1. r = Waiting /\ Waiting.step = "none"
      BY <2>2, PlaceType DEF RejectOutcome, RecordPromotion, EndPromoter, Waiting
    <3> QED BY <2>2, <3>1, PlaceType DEF RejectOutcome, RecordPromotion, EndPromoter
  <2> QED BY <2>1, <2>2
<1>2. /\ TypeSound' /\ Apart' /\ PatternsSound'
      /\ \A v \in Promoter \ {w} : CopySound(v)'
  <2>1. outcomes' \in Seq(Outcomes) /\ Extends(outcomes, outcomes')
    BY <1>1, PlaceType
  <2> HIDE DEF r
  <2> QED BY <1>1, <2>1, ProcessStep
<1>3. CopySound(w)'
  BY <1>1 DEF CopySound
<1>4. PromotionsSound'
  <2>1. CASE promotions' = promotions
    BY <1>1, <2>1 DEF MemInv, PromotionsSound
  <2>2. CASE promotions' = promotions \cup {[outcome |-> promoter[w].outcome, pattern |-> 0]}
    BY <1>1, <2>2 DEF MemInv, PromotionsSound
  <2>3. CASE RecordPromotion(w)
    <3>1. /\ promotions' = promotions \cup
               {[outcome |-> promoter[w].outcome, pattern |-> promoter[w].at]}
          /\ promoter[w].at \in 1 .. Len(patterns)
          /\ promoter[w].outcome \in Behind(outcomes, patterns[promoter[w].at])
      BY <2>3, PlaceType DEF RecordPromotion, Record, CopySound
    <3> QED BY <1>1, <3>1 DEF MemInv, PromotionsSound
  <2> QED BY <2>1, <2>2, <2>3 DEF RecordProjectMemory, RejectOutcome, EndPromoter, Record
<1> QED BY <1>2, <1>3, <1>4 DEF MemInv, CopiesSound

\* The outcomes behind a pattern are told by its signatures.
LEMMA BehindSame ==
  ASSUME NEW O, NEW p, NEW q, Same(p, q) PROVE Behind(O, p) = Behind(O, q)
BY DEF Behind, Same, Matches

LEMMA FindPatternStep ==
  ASSUME MemInv, NEW w \in Promoter, FindPattern(w)
  PROVE  MemInv'
<1> DEFINE n == promoter[w].outcome
           o == Mine(w)
           found == {i \in DOMAIN patterns : Matches(patterns[i], o)}
           first == CHOOSE i \in found : \A j \in found : i <= j
           at == IF found = {} THEN 0 ELSE first
           copy == IF found = {} THEN Created(o) ELSE Merged(patterns[first], o)
           r == [promoter[w] EXCEPT !.step = "save", !.at = at, !.copy = copy]
<1>1. /\ promoter' = [promoter EXCEPT ![w] = r] /\ UNCHANGED <<outcomes, patterns, promotions>>
      /\ promoter[w].step = "gates" /\ Admitted(o) /\ promoter[w] \in Posts
      /\ n \in 1 .. Len(outcomes) /\ o = outcomes[n] /\ o \in Outcomes
      /\ DOMAIN patterns = 1 .. Len(patterns) /\ Len(patterns) \in Nat
  <2>1. /\ promoter[w].step = "gates" /\ Admitted(o) /\ UNCHANGED <<outcomes, patterns, promotions>>
    BY DEF FindPattern
  <2>2. promoter[w] \in Posts /\ promoter \in [Promoter -> Posts]
    BY PlaceType
  <2>3. promoter' = [promoter EXCEPT ![w] = r]
    <3>1. promoter' = [promoter EXCEPT ![w].step = "save", ![w].at = at, ![w].copy = copy]
      BY DEF FindPattern
    <3> HIDE DEF at, copy
    <3> QED BY <2>2, <3>1
  <2>4. n \in 1 .. Len(outcomes) /\ o = outcomes[n]
    BY <2>1 DEF MemInv, Apart, Mine
  <2> QED BY <2>1, <2>2, <2>3, <2>4, MemTypes
<1>2. ASSUME found # {} PROVE first \in 1 .. Len(patterns) /\ Matches(patterns[first], o)
  <2>1. \E i \in found : \A j \in found : i <= j
    BY <1>1, <1>2, FirstOutcome
  <2>2. first \in found
    BY <2>1
  <2> QED BY <1>1, <2>2
<1>3. at \in Nat /\ (at # 0 => at \in 1 .. Len(patterns))
  BY <1>2
<1> HIDE DEF o, first
<1>4. /\ copy \in Patterns /\ Earned(outcomes, copy, Carried \ {n})
      /\ n \in Behind(outcomes, copy)
      /\ at # 0 => Same(copy, patterns[at])
  <2>1. n \in Carried
    BY <1>1 DEF Carried, Carries
  <2>2. CASE found = {}
    <3> DEFINE c == Created(o)
    <3>1. /\ c \in Patterns /\ c.struct = o.struct /\ c.count = 1 /\ c.validated = o.validated
      BY <1>1 DEF Created, Patterns, Outcomes
    <3> HIDE DEF c
    <3>2. n \in Behind(outcomes, c)
      BY <1>1, <3>1 DEF Behind, Matches
    <3>3. {n} \subseteq Behind(outcomes, c) \ (Carried \ {n})
      BY <3>2
    <3>4. 1 <= Cardinality(Behind(outcomes, c) \ (Carried \ {n}))
      <4>1. Behind(outcomes, c) \ (Carried \ {n}) \subseteq 1 .. Len(outcomes)
        BY DEF Behind
      <4>2. Cardinality({n}) <= Cardinality(Behind(outcomes, c) \ (Carried \ {n}))
        BY <3>3, <4>1, FewerOutcomes, MemTypes
      <4> QED BY <4>2, FS_Singleton
    <3>5. Earned(outcomes, c, Carried \ {n})
      BY <1>1, <3>1, <3>2, <3>4 DEF Earned
    <3> QED BY <2>2, <3>1, <3>2, <3>5 DEF c
  <2>3. CASE found # {}
    <3> DEFINE p == patterns[first]
               c == Merged(p, o)
    <3>1. p \in Patterns /\ Earned(outcomes, p, Carried) /\ Matches(p, o) /\ at = first
      BY <1>2, <2>3, MemTypes DEF MemInv, PatternsSound
    <3>2. /\ c \in Patterns /\ Same(c, p) /\ c.count = p.count + 1
          /\ c.validated = (p.validated \/ o.validated)
      <4> HIDE DEF p
      <4>1. /\ p.count + 1 \in Nat /\ (p.validated \/ o.validated) \in BOOLEAN
            /\ p.struct \in Signature /\ p.sem \in Signature
            /\ p = [struct |-> p.struct, sem |-> p.sem, validated |-> p.validated, count |-> p.count]
        BY <1>1, <3>1 DEF Patterns, Outcomes
      <4> DEFINE b == p.validated \/ o.validated
      <4>2. c = [p EXCEPT !.count = p.count + 1, !.validated = b]
        BY Zenon DEF Merged
      <4> HIDE DEF c
      <4>3. b \in BOOLEAN
        BY <4>1
      <4> HIDE DEF b
      <4>4. c \in Patterns /\ c.struct = p.struct /\ c.sem = p.sem /\ c.count = p.count + 1 /\ c.validated = b
        BY <3>1, <4>1, <4>2, <4>3 DEF Patterns
      <4> QED BY <4>4 DEF Same, b
    <3> HIDE DEF c, p
    <3>3. Behind(outcomes, c) = Behind(outcomes, p)
      BY <3>2, BehindSame
    <3>4. n \in Behind(outcomes, p)
      BY <1>1, <3>1 DEF Behind
    <3>5. Cardinality(Behind(outcomes, p) \ (Carried \ {n})) =
            Cardinality(Behind(outcomes, p) \ Carried) + 1
      <4>1. Behind(outcomes, p) \ (Carried \ {n}) = (Behind(outcomes, p) \ Carried) \cup {n}
        BY <3>4
      <4>2. IsFiniteSet(Behind(outcomes, p) \ Carried)
        <5>1. Behind(outcomes, p) \ Carried \subseteq 1 .. Len(outcomes)
          BY DEF Behind
        <5> QED BY <5>1, FewerOutcomes, MemTypes
      <4>3. n \notin Behind(outcomes, p) \ Carried
        BY <2>1
      <4> QED BY <4>1, <4>2, <4>3, FS_AddElement
    <3>6. Cardinality(Behind(outcomes, p) \ Carried) \in Nat
      <4>1. Behind(outcomes, p) \ Carried \subseteq 1 .. Len(outcomes)
        BY DEF Behind
      <4> QED BY <4>1, FewerOutcomes, MemTypes
    <3>7. p.count \in Nat /\ 1 <= p.count /\ p.count <= Cardinality(Behind(outcomes, p) \ Carried)
      BY <3>1 DEF Earned, Patterns
    <3>8. c.validated => \E j \in Behind(outcomes, c) : outcomes[j].validated
      BY <1>1, <3>1, <3>2, <3>3, <3>4 DEF Earned
    <3>9. 1 <= c.count /\ c.count <= Cardinality(Behind(outcomes, c) \ (Carried \ {n}))
      BY <3>2, <3>3, <3>5, <3>6, <3>7
    <3>10. Earned(outcomes, c, Carried \ {n})
      BY <3>8, <3>9 DEF Earned
    <3>11. Same(copy, patterns[at]) /\ copy = c
      BY <2>3, <3>1, <3>2 DEF c, p
    <3> QED BY <3>2, <3>3, <3>4, <3>10, <3>11
  <2> QED BY <2>2, <2>3
<1> HIDE DEF at, copy
<1>5. /\ r \in Posts /\ r.step = "save" /\ r.outcome = n /\ r.at = at /\ r.copy = copy
  <2>1. copy \in Copies
    BY <1>4 DEF Patterns, Copies
  <2>2. at \in Nat
    BY <1>3
  <2> QED BY <1>1, <2>1, <2>2 DEF Posts, PromoterSteps
<1> HIDE DEF r
<1>6. promoter'[w] = r /\ \A v \in Promoter \ {w} : promoter'[v] = promoter[v]
  BY <1>1, PlaceType
<1>7. /\ TypeSound' /\ Apart' /\ PatternsSound'
      /\ \A v \in Promoter \ {w} : CopySound(v)'
      /\ \A i \in 1 .. Len(outcomes) : i \in Carried' => i \in Carried
  <2>1. outcomes' \in Seq(Outcomes) /\ Extends(outcomes, outcomes') /\ Carries(w)
    BY <1>1, PlaceType DEF Carries
  <2> QED BY <1>1, <1>5, <2>1, ProcessStep
<1>8. CopySound(w)'
  <2>1. Earned(outcomes', copy, Carried' \ {n})
    BY <1>1, <1>4, <1>7, EarnedMore, PlaceType
  <2> QED BY <1>1, <1>3, <1>4, <1>5, <1>6, <2>1 DEF CopySound
<1>9. PromotionsSound'
  BY <1>1 DEF MemInv, PromotionsSound
<1> QED BY <1>7, <1>8, <1>9 DEF MemInv, CopiesSound

LEMMA SaveStep ==
  ASSUME MemInv, NEW w \in Promoter, SavePattern(w)
  PROVE  MemInv'
<1> DEFINE n == promoter[w].outcome
           copy == promoter[w].copy
           at == IF promoter[w].at = 0 THEN Len(patterns) + 1 ELSE promoter[w].at
           r == [promoter[w] EXCEPT !.step = "record", !.at = at]
<1>1. /\ promoter' = [promoter EXCEPT ![w] = r] /\ UNCHANGED <<outcomes, promotions>>
      /\ patterns' = [i \in 1..(IF at > Len(patterns) THEN at ELSE Len(patterns)) |->
                        IF i = at THEN copy ELSE patterns[i]]
      /\ promoter[w].step = "save" /\ promoter[w] \in Posts
      /\ n \in 1 .. Len(outcomes) /\ Len(outcomes) \in Nat /\ Len(patterns) \in Nat
  BY PlaceType, MemTypes DEF SavePattern, MemInv, Apart
<1>2. /\ copy \in Patterns /\ Earned(outcomes, copy, Carried \ {n})
      /\ n \in Behind(outcomes, copy)
      /\ promoter[w].at # 0 => promoter[w].at \in 1 .. Len(patterns) /\ Same(copy, patterns[at])
  BY <1>1, PlaceType DEF CopySound
<1>3. at \in 1 .. Len(patterns) + 1 /\ (at \in 1 .. Len(patterns) => Same(copy, patterns[at]))
  BY <1>1, <1>2
<1> HIDE DEF at
<1>4. /\ patterns' \in Seq(Patterns) /\ Len(patterns') \in Nat
      /\ at \in 1 .. Len(patterns') /\ patterns'[at] = copy
      /\ \A i \in 1 .. Len(patterns) : i \in 1 .. Len(patterns')
      /\ \A i \in 1 .. Len(patterns') : i # at => i \in 1 .. Len(patterns) /\ patterns'[i] = patterns[i]
  <2> DEFINE m == IF at > Len(patterns) THEN at ELSE Len(patterns)
  <2>1. m \in Nat /\ at \in 1 .. m /\ Len(patterns) <= m
        /\ \A i \in 1 .. m : i # at => i \in 1 .. Len(patterns)
    BY <1>1, <1>3
  <2>2. patterns' = [i \in 1 .. m |-> IF i = at THEN copy ELSE patterns[i]]
    BY <1>1
  <2> HIDE DEF m
  <2>3. \A i \in 1 .. m : (IF i = at THEN copy ELSE patterns[i]) \in Patterns
    BY <1>2, <2>1, MemTypes
  <2>4. patterns' \in Seq(Patterns) /\ Len(patterns') = m
    BY <2>1, <2>2, <2>3
  <2> QED BY <1>1, <2>1, <2>2, <2>4
<1>5. r \in Posts /\ r.step = "record" /\ r.at = at /\ r.outcome = n
  <2>1. at \in Nat
    BY <1>1, <1>3
  <2> QED BY <1>1, <2>1 DEF Posts, PromoterSteps
<1> HIDE DEF r
<1>6. /\ promoter' \in [Promoter -> Posts] /\ promoter'[w] = r
      /\ \A v \in Promoter \ {w} : promoter'[v] = promoter[v]
  BY <1>1, <1>5, PlaceType
<1>7. /\ \A v \in Promoter : Carries(v)' => Carries(v) /\ v # w /\ promoter'[v] = promoter[v]
      /\ Carried' \subseteq Carried \ {n}
  <2>1. \A v \in Promoter : Carries(v)' => Carries(v) /\ v # w /\ promoter'[v] = promoter[v]
    BY <1>5, <1>6 DEF Carries
  <2>2. \A v \in Promoter : Carries(v)' => promoter'[v].outcome # n
    BY <1>1, <2>1 DEF MemInv, Apart, Carries
  <2> QED BY <1>1, <2>1, <2>2 DEF Carried
<1>8. TypeSound'
  BY <1>1, <1>4, <1>6 DEF MemInv, TypeSound
<1>9. Apart'
  <2>1. ASSUME NEW v \in Promoter, promoter'[v].step # "none"
        PROVE  promoter'[v].outcome \in 1 .. Len(outcomes')
    BY <1>1, <1>5, <1>6, <2>1 DEF MemInv, Apart
  <2> QED BY <1>7, <2>1 DEF MemInv, Apart
<1>10. PatternsSound'
  <2> SUFFICES ASSUME NEW i \in 1 .. Len(patterns') PROVE Earned(outcomes', patterns'[i], Carried')
    BY DEF PatternsSound
  <2>1. CASE i = at
    BY <1>1, <1>2, <1>4, <1>7, <2>1, EarnedMore, PlaceType
  <2>2. CASE i # at
    <3>1. /\ patterns[i] \in Patterns /\ Earned(outcomes, patterns[i], Carried)
          /\ patterns'[i] = patterns[i]
      BY <1>4, <2>2, MemTypes DEF MemInv, PatternsSound
    <3> QED BY <1>1, <1>7, <3>1, EarnedMore, PlaceType
  <2> QED BY <2>1, <2>2
<1>11. \A i \in 1 .. Len(patterns) :
         /\ i \in 1 .. Len(patterns') /\ Same(patterns[i], patterns'[i])
         /\ Behind(outcomes, patterns'[i]) = Behind(outcomes, patterns[i])
  <2>1. \A i \in 1 .. Len(patterns) : Same(patterns[i], patterns'[i])
    BY <1>3, <1>4 DEF Same
  <2> QED BY <1>4, <2>1, BehindSame
<1>12. CopiesSound'
  <2> SUFFICES ASSUME NEW v \in Promoter PROVE CopySound(v)'
    BY DEF CopiesSound
  <2>1. CASE v = w
    BY <1>1, <1>2, <1>4, <1>5, <1>6, <2>1 DEF CopySound
  <2>2. CASE v # w
    <3>1. CopySound(v) /\ promoter'[v] = promoter[v]
      BY <1>6, <2>2, PlaceType
    <3>2. ASSUME promoter[v].step = "save"
          PROVE  Earned(outcomes', promoter[v].copy, Carried' \ {promoter[v].outcome})
      <4>1. /\ promoter[v].copy \in Patterns
            /\ Earned(outcomes, promoter[v].copy, Carried \ {promoter[v].outcome})
        BY <3>1, <3>2 DEF CopySound
      <4>2. \A i : i \in Carried' \ {promoter[v].outcome} => i \in Carried \ {promoter[v].outcome}
        BY <1>7
      <4>3. Extends(outcomes, outcomes')
        BY <1>1, PlaceType
      <4> QED BY <4>1, <4>2, <4>3, EarnedMore
    <3>3. promoter[v].step = "save" /\ promoter[v].at # 0 =>
            Same(promoter[v].copy, patterns'[promoter[v].at])
      BY <1>11, <3>1 DEF CopySound, Same
    <3> QED BY <1>1, <1>11, <3>1, <3>2, <3>3 DEF CopySound
  <2> QED BY <2>1, <2>2
<1>13. PromotionsSound'
  BY <1>1, <1>11 DEF MemInv, PromotionsSound
<1> QED BY <1>8, <1>9, <1>10, <1>12, <1>13 DEF MemInv

LEMMA MemInvariance == MemInv /\ [MemNext]_memVars => MemInv'
<1> SUFFICES ASSUME MemInv, [MemNext]_memVars PROVE MemInv'
  OBVIOUS
<1>1. CASE UNCHANGED memVars
  <2>1. UNCHANGED <<outcomes, patterns, promotions, promoter>>
    BY <1>1 DEF memVars
  <2>2. Carried' = Carried /\ TypeSound' /\ Apart'
    BY <2>1 DEF Carried, Carries, MemInv, TypeSound, Apart
  <2>3. PatternsSound' /\ CopiesSound'
    BY <2>1, <2>2 DEF MemInv, PatternsSound, CopiesSound, CopySound
  <2>4. PromotionsSound'
    BY <2>1 DEF MemInv, PromotionsSound
  <2> QED BY <2>2, <2>3, <2>4 DEF MemInv
<1> QED BY <1>1, RecordOutcomeStep, PlainStep, FindPatternStep, SaveStep DEF MemNext

\* "Patterns Are Earned": a pattern counts no more observations than outcomes
\* that passed the privacy gates and match it, and is VALIDATED only with one that
\* was, however many processes merge into copies of it, save them over each other
\* and end halfway (evaluate_and_promote in memory/promotion.py).
THEOREM PatternsAreEarned == MemSpec => []PatternsEarned
<1>1. MemInv => PatternsEarned
  <2> SUFFICES ASSUME MemInv PROVE PatternsEarned
    OBVIOUS
  <2>1. \A p : Supporters(p) = Behind(outcomes, p)
    BY MemTypes DEF Supporters, Behind
  <2>2. ASSUME NEW i \in DOMAIN patterns
        PROVE  /\ 1 <= patterns[i].count /\ patterns[i].count <= Cardinality(Supporters(patterns[i]))
               /\ patterns[i].validated => \E j \in Supporters(patterns[i]) : outcomes[j].validated
    <3>1. patterns[i] \in Patterns /\ Earned(outcomes, patterns[i], Carried)
      BY MemTypes DEF MemInv, PatternsSound
    <3>2. Earned(outcomes, patterns[i], {})
      BY <3>1, EarnedMore, PlaceType, MemTypes DEF Extends
    <3>3. Behind(outcomes, patterns[i]) \ {} = Behind(outcomes, patterns[i])
      OBVIOUS
    <3> QED BY <2>1, <3>2, <3>3 DEF Earned
  <2>3. ASSUME NEW r \in promotions, r.pattern # 0
        PROVE  r.pattern \in DOMAIN patterns /\ r.outcome \in Supporters(patterns[r.pattern])
    BY <2>1, <2>3, MemTypes DEF MemInv, PromotionsSound
  <2> QED BY <2>2, <2>3 DEF PatternsEarned
<1> QED BY <1>1, MemInitially, MemInvariance, PTL DEF MemSpec

-----------------------------------------------------------------------------
(* Types.                                                                  *)

\* What a process holds, of n outcomes and m patterns.
Slots(n, m) == [step : PromoterSteps, outcome : 0 .. n, at : 0 .. m, copy : Patterns \cup {NoPattern}]
Ledger(n, m) == [outcome : 1 .. n, pattern : 0 .. m]

MemTyped ==
  /\ promotions \subseteq Ledger(Len(outcomes), Len(patterns))
  /\ \A w \in Promoter : promoter[w] \in Slots(Len(outcomes), Len(patterns))

\* Outcomes and patterns are only added to; one process goes on.
LEMMA SlotStep ==
  ASSUME MemInv, MemInv', MemTyped, NEW w \in Promoter, NEW n \in Nat, NEW m \in Nat,
         Len(outcomes') = n, Len(patterns') = m, Len(outcomes) <= n, Len(patterns) <= m,
         NEW r \in Slots(n, m), promoter' = [promoter EXCEPT ![w] = r],
         promotions' \subseteq promotions \cup Ledger(n, m)
  PROVE  MemTyped'
<1>1. /\ Len(outcomes) \in Nat /\ Len(patterns) \in Nat
  BY MemTypes
<1>2. /\ 0 .. Len(outcomes) \subseteq 0 .. n /\ 1 .. Len(outcomes) \subseteq 1 .. n
      /\ 0 .. Len(patterns) \subseteq 0 .. m
  BY <1>1
<1>3. \A v \in Promoter : promoter'[v] = IF v = w THEN r ELSE promoter[v]
  BY PlaceType
<1>4. Slots(Len(outcomes), Len(patterns)) \subseteq Slots(n, m)
      /\ Ledger(Len(outcomes), Len(patterns)) \subseteq Ledger(n, m)
  BY <1>2 DEF Slots, Ledger
<1>5. \A v \in Promoter : promoter'[v] \in Slots(n, m)
  BY <1>3, <1>4 DEF MemTyped
<1>6. promotions' \subseteq Ledger(n, m)
  BY <1>4 DEF MemTyped
<1> QED BY <1>5, <1>6 DEF MemTyped

LEMMA MemTyping ==
  ASSUME MemInv, MemInv', MemTyped, NEW w \in Promoter,
         \/ \E o \in Outcomes : RecordOutcome(w, o)
         \/ RecordProjectMemory(w) \/ RejectOutcome(w) \/ FindPattern(w)
         \/ SavePattern(w) \/ RecordPromotion(w) \/ EndPromoter(w)
  PROVE  MemTyped'
<1> DEFINE n == Len(outcomes')
           m == Len(patterns')
           r == promoter'[w]
<1>1. /\ n \in Nat /\ m \in Nat /\ Len(outcomes) \in Nat /\ Len(patterns) \in Nat
      /\ DOMAIN outcomes' = 1 .. n /\ DOMAIN patterns' = 1 .. m
  <2>1. outcomes' \in Seq(Outcomes) /\ patterns' \in Seq(Patterns)
    BY DEF MemInv, TypeSound
  <2> QED BY <2>1, MemTypes
<1>2. /\ promoter[w] \in Slots(Len(outcomes), Len(patterns))
      /\ promoter[w].step # "none" => promoter[w].outcome \in 1 .. Len(outcomes)
      /\ CopySound(w) /\ CopySound(w)' /\ r \in Posts
  <2>1. CopySound(w)' /\ promoter' \in [Promoter -> Posts]
    BY DEF MemInv, CopiesSound, TypeSound
  <2> QED BY <2>1 DEF MemInv, MemTyped, Apart, CopiesSound
<1>3. Waiting \in Slots(n, m)
  BY <1>1 DEF Waiting, Slots, PromoterSteps
<1>4. ASSUME NEW o \in Outcomes, RecordOutcome(w, o) PROVE MemTyped'
  <2>1. /\ outcomes' = Append(outcomes, o) /\ UNCHANGED <<patterns, promotions>>
        /\ promoter' = [promoter EXCEPT ![w] = [promoter[w] EXCEPT !.step = "memory",
                                                                   !.outcome = Len(outcomes) + 1]]
    BY <1>4, PlaceType DEF RecordOutcome
  <2>2. n = Len(outcomes) + 1 /\ m = Len(patterns)
    BY <2>1, MemTypes DEF MemInv, TypeSound
  <2>3. [promoter[w] EXCEPT !.step = "memory", !.outcome = Len(outcomes) + 1] \in Slots(n, m)
    <3>1. Len(outcomes) + 1 \in 0 .. n /\ 0 .. Len(outcomes) \subseteq 0 .. n
      BY <1>1, <2>2
    <3> HIDE DEF n, m
    <3> QED BY <1>2, <2>2, <3>1 DEF Slots, PromoterSteps
  <2>4. Len(outcomes) <= n /\ Len(patterns) <= m
    BY <1>1, <2>2
  <2> QED BY <1>1, <2>1, <2>3, <2>4, SlotStep
<1>5. CASE RecordProjectMemory(w)
  <2>1. /\ UNCHANGED <<outcomes, patterns, promotions>>
        /\ promoter' = [promoter EXCEPT ![w] = [promoter[w] EXCEPT !.step = "gates"]]
    BY <1>5, PlaceType DEF RecordProjectMemory
  <2>2. n = Len(outcomes) /\ m = Len(patterns) /\ Len(outcomes) <= n /\ Len(patterns) <= m
    BY <1>1, <2>1
  <2>3. [promoter[w] EXCEPT !.step = "gates"] \in Slots(n, m)
    BY <1>2, <2>2, SMTT(40) DEF Slots, PromoterSteps
  <2> QED BY <1>1, <2>1, <2>2, <2>3, SlotStep
<1>6. CASE RejectOutcome(w) \/ RecordPromotion(w) \/ EndPromoter(w)
  <2>1. /\ UNCHANGED <<outcomes, patterns>> /\ promoter' = [promoter EXCEPT ![w] = Waiting]
    BY <1>6 DEF RejectOutcome, RecordPromotion, EndPromoter
  <2>2. n = Len(outcomes) /\ m = Len(patterns) /\ Len(outcomes) <= n /\ Len(patterns) <= m
    BY <1>1, <2>1
  <2>3. promotions' \subseteq promotions \cup Ledger(n, m)
    <3>1. CASE RejectOutcome(w)
      <4>1. promotions' = promotions \cup {[outcome |-> promoter[w].outcome, pattern |-> 0]}
            /\ promoter[w].step = "gates"
        BY <3>1 DEF RejectOutcome, Record
      <4>2. promoter[w].outcome \in 1 .. n /\ 0 \in 0 .. m
        BY <1>1, <1>2, <2>2, <4>1
      <4> QED BY <4>1, <4>2 DEF Ledger
    <3>2. CASE RecordPromotion(w)
      <4>1. promotions' = promotions \cup {[outcome |-> promoter[w].outcome, pattern |-> promoter[w].at]}
            /\ promoter[w].step = "record"
        BY <3>2 DEF RecordPromotion, Record
      <4>2. promoter[w].outcome \in 1 .. n /\ promoter[w].at \in 0 .. m
        BY <1>1, <1>2, <2>2, <4>1 DEF Slots
      <4> QED BY <4>1, <4>2 DEF Ledger
    <3>3. CASE EndPromoter(w)
      BY <3>3, SMTT(40) DEF EndPromoter
    <3> QED BY <1>6, <3>1, <3>2, <3>3
  <2> QED BY <1>1, <1>3, <2>1, <2>2, <2>3, SlotStep
<1>7. CASE FindPattern(w)
  <2>1. /\ UNCHANGED <<outcomes, patterns, promotions>>
        /\ promoter' = [promoter EXCEPT ![w] = r]
        /\ r.step = "save" /\ r.outcome = promoter[w].outcome
    <3>1. \E a, c : promoter' = [promoter EXCEPT ![w].step = "save", ![w].at = a, ![w].copy = c]
      BY <1>7, Zenon DEF FindPattern
    <3>2. PICK a, c : promoter' = [promoter EXCEPT ![w].step = "save", ![w].at = a, ![w].copy = c]
      BY <3>1
    <3>3. promoter' = [promoter EXCEPT ![w] = [promoter[w] EXCEPT !.step = "save", !.at = a, !.copy = c]]
      BY <3>2, PlaceType
    <3>4. r = [promoter[w] EXCEPT !.step = "save", !.at = a, !.copy = c]
      BY <3>3, PlaceType
    <3>5. r.step = "save" /\ r.outcome = promoter[w].outcome
      BY <1>2, <3>4 DEF Slots
    <3>6. UNCHANGED <<outcomes, patterns, promotions>>
      BY <1>7, Zenon DEF FindPattern
    <3> QED BY <3>3, <3>4, <3>5, <3>6
  <2>2. n = Len(outcomes) /\ m = Len(patterns) /\ Len(outcomes) <= n /\ Len(patterns) <= m
    BY <1>1, <2>1
  <2>3. /\ r.copy \in Patterns /\ (r.at = 0 \/ r.at \in 1 .. m)
        /\ r.outcome \in 0 .. n
    BY <1>2, <2>1, <2>2 DEF CopySound, Slots
  <2>4. r \in Slots(n, m)
    <3>1. r.at \in 0 .. m
      BY <1>1, <2>3
    <3> QED BY <1>2, <2>3, <3>1 DEF Posts, Slots
  <2> HIDE DEF r
  <2> QED BY <1>1, <2>1, <2>2, <2>4, SlotStep
<1>8. CASE SavePattern(w)
  <2> DEFINE at == IF promoter[w].at = 0 THEN Len(patterns) + 1 ELSE promoter[w].at
  <2>1. /\ UNCHANGED <<outcomes, promotions>>
        /\ promoter' = [promoter EXCEPT ![w] = [promoter[w] EXCEPT !.step = "record", !.at = at]]
        /\ DOMAIN patterns' = 1 .. (IF at > Len(patterns) THEN at ELSE Len(patterns))
    BY <1>8, PlaceType DEF SavePattern
  <2>2. r = [promoter[w] EXCEPT !.step = "record", !.at = at]
    BY <2>1, PlaceType
  <2>3. /\ r.step = "record" /\ r.outcome = promoter[w].outcome /\ r.copy = promoter[w].copy
    BY <1>2, <2>2 DEF Slots
  <2>4. promoter[w].at \in 0 .. Len(patterns) /\ at \in 1 .. Len(patterns) + 1
    <3>1. promoter[w].at \in 0 .. Len(patterns)
      BY <1>2 DEF Slots
    <3> QED BY <1>1, <3>1
  <2>5. Len(patterns) <= m /\ at \in 0 .. m
    <3> DEFINE k == IF at > Len(patterns) THEN at ELSE Len(patterns)
    <3>1. k \in Nat /\ Len(patterns) <= k /\ at \in 0 .. k
      BY <1>1, <2>4
    <3>2. 1 .. m = 1 .. k
      BY <1>1, <2>1
    <3> HIDE DEF k, at, m
    <3>3. k = m
      BY <1>1, <3>1, <3>2
    <3> QED BY <3>1, <3>3
  <2>6. r \in Slots(n, m)
    <3>1. r.at \in 0 .. m
      BY <1>2, <2>2, <2>5 DEF Slots
    <3>2. r.copy \in Patterns \cup {NoPattern} /\ r.outcome \in 0 .. n
      BY <1>2, <2>1, <2>3 DEF Slots
    <3> QED BY <1>2, <3>1, <3>2 DEF Posts, Slots
  <2>7. promoter' = [promoter EXCEPT ![w] = r]
    BY <2>1, <2>2
  <2>8. Len(outcomes) <= n
    BY <1>1, <2>1
  <2> HIDE DEF r
  <2> QED BY <1>1, <2>1, <2>5, <2>6, <2>7, <2>8, SlotStep
<1> QED BY <1>4, <1>5, <1>6, <1>7, <1>8

\* Every variable has its type: a process carries an outcome and a pattern that
\* are there.
THEOREM MemoryIsTyped == MemSpec => []MemTypeOK
<1>1. MemInit => MemTyped
  BY DEF MemInit, MemTyped, Slots, Ledger, Waiting, PromoterSteps
<1>2. MemInv /\ MemInv' /\ MemTyped /\ [MemNext]_memVars => MemTyped'
  <2> SUFFICES ASSUME MemInv, MemInv', MemTyped, [MemNext]_memVars PROVE MemTyped'
    OBVIOUS
  <2>1. CASE UNCHANGED memVars
    BY <2>1 DEF memVars, MemTyped
  <2> QED BY <2>1, MemTyping DEF MemNext
<1>3. MemInv /\ MemTyped => MemTypeOK
  BY DEF MemInv, TypeSound, MemTyped, MemTypeOK, Slots, Ledger
<1> QED BY <1>1, <1>2, <1>3, MemInitially, MemInvariance, PTL DEF MemSpec

HIDE MemoryAssumption

-----------------------------------------------------------------------------
(***************************************************************************)
(* Tokens and budgets, for every set of calls and of runs.                 *)
(***************************************************************************)
USE TokensAssumption

(* What calls cost, as sets of tokens.                                     *)

LEMMA CostsAreNumbers ==
  ASSUME NEW c \in Call
  PROVE  Actual(c) \in Nat /\ Estimate(c) \in Nat /\ Own(c) \in Nat
<1>1. CostOf[c] \in [input : Side, output : Side]
  OBVIOUS
<1>2. /\ CostOf[c].input.actual \in Nat /\ CostOf[c].output.actual \in Nat
      /\ CostOf[c].input.text \in Nat /\ CostOf[c].output.text \in Nat
  BY <1>1 DEF Side
<1> QED BY <1>2 DEF Actual, Estimate, Estimated, Own

LEMMA TokensOf ==
  ASSUME NEW B
  PROVE  /\ \A x : x \in OwnTokens(B) <=> \E c \in B : \E n \in 1 .. Own(c) : x = <<c, n>>
         /\ \A x : x \in ActualTokens(B) <=> \E c \in B : \E n \in 1 .. Actual(c) : x = <<c, n>>
         /\ \A x : x \in EstimatedTokens(B) <=> \E c \in B : \E n \in 1 .. Estimate(c) : x = <<c, n>>
<1>1. ASSUME NEW x PROVE x \in OwnTokens(B) <=> \E c \in B : \E n \in 1 .. Own(c) : x = <<c, n>>
  BY DEF OwnTokens
<1>2. ASSUME NEW x
      PROVE  x \in ActualTokens(B) <=> \E c \in B : \E n \in 1 .. Actual(c) : x = <<c, n>>
  BY DEF ActualTokens
<1>3. ASSUME NEW x
      PROVE  x \in EstimatedTokens(B) <=> \E c \in B : \E n \in 1 .. Estimate(c) : x = <<c, n>>
  BY DEF EstimatedTokens
<1> QED BY <1>1, <1>2, <1>3

LEMMA TokensGrow ==
  ASSUME NEW B, NEW C, B \subseteq C
  PROVE  OwnTokens(B) \subseteq OwnTokens(C)
<1>1. ASSUME NEW x, x \in OwnTokens(B) PROVE x \in OwnTokens(C)
  <2>1. PICK c \in B : \E n \in 1 .. Own(c) : x = <<c, n>>
    BY <1>1, TokensOf
  <2>2. c \in C
    BY <2>1
  <2> QED BY <2>1, <2>2, TokensOf
<1> QED BY <1>1

\* One call more adds its own tokens.
LEMMA OneMoreCall ==
  ASSUME NEW B \in SUBSET Call, NEW c \in Call, c \notin B, IsFiniteSet(OwnTokens(B))
  PROVE  /\ IsFiniteSet(OwnTokens(B \cup {c}))
         /\ Cardinality(OwnTokens(B)) \in Nat
         /\ Cardinality(OwnTokens(B \cup {c})) = Cardinality(OwnTokens(B)) + Own(c)
<1> DEFINE more == {c} \X (1 .. Own(c))
<1>1. Own(c) \in Nat
  BY CostsAreNumbers
<1>2. IsFiniteSet({c}) /\ Cardinality({c}) = 1
  BY FS_Singleton
<1>3. IsFiniteSet(1 .. Own(c)) /\ Cardinality(1 .. Own(c)) = Own(c)
  BY <1>1, FS_Interval
<1>4. IsFiniteSet(more) /\ Cardinality(more) = 1 * Own(c)
  BY <1>2, <1>3, FS_Product, ZenonT(60)
<1>5. \A x : x \in more <=> \E n \in 1 .. Own(c) : x = <<c, n>>
  OBVIOUS
<1> HIDE DEF more
<1>6. OwnTokens(B \cup {c}) = OwnTokens(B) \cup more
  <2>1. \A x : x \in OwnTokens(B \cup {c}) <=> x \in OwnTokens(B) \/ x \in more
    <3> TAKE x
    <3>1. x \in OwnTokens(B \cup {c}) <=> \E b \in B \cup {c} : \E n \in 1 .. Own(b) : x = <<b, n>>
      BY TokensOf
    <3>2. x \in OwnTokens(B) <=> \E b \in B : \E n \in 1 .. Own(b) : x = <<b, n>>
      BY TokensOf
    <3>3. x \in more <=> \E n \in 1 .. Own(c) : x = <<c, n>>
      BY <1>5
    <3> QED BY <3>1, <3>2, <3>3, Zenon
  <2> QED BY <2>1
<1>7. OwnTokens(B) \cap more = {}
  <2>1. ASSUME NEW x, x \in OwnTokens(B), x \in more PROVE FALSE
    <3>1. PICK b \in B : \E m \in 1 .. Own(b) : x = <<b, m>>
      BY <2>1, TokensOf
    <3>2. PICK n \in 1 .. Own(c) : x = <<c, n>>
      BY <1>5, <2>1
    <3>3. b = c
      BY <3>1, <3>2
    <3> QED BY <3>3
  <2> QED BY <2>1
<1>8. /\ IsFiniteSet(OwnTokens(B) \cup more)
      /\ Cardinality(OwnTokens(B) \cup more) =
           Cardinality(OwnTokens(B)) + Cardinality(more) - Cardinality(OwnTokens(B) \cap more)
      /\ Cardinality(OwnTokens(B)) \in Nat
  BY <1>4, FS_Union, FS_CardinalityType
<1>9. Cardinality(OwnTokens(B) \cap more) = 0
  BY <1>7, FS_EmptySet
<1>10. Cardinality(more) = Own(c)
  BY <1>1, <1>4
<1>11. Cardinality(OwnTokens(B) \cup more) = Cardinality(OwnTokens(B)) + Own(c)
  BY <1>1, <1>8, <1>9, <1>10
<1> QED BY <1>6, <1>8, <1>11, Zenon

\* What a summary finds is at most what the calls it lists have spent.
LEMMA EffectiveBound ==
  ASSUME NEW s, Listing(s) \in SUBSET Call, IsFiniteSet(OwnTokens(Listing(s)))
  PROVE  /\ Effective(s) \in Nat
         /\ Effective(s) <= Cardinality(OwnTokens(Listing(s)))
<1> DEFINE L == Listing(s)
<1>1. \A c \in L : Actual(c) \in Nat /\ Estimate(c) \in Nat /\ Own(c) \in Nat
  BY CostsAreNumbers
<1> HIDE DEF L
<1>2. ActualTokens(L) \subseteq OwnTokens(L)
  <2>1. ASSUME NEW x, x \in ActualTokens(L) PROVE x \in OwnTokens(L)
    <3>1. PICK c \in L : \E n \in 1 .. Actual(c) : x = <<c, n>>
      BY <2>1, TokensOf
    <3>2. PICK n \in 1 .. Actual(c) : x = <<c, n>>
      BY <3>1
    <3>3. n \in 1 .. Own(c)
      BY <1>1, <3>2 DEF Own
    <3> QED BY <3>2, <3>3, TokensOf
  <2> QED BY <2>1
<1>3. IsFiniteSet(OwnTokens(L))
  BY DEF L
<1>4. /\ IsFiniteSet(ActualTokens(L)) /\ Cardinality(ActualTokens(L)) \in Nat
      /\ Cardinality(ActualTokens(L)) <= Cardinality(OwnTokens(L))
  BY <1>2, <1>3, FS_Subset, FS_CardinalityType
<1>5. CASE Cardinality(ActualTokens(L)) > 0
  BY <1>4, <1>5 DEF Effective, L
<1>6. CASE ~ Cardinality(ActualTokens(L)) > 0
  <2>1. ActualTokens(L) = {}
    BY <1>4, <1>6, FS_EmptySet
  <2>2. \A c \in L : Own(c) = Estimate(c)
    <3> TAKE c \in L
    <3>1. <<c, 1>> \notin ActualTokens(L)
      BY <2>1
    <3>2. 1 \notin 1 .. Actual(c)
      BY <3>1, TokensOf
    <3> QED BY <1>1, <3>2 DEF Own
  <2>3. EstimatedTokens(L) = OwnTokens(L)
    <3>1. \A x : x \in EstimatedTokens(L) <=> x \in OwnTokens(L)
      BY <2>2, TokensOf
    <3> QED BY <3>1
  <2>4. Cardinality(OwnTokens(L)) \in Nat
    BY <1>3, FS_CardinalityType
  <2>5. Effective(s) = Cardinality(EstimatedTokens(L))
    BY <1>6 DEF Effective, L
  <2> QED BY <2>3, <2>4, <2>5 DEF L
<1> QED BY <1>5, <1>6

LEMMA LevelsOfLimits ==
  ASSUME NEW limit \in Nat, NEW consumed \in Nat
  PROVE  /\ Level(limit, consumed) \in Levels /\ Warning(limit, consumed) \in Levels
         /\ Warning(limit, consumed) = "EXHAUSTED" => limit <= consumed
         /\ Budgeted(limit, consumed) \in
              [limit : Nat, consumed : Nat, level : Levels \cup {"UNSET"}]
         /\ Budgeted(limit, consumed).consumed = consumed
<1>1. Left(limit, consumed) \in Nat /\ (Left(limit, consumed) = 0 => limit <= consumed)
  BY DEF Left
<1>2. Level(limit, consumed) \in Levels
  BY <1>1 DEF Level, Levels
<1>3. Warning(limit, consumed) \in Levels /\ (Warning(limit, consumed) = "EXHAUSTED" => limit <= consumed)
  BY <1>1 DEF Warning, Levels
<1> QED BY <1>2, <1>3 DEF Budgeted

-----------------------------------------------------------------------------
(* The invariant.                                                          *)

Begun(s) == {c \in Call : meter[c].at # "none" /\ s \in {RunOf[c], AllRuns}}

TokTyped ==
  /\ budget \in [Metering -> [limit : Nat, consumed : Nat, level : Levels \cup {"UNSET"}]]
  /\ usage \in Seq(Call)
  /\ notices \subseteq [run : Metered, level : Levels]
  /\ meter \in [Call -> [at : MeterSteps, limit : Nat, consumed : Nat]]
  /\ updates \in 0 .. MaxUpdates
  /\ overview \in [run : Metering \cup {NoRun}, limit : Nat]
  /\ told \in [run : Metering, total : Nat, level : Levels]
  /\ granted \in [Metering -> SUBSET Nat]

\* A record is of a call that has been stored, once.
UsageSound ==
  /\ \A i \in DOMAIN usage : meter[usage[i]].at \in {"notice", "done"}
  /\ \A i, j \in DOMAIN usage : usage[i] = usage[j] => i = j

\* A worker knows of no more than was spent, and of a limit once in force.
MeterSound ==
  \A c \in Call :
    /\ meter[c].at \in {"charge", "record", "notice"} => meter[c].consumed <= Spent(RunOf[c])
    /\ meter[c].at \in {"record", "notice"} => meter[c].limit \in granted[RunOf[c]]

TokInv ==
  /\ TokTyped /\ UsageSound /\ MeterSound /\ NoOvercharge
  /\ IsFiniteSet(OwnTokens(Begun(AllRuns)))

LEMMA SpentIsNumber ==
  ASSUME IsFiniteSet(OwnTokens(Begun(AllRuns))), NEW s
  PROVE  /\ IsFiniteSet(OwnTokens(Begun(s))) /\ Spent(s) \in Nat
         /\ Spent(s) = Cardinality(OwnTokens(Begun(s)))
<1>1. Begun(s) \subseteq Begun(AllRuns)
  BY DEF Begun
<1>2. OwnTokens(Begun(s)) \in SUBSET OwnTokens(Begun(AllRuns))
  BY <1>1, TokensGrow
<1>3. Spent(s) = Cardinality(OwnTokens(Begun(s)))
  BY DEF Spent, Begun
<1> QED BY <1>2, <1>3, FS_Subset, FS_CardinalityType

\* A step that begins no new call leaves everything spent as it was.
LEMMA SameSpent ==
  ASSUME \A c \in Call : meter'[c].at # "none" <=> meter[c].at # "none"
  PROVE  \A s : Begun(s)' = Begun(s) /\ Spent(s)' = Spent(s)
<1>1. ASSUME NEW s PROVE Begun(s)' = Begun(s)
  BY DEF Begun
<1>2. ASSUME NEW s PROVE Spent(s)' = Spent(s)
  <2>1. Spent(s) = Cardinality(OwnTokens(Begun(s)))
    BY DEF Spent, Begun
  <2>2. Spent(s)' = Cardinality(OwnTokens(Begun(s)'))
    BY DEF Spent, Begun, OwnTokens
  <2> QED BY <1>1, <2>1, <2>2
<1> QED BY <1>1, <1>2

LEMMA ListedHaveBegun ==
  ASSUME TokInv, NEW s
  PROVE  /\ Listing(s) \in SUBSET Begun(s) /\ Listing(s) \in SUBSET Call
         /\ \A c \in Listing(s) : meter[c].at \in {"notice", "done"}
<1>1. ASSUME NEW c \in Listing(s)
      PROVE  c \in Begun(s) /\ c \in Call /\ meter[c].at \in {"notice", "done"}
  <2>1. PICK i \in DOMAIN usage : c = usage[i] /\ s \in {RunOf[usage[i]], AllRuns}
    BY DEF Listing, Recorded
  <2>2. c \in Call
    BY <2>1 DEF TokInv, TokTyped
  <2>3. meter[c].at \in {"notice", "done"}
    BY <2>1 DEF TokInv, UsageSound
  <2> QED BY <2>1, <2>2, <2>3 DEF Begun
<1> QED BY <1>1

\* What a summary of s tells is at most what was spent of it.
LEMMA SummaryBound ==
  ASSUME TokInv, NEW s
  PROVE  Effective(s) \in Nat /\ Effective(s) <= Spent(s)
<1>1. /\ IsFiniteSet(OwnTokens(Begun(s))) /\ Spent(s) = Cardinality(OwnTokens(Begun(s)))
      /\ Spent(s) \in Nat
  BY SpentIsNumber DEF TokInv
<1>2. Listing(s) \in SUBSET Call /\ OwnTokens(Listing(s)) \in SUBSET OwnTokens(Begun(s))
  BY ListedHaveBegun, TokensGrow
<1>3. /\ IsFiniteSet(OwnTokens(Listing(s)))
      /\ Cardinality(OwnTokens(Listing(s))) <= Spent(s)
      /\ Cardinality(OwnTokens(Listing(s))) \in Nat
  BY <1>1, <1>2, FS_Subset, FS_CardinalityType
<1>4. Effective(s) \in Nat /\ Effective(s) <= Cardinality(OwnTokens(Listing(s)))
  BY <1>2, <1>3, EffectiveBound
<1> QED BY <1>1, <1>3, <1>4

\* Nor with one's own call added, when that is not stored yet.
LEMMA ChargeBound ==
  ASSUME TokInv, NEW c \in Call, meter[c].at = "limit"
  PROVE  Effective(RunOf[c]) + Own(c) \in Nat /\ Effective(RunOf[c]) + Own(c) <= Spent(RunOf[c])
<1> DEFINE s == RunOf[c]
           L == Listing(s)
<1>1. /\ IsFiniteSet(OwnTokens(Begun(s))) /\ Spent(s) = Cardinality(OwnTokens(Begun(s)))
      /\ Spent(s) \in Nat
  BY SpentIsNumber DEF TokInv
<1>2. L \in SUBSET Begun(s) /\ L \in SUBSET Call /\ c \notin L
  BY ListedHaveBegun
<1>3. c \in Begun(s)
  BY DEF Begun
<1> HIDE DEF L
<1>4. OwnTokens(L) \in SUBSET OwnTokens(Begun(s)) /\ OwnTokens(L \cup {c}) \in SUBSET OwnTokens(Begun(s))
  <2>1. L \cup {c} \subseteq Begun(s)
    BY <1>2, <1>3
  <2> QED BY <1>2, <2>1, TokensGrow
<1>5. IsFiniteSet(OwnTokens(L)) /\ Cardinality(OwnTokens(L \cup {c})) <= Spent(s)
  BY <1>1, <1>4, FS_Subset, ZenonT(60)
<1>6. /\ Cardinality(OwnTokens(L \cup {c})) = Cardinality(OwnTokens(L)) + Own(c)
      /\ Cardinality(OwnTokens(L)) \in Nat
  BY <1>2, <1>5, OneMoreCall
<1>7. Effective(s) \in Nat /\ Effective(s) <= Cardinality(OwnTokens(L))
  BY <1>2, <1>5, EffectiveBound DEF L
<1>8. Own(c) \in Nat
  BY CostsAreNumbers
<1> QED BY <1>1, <1>5, <1>6, <1>7, <1>8

-----------------------------------------------------------------------------
(* Its steps.                                                              *)

LEMMA TokInitially == TokInit => TokInv
<1> SUFFICES ASSUME TokInit PROVE TokInv
  OBVIOUS
<1>1. TokTyped
  BY DEF TokInit, TokTyped, Unlimited, Unmetered, Metering, Levels, MeterSteps
<1>2. UsageSound /\ MeterSound
  BY DEF TokInit, UsageSound, MeterSound, Unmetered
<1>3. Begun(AllRuns) = {} /\ OwnTokens({}) = {}
  BY DEF TokInit, Begun, Unmetered, OwnTokens
<1>4. IsFiniteSet(OwnTokens(Begun(AllRuns)))
  BY <1>3, FS_EmptySet
<1>5. \A s : Spent(s) \in Nat
  BY <1>4, SpentIsNumber
<1>6. NoOvercharge
  BY <1>5 DEF TokInit, NoOvercharge, Unlimited
<1> QED BY <1>1, <1>2, <1>4, <1>6 DEF TokInv

\* What was sound of what was spent is sound when no call begins.
LEMMA SameFinite ==
  ASSUME TokInv, \A c \in Call : meter'[c].at # "none" <=> meter[c].at # "none"
  PROVE  /\ IsFiniteSet(OwnTokens(Begun(AllRuns)))'
         /\ \A s : Spent(s)' = Spent(s) /\ Spent(s) \in Nat
<1>1. Begun(AllRuns)' = Begun(AllRuns) /\ \A s : Spent(s)' = Spent(s)
  BY SameSpent
<1>2. OwnTokens(Begun(AllRuns))' = OwnTokens(Begun(AllRuns)')
  BY DEF OwnTokens
<1> QED BY <1>1, <1>2, SpentIsNumber DEF TokInv

LEMMA AdvanceParts ==
  ASSUME TokInv, NEW c \in Call, NEW at \in MeterSteps, Advance(c, at)
  PROVE  /\ meter' \in [Call -> [at : MeterSteps, limit : Nat, consumed : Nat]]
         /\ \A d \in Call \ {c} : meter'[d] = meter[d]
         /\ meter'[c].at = at /\ meter'[c].limit = meter[c].limit
         /\ meter'[c].consumed = meter[c].consumed
<1> DEFINE q == [meter[c] EXCEPT !.at = at]
<1>1. meter \in [Call -> [at : MeterSteps, limit : Nat, consumed : Nat]]
  BY DEF TokInv, TokTyped
<1>2. meter' = [meter EXCEPT ![c] = q]
  BY DEF Advance
<1>3. /\ q \in [at : MeterSteps, limit : Nat, consumed : Nat]
      /\ q.at = at /\ q.limit = meter[c].limit /\ q.consumed = meter[c].consumed
  BY <1>1
<1> HIDE DEF q
<1> QED BY <1>1, <1>2, <1>3

LEMMA ReadLimitKeeps ==
  ASSUME TokInv, NEW c \in Call, ReadLimit(c)
  PROVE  TokInv'
<1>1. RunOf[c] \in Metering /\ budget[RunOf[c]].limit \in Nat
  BY DEF Metering, TokInv, TokTyped
<1>2. /\ meter' \in [Call -> [at : MeterSteps, limit : Nat, consumed : Nat]]
      /\ \A d \in Call \ {c} : meter'[d] = meter[d]
      /\ meter[c].at = "none" /\ meter'[c].at = "limit"
  <2> DEFINE q == [meter[c] EXCEPT !.at = "limit", !.limit = budget[RunOf[c]].limit]
  <2>1. meter \in [Call -> [at : MeterSteps, limit : Nat, consumed : Nat]]
    BY DEF TokInv, TokTyped
  <2>2. meter' = [meter EXCEPT ![c] = q] /\ meter[c].at = "none"
    BY DEF ReadLimit
  <2>3. q \in [at : MeterSteps, limit : Nat, consumed : Nat] /\ q.at = "limit"
    BY <1>1, <2>1 DEF MeterSteps
  <2> HIDE DEF q
  <2> QED BY <2>1, <2>2, <2>3
<1>3. UNCHANGED <<budget, usage, notices, updates, overview, told, granted>>
  BY DEF ReadLimit
<1>4. /\ IsFiniteSet(OwnTokens(Begun(AllRuns)))'
      /\ \A s : Spent(s) \in Nat /\ Spent(s)' \in Nat /\ Spent(s) <= Spent(s)'
  <2>1. ASSUME NEW s PROVE Begun(s)' = Begun(s) \cup (IF s \in {RunOf[c], AllRuns} THEN {c} ELSE {})
    BY <1>2 DEF Begun
  <2>2. \A s : Begun(s) \in SUBSET Call /\ c \notin Begun(s) /\ IsFiniteSet(OwnTokens(Begun(s)))
               /\ Spent(s) \in Nat /\ Spent(s) = Cardinality(OwnTokens(Begun(s)))
    BY <1>2, SpentIsNumber DEF Begun, TokInv
  <2>3. \A s : /\ IsFiniteSet(OwnTokens(Begun(s) \cup {c}))
               /\ Cardinality(OwnTokens(Begun(s) \cup {c})) = Spent(s) + Own(c)
    BY <2>2, OneMoreCall
  <2>4. Own(c) \in Nat
    BY CostsAreNumbers
  <2>5. ASSUME NEW s PROVE Spent(s)' = Cardinality(OwnTokens(Begun(s)'))
    BY DEF Spent, Begun, OwnTokens
  <2>6. ASSUME NEW s PROVE Spent(s)' \in Nat /\ Spent(s) <= Spent(s)'
    <3>1. CASE s \in {RunOf[c], AllRuns}
      BY <2>1, <2>2, <2>3, <2>4, <2>5, <3>1
    <3>2. CASE s \notin {RunOf[c], AllRuns}
      <4>1. Begun(s)' = Begun(s)
        BY <2>1, <3>2
      <4> QED BY <2>2, <2>5, <4>1
    <3> QED BY <3>1, <3>2
  <2>7. OwnTokens(Begun(AllRuns))' = OwnTokens(Begun(AllRuns) \cup {c})
    <3>1. OwnTokens(Begun(AllRuns))' = OwnTokens(Begun(AllRuns)')
      BY DEF OwnTokens
    <3>2. Begun(AllRuns)' = Begun(AllRuns) \cup {c}
      BY <2>1
    <3> QED BY <3>1, <3>2
  <2> QED BY <2>2, <2>3, <2>6, <2>7
<1>5. TokTyped'
  BY <1>2, <1>3 DEF TokInv, TokTyped
<1>6. UsageSound'
  <2>1. \A i \in DOMAIN usage : usage[i] \in Call
    BY DEF TokInv, TokTyped
  <2>2. \A i \in DOMAIN usage : meter'[usage[i]].at \in {"notice", "done"}
    BY <1>2, <2>1 DEF TokInv, UsageSound
  <2> QED BY <1>3, <2>2 DEF TokInv, UsageSound
<1>7. MeterSound'
  <2>1. ASSUME NEW d \in Call
        PROVE  /\ meter'[d].at \in {"charge", "record", "notice"} => meter'[d].consumed <= Spent(RunOf[d])'
               /\ meter'[d].at \in {"record", "notice"} => meter'[d].limit \in granted'[RunOf[d]]
    <3>1. meter'[d].consumed \in Nat
      BY <1>2
    <3>2. CASE d = c
      BY <1>2, <3>2
    <3>3. CASE d # c
      <4>1. meter'[d] = meter[d] /\ granted' = granted
        BY <1>2, <1>3, <3>3
      <4>2. /\ meter[d].at \in {"charge", "record", "notice"} => meter[d].consumed <= Spent(RunOf[d])
            /\ meter[d].at \in {"record", "notice"} => meter[d].limit \in granted[RunOf[d]]
        BY DEF TokInv, MeterSound
      <4>3. Spent(RunOf[d]) \in Nat /\ Spent(RunOf[d])' \in Nat /\ Spent(RunOf[d]) <= Spent(RunOf[d])'
        BY <1>4
      <4> QED BY <3>1, <4>1, <4>2, <4>3
    <3> QED BY <3>2, <3>3
  <2> QED BY <2>1 DEF MeterSound
<1>8. NoOvercharge'
  <2>1. \A s \in Metering : budget[s].consumed \in Nat /\ budget[s].consumed <= Spent(s)
    BY DEF TokInv, TokTyped, NoOvercharge
  <2>2. told.total \in Nat /\ told.total <= Spent(told.run)
    BY DEF TokInv, TokTyped, NoOvercharge
  <2>3. \A n \in notices :
          /\ n.run \in Metering
          /\ n.level = "EXHAUSTED" => \E l \in granted[n.run] : l \in Nat /\ l <= Spent(n.run)
    BY DEF TokInv, TokTyped, NoOvercharge, Metering
  <2>4. \A s \in Metering : budget[s].consumed <= Spent(s)'
    BY <1>4, <2>1
  <2>5. told.total <= Spent(told.run)'
    BY <1>3, <1>4, <2>2
  <2>6. \A n \in notices : n.level = "EXHAUSTED" => \E l \in granted[n.run] : l <= Spent(n.run)'
    <3>1. ASSUME NEW n \in notices, n.level = "EXHAUSTED"
          PROVE  \E l \in granted[n.run] : l <= Spent(n.run)'
      <4>1. PICK l \in granted[n.run] : l \in Nat /\ l <= Spent(n.run)
        BY <2>3, <3>1
      <4>2. Spent(n.run) \in Nat /\ Spent(n.run)' \in Nat /\ Spent(n.run) <= Spent(n.run)'
        BY <1>4
      <4>3. l <= Spent(n.run)'
        BY <4>1, <4>2
      <4> QED BY <4>3
    <3> QED BY <3>1
  <2> QED BY <1>3, <2>4, <2>5, <2>6 DEF NoOvercharge
<1> QED BY <1>4, <1>5, <1>6, <1>7, <1>8 DEF TokInv

LEMMA SummarizeKeeps ==
  ASSUME TokInv, NEW c \in Call, SummarizeUsage(c)
  PROVE  TokInv'
<1> DEFINE n == Effective(RunOf[c]) + Own(c)
           q == [meter[c] EXCEPT !.at = "charge", !.consumed = n]
<1>1. n \in Nat /\ n <= Spent(RunOf[c])
  BY ChargeBound DEF SummarizeUsage
<1>2. /\ meter \in [Call -> [at : MeterSteps, limit : Nat, consumed : Nat]]
      /\ meter' = [meter EXCEPT ![c] = q] /\ meter[c].at = "limit"
      /\ UNCHANGED <<budget, usage, notices, updates, overview, told, granted>>
  BY DEF TokInv, TokTyped, SummarizeUsage
<1> HIDE DEF n
<1>3. /\ q \in [at : MeterSteps, limit : Nat, consumed : Nat]
      /\ q.at = "charge" /\ q.consumed = n
  BY <1>1, <1>2 DEF MeterSteps
<1> HIDE DEF q
<1>4. /\ meter' \in [Call -> [at : MeterSteps, limit : Nat, consumed : Nat]]
      /\ \A d \in Call \ {c} : meter'[d] = meter[d]
      /\ meter'[c].at = "charge" /\ meter'[c].consumed = n
  BY <1>2, <1>3
<1>5. /\ IsFiniteSet(OwnTokens(Begun(AllRuns)))'
      /\ \A s : Spent(s)' = Spent(s) /\ Spent(s) \in Nat
  BY <1>2, <1>4, SameFinite
<1>6. TokTyped'
  BY <1>2, <1>4 DEF TokInv, TokTyped
<1>7. UsageSound'
  <2>1. \A i \in DOMAIN usage : usage[i] \in Call
    BY DEF TokInv, TokTyped
  <2>2. \A i \in DOMAIN usage : meter'[usage[i]].at \in {"notice", "done"}
    BY <1>2, <1>4, <2>1 DEF TokInv, UsageSound
  <2> QED BY <1>2, <2>2 DEF TokInv, UsageSound
<1>8. MeterSound'
  <2>1. ASSUME NEW d \in Call
        PROVE  /\ meter'[d].at \in {"charge", "record", "notice"} => meter'[d].consumed <= Spent(RunOf[d])'
               /\ meter'[d].at \in {"record", "notice"} => meter'[d].limit \in granted'[RunOf[d]]
    <3>1. CASE d = c
      BY <1>1, <1>4, <1>5, <3>1
    <3>2. CASE d # c
      BY <1>2, <1>4, <1>5, <3>2 DEF TokInv, MeterSound
    <3> QED BY <3>1, <3>2
  <2> QED BY <2>1 DEF MeterSound
<1>9. NoOvercharge'
  BY <1>2, <1>5 DEF TokInv, NoOvercharge
<1> QED BY <1>5, <1>6, <1>7, <1>8, <1>9 DEF TokInv

LEMMA ChargeKeeps ==
  ASSUME TokInv, NEW c \in Call, ChargeBudget(c)
  PROVE  TokInv'
<1> DEFINE s == RunOf[c]
           b == Budgeted(meter[c].limit, meter[c].consumed)
<1>1. /\ s \in Metering /\ meter[c].limit \in Nat /\ meter[c].consumed \in Nat
      /\ meter[c].at = "charge" /\ meter[c].consumed <= Spent(s)
  BY DEF ChargeBudget, TokInv, TokTyped, MeterSound, Metering
<1>2. /\ b \in [limit : Nat, consumed : Nat, level : Levels \cup {"UNSET"}]
      /\ b.consumed = meter[c].consumed
  BY <1>1, LevelsOfLimits, ZenonT(60)
<1>3. /\ budget' = [budget EXCEPT ![s] = b]
      /\ granted' = [granted EXCEPT ![s] = granted[s] \cup {meter[c].limit}]
      /\ Advance(c, "record") /\ UNCHANGED <<usage, notices, updates, overview, told>>
  BY DEF ChargeBudget
<1> HIDE DEF b, s
<1>4. /\ meter' \in [Call -> [at : MeterSteps, limit : Nat, consumed : Nat]]
      /\ \A d \in Call \ {c} : meter'[d] = meter[d]
      /\ meter'[c].at = "record" /\ meter'[c].limit = meter[c].limit
      /\ meter'[c].consumed = meter[c].consumed
  BY <1>3, AdvanceParts DEF MeterSteps
<1>5. /\ IsFiniteSet(OwnTokens(Begun(AllRuns)))'
      /\ \A x : Spent(x)' = Spent(x) /\ Spent(x) \in Nat
  BY <1>1, <1>4, SameFinite
<1>6. TokTyped'
  BY <1>1, <1>2, <1>3, <1>4 DEF TokInv, TokTyped
<1>7. UsageSound'
  <2>1. \A i \in DOMAIN usage : usage[i] \in Call
    BY DEF TokInv, TokTyped
  <2>2. \A i \in DOMAIN usage : meter'[usage[i]].at \in {"notice", "done"}
    BY <1>1, <1>4, <2>1 DEF TokInv, UsageSound
  <2> QED BY <1>3, <2>2 DEF TokInv, UsageSound
<1>8. \A x \in Metering : granted[x] \subseteq granted'[x]
  BY <1>1, <1>3 DEF TokInv, TokTyped
<1>9. MeterSound'
  <2>1. ASSUME NEW d \in Call
        PROVE  /\ meter'[d].at \in {"charge", "record", "notice"} => meter'[d].consumed <= Spent(RunOf[d])'
               /\ meter'[d].at \in {"record", "notice"} => meter'[d].limit \in granted'[RunOf[d]]
    <3>1. CASE d = c
      BY <1>1, <1>3, <1>4, <1>5, <3>1 DEF s, TokInv, TokTyped
    <3>2. CASE d # c
      <4>1. RunOf[d] \in Metering
        BY DEF Metering
      <4> QED BY <1>4, <1>5, <1>8, <3>2, <4>1 DEF TokInv, MeterSound
    <3> QED BY <3>1, <3>2
  <2> QED BY <2>1 DEF MeterSound
<1>10. NoOvercharge'
  <2>1. \A x \in Metering : budget'[x].consumed <= Spent(x)'
    BY <1>1, <1>2, <1>3, <1>5 DEF TokInv, TokTyped, NoOvercharge
  <2>2. (told.total <= Spent(told.run))'
    BY <1>3, <1>5 DEF TokInv, NoOvercharge
  <2>3. \A n \in notices : n.level = "EXHAUSTED" => \E l \in granted'[n.run] : l <= Spent(n.run)'
    <3>1. \A n \in notices : n.run \in Metering
      BY DEF TokInv, TokTyped, Metering
    <3>2. \A n \in notices : n.level = "EXHAUSTED" => \E l \in granted[n.run] : l <= Spent(n.run)
      BY DEF TokInv, NoOvercharge
    <3>3. \A n \in notices : granted[n.run] \subseteq granted'[n.run] /\ Spent(n.run)' = Spent(n.run)
      BY <1>5, <1>8, <3>1
    <3> QED BY <3>2, <3>3
  <2> QED BY <1>3, <2>1, <2>2, <2>3 DEF NoOvercharge
<1> QED BY <1>5, <1>6, <1>7, <1>9, <1>10 DEF TokInv

LEMMA SaveKeeps ==
  ASSUME TokInv, NEW c \in Call, SaveUsage(c)
  PROVE  TokInv'
<1>1. /\ meter[c].at = "record" /\ usage' = Append(usage, c) /\ Advance(c, "notice")
      /\ UNCHANGED <<budget, notices, updates, overview, told, granted>>
  BY DEF SaveUsage, StoreRecord
<1>2. /\ meter' \in [Call -> [at : MeterSteps, limit : Nat, consumed : Nat]]
      /\ \A d \in Call \ {c} : meter'[d] = meter[d]
      /\ meter'[c].at = "notice" /\ meter'[c].limit = meter[c].limit
      /\ meter'[c].consumed = meter[c].consumed
  BY <1>1, AdvanceParts DEF MeterSteps
<1>3. /\ IsFiniteSet(OwnTokens(Begun(AllRuns)))'
      /\ \A x : Spent(x)' = Spent(x) /\ Spent(x) \in Nat
  BY <1>1, <1>2, SameFinite
<1>4. usage \in Seq(Call) /\ Len(usage) \in Nat
  BY DEF TokInv, TokTyped
<1>5. /\ usage' \in Seq(Call) /\ DOMAIN usage' = 1 .. (Len(usage) + 1)
      /\ \A i \in 1 .. Len(usage) : usage'[i] = usage[i] /\ i \in DOMAIN usage
      /\ usage'[Len(usage) + 1] = c
  BY <1>1, <1>4
<1>6. TokTyped'
  BY <1>1, <1>2, <1>5 DEF TokInv, TokTyped
<1>7. \A i \in 1 .. Len(usage) : /\ usage[i] \in Call /\ usage[i] # c
                                 /\ meter[usage[i]].at \in {"notice", "done"}
  <2>1. \A i \in DOMAIN usage : meter[usage[i]].at \in {"notice", "done"}
    BY DEF TokInv, UsageSound
  <2> QED BY <1>1, <1>4, <2>1
<1>8. \A i, j \in 1 .. Len(usage) : usage[i] = usage[j] => i = j
  BY <1>4 DEF TokInv, UsageSound
<1>9. UsageSound'
  <2>1. \A i \in DOMAIN usage' : meter'[usage'[i]].at \in {"notice", "done"}
    <3> TAKE i \in DOMAIN usage'
    <3>1. i \in 1 .. Len(usage) \/ i = Len(usage) + 1
      BY <1>4, <1>5
    <3> QED BY <1>2, <1>5, <1>7, <3>1, ZenonT(60)
  <2>2. \A i, j \in DOMAIN usage' : usage'[i] = usage'[j] => i = j
    <3> TAKE i, j \in DOMAIN usage'
    <3>1. (i \in 1 .. Len(usage) \/ i = Len(usage) + 1) /\ (j \in 1 .. Len(usage) \/ j = Len(usage) + 1)
      BY <1>4, <1>5
    <3> QED BY <1>5, <1>7, <1>8, <3>1
  <2> QED BY <2>1, <2>2 DEF UsageSound
<1>10. MeterSound'
  <2>1. ASSUME NEW d \in Call
        PROVE  /\ meter'[d].at \in {"charge", "record", "notice"} => meter'[d].consumed <= Spent(RunOf[d])'
               /\ meter'[d].at \in {"record", "notice"} => meter'[d].limit \in granted'[RunOf[d]]
    <3>1. CASE d = c
      BY <1>1, <1>2, <1>3, <3>1 DEF TokInv, MeterSound
    <3>2. CASE d # c
      BY <1>1, <1>2, <1>3, <3>2 DEF TokInv, MeterSound
    <3> QED BY <3>1, <3>2
  <2> QED BY <2>1 DEF MeterSound
<1>11. NoOvercharge'
  BY <1>1, <1>3 DEF TokInv, NoOvercharge
<1> QED BY <1>3, <1>6, <1>9, <1>10, <1>11 DEF TokInv

\* A worker that ends, with or without a warning.
LEMMA EndKeeps ==
  ASSUME TokInv, NEW c \in Call, WarnOfLimit(c) \/ AbandonUsage(c)
  PROVE  TokInv'
<1>1. /\ meter[c].at # "none" /\ Advance(c, "done")
      /\ UNCHANGED <<budget, usage, updates, overview, told, granted>>
  BY DEF WarnOfLimit, AbandonUsage
<1>2. /\ meter' \in [Call -> [at : MeterSteps, limit : Nat, consumed : Nat]]
      /\ \A d \in Call \ {c} : meter'[d] = meter[d]
      /\ meter'[c].at = "done"
  BY <1>1, AdvanceParts DEF MeterSteps
<1>3. /\ IsFiniteSet(OwnTokens(Begun(AllRuns)))'
      /\ \A x : Spent(x)' = Spent(x) /\ Spent(x) \in Nat
  BY <1>1, <1>2, SameFinite
<1>4. \A n \in notices' :
        /\ n \in [run : Metered, level : Levels]
        /\ n.level = "EXHAUSTED" => \E l \in granted[n.run] : l <= Spent(n.run)
  <2>1. \A n \in notices :
          /\ n \in [run : Metered, level : Levels]
          /\ n.level = "EXHAUSTED" => \E l \in granted[n.run] : l <= Spent(n.run)
    BY DEF TokInv, TokTyped, NoOvercharge
  <2>2. CASE AbandonUsage(c)
    BY <2>1, <2>2 DEF AbandonUsage
  <2>3. CASE WarnOfLimit(c)
    <3> DEFINE level == Warning(meter[c].limit, meter[c].consumed)
               n == [run |-> RunOf[c], level |-> level]
    <3>1. meter[c].at = "notice" /\ (notices' = notices \/ notices' = notices \cup {n})
      BY <2>3 DEF WarnOfLimit
    <3>2. /\ meter[c].limit \in Nat /\ meter[c].consumed \in Nat
          /\ meter[c].consumed <= Spent(RunOf[c]) /\ meter[c].limit \in granted[RunOf[c]]
      BY <3>1 DEF TokInv, TokTyped, MeterSound
    <3>3. level \in Levels /\ (level = "EXHAUSTED" => meter[c].limit <= meter[c].consumed)
      BY <3>2, LevelsOfLimits
    <3> HIDE DEF level
    <3>4. n \in [run : Metered, level : Levels] /\ n.run = RunOf[c] /\ n.level = level
      BY <3>3
    <3>5. n.level = "EXHAUSTED" => \E l \in granted[n.run] : l <= Spent(n.run)
      BY <1>3, <3>2, <3>3, <3>4
    <3> HIDE DEF n
    <3> QED BY <2>1, <3>1, <3>4, <3>5
  <2> QED BY <2>2, <2>3
<1>5. TokTyped'
  BY <1>1, <1>2, <1>4 DEF TokInv, TokTyped
<1>6. UsageSound'
  <2>1. \A i \in DOMAIN usage : usage[i] \in Call
    BY DEF TokInv, TokTyped
  <2>2. \A i \in DOMAIN usage : meter'[usage[i]].at \in {"notice", "done"}
    BY <1>1, <1>2, <2>1 DEF TokInv, UsageSound
  <2> QED BY <1>1, <2>2 DEF TokInv, UsageSound
<1>7. MeterSound'
  <2>1. ASSUME NEW d \in Call
        PROVE  /\ meter'[d].at \in {"charge", "record", "notice"} => meter'[d].consumed <= Spent(RunOf[d])'
               /\ meter'[d].at \in {"record", "notice"} => meter'[d].limit \in granted'[RunOf[d]]
    <3>1. CASE d = c
      BY <1>2, <3>1
    <3>2. CASE d # c
      BY <1>1, <1>2, <1>3, <3>2 DEF TokInv, MeterSound
    <3> QED BY <3>1, <3>2
  <2> QED BY <2>1 DEF MeterSound
<1>8. NoOvercharge'
  <2>1. (\A s \in Metering : budget[s].consumed <= Spent(s))' /\ (told.total <= Spent(told.run))'
    BY <1>1, <1>3 DEF TokInv, NoOvercharge
  <2>2. \A n \in notices' : n.level = "EXHAUSTED" => \E l \in granted'[n.run] : l <= Spent(n.run)'
    BY <1>1, <1>3, <1>4
  <2> QED BY <2>1, <2>2 DEF NoOvercharge
<1> QED BY <1>3, <1>5, <1>6, <1>7, <1>8 DEF TokInv

\* What the analyst does leaves the workers where they are.
LEMMA AnalystKeeps ==
  ASSUME TokInv, NEW s \in Metering,
         (\E l \in Limit : UpdateBudget(s, l)) \/ ReadOverview(s) \/ TellOverview
  PROVE  TokInv'
<1>1. UNCHANGED <<usage, notices, meter>>
  BY DEF UpdateBudget, ReadOverview, TellOverview
<1>2. /\ IsFiniteSet(OwnTokens(Begun(AllRuns)))'
      /\ \A x : Spent(x)' = Spent(x) /\ Spent(x) \in Nat
  BY <1>1, SameFinite
<1>3. UsageSound'
  BY <1>1 DEF TokInv, UsageSound
<1>4. CASE \E l \in Limit : UpdateBudget(s, l)
  <2>1. PICK l \in Limit : UpdateBudget(s, l)
    BY <1>4
  <2> DEFINE b == Budgeted(l, 0)
  <2>2. /\ updates < MaxUpdates /\ updates' = updates + 1 /\ budget' = [budget EXCEPT ![s] = b]
        /\ granted' = [granted EXCEPT ![s] = granted[s] \cup {l}] /\ UNCHANGED <<overview, told>>
    BY <2>1 DEF UpdateBudget
  <2>3. b \in [limit : Nat, consumed : Nat, level : Levels \cup {"UNSET"}] /\ b.consumed = 0 /\ l \in Nat
    BY LevelsOfLimits
  <2> HIDE DEF b
  <2>4. \A x \in Metering : granted[x] \subseteq granted'[x]
    BY <2>2 DEF TokInv, TokTyped
  <2>5. TokTyped'
    <3>1. updates' \in 0 .. MaxUpdates
      BY <2>2 DEF TokInv, TokTyped
    <3> QED BY <1>1, <2>2, <2>3, <3>1 DEF TokInv, TokTyped
  <2>6. MeterSound'
    <3>1. \A d \in Call : RunOf[d] \in Metering
      BY DEF Metering
    <3> QED BY <1>1, <1>2, <2>4, <3>1 DEF TokInv, MeterSound
  <2>7. NoOvercharge'
    <3>1. (told.total <= Spent(told.run))'
      BY <1>2, <2>2 DEF TokInv, NoOvercharge
    <3>2. \A x \in Metering : budget'[x].consumed <= Spent(x)'
      BY <1>2, <2>2, <2>3 DEF TokInv, TokTyped, NoOvercharge
    <3>3. \A n \in notices : n.level = "EXHAUSTED" => \E m \in granted'[n.run] : m <= Spent(n.run)'
      <4>1. \A n \in notices : n.run \in Metering
        BY DEF TokInv, TokTyped, Metering
      <4>2. \A n \in notices : n.level = "EXHAUSTED" => \E m \in granted[n.run] : m <= Spent(n.run)
        BY DEF TokInv, NoOvercharge
      <4>3. \A n \in notices : granted[n.run] \subseteq granted'[n.run] /\ Spent(n.run)' = Spent(n.run)
        BY <1>2, <2>4, <4>1
      <4> QED BY <4>2, <4>3
    <3> QED BY <1>1, <3>1, <3>2, <3>3 DEF NoOvercharge
  <2> QED BY <1>2, <1>3, <2>5, <2>6, <2>7 DEF TokInv
<1>5. CASE ReadOverview(s)
  <2>1. UNCHANGED <<budget, updates, told, granted>>
    BY <1>5 DEF ReadOverview
  <2>2. overview' \in [run : Metering \cup {NoRun}, limit : Nat]
    BY <1>5 DEF ReadOverview, TokInv, TokTyped
  <2>3. TokTyped'
    BY <1>1, <2>1, <2>2 DEF TokInv, TokTyped
  <2>4. MeterSound' /\ NoOvercharge'
    BY <1>1, <1>2, <2>1 DEF TokInv, MeterSound, NoOvercharge
  <2> QED BY <1>2, <1>3, <2>3, <2>4 DEF TokInv
<1>6. CASE TellOverview
  <2> DEFINE r == overview.run
             total == Effective(r)
  <2>1. /\ r # NoRun /\ overview' = [run |-> NoRun, limit |-> 0]
        /\ told' = [run |-> r, total |-> total, level |-> Level(overview.limit, total)]
        /\ UNCHANGED <<budget, updates, granted>>
    BY <1>6 DEF TellOverview
  <2>2. r \in Metering /\ overview.limit \in Nat
    BY <2>1 DEF TokInv, TokTyped
  <2>3. total \in Nat /\ total <= Spent(r)
    BY SummaryBound
  <2>4. Level(overview.limit, total) \in Levels
    BY <2>2, <2>3, LevelsOfLimits
  <2> HIDE DEF total, r
  <2>5. told' \in [run : Metering, total : Nat, level : Levels]
        /\ told'.run = r /\ told'.total = total
        /\ overview' \in [run : Metering \cup {NoRun}, limit : Nat]
    BY <2>1, <2>2, <2>3, <2>4
  <2>6. TokTyped'
    BY <1>1, <2>1, <2>5 DEF TokInv, TokTyped
  <2>7. NoOvercharge'
    <3>1. \A x : Spent(x)' = Spent(x)
      BY <1>2
    <3>2. (told.total <= Spent(told.run))'
      BY <2>3, <2>5, <3>1
    <3> QED BY <1>1, <1>2, <2>1, <3>2 DEF TokInv, NoOvercharge
  <2>8. MeterSound'
    BY <1>1, <1>2, <2>1 DEF TokInv, MeterSound
  <2> QED BY <1>2, <1>3, <2>6, <2>7, <2>8 DEF TokInv
<1> QED BY <1>4, <1>5, <1>6

\* However many workers, calls, runs and budgets there are, nothing charges or
\* tells more than was spent, and only a spent limit is announced as exhausted.
THEOREM NothingIsOvercharged == TokSpec => [](TokTypeOK /\ NoOvercharge)
<1>1. TokInit => TokInv
  BY TokInitially
<1>2. TokInv /\ [TokNext]_tokVars => TokInv'
  <2> SUFFICES ASSUME TokInv, [TokNext]_tokVars PROVE TokInv'
    OBVIOUS
  <2>1. CASE UNCHANGED tokVars
    <3>1. UNCHANGED <<budget, usage, notices, meter, updates, overview, told, granted>>
      BY <2>1 DEF tokVars
    <3>2. /\ IsFiniteSet(OwnTokens(Begun(AllRuns)))'
          /\ \A x : Spent(x)' = Spent(x) /\ Spent(x) \in Nat
      BY <3>1, SameFinite
    <3>3. TokTyped' /\ UsageSound' /\ MeterSound' /\ NoOvercharge'
      BY <3>1, <3>2 DEF TokInv, TokTyped, UsageSound, MeterSound, NoOvercharge
    <3> QED BY <3>2, <3>3 DEF TokInv
  <2>2. ASSUME NEW c \in Call,
               \/ ReadLimit(c) \/ SummarizeUsage(c) \/ ChargeBudget(c) \/ SaveUsage(c)
               \/ WarnOfLimit(c) \/ AbandonUsage(c)
        PROVE  TokInv'
    BY <2>2, ReadLimitKeeps, SummarizeKeeps, ChargeKeeps, SaveKeeps, EndKeeps
  <2>3. ASSUME NEW s \in Metering, (\E l \in Limit : UpdateBudget(s, l)) \/ ReadOverview(s)
        PROVE  TokInv'
    BY <2>3, AnalystKeeps
  <2>4. CASE TellOverview
    <3>1. AllRuns \in Metering
      BY DEF Metering
    <3> QED BY <2>4, <3>1, AnalystKeeps
  <2> QED BY <2>1, <2>2, <2>3, <2>4 DEF TokNext
<1>3. TokInv => TokTypeOK /\ NoOvercharge
  BY DEF TokInv, TokTyped, UsageSound, TokTypeOK, IsInjective
<1> QED BY <1>1, <1>2, <1>3, PTL DEF TokSpec
=============================================================================
