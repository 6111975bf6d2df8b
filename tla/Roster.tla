------------------------------- MODULE Roster -------------------------------
(***************************************************************************)
(* The agents as the analyst sees and steers them: their rows, read and    *)
(* seeded by the handlers of api/routers/agents.py, the preferences of a   *)
(* project, the change of a model (scheduler/agent_switcher.py), and the   *)
(* choice of an agent for a task (orchestrator.py).                        *)
(*                                                                         *)
(* Listings and reads run on threads; enabling and disabling on the event  *)
(* loop, beside them; the command line is a process of its own, which      *)
(* saves the agents it finds over the rows.  A handler's transactions are  *)
(* its steps.                                                              *)
(***************************************************************************)
EXTENDS Integers, FiniteSets

CONSTANTS
  Rostered,      \* agents of agents.yaml
  Policed,       \* those the execution policy excludes: claude
  Bound,         \* Bound[a]: models a may use
  FirstModel,    \* FirstModel[a]: its default
  Viewer,        \* requests that read agents
  MaxActs,       \* bound: toggles, preferences, changes of a model, and saves
  Resolved,      \* "runtime-resolved", for a model not chosen
  NoAgent, NoModel

Models == UNION {Bound[a] : a \in Rostered}

ASSUME RosterAssumption ==
  /\ Policed \subseteq Rostered /\ NoAgent \notin Rostered
  /\ FirstModel \in [Rostered -> Models] /\ \A a \in Rostered : FirstModel[a] \in Bound[a]
  /\ {Resolved, NoModel} \cap Models = {}
  /\ MaxActs \in Nat

VARIABLES
  rows,        \* agents: whether there is a row, whether it is enabled, its model
  preference,  \* project_agent_preferences of the project
  viewer,      \* place of a listing or read
  toggle,      \* enable_agent or disable_agent in progress
  change,      \* switch_model in progress
  switches,    \* model_switches: agent and new model
  dispatch,    \* the dispatcher between looking for an agent and giving a task
  given,       \* the task given last: to whom, and who was ruled out
  acts,        \* toggles, preferences, changes and saves so far
  choice       \* history: the analyst's last word on an agent

rosterVars == <<rows, preference, viewer, toggle, change, switches, dispatch, given,
                acts, choice>>

Unlisted == [exists |-> FALSE, enabled |-> FALSE, model |-> NoModel]
Preferences == {"none", "allowed", "preferred", "forbidden"}
NoToggle == [at |-> "none", agent |-> NoAgent, on |-> FALSE]
NoChange == [at |-> "none", agent |-> NoAgent, model |-> NoModel]
NoDispatch == [at |-> "none", fallback |-> NoAgent, eligible |-> {}, preferred |-> {},
               barred |-> {}]

\* Every variable has its type.
RosterTypeOK ==
  /\ rows \in [Rostered -> [exists : BOOLEAN, enabled : BOOLEAN,
                            model : Models \cup {Resolved, NoModel}]]
  /\ preference \in [Rostered -> Preferences]
  /\ viewer \in [Viewer -> {"none", "seed", "done"}]
  /\ toggle \in [at : {"none", "seed", "update"}, agent : Rostered \cup {NoAgent}, on : BOOLEAN]
  /\ change \in [at : {"none", "update", "record"}, agent : Rostered \cup {NoAgent},
                 model : Models \cup {NoModel}]
  /\ switches \subseteq [agent : Rostered, model : Models]
  /\ dispatch \in [at : {"none", "run", "task"}, fallback : Rostered \cup {NoAgent},
                   eligible : SUBSET Rostered, preferred : SUBSET Rostered,
                   barred : SUBSET Rostered]
  /\ given \in [agent : Rostered \cup {NoAgent}, barred : SUBSET Rostered]
  /\ acts \in 0..MaxActs
  /\ choice \in [Rostered -> {"none", "on", "off"}]

RosterInit ==
  /\ rows = [a \in Rostered |-> Unlisted]
  /\ preference = [a \in Rostered |-> "none"]
  /\ viewer = [v \in Viewer |-> "none"]
  /\ toggle = NoToggle /\ change = NoChange /\ switches = {}
  /\ dispatch = NoDispatch /\ given = [agent |-> NoAgent, barred |-> {}]
  /\ acts = 0
  /\ choice = [a \in Rostered |-> "none"]

-----------------------------------------------------------------------------
(* Rows.                                                                   *)

Empty == \A a \in Rostered : ~rows[a].exists
Configured(a) == [exists |-> TRUE, enabled |-> TRUE, model |-> FirstModel[a]]

\* Mutant: INSERT OR REPLACE.
SeededOver == [a \in Rostered |-> Configured(a)]

\* INSERT OR IGNORE of every agent of the configuration, claude enabled too.
Seeded == [a \in Rostered |-> IF rows[a].exists THEN rows[a] ELSE Configured(a)]

\* list_agents counts, and get_agent looks for one row.
StartViewing(v) ==
  /\ viewer[v] = "none"
  /\ \E here \in {Empty} \cup {~rows[a].exists : a \in Rostered} :
       viewer' = [viewer EXCEPT ![v] = IF here THEN "seed" ELSE "done"]
  /\ UNCHANGED <<rows, preference, toggle, change, switches, dispatch, given, acts, choice>>

SeedForViewer(v) ==
  /\ viewer[v] = "seed"
  /\ rows' = Seeded
  /\ viewer' = [viewer EXCEPT ![v] = "done"]
  /\ UNCHANGED <<preference, toggle, change, switches, dispatch, given, acts, choice>>

\* enable_agent refuses claude; both make sure of the row first.
RequestToggle(a, on) ==
  /\ toggle.at = "none" /\ acts < MaxActs
  /\ on => a \notin Policed
  /\ toggle' = [at |-> IF rows[a].exists THEN "update" ELSE "seed", agent |-> a, on |-> on]
  /\ acts' = acts + 1
  /\ UNCHANGED <<rows, preference, viewer, change, switches, dispatch, given, choice>>

SeedForToggle ==
  /\ toggle.at = "seed"
  /\ rows' = Seeded
  /\ toggle' = [toggle EXCEPT !.at = "update"]
  /\ UNCHANGED <<preference, viewer, change, switches, dispatch, given, acts, choice>>

UpdateEnabled ==
  /\ toggle.at = "update"
  /\ rows' = [rows EXCEPT ![toggle.agent].enabled = toggle.on]
  /\ choice' = [choice EXCEPT ![toggle.agent] = IF toggle.on THEN "on" ELSE "off"]
  /\ toggle' = NoToggle
  /\ UNCHANGED <<preference, viewer, change, switches, dispatch, given, acts>>

\* AgentRepository.save writes the row anew, without the columns of later
\* releases: enabled becomes its default, and what the analyst chose is gone.
SaveAgent(a) ==
  /\ acts < MaxActs
  /\ rows' = [rows EXCEPT ![a] = [exists |-> TRUE, enabled |-> TRUE, model |-> Resolved]]
  /\ choice' = [choice EXCEPT ![a] = "none"]
  /\ acts' = acts + 1
  /\ UNCHANGED <<preference, viewer, toggle, change, switches, dispatch, given>>

SavePreference(a, x) ==
  /\ acts < MaxActs
  /\ preference' = [preference EXCEPT ![a] = x]
  /\ acts' = acts + 1
  /\ UNCHANGED <<rows, viewer, toggle, change, switches, dispatch, given, choice>>

-----------------------------------------------------------------------------
(* switch_model: the registry is new with every request, so that only the  *)
(* configuration is looked at, not the row.                                *)

RequestModel(a, m) ==
  /\ change.at = "none" /\ acts < MaxActs
  /\ a \notin Policed /\ m \in Bound[a]
  /\ change' = [at |-> "update", agent |-> a, model |-> m]
  /\ acts' = acts + 1
  /\ UNCHANGED <<rows, preference, viewer, toggle, switches, dispatch, given, choice>>

\* An UPDATE, which finds no row before the first listing; an exception is passed over.
UpdateModel ==
  /\ change.at = "update"
  /\ rows' \in {rows, IF rows[change.agent].exists
                      THEN [rows EXCEPT ![change.agent].model = change.model] ELSE rows}
  /\ change' = [change EXCEPT !.at = "record"]
  /\ UNCHANGED <<preference, viewer, toggle, switches, dispatch, given, acts, choice>>

RecordModel ==
  /\ change.at = "record"
  /\ switches' = switches \cup {[agent |-> change.agent, model |-> change.model]}
  /\ change' = NoChange
  /\ UNCHANGED <<rows, preference, viewer, toggle, dispatch, given, acts, choice>>

-----------------------------------------------------------------------------
(* The dispatcher.                                                         *)

Permitted(a) == a \notin Policed /\ preference[a] # "forbidden"

\* get_active_agents: no rows, and the registry decides, preferences or not.
ActiveAgents == IF Empty THEN Rostered \ Policed
                ELSE {a \in Rostered : rows[a].exists /\ rows[a].enabled /\ Permitted(a)}

\* Of each task anew: no rows, and the agents written into the code are enabled.
EligibleAgents == {a \in Rostered : (Empty \/ (rows[a].exists /\ rows[a].enabled)) /\ Permitted(a)}

\* Whom the analyst has ruled out.
Barred == {a \in Rostered : a \in Policed \/ choice[a] = "off" \/ preference[a] = "forbidden"}

StartDispatch ==
  /\ dispatch.at = "none"
  /\ \E a \in ActiveAgents :
       dispatch' = [NoDispatch EXCEPT !.at = "run", !.fallback = a]
  /\ UNCHANGED <<rows, preference, viewer, toggle, change, switches, given, acts, choice>>

LookForAgent ==
  /\ dispatch.at = "run"
  /\ dispatch' = [dispatch EXCEPT !.at = "task", !.eligible = EligibleAgents, !.barred = Barred,
                    !.preferred = {a \in EligibleAgents : preference[a] = "preferred"}]
  /\ given' = [agent |-> NoAgent, barred |-> {}]
  /\ UNCHANGED <<rows, preference, viewer, toggle, change, switches, acts, choice>>

\* The agent the task has, unless it is claude, or else the run's; if that is
\* not eligible, a preferred one, or else any.
GiveTask(assigned) ==
  LET wanted == IF assigned \in Policed \cup {NoAgent} THEN dispatch.fallback ELSE assigned
  IN  /\ dispatch.at = "task"
      /\ \E a \in CASE wanted \in dispatch.eligible -> {wanted}
                    [] wanted \notin dispatch.eligible /\ dispatch.preferred # {} -> dispatch.preferred
                    [] OTHER -> dispatch.eligible :
           given' = [agent |-> a, barred |-> dispatch.barred]
      /\ dispatch' = [dispatch EXCEPT !.at = "run"]
      /\ UNCHANGED <<rows, preference, viewer, toggle, change, switches, acts, choice>>

\* WAITING_FOR_AGENT, and the dispatcher ends.
WaitForAgent ==
  /\ dispatch.at = "task" /\ dispatch.eligible = {}
  /\ dispatch' = NoDispatch
  /\ UNCHANGED <<rows, preference, viewer, toggle, change, switches, given, acts, choice>>

EndDispatch ==
  /\ dispatch.at = "run"
  /\ dispatch' = NoDispatch
  /\ UNCHANGED <<rows, preference, viewer, toggle, change, switches, given, acts, choice>>

RosterNext ==
  \/ \E v \in Viewer : StartViewing(v) \/ SeedForViewer(v)
  \/ \E a \in Rostered :
       \/ \E on \in BOOLEAN : RequestToggle(a, on)
       \/ SaveAgent(a)
       \/ \E x \in Preferences \ {"none"} : SavePreference(a, x)
       \/ \E m \in Models : RequestModel(a, m)
  \/ SeedForToggle \/ UpdateEnabled \/ UpdateModel \/ RecordModel
  \/ StartDispatch \/ LookForAgent \/ WaitForAgent \/ EndDispatch
  \/ \E assigned \in Rostered \cup {NoAgent} : GiveTask(assigned)

RosterSpec == RosterInit /\ [][RosterNext]_rosterVars

-----------------------------------------------------------------------------
\* An agent the analyst disabled stays so, and one enabled stays so.
ChoicesStand == \A a \in Rostered : choice[a] # "none" => rows[a].enabled = (choice[a] = "on")

\* Whoever was ruled out when the dispatcher looked gets no task.
ChoicesRouted == given.agent \notin given.barred

\* A model that is not the default came from a switch that is recorded, or about to be.
SwitchesAudited ==
  \A a \in Rostered :
    \/ rows[a].model \in {NoModel, Resolved, FirstModel[a]}
    \/ [agent |-> a, model |-> rows[a].model] \in switches
    \/ change.at = "record" /\ change.agent = a /\ change.model = rows[a].model

\* Until the command line saves an agent over its row: what the analyst chose
\* outlives listings, reads and seeds that began before the choice; the
\* dispatcher follows it; and no model changes without a record.
ChoicesKept == ChoicesStand /\ ChoicesRouted /\ SwitchesAudited
=============================================================================
