------------------------------- MODULE Console -------------------------------
(***************************************************************************)
(* The analyst's console (ui/src/App.jsx, ProjectSwitcher.jsx): which      *)
(* project and which run it shows, while answers of the server come late,  *)
(* out of order or not at all.                                             *)
(*                                                                         *)
(* The browser holds copies only.  It asks for the current run of its      *)
(* project every 15 seconds, after each event of a run, each control, each *)
(* reconnect and each change of project, and takes whatever answer comes   *)
(* in, whenever and of whichever project it is.                            *)
(***************************************************************************)
EXTENDS Integers

CONSTANTS
  ShownProject,  \* projects
  Fetch,         \* requests for the current run that can be on their way at once
  Load,          \* the same for the active project
  MaxTurns,      \* bound: selections, controls, events, ends of runs and lost answers
  Nothing

ASSUME ConsoleAssumption ==
  /\ ShownProject # {} /\ Nothing \notin ShownProject
  /\ MaxTurns \in Nat

VARIABLES
  activeId,    \* the server's active project
  runOf,       \* runOf[p]: state of the run of p; "none" before it starts
  project,     \* activeProject
  currentRun,  \* the run on the screen, as an answer told of it
  fetching,    \* fetchCurrentRun, each call of it
  loading,     \* loadActiveProject, each call of it
  selecting,   \* the project that handleSelect is activating
  controlling, \* the control on its way, then the fetch it waits for
  turns

conVars == <<activeId, runOf, project, currentRun, fetching, loading,
             selecting, controlling, turns>>

\* A project has one run here; a later one makes no other case for the console.
ShownState == {"RUNNING", "PAUSED", "STOPPED"}
ShownRun == [of : ShownProject, state : ShownState]

NotAsked == [at |-> "idle", of |-> Nothing, found |-> Nothing]
Uncontrolled == [op |-> "none", run |-> Nothing, page |-> Nothing, fetch |-> Nothing]

\* Every variable has its type.
ConTypeOK ==
  /\ activeId \in ShownProject
  /\ runOf \in [ShownProject -> ShownState \cup {"none"}]
  /\ project \in ShownProject \cup {Nothing} /\ currentRun \in ShownRun \cup {Nothing}
  /\ fetching \in [Fetch -> [at : {"idle", "asked", "answered", "detail"},
                             of : ShownProject \cup {Nothing},
                             found : ShownRun \cup {Nothing}]]
  /\ loading \in [Load -> {"idle", "asked"} \cup ShownProject]
  /\ selecting \in ShownProject \cup {Nothing}
  /\ controlling \in [op : {"none", "pause", "resume", "stop"},
                      run : ShownRun \cup {Nothing},
                      page : ShownProject \cup {Nothing}, fetch : Fetch \cup {Nothing}]
  /\ turns \in 0..MaxTurns

\* On mounting, the project and the current run are asked for.
ConInit ==
  /\ activeId = CHOOSE p \in ShownProject : TRUE
  /\ runOf = [p \in ShownProject |-> "none"]
  /\ project = Nothing /\ currentRun = Nothing
  /\ fetching = [[s \in Fetch |-> NotAsked] EXCEPT ![CHOOSE s \in Fetch : TRUE].at = "asked"]
  /\ loading = [[l \in Load |-> "idle"] EXCEPT ![CHOOSE l \in Load : TRUE] = "asked"]
  /\ selecting = Nothing /\ controlling = Uncontrolled
  /\ turns = 0

server == <<activeId, runOf>>
Turn == turns < MaxTurns /\ turns' = turns + 1

\* GET /runs/current, of a project or of the active one.
CurrentOf(p) ==
  LET x == IF p = Nothing THEN activeId ELSE p IN
  IF runOf[x] = "none" THEN Nothing ELSE [of |-> x, state |-> runOf[x]]

StartRunOf(p) ==
  /\ runOf[p] = "none"
  /\ runOf' = [runOf EXCEPT ![p] = "RUNNING"]
  /\ UNCHANGED <<activeId, project, currentRun, fetching, loading, selecting, controlling,
                 turns>>

\* A run that ends by itself, shown like one that is stopped.
EndRunOf(p) ==
  /\ runOf[p] = "RUNNING" /\ Turn
  /\ runOf' = [runOf EXCEPT ![p] = "STOPPED"]
  /\ UNCHANGED <<activeId, project, currentRun, fetching, loading, selecting, controlling>>

-----------------------------------------------------------------------------
(* The current run.                                                        *)

\* Which of the places that are free a request takes makes no difference.
FreeFetch == {s \in Fetch : fetching[s].at = "idle"}
FreeLoad == {l \in Load : loading[l] = "idle"}

Asked(s, p) == [fetching EXCEPT ![s] = [at |-> "asked", of |-> p, found |-> Nothing]]

\* Mutant: what is shown already is asked for again, of its own project.
FetchShown(p) ==
  /\ FreeFetch # {}
  /\ fetching' = Asked(CHOOSE s \in FreeFetch : TRUE,
                       IF currentRun = Nothing THEN p ELSE currentRun.of)

\* fetchCurrentRun for the project p; the requests on their way are bounded.
FetchCurrentRun(p) == FreeFetch # {} /\ fetching' = Asked(CHOOSE s \in FreeFetch : TRUE, p)

\* The interval of 15 seconds.
Poll ==
  /\ FetchCurrentRun(project)
  /\ UNCHANGED <<server, project, currentRun, loading, selecting, controlling, turns>>

AnswerFetch(s) ==
  /\ fetching[s].at = "asked"
  /\ fetching' = [fetching EXCEPT ![s].at = "answered", ![s].found = CurrentOf(fetching[s].of)]
  /\ UNCHANGED <<server, project, currentRun, loading, selecting, controlling, turns>>

\* refreshSignal: the active project is asked for again.
Refreshed ==
  FreeLoad # {} /\ loading' = [loading EXCEPT ![CHOOSE l \in FreeLoad : TRUE] = "asked"]

\* This call of fetchCurrentRun is over, and with it the control that waits for it.
EndFetch(s) ==
  /\ fetching' = [fetching EXCEPT ![s] = NotAsked]
  /\ IF controlling.fetch = s
     THEN controlling' = Uncontrolled /\ Refreshed
     ELSE UNCHANGED <<controlling, loading>>

\* Whatever the answer, and whichever project it is of, it is shown; the counts
\* of a run are then asked for.
ShowRun(s) ==
  /\ fetching[s].at = "answered"
  /\ currentRun' = fetching[s].found
  /\ IF fetching[s].found = Nothing
     THEN EndFetch(s)
     ELSE /\ fetching' = [fetching EXCEPT ![s] = [NotAsked EXCEPT !.at = "detail"]]
          /\ UNCHANGED <<controlling, loading>>
  /\ UNCHANGED <<server, project, selecting, turns>>

ShowDetail(s) ==
  /\ fetching[s].at = "detail" /\ EndFetch(s)
  /\ UNCHANGED <<server, project, currentRun, selecting, turns>>

\* A request that fails, for the run or for its counts, shows that there is no run.
FailFetch(s) ==
  /\ fetching[s].at # "idle" /\ Turn /\ EndFetch(s)
  /\ currentRun' = Nothing
  /\ UNCHANGED <<server, project, selecting>>

-----------------------------------------------------------------------------
(* The project.                                                            *)

AnswerLoad(s) ==
  /\ loading[s] = "asked"
  /\ loading' = [loading EXCEPT ![s] = activeId]
  /\ UNCHANGED <<server, project, currentRun, fetching, selecting, controlling, turns>>

\* Another project makes another fetchCurrentRun, which its effect calls.
ShowAs(p) ==
  /\ project' = p
  /\ IF p = project THEN UNCHANGED fetching ELSE FetchCurrentRun(p)

ShowProject(s) ==
  /\ loading[s] \in ShownProject
  /\ ShowAs(loading[s])
  /\ loading' = [loading EXCEPT ![s] = "idle"]
  /\ UNCHANGED <<server, currentRun, selecting, controlling, turns>>

FailLoad(s) ==
  /\ loading[s] # "idle" /\ Turn
  /\ loading' = [loading EXCEPT ![s] = "idle"]
  /\ UNCHANGED <<server, project, currentRun, fetching, selecting, controlling>>

SelectShown(p) ==
  /\ selecting = Nothing /\ Turn
  /\ selecting' = p
  /\ UNCHANGED <<server, project, currentRun, fetching, loading, controlling>>

\* The activation, whose failure is swallowed; the project is shown in either case.
ActivateShown ==
  /\ selecting # Nothing
  /\ \/ activeId' = selecting /\ UNCHANGED turns
     \/ Turn /\ activeId' \in {activeId, selecting}
  /\ ShowAs(selecting) /\ Refreshed
  /\ selecting' = Nothing
  /\ UNCHANGED <<runOf, currentRun, controlling>>

-----------------------------------------------------------------------------
(* Events and controls.                                                    *)

\* An event of another project is ignored; one of a run, and the reconnect of
\* the socket, fetch the run, the others and the reconnect refresh the page.
HandleEvent(of, kind) ==
  /\ of \in {Nothing, project} \/ project = Nothing
  /\ Turn
  /\ IF kind \in {"run", "reconnect"} THEN FetchCurrentRun(project) ELSE UNCHANGED fetching
  /\ IF kind \in {"page", "reconnect"} THEN Refreshed ELSE UNCHANGED loading
  /\ UNCHANGED <<server, project, currentRun, selecting, controlling>>

\* One control at a time, of the run on the screen.
ClickControl(op) ==
  /\ currentRun # Nothing /\ controlling = Uncontrolled /\ Turn
  /\ controlling' = [op |-> op, run |-> currentRun, page |-> project, fetch |-> Nothing]
  /\ UNCHANGED <<server, project, currentRun, fetching, loading, selecting>>

\* Mutant: the state a control asks for, for the one it reaches.
AfterAccepted == [pause |-> "PAUSE_REQUESTED", resume |-> "RUNNING", stop |-> "STOPPED"]

AfterOp == [pause |-> "PAUSED", resume |-> "RUNNING", stop |-> "STOPPED"]
BeforeOp == [pause |-> {"RUNNING"}, resume |-> {"PAUSED"}, stop |-> {"RUNNING", "PAUSED"}]

\* The server acts on the run it is told, if its state allows it.
Controlled == runOf' = [runOf EXCEPT ![controlling.run.of] = AfterOp[controlling.op]]
Permitted == runOf[controlling.run.of] \in BeforeOp[controlling.op]

\* The console then fetches the run of the project of the click.
AnswerControl ==
  /\ controlling.run # Nothing /\ Permitted /\ Controlled
  /\ FetchCurrentRun(controlling.page)
  /\ controlling' = [Uncontrolled EXCEPT !.op = controlling.op,
                                         !.fetch = CHOOSE s \in FreeFetch : TRUE]
  /\ UNCHANGED <<activeId, project, currentRun, loading, selecting, turns>>

\* A refusal, or a control that is lost before or after it acts, shows its error.
FailControl ==
  /\ controlling.run # Nothing
  /\ \/ ~Permitted /\ UNCHANGED <<runOf, turns>>
     \/ Permitted /\ Turn /\ (Controlled \/ UNCHANGED runOf)
  /\ controlling' = Uncontrolled
  /\ UNCHANGED <<activeId, project, currentRun, fetching, loading, selecting>>

ConNext ==
  \/ \E p \in ShownProject : StartRunOf(p) \/ EndRunOf(p) \/ SelectShown(p)
  \/ Poll \/ ActivateShown \/ AnswerControl \/ FailControl
  \/ \E s \in Fetch : AnswerFetch(s) \/ ShowRun(s) \/ ShowDetail(s) \/ FailFetch(s)
  \/ \E s \in Load : AnswerLoad(s) \/ ShowProject(s) \/ FailLoad(s)
  \/ \E of \in ShownProject \cup {Nothing}, kind \in {"run", "page", "reconnect"} :
       HandleEvent(of, kind)
  \/ \E op \in DOMAIN AfterOp : ClickControl(op)

-----------------------------------------------------------------------------
\* When runs and projects have come to rest, late and lost answers, whatever
\* their order and project, have given way for good to the current run of the
\* project the console shows (the bounds bring every behaviour to rest).
RunShownSettles == <>[](currentRun = CurrentOf(project))
=============================================================================
