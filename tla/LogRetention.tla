---------------------------- MODULE LogRetention ----------------------------
(***************************************************************************)
(* The log files: LogManager (history/log_retention.py), the writers of    *)
(* history/project_logger.py, and the cleanup the analyst asks for         *)
(* (api/routers/debug.py).                                                 *)
(*                                                                         *)
(* A cleanup runs on a thread of its own, beside writers and other         *)
(* cleanups.  It is always forced, so that age and quota decide nothing:   *)
(* every file is a candidate unless its run is active when the cleanup     *)
(* reads the runs, or it is the trail, application.log, itself.            *)
(***************************************************************************)
EXTENDS Integers, FiniteSets

CONSTANTS
  Log,           \* files, application.log and errors.log aside
  LogKind,       \* LogKind[l]: "run", "project" or "application"
  RunOfLog,      \* RunOfLog[l]: the run of a run's file
  SchedulerLog,  \* scheduler.log, to which a cleanup writes itself
  LogRun,        \* runs
  Cleanup,       \* requests for a cleanup
  MaxLines,      \* bound: lines that create a file again
  NoLog

ASSUME LogAssumption ==
  /\ LogKind \in [Log -> {"run", "project", "application"}]
  /\ RunOfLog \in [{l \in Log : LogKind[l] = "run"} -> LogRun]
  /\ SchedulerLog \in Log /\ LogKind[SchedulerLog] = "application"
  /\ NoLog \notin Log /\ MaxLines \in Nat /\ IsFiniteSet(Cleanup)

VARIABLES
  present,   \* files on disk
  running,   \* runs whose status is RUNNING
  lines,     \* lines so far that created a file
  cleaner,   \* a cleanup's place, what it has read and what it has done
  noted,     \* noted[l]: lines LOG_FILE_DELETED of l in application.log
  removed,   \* history: removals of l
  guarded    \* history: runs RUNNING ever since the cleanup began

logVars == <<present, running, lines, cleaner, noted, removed, guarded>>

CleanerSteps == {"none", "runs", "list", "delete", "note", "done", "raised"}
Resting == [at |-> "none", active |-> {}, todo |-> {}, last |-> NoLog, took |-> {}, count |-> 0]

\* Every variable has its type.
LogTypeOK ==
  /\ present \subseteq Log /\ running \subseteq LogRun /\ lines \in 0..MaxLines
  /\ cleaner \in [Cleanup -> [at : CleanerSteps, active : SUBSET LogRun, todo : SUBSET Log,
                              last : Log \cup {NoLog}, took : SUBSET Log, count : Nat]]
  /\ noted \in [Log -> Nat] /\ removed \in [Log -> Nat]
  /\ guarded \in [Cleanup -> SUBSET LogRun]

LogInit ==
  /\ present = Log /\ running = {} /\ lines = 0
  /\ cleaner = [c \in Cleanup |-> Resting]
  /\ noted = [l \in Log |-> 0] /\ removed = [l \in Log |-> 0]
  /\ guarded = [c \in Cleanup |-> {}]

-----------------------------------------------------------------------------
(* Runs and writers.                                                       *)

StartLogRun(r) ==
  /\ r \notin running
  /\ running' = running \cup {r}
  /\ UNCHANGED <<present, lines, cleaner, noted, removed, guarded>>

\* A run that is paused, stopped or completed is not RUNNING any more.
LeaveRunning(r) ==
  /\ r \in running
  /\ running' = running \ {r}
  /\ guarded' = [c \in Cleanup |-> guarded[c] \ {r}]
  /\ UNCHANGED <<present, lines, cleaner, noted, removed>>

\* A line makes its file, when it is not there.
WriteLine(l) ==
  /\ l \notin present /\ lines < MaxLines
  /\ present' = present \cup {l}
  /\ lines' = lines + 1
  /\ UNCHANGED <<running, cleaner, noted, removed, guarded>>

-----------------------------------------------------------------------------
(* run_cleanup.                                                            *)

\* write_log: a line of component SCHEDULER, in application.log and scheduler.log.
SchedulerLine == present \cup {SchedulerLog}

\* The line LOG_CLEANUP_STARTED.
BeginCleanup(c) ==
  /\ cleaner[c].at = "none"
  /\ cleaner' = [cleaner EXCEPT ![c].at = "runs"]
  /\ present' = SchedulerLine
  /\ guarded' = [guarded EXCEPT ![c] = running]
  /\ UNCHANGED <<running, lines, noted, removed>>

ReadActive(c) ==
  /\ cleaner[c].at = "runs"
  /\ cleaner' = [cleaner EXCEPT ![c].at = "list", ![c].active = running]
  /\ UNCHANGED <<present, running, lines, noted, removed, guarded>>

\* Every file but those of active runs; a file of their project is none of theirs.
Candidates(active) == {l \in present : LogKind[l] = "run" => RunOfLog[l] \notin active}

ListLogs(c) ==
  /\ cleaner[c].at = "list"
  /\ cleaner' = [cleaner EXCEPT ![c].at = "delete", ![c].todo = Candidates(cleaner[c].active)]
  /\ UNCHANGED <<present, running, lines, noted, removed, guarded>>

\* A file that another cleanup deletes between its name and its stat raises.
RaiseInListing(c) ==
  /\ cleaner[c].at = "list"
  /\ \E d \in Cleanup \ {c} : cleaner[d].at \in {"delete", "note"}
  /\ cleaner' = [cleaner EXCEPT ![c].at = "raised"]
  /\ UNCHANGED <<present, running, lines, noted, removed, guarded>>

Priority(l) == CASE LogKind[l] = "run" -> 1 [] LogKind[l] = "project" -> 2 [] OTHER -> 3

\* The candidates of the most urgent kind; age orders them, which is not kept.
Due(c) == {l \in cleaner[c].todo : \A k \in cleaner[c].todo : Priority(l) <= Priority(k)}

DeleteLog(c, l) ==
  /\ cleaner[c].at = "delete" /\ l \in Due(c) /\ l \in present
  /\ present' = present \ {l}
  /\ removed' = [removed EXCEPT ![l] = @ + 1]
  /\ cleaner' = [cleaner EXCEPT ![c].at = "note", ![c].todo = @ \ {l}, ![c].last = l,
                                ![c].took = @ \cup {l}, ![c].count = @ + 1]
  /\ UNCHANGED <<running, lines, noted, guarded>>

\* Mutant: a file that is gone already counts as deleted.
MissAndCount(c, l) ==
  /\ cleaner[c].at = "delete" /\ l \in Due(c) /\ l \notin present
  /\ cleaner' = [cleaner EXCEPT ![c].at = "note", ![c].todo = @ \ {l}, ![c].last = l,
                                ![c].count = @ + 1]
  /\ UNCHANGED <<present, running, lines, noted, removed, guarded>>

\* unlink raises where another cleanup was first; the loop goes on.
MissLog(c, l) ==
  /\ cleaner[c].at = "delete" /\ l \in Due(c) /\ l \notin present
  /\ cleaner' = [cleaner EXCEPT ![c].todo = @ \ {l}]
  /\ UNCHANGED <<present, running, lines, noted, removed, guarded>>

\* The line LOG_FILE_DELETED, which makes scheduler.log again.
NoteDeletion(c) ==
  /\ cleaner[c].at = "note"
  /\ noted' = [noted EXCEPT ![cleaner[c].last] = @ + 1]
  /\ present' = SchedulerLine
  /\ cleaner' = [cleaner EXCEPT ![c].at = "delete", ![c].last = NoLog]
  /\ UNCHANGED <<running, lines, removed, guarded>>

FinishCleanup(c) ==
  /\ cleaner[c].at = "delete" /\ cleaner[c].todo = {}
  /\ cleaner' = [cleaner EXCEPT ![c].at = "done"]
  /\ present' = SchedulerLine
  /\ UNCHANGED <<running, lines, noted, removed, guarded>>

LogNext ==
  \/ \E r \in LogRun : StartLogRun(r) \/ LeaveRunning(r)
  \/ \E l \in Log : WriteLine(l)
  \/ \E c \in Cleanup :
       \/ BeginCleanup(c) \/ ReadActive(c) \/ ListLogs(c) \/ RaiseInListing(c)
       \/ NoteDeletion(c) \/ FinishCleanup(c)
       \/ \E l \in Log : DeleteLog(c, l) \/ MissLog(c, l)

LogSpec == LogInit /\ [][LogNext]_logVars

-----------------------------------------------------------------------------
\* Cleanups at once, over files that writers make again: the trail has one line
\* for each removal but those about to be written, each cleanup counts what it
\* removed itself, and none takes a file of a run that has been RUNNING ever
\* since the cleanup began.
CleanupHonest ==
  /\ \A l \in Log :
       removed[l] = noted[l] + Cardinality({c \in Cleanup : cleaner[c].last = l})
  /\ \A c \in Cleanup :
       /\ cleaner[c].count = Cardinality(cleaner[c].took)
       /\ \A l \in cleaner[c].took :
            LogKind[l] = "run" => RunOfLog[l] \notin guarded[c]
=============================================================================
