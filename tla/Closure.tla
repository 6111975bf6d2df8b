------------------------------- MODULE Closure -------------------------------
(***************************************************************************)
(* Verification plans as the supervisor's router persists them, their      *)
(* coverage, and the snapshots of the closure engine (closure/engine.py,   *)
(* api/routers/closure.py, api/routers/supervisor.py).                     *)
(*                                                                         *)
(* The handlers are `def` endpoints on threads of their own, and the       *)
(* orchestrator evaluates closure on its own: a snapshot is computed from  *)
(* one connection and saved with another, and the reply to an analyst      *)
(* counts again, by bucket, what a third connection reads.                 *)
(***************************************************************************)
EXTENDS Integers, Sequences, FiniteSets, FiniteSetsExt, SequencesExt

CONSTANTS
  ClosurePlan,
  ProjectOf,    \* ProjectOf[p]: the project of the plan
  Objective,    \* Objective[p]: the objectives the supervisor proposes for p
  Evaluator,    \* threads that evaluate closure
  BucketOf,     \* BucketOf[o]: the bucket of the objective
  MaxItems,     \* bound: coverage is recorded while a plan has fewer items
  MaxWork,      \* bound: tasks are created while there are fewer
  NoObjective,
  NoPlan

ASSUME ClosureAssumption ==
  /\ \A p, q \in ClosurePlan : p # q => Objective[p] \cap Objective[q] = {}
  /\ \A p \in ClosurePlan : IsFiniteSet(Objective[p])
  /\ NoPlan \notin ClosurePlan

VARIABLES
  plan,       \* verification_plans.status, or that a step of its proposal is due
  objectives, \* verification_objectives: the plan's rows
  items,      \* coverage_items of the plan, in order
  gaps,       \* number of its gaps; none is ever closed
  work,       \* tasks in order, each with the evidence of its tool
  snapshot,   \* its latest closure_snapshots row
  evaluator   \* a thread: the snapshot it has computed and not yet saved, or
              \* the reply it gives

clVars == <<plan, objectives, items, gaps, work, snapshot, evaluator>>

ClosurePlanStates == {"ABSENT", "UNPACKED", "UNSCOPED", "DRAFT", "COMPLETED", "REJECTED"}
Counted == {"COVERED", "WAIVED"}
Named(p) == Objective[p] \cup {NoObjective}
Open == [covered |-> 0, waivers |-> 0, total |-> 0, closed |-> FALSE]
Bucket == {BucketOf[o] : o \in UNION {Objective[p] : p \in ClosurePlan}}
NoPlanReply == [executed |-> 0, validated |-> 0, covered |-> 0, total |-> 0, ready |-> FALSE]
NoSnapshot == [of |-> NoPlan, at |-> "none", value |-> Open, reply |-> NoPlanReply]
\* A task with evidence of a tool that exited with 0 or not; CREDITED has its
\* coverage item too.
WorkStates == {"QUEUED", "RUNNING", "PASSED", "FAILED", "CREDITED"}
Proven == {"PASSED", "CREDITED"}

\* Every variable has its type.
ClTypeOK ==
  /\ plan \in [ClosurePlan -> ClosurePlanStates]
  /\ \A p \in ClosurePlan :
       /\ objectives[p] \subseteq Objective[p]
       /\ items[p] \in Seq([state : Counted, objective : Named(p), bucket : Bucket])
       /\ gaps[p] \in Nat
  /\ \A v \in {snapshot[p] : p \in ClosurePlan} \cup {evaluator[w].value : w \in Evaluator} :
       v.covered \in Nat /\ v.waivers \in Nat /\ v.total \in Nat /\ v.closed \in BOOLEAN
  /\ work \in Seq([of : ClosurePlan, about : UNION {Named(p) : p \in ClosurePlan},
                   state : WorkStates])
  /\ \A w \in Evaluator :
       /\ evaluator[w].of \in ClosurePlan \cup {NoPlan}
       /\ evaluator[w].at \in {"none", "computed", "saved", "answered"}
       /\ \A k \in {"executed", "validated", "covered", "total"} : evaluator[w].reply[k] \in Nat

ClInit ==
  /\ plan = [p \in ClosurePlan |-> "ABSENT"]
  /\ objectives = [p \in ClosurePlan |-> {}]
  /\ items = [p \in ClosurePlan |-> << >>]
  /\ gaps = [p \in ClosurePlan |-> 0]
  /\ work = << >>
  /\ snapshot = [p \in ClosurePlan |-> Open]
  /\ evaluator = [w \in Evaluator |-> NoSnapshot]

Exists(p) == plan[p] # "ABSENT"

-----------------------------------------------------------------------------
(* The proposal: the plan, its work packages and its objectives are saved  *)
(* in transactions of their own, and the process may end between them.  A  *)
(* terminal preflight gives a COMPLETED plan with nothing under it.        *)

ProposePlan(p) ==
  /\ ~ Exists(p)
  /\ \E s \in {"UNPACKED", "COMPLETED"} : plan' = [plan EXCEPT ![p] = s]
  /\ UNCHANGED <<objectives, items, gaps, work, snapshot, evaluator>>

SavePackages(p) ==
  /\ plan[p] = "UNPACKED"
  /\ plan' = [plan EXCEPT ![p] = "UNSCOPED"]
  /\ UNCHANGED <<objectives, items, gaps, work, snapshot, evaluator>>

SaveObjectives(p) ==
  /\ plan[p] = "UNSCOPED"
  /\ plan' = [plan EXCEPT ![p] = "DRAFT"]
  /\ objectives' = [objectives EXCEPT ![p] = Objective[p]]
  /\ UNCHANGED <<items, gaps, work, snapshot, evaluator>>

\* The process ends during a proposal: what it saved is a draft.
EndProposal(p) ==
  /\ plan[p] \in {"UNPACKED", "UNSCOPED"}
  /\ plan' = [plan EXCEPT ![p] = "DRAFT"]
  /\ UNCHANGED <<objectives, items, gaps, work, snapshot, evaluator>>

\* reject_verification_plan: whatever the status was.
RejectDraft(p) ==
  /\ plan[p] \in {"DRAFT", "COMPLETED"}
  /\ plan' = [plan EXCEPT ![p] = "REJECTED"]
  /\ UNCHANGED <<objectives, items, gaps, work, snapshot, evaluator>>

-----------------------------------------------------------------------------
(* Coverage and gaps.  An item gets a new id each time.                    *)

RecordCoverage(p, state, o, b) ==
  /\ Len(items[p]) < MaxItems
  /\ items' = [items EXCEPT ![p] = Append(@, [state |-> state, objective |-> o, bucket |-> b])]

\* A task of the plan: its objective holds the title of one of the plan's, or
\* of none.
CreateWork(p, o) ==
  /\ plan[p] = "DRAFT" /\ Len(work) < MaxWork
  /\ work' = Append(work, [of |-> p, about |-> o, state |-> "QUEUED"])
  /\ UNCHANGED <<plan, objectives, items, gaps, snapshot, evaluator>>

\* The dispatcher takes a task, and saves the evidence of its tool.
RunWork(i) ==
  /\ \/ work[i].state = "QUEUED" /\ work' = [work EXCEPT ![i].state = "RUNNING"]
     \/ /\ work[i].state = "RUNNING"
        /\ \E s \in {"PASSED", "FAILED"} : work' = [work EXCEPT ![i].state = s]
  /\ UNCHANGED <<plan, objectives, items, gaps, snapshot, evaluator>>

\* The orchestrator, for a task that exits with 0; it names no objective.
CoverTask(i, b) ==
  /\ work[i].state = "PASSED"
  /\ RecordCoverage(work[i].of, "COVERED", NoObjective, b)
  /\ work' = [work EXCEPT ![i].state = "CREDITED"]
  /\ UNCHANGED <<plan, objectives, gaps, snapshot, evaluator>>

\* record_waiver: the plan, the objective and its bucket are not looked up.
RecordWaiver(p, o, b) ==
  /\ RecordCoverage(p, "WAIVED", o, b)
  /\ UNCHANGED <<plan, objectives, gaps, work, snapshot, evaluator>>

RecordGap(p) ==
  /\ gaps[p] = 0
  /\ gaps' = [gaps EXCEPT ![p] = 1]
  /\ UNCHANGED <<plan, objectives, items, work, snapshot, evaluator>>

-----------------------------------------------------------------------------
(* evaluate_closure.                                                       *)

\* The objectives of the plan, else of its project, else all of them.
Scope(p) ==
  LET ofProject == UNION {objectives[q] : q \in {q \in ClosurePlan : ProjectOf[q] = ProjectOf[p]}}
  IN  CASE objectives[p] # {} -> objectives[p]
        [] objectives[p] = {} /\ ofProject # {} -> ofProject
        [] OTHER -> UNION {objectives[q] : q \in ClosurePlan}

\* The plan's items in one of the states.
Coverage(p, S) == {k \in DOMAIN items[p] : items[p][k].state \in S}

\* Mutant: waivers are counted again.
CoveredAndWaived(p) == Cardinality(Coverage(p, Counted)) + Cardinality(Coverage(p, {"WAIVED"}))

Covered(p) == Cardinality(Coverage(p, Counted))
Waivers(p) == Cardinality(Coverage(p, {"WAIVED"}))

\* objective_coverage_pct >= 99.0
Covers(p, covered, total) ==
  IF total = 0 THEN plan[p] = "COMPLETED" ELSE 100 * covered >= 99 * total

Measure(p) ==
  LET total == Cardinality(Scope(p)) IN
  IF ~ Exists(p) THEN Open
  ELSE [covered |-> Covered(p), waivers |-> Waivers(p), total |-> total,
        closed |-> Covers(p, Covered(p), total) /\ gaps[p] = 0]

Evaluate(w, p) ==
  /\ evaluator[w] = NoSnapshot
  /\ evaluator' = [evaluator EXCEPT ![w] =
       [NoSnapshot EXCEPT !.of = p, !.at = "computed", !.value = Measure(p)]]
  /\ UNCHANGED <<plan, objectives, items, gaps, work, snapshot>>

\* The orchestrator ends here, the endpoint goes on to its reply.
SaveSnapshot(w) ==
  /\ evaluator[w].at = "computed"
  /\ snapshot' = [snapshot EXCEPT ![evaluator[w].of] = evaluator[w].value]
  /\ \E n \in {NoSnapshot, [NoSnapshot EXCEPT !.of = evaluator[w].of, !.at = "saved"]} :
       evaluator' = [evaluator EXCEPT ![w] = n]
  /\ UNCHANGED <<plan, objectives, items, gaps, work>>

-----------------------------------------------------------------------------
(* The reply to an analyst: the objectives bucket by bucket, each with a   *)
(* task.                                                                   *)

OfBucket(os, b) == {o \in os : BucketOf[o] = b}

\* The first task that names the objective; else one picked by the objective's
\* place in its bucket, whatever it is about.
Matched(tasks, o, place) ==
  LET named == {i \in tasks : work[i].about = o} IN
  IF named # {} THEN {i \in named : \A j \in named : i <= j}
  ELSE {i \in tasks : Cardinality({j \in tasks : j < i}) = (place - 1) % Cardinality(tasks)}

\* The objectives whose task is in one of the states.
Having(os, tasks, S) ==
  {o \in os :
     LET listed == SetToSeq(OfBucket(os, BucketOf[o])) IN
     \E k \in DOMAIN listed :
       listed[k] = o /\ \E i \in Matched(tasks, o, k) : work[i].state \in S}

\* A bucket's items and validated objectives.  Waivers are items too and count
\* twice; the bucket's number of objectives is the limit.
CoveredIn(p, os, tasks, b) ==
  LET inBucket(S) == Cardinality({k \in Coverage(p, S) : items[p][k].bucket = b})
      validated == Cardinality(OfBucket(Having(os, tasks, Proven), b))
  IN  Min({Cardinality(OfBucket(os, b)),
           Max({inBucket(Counted) + inBucket({"WAIVED"}), validated})})

\* What the buckets claim together: the first, second, ... of each.
Claims(p, os, tasks) == UNION {{b} \X (1 .. CoveredIn(p, os, tasks, b)) : b \in Bucket}

\* closure_readiness: coverage_pct, rounded to a decimal, is 95.0 or more.
Readiness(p, covered, total) == total > 0 /\ 10000 * covered >= 9495 * total /\ gaps[p] = 0

\* The plan's objectives or its project's, its items and gaps, and the tasks of
\* its project, as one connection reads them.
Summary(p) ==
  LET os == IF objectives[p] # {} \/ ~ Exists(p) THEN objectives[p]
            ELSE UNION {objectives[q] : q \in {q \in ClosurePlan : ProjectOf[q] = ProjectOf[p]}}
      tasks == {i \in DOMAIN work : ProjectOf[work[i].of] = ProjectOf[p]}
      total == Cardinality(os)
      covered == Cardinality(Claims(p, os, tasks))
  IN  [executed |-> Cardinality(Having(os, tasks, WorkStates \ {"QUEUED"})),
       validated |-> Cardinality(Having(os, tasks, Proven)),
       covered |-> covered, total |-> total,
       ready |-> Readiness(p, covered, total)]

\* get_project_closure, of a project without a plan; one with a plan has its
\* newest evaluated.
ReplyWithoutPlan(w) ==
  /\ evaluator[w] = NoSnapshot
  /\ \E q \in ClosurePlan : \A p \in ClosurePlan : ProjectOf[p] = ProjectOf[q] => ~ Exists(p)
  /\ evaluator' = [evaluator EXCEPT ![w].at = "answered"]
  /\ UNCHANGED <<plan, objectives, items, gaps, work, snapshot>>

Reply(w) ==
  /\ evaluator[w].at = "saved"
  /\ evaluator' = [evaluator EXCEPT ![w].at = "answered", ![w].reply = Summary(evaluator[w].of)]
  /\ UNCHANGED <<plan, objectives, items, gaps, work, snapshot>>

EndReply(w) ==
  /\ evaluator[w].at = "answered"
  /\ evaluator' = [evaluator EXCEPT ![w] = NoSnapshot]
  /\ UNCHANGED <<plan, objectives, items, gaps, work, snapshot>>

ClNext ==
  \/ \E p \in ClosurePlan :
       \/ ProposePlan(p) \/ SavePackages(p) \/ SaveObjectives(p) \/ EndProposal(p)
       \/ RejectDraft(p) \/ RecordGap(p)
       \/ \E o \in Named(p) : CreateWork(p, o) \/ \E b \in Bucket : RecordWaiver(p, o, b)
       \/ \E w \in Evaluator : Evaluate(w, p)
  \/ \E i \in DOMAIN work : RunWork(i) \/ \E b \in Bucket : CoverTask(i, b)
  \/ \E w \in Evaluator : \/ SaveSnapshot(w) \/ ReplyWithoutPlan(w)
                       \/ Reply(w) \/ EndReply(w)

ClSpec == ClInit /\ [][ClNext]_clVars

-----------------------------------------------------------------------------
(* Properties.                                                             *)

\* A snapshot, also one saved long after it was computed, never claims more
\* than the tables hold: its covered objectives are at most the items of the
\* plan, its waivers are among them, and a closed one had items for 99% of the
\* objectives it saw (closure/engine.py).  Nor does a reply, which counts again
\* (api/routers/closure.py): no more than it counts is covered, executed or
\* validated, and a plan is ready only after a task passed or was waived.
NoOverclaim ==
  /\ \A p \in ClosurePlan :
       LET s == snapshot[p] IN
       /\ s.covered <= Len(items[p])
       /\ s.waivers <= s.covered
       /\ s.closed => Exists(p) /\ 100 * Len(items[p]) >= 99 * s.total
  /\ \A w \in Evaluator :
       LET r == evaluator[w].reply IN
       /\ r.validated <= r.executed /\ r.executed <= r.total /\ r.covered <= r.total
       /\ r.ready => \/ items[evaluator[w].of] # << >>
                     \/ \E i \in DOMAIN work : work[i].state \in Proven
=============================================================================
