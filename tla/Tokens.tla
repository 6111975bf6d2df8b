------------------------------- MODULE Tokens -------------------------------
(***************************************************************************)
(* Token accounting: TokenTracker.record_usage (token_tracker/             *)
(* accounting.py), its repositories (history/phase9_repositories.py) and   *)
(* the budgets of api/routers/tokens.py.                                   *)
(*                                                                         *)
(* record_usage is called from the worker threads of an investigation      *)
(* while the analyst changes budgets and looks at the totals.  Each of its *)
(* repository calls is a transaction of its own, and the worker swallows   *)
(* every exception, so that it may stop between any two of them.           *)
(***************************************************************************)
EXTENDS Integers, Sequences, FiniteSets, Functions

CONSTANTS
  Metered,       \* runs
  Call,          \* calls of an agent
  RunOf,         \* RunOf[c]: the run of call c
  CostOf,        \* CostOf[c]: what the provider reported and the size of the text
  DefaultLimit,  \* TokenBudgetConfig.run_budget
  Limit,         \* limits the analyst may set
  Page,          \* how many records a summary reads (5000)
  MaxUpdates,    \* bound: changes of a budget
  AllRuns, NoRun

Side == [actual : Nat, text : Nat]

ASSUME TokensAssumption ==
  /\ RunOf \in [Call -> Metered]
  /\ CostOf \in [Call -> [input : Side, output : Side]]
  /\ DefaultLimit \in Nat /\ Limit \subseteq Nat /\ Page \in Nat /\ MaxUpdates \in Nat
  /\ AllRuns \notin Metered /\ NoRun \notin Metered \cup {AllRuns}

VARIABLES
  budget,    \* token_budgets of scope "run"; AllRuns is the id "global"
  usage,     \* token_usage, in order of insertion
  notices,   \* events about a budget
  meter,     \* a call's place in record_usage and what it has read
  updates,   \* changes of a budget so far
  overview,  \* get_summary between its two reads
  told,      \* the latest summary
  granted    \* history: limits that were in force for a run

tokVars == <<budget, usage, notices, meter, updates, overview, told, granted>>

Metering == Metered \cup {AllRuns}
Levels == {"AVAILABLE", "LOW", "NEAR_LIMIT", "EXHAUSTED"}
MeterSteps == {"none", "limit", "charge", "record", "notice", "done"}
Unlimited == [limit |-> DefaultLimit, consumed |-> 0, level |-> "UNSET"]
Unmetered == [at |-> "none", limit |-> 0, consumed |-> 0]

\* Every variable has its type.
TokTypeOK ==
  /\ budget \in [Metering -> [limit : Nat, consumed : Nat, level : Levels \cup {"UNSET"}]]
  /\ usage \in Seq(Call) /\ IsInjective(usage)
  /\ notices \subseteq [run : Metered, level : Levels]
  /\ meter \in [Call -> [at : MeterSteps, limit : Nat, consumed : Nat]]
  /\ updates \in 0..MaxUpdates
  /\ overview \in [run : Metering \cup {NoRun}, limit : Nat]
  /\ told \in [run : Metering, total : Nat, level : Levels]
  /\ granted \in [Metering -> SUBSET Nat]

TokInit ==
  /\ budget = [s \in Metering |-> Unlimited]
  /\ usage = << >> /\ notices = {}
  /\ meter = [c \in Call |-> Unmetered]
  /\ updates = 0
  /\ overview = [run |-> NoRun, limit |-> 0]
  /\ told = [run |-> AllRuns, total |-> 0, level |-> "AVAILABLE"]
  /\ granted = [s \in Metering |-> {DefaultLimit}]

-----------------------------------------------------------------------------
(* What a call costs.                                                      *)

\* Text is counted where the provider reported nothing.
Estimated(side) == IF side.actual = 0 THEN side.text ELSE 0
Actual(c) == CostOf[c].input.actual + CostOf[c].output.actual
Estimate(c) == Estimated(CostOf[c].input) + Estimated(CostOf[c].output)
\* An estimate never adds to what was reported.
Own(c) == IF Actual(c) > 0 THEN Actual(c) ELSE Estimate(c)

\* The tokens themselves, told apart by their call: a sum over calls is the
\* number of them.
ActualTokens(calls) == UNION {{c} \X (1..Actual(c)) : c \in calls}
EstimatedTokens(calls) == UNION {{c} \X (1..Estimate(c)) : c \in calls}
OwnTokens(calls) == UNION {{c} \X (1..Own(c)) : c \in calls}

\* list_records: the calls of the newest records of a run, or of all.
Recorded(s) == {i \in DOMAIN usage : s \in {RunOf[usage[i]], AllRuns}}
Listing(s) ==
  {usage[i] : i \in {j \in Recorded(s) : Cardinality({k \in Recorded(s) : k > j}) < Page}}

\* Mutant: estimates and reports are added up.
EffectiveBoth(s) ==
  Cardinality(ActualTokens(Listing(s))) + Cardinality(EstimatedTokens(Listing(s)))

\* get_summary: estimates count only while no record of the scope has a report.
Effective(s) ==
  LET actual == Cardinality(ActualTokens(Listing(s)))
  IN  IF actual > 0 THEN actual ELSE Cardinality(EstimatedTokens(Listing(s)))

Left(limit, consumed) == IF limit > consumed THEN limit - consumed ELSE 0

\* save_budget and get_summary: strictly less than 10 and 30 percent.
Level(limit, consumed) ==
  LET left == Left(limit, consumed)
  IN  CASE left = 0 -> "EXHAUSTED"
        [] left > 0 /\ 10 * left < limit -> "NEAR_LIMIT"
        [] 10 * left >= limit /\ 10 * left < 3 * limit -> "LOW"
        [] OTHER -> "AVAILABLE"

\* record_usage warns from 10 and 30 percent on, the bounds included.
Warning(limit, consumed) ==
  LET left == Left(limit, consumed)
  IN  CASE left = 0 -> "EXHAUSTED"
        [] left > 0 /\ 10 * left <= limit -> "NEAR_LIMIT"
        [] 10 * left > limit /\ 10 * left <= 3 * limit -> "LOW"
        [] OTHER -> "AVAILABLE"

Budgeted(limit, consumed) ==
  [limit |-> limit, consumed |-> consumed, level |-> Level(limit, consumed)]

-----------------------------------------------------------------------------
(* A worker in record_usage.                                               *)

Advance(c, at) == meter' = [meter EXCEPT ![c].at = at]

ReadLimit(c) ==
  /\ meter[c].at = "none"
  /\ meter' = [meter EXCEPT ![c].at = "limit", ![c].limit = budget[RunOf[c]].limit]
  /\ UNCHANGED <<budget, usage, notices, updates, overview, told, granted>>

SummarizeUsage(c) ==
  /\ meter[c].at = "limit"
  /\ meter' = [meter EXCEPT ![c].at = "charge", ![c].consumed = Effective(RunOf[c]) + Own(c)]
  /\ UNCHANGED <<budget, usage, notices, updates, overview, told, granted>>

\* The limit that was read is saved again, over a change since.
ChargeBudget(c) ==
  /\ meter[c].at = "charge"
  /\ budget' = [budget EXCEPT ![RunOf[c]] = Budgeted(meter[c].limit, meter[c].consumed)]
  /\ granted' = [granted EXCEPT ![RunOf[c]] = @ \cup {meter[c].limit}]
  /\ Advance(c, "record")
  /\ UNCHANGED <<usage, notices, updates, overview, told>>

\* TokenUsageRepository.save: each call has a record of its own.
StoreRecord(c) == usage' = Append(usage, c)

SaveUsage(c) ==
  /\ meter[c].at = "record"
  /\ StoreRecord(c)
  /\ Advance(c, "notice")
  /\ UNCHANGED <<budget, notices, updates, overview, told, granted>>

\* TOKEN_USAGE_UPDATED, which nothing reads back, and then BUDGET_EXHAUSTED,
\* TOKEN_LIMIT_WARNING, BUDGET_WARNING or none.
WarnOfLimit(c) ==
  /\ meter[c].at = "notice"
  /\ LET level == Warning(meter[c].limit, meter[c].consumed)
     IN  notices' = IF level = "AVAILABLE" THEN notices
                    ELSE notices \cup {[run |-> RunOf[c], level |-> level]}
  /\ Advance(c, "done")
  /\ UNCHANGED <<budget, usage, updates, overview, told, granted>>

\* An exception, or the end of the process: the worker goes on without the rest.
AbandonUsage(c) ==
  /\ meter[c].at \notin {"none", "done"}
  /\ Advance(c, "done")
  /\ UNCHANGED <<budget, usage, notices, updates, overview, told, granted>>

-----------------------------------------------------------------------------
(* The analyst.                                                            *)

\* update_budget: what was consumed becomes 0 until the next call.
UpdateBudget(s, l) ==
  /\ updates < MaxUpdates
  /\ budget' = [budget EXCEPT ![s] = Budgeted(l, 0)]
  /\ updates' = updates + 1
  /\ granted' = [granted EXCEPT ![s] = @ \cup {l}]
  /\ UNCHANGED <<usage, notices, meter, overview, told>>

\* get_summary reads the limit and then the records.
ReadOverview(s) ==
  /\ overview.run = NoRun
  /\ overview' = [run |-> s, limit |-> budget[s].limit]
  /\ UNCHANGED <<budget, usage, notices, meter, updates, told, granted>>

TellOverview ==
  /\ overview.run # NoRun
  /\ LET total == Effective(overview.run)
     IN  told' = [run |-> overview.run, total |-> total, level |-> Level(overview.limit, total)]
  /\ overview' = [run |-> NoRun, limit |-> 0]
  /\ UNCHANGED <<budget, usage, notices, meter, updates, granted>>

TokNext ==
  \/ \E c \in Call :
       \/ ReadLimit(c) \/ SummarizeUsage(c) \/ ChargeBudget(c) \/ SaveUsage(c)
       \/ WarnOfLimit(c) \/ AbandonUsage(c)
  \/ \E s \in Metering : (\E l \in Limit : UpdateBudget(s, l)) \/ ReadOverview(s)
  \/ TellOverview

TokSpec == TokInit /\ [][TokNext]_tokVars

-----------------------------------------------------------------------------
\* The tokens of the calls of a run that have begun to be recorded.
Spent(s) ==
  Cardinality(OwnTokens({c \in Call : meter[c].at # "none" /\ s \in {RunOf[c], AllRuns}}))

\* However workers, budget changes and failures interleave, no budget charges a
\* run, and no summary tells of it, more than its calls have spent; and
\* exhaustion is announced only to a run that had spent a limit once in force.
NoOvercharge ==
  /\ \A s \in Metering : budget[s].consumed <= Spent(s)
  /\ told.total <= Spent(told.run)
  /\ \A n \in notices :
       n.level = "EXHAUSTED" => \E l \in granted[n.run] : l <= Spent(n.run)
=============================================================================
