------------------------------- MODULE Planning -------------------------------
(***************************************************************************)
(* How a verification plan comes to be: the preflight of a repository, its *)
(* complexity tier, the applicable buckets, the security surfaces of Rust  *)
(* firmware, the work packages with their cost, and the handlers that      *)
(* store the plan and release it (repository_intelligence/,                *)
(* supervisor/supervisor.py, api/routers/supervisor.py).                   *)
(*                                                                         *)
(* Generation is a `def` handler on a thread: the plan, each package and   *)
(* the objectives are stored in transactions of their own, in this order,  *)
(* while approvals run on the event loop.                                  *)
(***************************************************************************)
EXTENDS Integers, Sequences, FiniteSets, FiniteSetsExt, SequencesExt

CONSTANTS
  DraftPlan,
  Codebase,      \* repository contents: records of files, counts, signs, Rust sources
  Wish,          \* the depths an analyst's intent can ask for; "" is no intent
  RequiredOf,    \* the requirements on file: RequiredOf[b] of primary bucket b
  MaxApprovals   \* bound: approvals of one plan

VARIABLES
  proposal,    \* what the supervisor synthesized for the plan
  planStatus,  \* verification_plans.status
  package,     \* work_packages.status of the packages stored so far, in order
  scoped,      \* the plan's verification_objectives are stored
  generating,  \* the handler that stores the plan is alive
  release      \* the run of the latest approval and what it released

planningVars == <<proposal, planStatus, package, scoped, generating, release>>

\* How many of T come before i, and what s has at T, in order.
Rank(i, T) == Cardinality({j \in T : j < i})
InOrder(s, T) == [n \in 1..Cardinality(T) |-> s[CHOOSE i \in T : Rank(i, T) = n - 1]]

-----------------------------------------------------------------------------
(* analyze_repository_preflight.  Of the files of one kind it matters      *)
(* whether there are any and whether one has content.                      *)

FileKind == {"build", "rtl", "code", "spec", "binary", "unknown"}
Supported == {"build", "rtl", "code", "spec"}

Found(r, k) == r.files[k] # "none"
Analyzable(r) == \E k \in Supported : r.files[k] = "content"

Classification(r) ==
  CASE \A k \in FileKind : ~ Found(r, k) -> "EMPTY_REPOSITORY"
    [] ~ Analyzable(r) /\ (Found(r, "binary") \/ Found(r, "unknown")) -> "UNSUPPORTED_ONLY"
    [] ~ Analyzable(r) -> "INSUFFICIENT_ANALYZABLE_CONTENT"
    [] ~ Found(r, "rtl") /\ ~ Found(r, "code") /\ Found(r, "spec") -> "DOCUMENTATION_ONLY"
    [] Found(r, "rtl") /\ Found(r, "code") -> "MIXED_SOC"
    [] Found(r, "rtl") -> "RTL_ONLY"
    [] Found(r, "code") /\ ~ Found(r, "build") -> "SOURCE_WITHOUT_BUILD_SYSTEM"
    [] Found(r, "code") -> "SOFTWARE_ONLY"
    [] OTHER -> "GENERIC_REPOSITORY"

\* Nothing is planned for these.
Terminal(r) ==
  Classification(r) \in {"EMPTY_REPOSITORY", "UNSUPPORTED_ONLY",
                         "INSUFFICIENT_ANALYZABLE_CONTENT", "DOCUMENTATION_ONLY"}

-----------------------------------------------------------------------------
(* classify_complexity, parse_intent_depth, get_task_limit_for_tier.       *)

TierOf(r) ==
  CASE r.count <= 3 /\ r.bytes < 80000 /\ r.modules <= 2 -> "MICRO"
    [] r.count <= 12 /\ r.bytes < 350000 /\ r.modules <= 5 -> "SMALL"
    [] r.count <= 40 /\ r.bytes < 2500000 -> "MEDIUM"
    [] r.count <= 150 -> "LARGE"
    [] OTHER -> "SOC_SCALE"

DepthOf(wish, tier) ==
  CASE wish = "" -> IF tier \in {"MICRO", "SMALL"} THEN "QUICK" ELSE "STANDARD"
    [] wish = "check" -> IF tier = "MICRO" THEN "QUICK" ELSE "STANDARD"
    [] OTHER -> wish

TaskLimit(tier, depth) ==
  CASE depth # "FULL_SOC" /\ tier = "MICRO" -> 3
    [] depth # "FULL_SOC" /\ tier = "SMALL" -> 8
    [] depth # "FULL_SOC" /\ tier = "MEDIUM" -> 16
    [] OTHER -> 23

Buckets ==
  <<"ip_boundary", "connectivity", "cross_ip_flows", "performance", "blast_radius",
    "power_modes", "clocks", "resets", "cdc", "rdc", "x_init", "pin_muxing",
    "error_safety", "security", "debug", "boot", "memory_system", "interconnect",
    "processor_integration", "fuses_otp", "product_variants", "gate_static_signoff",
    "closure">>

\* Sources are sequences of files, and files of lines.
ASSUME PlanningAssumption ==
  /\ MaxApprovals \in Nat
  /\ RequiredOf \in [ToSet(Buckets) -> Nat]
  /\ \A r \in Codebase :
       /\ r.rust \in Seq(ToSet(r.rust))
       /\ \A file \in ToSet(r.rust) : file.lines \in Seq(ToSet(file.lines))

\* The evidence a bucket asks for; without any its applicability is denied, or
\* unknown, which plans nothing either.
Evidence(r, b, tier, depth) ==
  \/ depth = "FULL_SOC" \/ b = "closure"
  \/ Found(r, "rtl") /\ \/ b = "ip_boundary"
                        \/ b = "resets" /\ "reset" \in r.signs
                        \/ b = "clocks" /\ {"clock", "clocks"} \cap r.signs # {}
                        \/ b \in {"cdc", "rdc"} /\ "clocks" \in r.signs
  \/ b = "security" /\ \/ "key" \in r.signs \/ depth \in {"DEEP", "STANDARD"}
                       \/ Found(r, "code") /\ ~ Found(r, "rtl")
  \/ b = "connectivity" /\ ("bus" \in r.signs \/ r.modules > 1)
  \/ b = "product_variants" /\ "variant" \in r.signs /\ tier \notin {"MICRO", "SMALL"}
  \/ \E x \in {<<"interconnect", "bus">>, <<"debug", "jtag">>, <<"boot", "rom">>,
               <<"fuses_otp", "fuse">>, <<"power_modes", "sleep">>} :
       b = x[1] /\ x[2] \in r.signs

Applicable(r, tier, depth) == {b \in ToSet(Buckets) : Evidence(r, b, tier, depth)}

PriorityOrder ==
  <<"resets", "clocks", "ip_boundary", "security", "connectivity", "cdc", "closure">>

\* The places where s names an element of S for the first time.
FirstNamed(s, S) ==
  {i \in DOMAIN s : s[i] \in S /\ \A j \in DOMAIN s : j < i => s[j] # s[i]}

\* No more buckets than tasks are allowed, the relevant ones first.
Bounded(buckets, limit) ==
  LET order == IF Cardinality(buckets) > limit THEN PriorityOrder \o Buckets ELSE Buckets
      first == FirstNamed(order, buckets)
  IN  InOrder(order, {i \in first : Rank(i, first) < limit})

-----------------------------------------------------------------------------
(* scan_rust_security_surfaces: every line of every Rust file is matched   *)
(* with eleven patterns; a line is the set of the signs it bears, and a    *)
(* file has the words of its path.                                         *)

Lines(file, sign) == {n \in DOMAIN file.lines : sign \in file.lines[n]}
OnPath(file, word, lines) == IF word \in file.path THEN lines ELSE {}

Pauser(file) ==
  [title |-> "PAUSER truncation", category |-> "AUTHORIZATION", parent |-> TRUE,
   lines |-> Lines(file, "locality as u16") \cup Lines(file, "pauser as u16")]

PcrLog(file) ==
  [title |-> "PCR short input", category |-> "ATTESTATION", parent |-> FALSE,
   lines |-> Lines(file, "saturating_sub(size_of u32)")
              \cup IF Lines(file, "extend_pcr") = {} THEN {}
                   ELSE Lines(file, "saturating_sub") \cap Lines(file, "size_of u32")]

KeyLadder(file) ==
  [title |-> "key ladder ratchet", category |-> "CRYPTOGRAPHY", parent |-> FALSE,
   lines |-> Lines(file, "key_ladder_svn.saturating_sub(target_svn)")
              \cup OnPath(file, "key_ladder", Lines(file, "saturating_sub(target_svn)"))]

CdiExport(file) ==
  [title |-> "CDI export", category |-> "AUTHORIZATION", parent |-> FALSE,
   lines |-> Lines(file, "exports_cdi of new context")]

HkdfLength(file) ==
  [title |-> "HKDF key length", category |-> "CRYPTOGRAPHY", parent |-> FALSE,
   lines |-> Lines(file, "key_size as u8")]

AadLength(file) ==
  [title |-> "AAD length", category |-> "CRYPTOGRAPHY", parent |-> TRUE,
   lines |-> Lines(file, "compute_tag(aad_length)")]

ContextLimit(file) ==
  [title |-> "context limit", category |-> "AUTHORIZATION", parent |-> FALSE,
   lines |-> Lines(file, "wrapping_sub(pl0_context_limit)")]

CsrLength(file) ==
  [title |-> "CSR length", category |-> "INPUT_VALIDATION", parent |-> FALSE,
   lines |-> Lines(file, "size_of GetFmcAliasCsrResp")]

Endianness(file) ==
  [title |-> "firmware id endianness", category |-> "ATTESTATION", parent |-> TRUE,
   lines |-> Lines(file, "MCU_IMAGE_ID.to_be_bytes")]

SanDelimiter(file) ==
  [title |-> "SAN delimiter", category |-> "INPUT_VALIDATION", parent |-> FALSE,
   lines |-> OnPath(file, "subject_alt_name", Lines(file, "colon_count < 2"))]

ManifestSvn(file) ==
  [title |-> "manifest monotonicity", category |-> "LIFECYCLE", parent |-> TRUE,
   lines |-> OnPath(file, "set_auth_manifest", Lines(file, "saturating_sub(0)"))]

RustPatterns(file) ==
  <<Pauser(file), PcrLog(file), KeyLadder(file), CdiExport(file), HkdfLength(file),
    AadLength(file), ContextLimit(file), CsrLength(file), Endianness(file),
    SanDelimiter(file), ManifestSvn(file)>>

\* File after file, pattern after pattern; each line of one is a surface.
Scans(r) ==
  [k \in 1..(11 * Len(r.rust)) |->
    RustPatterns(r.rust[1 + ((k - 1) \div 11)])[1 + ((k - 1) % 11)]]

Surfaces(scans, K) == UNION {{k} \X scans[k].lines : k \in K}

-----------------------------------------------------------------------------
(* synthesize_verification_plan.                                           *)

\* The scans that one of the first surfaces comes from.
Taken(scans, limit) ==
  {k \in DOMAIN scans : /\ scans[k].lines # {}
                        /\ Cardinality(Surfaces(scans, 1..(k - 1))) < limit}

FirmwarePackage(scan) ==
  [bucket |-> IF scan.category \in {"AUTHORIZATION", "INTEGER_ARITHMETIC", "CRYPTOGRAPHY"}
              THEN "security" ELSE "boot",
   tokens |-> 6000]

\* One package for each title among the first surfaces.
FirmwarePackages(scans, limit) ==
  LET taken == Taken(scans, limit)
      once == {k \in taken : \A j \in taken : j < k => scans[j].title # scans[k].title}
  IN  InOrder([k \in DOMAIN scans |-> FirmwarePackage(scans[k])], once)

\* One objective for each requirement of the bucket, or one without any.
BucketTokens(b, tier) ==
  LET n == Max({1, RequiredOf[b]}) IN
  CASE tier = "MICRO" -> 4000 * n + 2000
    [] tier = "SMALL" -> 6000 * n + 4000
    [] OTHER -> 12000 * n + 8000

BucketPackages(buckets, tier) ==
  [i \in DOMAIN buckets |-> [bucket |-> buckets[i], tokens |-> BucketTokens(buckets[i], tier)]]

PackageCost(tokens) ==
  CASE tokens < 30000 -> "LIGHTWEIGHT" [] tokens < 100000 -> "MODERATE" [] OTHER -> "EXPENSIVE"

TotalTokens(r, tier, packages) ==
  Max({500, r.bytes \div 4})
    + (CASE tier = "MICRO" -> 3000 [] tier = "SMALL" -> 6000 [] OTHER -> 15000)
    + FoldLeft(LAMBDA sum, p : sum + p.tokens, 0, packages)

Recommendation(tokens) ==
  CASE tokens < 50000 -> "AUTO_EXECUTE"
    [] tokens < 200000 -> "RECOMMEND_EXECUTION"
    [] OTHER -> "REQUIRE_REVIEW"

\* The questions are returned with the plan and stored nowhere.
Questions(r, tier, scans) ==
  {q \in {"expand to parent", "build script"} :
     \/ q = "expand to parent" /\ \E s \in Surfaces(scans, DOMAIN scans) : scans[s[1]].parent
     \/ /\ q = "build script" /\ Found(r, "rtl") /\ ~ Found(r, "build")
        /\ tier \notin {"MICRO", "SMALL"}}

NothingPlanned ==
  [packages |-> << >>, buckets |-> {}, limit |-> 3, mode |-> "AUTO_EXECUTE",
   firmware |-> FALSE, questions |-> {}]

Synthesize(r, wish) ==
  LET tier == TierOf(r)
      depth == DepthOf(wish, tier)
      limit == TaskLimit(tier, depth)
      buckets == Applicable(r, tier, depth)
      scans == Scans(r)
      firmware == Surfaces(scans, DOMAIN scans) # {}
      packages == IF firmware THEN FirmwarePackages(scans, limit)
                  ELSE BucketPackages(Bounded(buckets, limit), tier)
  IN  IF Terminal(r) THEN NothingPlanned
      ELSE [packages |-> packages, buckets |-> buckets, limit |-> limit,
            mode |-> Recommendation(TotalTokens(r, tier, packages)),
            firmware |-> firmware, questions |-> Questions(r, tier, scans)]

-----------------------------------------------------------------------------
Proposals ==
  [packages : Seq([bucket : ToSet(Buckets), tokens : Nat]), buckets : SUBSET ToSet(Buckets),
   limit : Nat, mode : {"AUTO_EXECUTE", "RECOMMEND_EXECUTION", "REQUIRE_REVIEW"},
   firmware : BOOLEAN, questions : SUBSET {"expand to parent", "build script"}]
NoRelease == [times |-> 0, live |-> FALSE, launched |-> FALSE, wave |-> "FULL",
              whole |-> FALSE, packages |-> {}]

\* Every variable has its type.
PlanningTypeOK ==
  \A p \in DraftPlan :
    /\ proposal[p] \in Proposals
    /\ planStatus[p] \in {"ABSENT", "DRAFT", "ACTIVE", "REJECTED", "COMPLETED"}
    /\ package[p] \in Seq({"PROPOSED", "QUEUED", "HELD"})
    /\ Len(package[p]) <= Len(proposal[p].packages)
    /\ scoped[p] \in BOOLEAN /\ generating[p] \in BOOLEAN
    /\ release[p].times \in 0..MaxApprovals /\ release[p].packages \subseteq DOMAIN package[p]

PlanningInit ==
  /\ proposal = [p \in DraftPlan |-> NothingPlanned]
  /\ planStatus = [p \in DraftPlan |-> "ABSENT"]
  /\ package = [p \in DraftPlan |-> << >>]
  /\ scoped = [p \in DraftPlan |-> FALSE]
  /\ generating = [p \in DraftPlan |-> FALSE]
  /\ release = [p \in DraftPlan |-> NoRelease]

-----------------------------------------------------------------------------
(* generate_verification_plan.                                             *)

\* The plan is synthesized from the files and stored; a terminal one is done.
Generate(p, r, wish) ==
  /\ planStatus[p] = "ABSENT"
  /\ proposal' = [proposal EXCEPT ![p] = Synthesize(r, wish)]
  /\ planStatus' = [planStatus EXCEPT ![p] = IF Terminal(r) THEN "COMPLETED" ELSE "DRAFT"]
  /\ generating' = [generating EXCEPT ![p] = TRUE]
  /\ UNCHANGED <<package, scoped, release>>

SavePackage(p) ==
  /\ generating[p] /\ Len(package[p]) < Len(proposal[p].packages)
  /\ package' = [package EXCEPT ![p] = Append(@, "PROPOSED")]
  /\ UNCHANGED <<proposal, planStatus, scoped, generating, release>>

\* Mutant: the objectives are stored when only one package is missing.
ScopedEarly(p) == Len(package[p]) + 1 >= Len(proposal[p].packages)

PackagesStored(p) == Len(package[p]) = Len(proposal[p].packages)

\* All objectives in one transaction, after the last package.
StoreObjectives(p) ==
  /\ generating[p] /\ PackagesStored(p)
  /\ scoped' = [scoped EXCEPT ![p] = TRUE]
  /\ generating' = [generating EXCEPT ![p] = FALSE]
  /\ UNCHANGED <<proposal, planStatus, package, release>>

\* The process ends, or a transaction fails: what is stored stays.
LoseGeneration(p) ==
  /\ generating[p]
  /\ generating' = [generating EXCEPT ![p] = FALSE]
  /\ UNCHANGED <<proposal, planStatus, package, scoped, release>>

-----------------------------------------------------------------------------
(* approve_verification_plan and the release of the wave it asks for, in   *)
(* one turn of the event loop; the recommendation is not looked at.        *)

Affordable(p) ==
  {i \in DOMAIN package[p] : PackageCost(proposal[p].packages[i].tokens) # "EXPENSIVE"}

\* Of the packages stored by now the first three that are not expensive, else
\* the first two.
Recommended3(p) ==
  IF Affordable(p) # {}
  THEN {i \in Affordable(p) : Rank(i, Affordable(p)) < 3}
  ELSE DOMAIN package[p] \cap 1..2

Wave(p, wave) == IF wave = "RECOMMENDED" THEN Recommended3(p) ELSE DOMAIN package[p]

\* HELD is no status the packages' reader knows.
Readable(packages) == \A i \in DOMAIN packages : packages[i] # "HELD"

\* A terminal plan and a rejected one are released as well.  Where the first
\* reading fails no task is made, where the second one does the tasks are never
\* executed; the run is RUNNING in both cases.
ApproveDraft(p, wave) ==
  LET released == IF Readable(package[p]) THEN Wave(p, wave) ELSE {} IN
  /\ planStatus[p] # "ABSENT" /\ ~ release[p].live
  /\ release[p].times < MaxApprovals
  /\ planStatus' = [planStatus EXCEPT ![p] = "ACTIVE"]
  /\ package' = [package EXCEPT ![p] =
       IF Readable(@) THEN [i \in DOMAIN @ |-> IF i \in released THEN "QUEUED" ELSE "HELD"] ELSE @]
  /\ release' = [release EXCEPT ![p] =
       [times |-> @.times + 1, live |-> TRUE, launched |-> Readable(package'[p]),
        wave |-> wave, whole |-> scoped[p], packages |-> released]]
  /\ UNCHANGED <<proposal, scoped, generating>>

\* finalize_run completes the plan with its run.
FinishRelease(p) ==
  /\ release[p].live /\ release[p].launched
  /\ release' = [release EXCEPT ![p].live = FALSE]
  /\ planStatus' = [planStatus EXCEPT ![p] = "COMPLETED"]
  /\ UNCHANGED <<proposal, package, scoped, generating>>

\* reject_verification_plan: whatever the status was.
RejectPlan(p) ==
  /\ planStatus[p] # "ABSENT"
  /\ planStatus' = [planStatus EXCEPT ![p] = "REJECTED"]
  /\ UNCHANGED <<proposal, package, scoped, generating, release>>

PlanningNext ==
  \E p \in DraftPlan :
    \/ \E r \in Codebase, w \in Wish : Generate(p, r, w)
    \/ SavePackage(p) \/ StoreObjectives(p) \/ LoseGeneration(p)
    \/ \E wave \in {"FULL", "RECOMMENDED"} : ApproveDraft(p, wave)
    \/ FinishRelease(p) \/ RejectPlan(p)

PlanningSpec == PlanningInit /\ [][PlanningNext]_planningVars

-----------------------------------------------------------------------------
(* Properties.                                                             *)

\* What an approval releases is what the plan says, though the packages are
\* stored one by one while it may come at any time: once the plan's objectives
\* are stored, the readable packages of wave FULL are released whole, never more
\* of them than the tier's hard limit, each, outside firmware, for a bucket the
\* plan calls applicable; a wave RECOMMENDED takes an expensive package only
\* where it has no other; and only a plan with nothing to analyze releases
\* nothing (supervisor.py, orchestrator.py:activate_verification_plan).
ReleasedAsPlanned ==
  \A p \in DraftPlan :
    LET packages == proposal[p].packages
        r == release[p]
    IN  r.whole /\ r.launched =>
          /\ r.wave = "FULL" => r.packages = DOMAIN packages
          /\ Cardinality(r.packages) <= proposal[p].limit
          /\ \A i \in r.packages : proposal[p].firmware \/ packages[i].bucket \in proposal[p].buckets
          /\ r.wave = "RECOMMENDED" /\ (\E i \in r.packages : PackageCost(packages[i].tokens) = "EXPENSIVE")
               => \A i \in DOMAIN packages : PackageCost(packages[i].tokens) = "EXPENSIVE"
          /\ r.packages = {} => proposal[p].buckets = {}
=============================================================================
