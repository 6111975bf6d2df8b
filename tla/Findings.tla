------------------------------ MODULE Findings ------------------------------
(***************************************************************************)
(* Findings, the versions of their reproducers and the verdicts on them    *)
(* (api/routers/findings.py, ReproducerVersionRepository).                 *)
(*                                                                         *)
(* The dossier is a `def` endpoint and runs in a thread of its own; the    *)
(* other handlers run on the event loop and do not await between their     *)
(* transactions.  The process may stop between any two transactions.       *)
(***************************************************************************)
EXTENDS Integers, FiniteSets

CONSTANTS
  Finding,
  Reader,       \* threads that serve dossiers
  MaxVersions,  \* bound: handlers add no version beyond this number
  NoFinding

ASSUME FindingsAssumption == MaxVersions \in Nat /\ NoFinding \notin Finding

VARIABLES
  finding,   \* findings: state, validation_state, reproducer_state
  version,   \* reproducer_versions: version_number -> status
  verdicts,  \* validation_results: the pairs finding_id, reproducer_id
  dossier,   \* a reader's finding and what it has read of its versions
  handler    \* the handler on the event loop between two transactions

findingVars == <<finding, version, verdicts, dossier, handler>>

FindingStates == {"ABSENT", "OPEN", "CONFIRMED"}
VersionStatuses == {"DRAFT", "REPRODUCED", "VALIDATED"}
Versions == Finding \X Nat
Absent == [state |-> "ABSENT", validation |-> "NULL", reproducer |-> "NULL"]
NoDossier == [of |-> NoFinding, count |-> 0]
NoHandler == [step |-> "none", id |-> <<NoFinding, 0>>, count |-> 0]

\* Every variable has its type.
FindingTypeOK ==
  /\ finding \in [Finding -> [state : FindingStates, validation : {"NULL", "VALIDATED"},
                              reproducer : {"NULL", "DRAFT"}]]
  /\ DOMAIN version = Finding
  /\ \A f \in Finding : /\ DOMAIN version[f] \subseteq 1..MaxVersions
                        /\ \A n \in DOMAIN version[f] : version[f][n] \in VersionStatuses
  /\ verdicts \subseteq Versions
  /\ dossier \in [Reader -> [of : Finding \cup {NoFinding}, count : (-1)..MaxVersions]]
  /\ handler.step \in {"none", "generate", "validate"}

FindingInit ==
  /\ finding = [f \in Finding |-> Absent]
  /\ version = [f \in Finding |-> [n \in {} |-> "DRAFT"]]
  /\ verdicts = {}
  /\ dossier = [r \in Reader |-> NoDossier]
  /\ handler = NoHandler

Numbers(f) == DOMAIN version[f]
Count(f) == Cardinality(Numbers(f))
Put(f, n, s) ==
  version' = [version EXCEPT ![f] = [k \in Numbers(f) \cup {n} |-> IF k = n THEN s ELSE @[k]]]

\* Mutant: an upsert of the state, in place of the replacement of the row.
RecordFindingState(f) ==
  /\ handler = NoHandler
  /\ \E s \in {"OPEN", "CONFIRMED"} : finding' = [finding EXCEPT ![f].state = s]
  /\ UNCHANGED <<version, verdicts, dossier, handler>>

\* The orchestrator's INSERT OR REPLACE: a reproducer that exits with 0
\* confirms, and the columns the statement does not name become NULL.
RecordFinding(f) ==
  /\ handler = NoHandler
  /\ \E s \in {"OPEN", "CONFIRMED"} : finding' = [finding EXCEPT ![f] = [Absent EXCEPT !.state = s]]
  /\ UNCHANGED <<version, verdicts, dossier, handler>>

\* Mutant: the number is counted up twice.
InsertVersionTwice(f, n) ==
  /\ Put(f, n + 1, "DRAFT")
  /\ UNCHANGED finding

\* save_version, the INSERT: the key <finding>-poc-v<n> is unique, so that a
\* number already taken fails; with it findings.reproducer_state.
InsertVersion(f, n) ==
  IF n \in Numbers(f) THEN UNCHANGED <<finding, version>>
  ELSE /\ Put(f, n, "DRAFT")
       /\ finding' = IF finding[f].state = "ABSENT" THEN finding
                     ELSE [finding EXCEPT ![f].reproducer = "DRAFT"]

\* get_finding_dossier finds no version, and counts them in save_version.
OpenDossier(r, f) ==
  /\ dossier[r] = NoDossier /\ finding[f].state # "ABSENT"
  /\ Count(f) = 0
  /\ dossier' = [dossier EXCEPT ![r] = [of |-> f, count |-> -1]]
  /\ UNCHANGED <<finding, version, verdicts, handler>>

CountForDossier(r) ==
  /\ dossier[r].count = -1 /\ Count(dossier[r].of) < MaxVersions
  /\ dossier' = [dossier EXCEPT ![r].count = Count(dossier[r].of)]
  /\ UNCHANGED <<finding, version, verdicts, handler>>

SeedDossier(r) ==
  /\ dossier[r].of # NoFinding /\ dossier[r].count >= 0
  /\ InsertVersion(dossier[r].of, dossier[r].count + 1)
  /\ dossier' = [dossier EXCEPT ![r] = NoDossier]
  /\ UNCHANGED <<verdicts, handler>>

\* generate_finding_poc: the COUNT and the INSERT of save_version.  The finding
\* need not exist.
CountVersions(f) ==
  /\ handler = NoHandler /\ Count(f) < MaxVersions
  /\ handler' = [step |-> "generate", id |-> <<f, 0>>, count |-> Count(f)]
  /\ UNCHANGED <<finding, version, verdicts, dossier>>

GenerateVersion ==
  /\ handler.step = "generate"
  /\ InsertVersion(handler.id[1], handler.count + 1)
  /\ handler' = NoHandler
  /\ UNCHANGED <<verdicts, dossier>>

\* update_version: a version that is not there is not an error.
UpdateVersion(id, s) ==
  IF id[2] \in Numbers(id[1]) THEN Put(id[1], id[2], s) ELSE UNCHANGED version

\* execute_finding_poc: its outcome is always REPRODUCED.
ExecuteVersion(id) ==
  /\ handler = NoHandler
  /\ UpdateVersion(id, "REPRODUCED")
  /\ UNCHANGED <<finding, verdicts, dossier, handler>>

\* Mutant: the verdict is left for after the version.
RecordVerdictLast(f, id) ==
  /\ handler = NoHandler
  /\ finding' = IF finding[f].state = "ABSENT" THEN finding
                ELSE [finding EXCEPT ![f].state = "CONFIRMED", ![f].validation = "VALIDATED"]
  /\ handler' = [step |-> "validate", id |-> id, count |-> 0]
  /\ UNCHANGED <<version, verdicts, dossier>>

\* validate_finding_poc, first transaction: the verdict and the finding.  The
\* version need not be one of the finding, nor exist, nor have been executed.
RecordVerdict(f, id) ==
  /\ handler = NoHandler
  /\ verdicts' = verdicts \cup {id}
  /\ finding' = IF finding[f].state = "ABSENT" THEN finding
                ELSE [finding EXCEPT ![f].state = "CONFIRMED", ![f].validation = "VALIDATED"]
  /\ handler' = [step |-> "validate", id |-> id, count |-> 0]
  /\ UNCHANGED <<version, dossier>>

\* ... second transaction: the version.
ValidateVersion ==
  /\ handler.step = "validate"
  /\ UpdateVersion(handler.id, "VALIDATED")
  /\ handler' = NoHandler
  /\ UNCHANGED <<finding, verdicts, dossier>>

\* The process ends; every open request ends with it.
StopServer ==
  /\ handler # NoHandler \/ \E r \in Reader : dossier[r] # NoDossier
  /\ handler' = NoHandler
  /\ dossier' = [r \in Reader |-> NoDossier]
  /\ UNCHANGED <<finding, version, verdicts>>

FindingNext ==
  \/ \E f \in Finding :
       \/ RecordFinding(f) \/ CountVersions(f)
       \/ \E n \in 1..MaxVersions :
            ExecuteVersion(<<f, n>>) \/ \E g \in Finding : RecordVerdict(g, <<f, n>>)
       \/ \E r \in Reader : OpenDossier(r, f)
  \/ \E r \in Reader : CountForDossier(r) \/ SeedDossier(r)
  \/ GenerateVersion \/ ValidateVersion \/ StopServer

FindingSpec == FindingInit /\ [][FindingNext]_findingVars

-----------------------------------------------------------------------------
(* Properties.                                                             *)

\* The versions of a finding are numbered 1, 2, ... without a gap: a number is
\* counted outside the transaction that inserts it, and of two handlers with
\* the same count one fails (save_version).
VersionsContiguous == \A f \in Finding : Numbers(f) = 1..Count(f)

\* A VALIDATED version has a verdict that names it, also when the process ends
\* between the two transactions of validate_finding_poc.
VerdictBeforeVersion ==
  \A f \in Finding : \A n \in Numbers(f) :
    version[f][n] = "VALIDATED" => <<f, n>> \in verdicts

\* A finding whose validation_state is VALIDATED is CONFIRMED, although a
\* re-run records it again as OPEN: the replacement clears validation_state.
ValidatedIsConfirmed ==
  \A f \in Finding : finding[f].validation = "VALIDATED" => finding[f].state = "CONFIRMED"
=============================================================================
