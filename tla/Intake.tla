------------------------------- MODULE Intake -------------------------------
(***************************************************************************)
(* The target repository and the report on what can be analysed in it:     *)
(* api/routers/repository.py over repository_intelligence/, and the        *)
(* questions a report puts to the analyst (api/routers/questions.py).      *)
(*                                                                         *)
(* A report scans the tree twice, itself and through the service that      *)
(* stores what it sees, each time under a new snapshot id.  POST analyze,  *)
(* a selection and everything done to questions run on the event loop, one *)
(* at a time; a GET runs its report on a thread beside them.               *)
(***************************************************************************)
EXTENDS Integers, Sequences, FiniteSets

CONSTANTS
  RepoPath,      \* directories under the allowed roots
  Inspector,     \* requests for a report
  QuestionPage,  \* newest pending questions a report looks through
  MaxQuestions,  \* bound: questions
  MaxDecisions,  \* bound: questions that are not pending
  MaxChanges,    \* bound: changes of the trees
  NoPath

ASSUME IntakeAssumption ==
  /\ NoPath \notin RepoPath
  /\ {QuestionPage, MaxQuestions, MaxDecisions, MaxChanges} \subseteq Nat

VARIABLES
  tree,       \* whether a directory is there and a file of it has content
  changes,
  inspector,  \* a report's place and what it holds
  stored,     \* reports whose second scan has stored its units
  question    \* the questions in the order of their creation

intakeVars == <<tree, changes, inspector, stored, question>>

Tree == {"absent", "empty", "content"}

Reporting == {"scan", "store", "pending", "ask"}

\* Every variable has its type.
IntakeTypeOK ==
  /\ tree \in [RepoPath -> Tree] /\ changes \in 0..MaxChanges
  /\ inspector \in [Inspector ->
       [at : Reporting \cup {"none", "done", "failed"}, onLoop : BOOLEAN,
        path : RepoPath \cup {NoPath}, seen : Tree,
        asked : 0..MaxQuestions, saw : SUBSET (1..MaxQuestions)]]
  /\ stored \subseteq Inspector
  /\ question \in Seq([path : RepoPath \cup {NoPath},
                       status : {"QUESTION_PENDING", "QUESTION_ANSWERED", "QUESTION_DISMISSED"},
                       saw : SUBSET (1..MaxQuestions), after : 0..MaxQuestions])
  /\ Len(question) <= MaxQuestions

IntakeInit ==
  /\ tree = [d \in RepoPath |-> "empty"] /\ changes = 0
  /\ inspector = [i \in Inspector |->
       [at |-> "none", onLoop |-> FALSE, path |-> NoPath, seen |-> "absent",
        asked |-> 0, saw |-> {}]]
  /\ stored = {} /\ question = <<>>

ChangeTree(d, content) ==
  /\ changes < MaxChanges /\ tree[d] # content
  /\ tree' = [tree EXCEPT ![d] = content]
  /\ changes' = changes + 1
  /\ UNCHANGED <<inspector, stored, question>>

-----------------------------------------------------------------------------
\* The report, if any, that the event loop is working on.
LoopFree == \A i \in Inspector : inspector[i].onLoop => inspector[i].at \notin Reporting

-----------------------------------------------------------------------------
(* _build_repository_capability_report.                                    *)

Move(i, place) == inspector' = [inspector EXCEPT ![i].at = place]

\* POST analyze, of the path given or of the current target.
AnalyzeRepository(i, d) ==
  /\ inspector[i].at = "none" /\ LoopFree
  /\ inspector' = [inspector EXCEPT ![i].at = "scan", ![i].onLoop = TRUE, ![i].path = d]
  /\ UNCHANGED <<tree, changes, stored, question>>

\* GET overview and GET by id: the current target, a recent one or a directory.
ViewRepository(i, d) ==
  /\ inspector[i].at = "none"
  /\ inspector' = [inspector EXCEPT ![i].at = "scan", ![i].path = d]
  /\ UNCHANGED <<tree, changes, stored, question>>

\* A directory that is not there is refused.
ScanTree(i) ==
  LET found == tree[inspector[i].path] IN
  /\ inspector[i].at = "scan"
  /\ IF found = "absent"
       THEN Move(i, "failed")
       ELSE inspector' = [inspector EXCEPT ![i].at = "store", ![i].seen = found]
  /\ UNCHANGED <<tree, changes, stored, question>>

\* The rows of a unit, which carry the id of the scan that made it.
SaveUnits(i) == stored' = stored \cup {i}

\* scan_repository scans again and stores what it sees under the id of its own
\* snapshot, where the report, which asks for its first scan's, does not find it;
\* an error on the way is swallowed.
StoreScan(i) ==
  /\ inspector[i].at = "store"
  /\ Move(i, IF inspector[i].seen = "empty" THEN "pending" ELSE "done")
  /\ \/ UNCHANGED stored
     \/ tree[inspector[i].path] # "absent" /\ SaveUnits(i)
  /\ UNCHANGED <<tree, changes, question>>

Pending == {k \in DOMAIN question : question[k].status = "QUESTION_PENDING"}

\* Mutant: the page is cut before the status is looked at.
NewestOfAll(ks) == {k \in ks : Cardinality({m \in DOMAIN question : m > k}) < QuestionPage}

\* What list_questions returns of the rows ks, with its limit.
Newest(ks) == {k \in ks : Cardinality({m \in ks : m > k}) < QuestionPage}

\* The newest question about this directory among those on the page.
FindPending(i) ==
  LET about == {k \in Newest(Pending) : question[k].path = inspector[i].path} IN
  /\ inspector[i].at = "pending"
  /\ \/ /\ about = {}
        /\ inspector' = [inspector EXCEPT ![i].at = "ask", ![i].saw = Pending,
                                          ![i].asked = Len(question)]
     \/ \E k \in about :
          /\ \A m \in about : m <= k
          /\ inspector' = [inspector EXCEPT ![i].at = "done", ![i].asked = k]
  /\ UNCHANGED <<tree, changes, stored, question>>

Asking(d, saw, after) ==
  /\ Len(question) < MaxQuestions
  /\ question' = Append(question, [path |-> d, saw |-> saw,
                                   after |-> after, status |-> "QUESTION_PENDING"])

AskWhatToDo(i) ==
  /\ inspector[i].at = "ask"
  /\ Asking(inspector[i].path, inspector[i].saw, inspector[i].asked)
  /\ inspector' = [inspector EXCEPT ![i].at = "done", ![i].asked = Len(question'), ![i].saw = {}]
  /\ UNCHANGED <<tree, changes, stored>>

-----------------------------------------------------------------------------
(* Questions, of reports and of others.                                    *)

CreateQuestion ==
  /\ LoopFree
  /\ Asking(NoPath, {}, 0)
  /\ UNCHANGED <<tree, changes, inspector, stored>>

Dispose(k, status) ==
  /\ question' = [question EXCEPT ![k].status = status]
  /\ Cardinality({m \in DOMAIN question : question'[m].status # "QUESTION_PENDING"}) <= MaxDecisions
  /\ UNCHANGED <<tree, changes, inspector, stored>>

AnswerQuestion(k) ==
  /\ LoopFree /\ question[k].status # "QUESTION_ANSWERED"
  /\ Dispose(k, "QUESTION_ANSWERED")

\* Whatever its status.
DismissQuestion(k) == LoopFree /\ Dispose(k, "QUESTION_DISMISSED")

IntakeNext ==
  \/ \E d \in RepoPath :
       \/ \E content \in Tree : ChangeTree(d, content)
       \/ \E i \in Inspector : AnalyzeRepository(i, d) \/ ViewRepository(i, d)
  \/ \E i \in Inspector :
       \/ ScanTree(i) \/ StoreScan(i)
       \/ FindPending(i) \/ AskWhatToDo(i)
  \/ CreateQuestion
  \/ \E k \in DOMAIN question : AnswerQuestion(k) \/ DismissQuestion(k)

IntakeSpec == IntakeInit /\ [][IntakeNext]_intakeVars

-----------------------------------------------------------------------------
\* The analyst is asked about a directory again, while a question about it is
\* pending, only by reports that were looking at the same time or when newer
\* questions fill the page; a report about an empty tree ends with a question
\* about its own directory, and one about content with none.
AskedInTurn ==
  /\ \A j, k \in DOMAIN question :
       (j < k /\ question[j].path = question[k].path /\ question[j].path # NoPath
          /\ question[j].status = "QUESTION_PENDING") =>
         \/ j > question[k].after
         \/ Cardinality({m \in question[k].saw : m > j}) >= QuestionPage
  /\ \A i \in Inspector : inspector[i].at = "done" =>
       IF inspector[i].seen = "empty"
         THEN inspector[i].asked \in DOMAIN question
              /\ question[inspector[i].asked].path = inspector[i].path
         ELSE inspector[i].asked = 0
=============================================================================
