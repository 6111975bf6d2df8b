---------------------------- MODULE Identifiers ----------------------------
(***************************************************************************)
(* Display ids (history/id_service.py) and the requests that hand them out *)
(* lazily: lists and details of evidence, findings and tasks give a row    *)
(* without a display id the next number of its project and kind, and link  *)
(* evidence of equal hash to the oldest such row.                          *)
(*                                                                         *)
(* A request works from the rows it fetched when it began.  The greatest   *)
(* number is read outside a transaction (SelectSequence) and written back, *)
(* with the row, in one (InsertSequence).                                  *)
(***************************************************************************)
EXTENDS Integers, Sequences, FiniteSets, Functions

CONSTANTS
  IdProject,
  Row,          \* rows of the tables evidence, findings and tasks
  KindOf,       \* KindOf[r]: entity type of the row
  OwnerOf,      \* OwnerOf[r]: project of the row
  AgeOf,        \* AgeOf[r]: place of r by timestamp, the oldest first
  HashOf,       \* HashOf[r]: raw_hash as a number, 0 for none
  LinkedTo,     \* LinkedTo[f]: the evidence of finding f
  Requester,    \* threads that serve requests
  MaxSequence,  \* bound: no request begins once a sequence is this long
  NoRow

EntityKinds == {"EVI", "VUL", "TASK"}

ASSUME RowsAssumption ==
  /\ IsFiniteSet(Row) /\ IsFiniteSet(IdProject)
  /\ KindOf \in [Row -> EntityKinds]
  /\ OwnerOf \in [Row -> IdProject]
  /\ AgeOf \in [Row -> Nat]
  /\ \A r, s \in Row : AgeOf[r] = AgeOf[s] => r = s
  /\ LinkedTo \in [Row -> SUBSET Row]
  /\ \A f \in Row : \A r \in LinkedTo[f] : KindOf[r] = "EVI" /\ OwnerOf[r] = OwnerOf[f]
  /\ NoRow \notin Row
  /\ MaxSequence \in Nat

VARIABLES
  globalSeq,  \* last_sequence of ('__GLOBAL__', 'PROJECT')
  projectNo,  \* projects.display_id as its number, 0 for none
  lastSeq,    \* project_id_sequences.last_sequence, 0 for no row
  displayId,  \* display_id of a row: <<project number, kind, number>> or << >>
  dupOf,      \* evidence.duplicate_of_id: a display id, <<row>> or << >>
  request     \* what a thread has left to do, and what it has read

idVars == <<globalSeq, projectNo, lastSeq, displayId, dupOf, request>>

Unset == << >>
DisplayIds == Nat \X EntityKinds \X Nat
NoRead == [row |-> NoRow, project |-> 0, number |-> 0]
NoRequest == [op |-> "none", todo |-> << >>, read |-> NoRead, busy |-> FALSE]

\* Every variable has its type.
IdTypeOK ==
  /\ globalSeq \in Nat
  /\ projectNo \in [IdProject -> Nat]
  /\ lastSeq \in [IdProject \X EntityKinds -> Nat]
  /\ displayId \in [Row -> DisplayIds \cup {Unset}]
  /\ \A r \in Row : dupOf[r] \in DisplayIds \cup {<<s>> : s \in Row} \cup {Unset}
  /\ \A w \in Requester :
       /\ request[w].op \in {"none", "list", "get"}
       /\ request[w].read.row \in Row \cup {NoRow}

IdInit ==
  /\ globalSeq = 0
  /\ projectNo = [p \in IdProject |-> 0]
  /\ lastSeq = [k \in IdProject \X EntityKinds |-> 0]
  /\ displayId = [r \in Row |-> Unset]
  /\ dupOf = [r \in Row |-> Unset]
  /\ request = [w \in Requester |-> NoRequest]

-----------------------------------------------------------------------------
(* Rows and their order.                                                   *)

Newer(r, s) == AgeOf[r] > AgeOf[s]

\* Mutant: the query for a duplicate has no condition on the timestamp.
EarlierOrLater(r) ==
  {s \in Row \ {r} : /\ KindOf[s] = "EVI" /\ OwnerOf[s] = OwnerOf[r]
                     /\ HashOf[r] # 0 /\ HashOf[s] = HashOf[r]}

\* The oldest earlier evidence of the project with the hash of r, if any.
Earlier(r) ==
  {s \in Row : /\ KindOf[s] = "EVI" /\ OwnerOf[s] = OwnerOf[r]
               /\ HashOf[r] # 0 /\ HashOf[s] = HashOf[r] /\ Newer(r, s)}
Prior(r) ==
  IF Earlier(r) = {} THEN NoRow
  ELSE CHOOSE s \in Earlier(r) : \A u \in Earlier(r) : ~ Newer(s, u)

\* What a request does for one row: name it, then look for a duplicate.  The
\* row's columns are those of the request's own copy.
Naming(r) == [row |-> r, part |-> "name", done |-> displayId[r] # Unset]
Linking(r) == [row |-> r, part |-> "link", done |-> dupOf[r] # Unset]
Visit(r) == IF KindOf[r] = "EVI" THEN <<Naming(r), Linking(r)>> ELSE <<Naming(r)>>

\* The rows of S, the newest first: no two are of the same age.
NewestFirst(S) ==
  {q \in [1..Cardinality(S) -> S] : \A i, j \in DOMAIN q : i < j => Newer(q[i], q[j])}
\* The visits to rows of one kind, one row after the other.
Visits(rows, k) ==
  LET each == IF k = "EVI" THEN 2 ELSE 1
  IN  [n \in 1..each * Len(rows) |-> Visit(rows[1 + ((n - 1) \div each)])[1 + ((n - 1) % each)]]

-----------------------------------------------------------------------------
(* Requests.                                                               *)

Begin(w, op, todo) ==
  /\ request[w] = NoRequest
  /\ \A k \in DOMAIN lastSeq : lastSeq[k] < MaxSequence
  /\ request' = [request EXCEPT ![w].op = op, ![w].todo = todo]
  /\ UNCHANGED <<globalSeq, projectNo, lastSeq, displayId, dupOf>>

\* list_evidence, list_findings, list_tasks: the rows of a project, newest
\* first, each from the copy that one SELECT returned.
ListRows(w, p, k) ==
  \E rows \in NewestFirst({r \in Row : OwnerOf[r] = p /\ KindOf[r] = k}) :
    rows # << >> /\ Begin(w, "list", Visits(rows, k))

\* get_evidence, the detail of a task.
GetRow(w, r) == KindOf[r] # "VUL" /\ Begin(w, "get", Visit(r))

\* get_finding: then the linked evidence, fetched after the finding is named.
GetFinding(w, f) ==
  /\ KindOf[f] = "VUL"
  /\ Begin(w, "get", <<Naming(f), [row |-> f, part |-> "evidence", done |-> FALSE]>>)

Item(w) == Head(request[w].todo)
InProgress(w) == request[w].todo # << >> /\ ~ request[w].busy
Rest(w) == Tail(request[w].todo)
Finish(w, todo) ==
  request' = [request EXCEPT ![w] = IF todo = << >> THEN NoRequest
                                    ELSE [@ EXCEPT !.todo = todo, !.busy = FALSE,
                                                   !.read = NoRead]]

\* The row that needs a number now, if the item at hand needs one.  An evidence
\* detail quotes the older row's own key instead of naming it.
Nameless(w) ==
  LET i == Item(w) IN
  IF i.done THEN {}
  ELSE CASE i.part = "name" -> {i.row}
         [] i.part = "spare" -> {NoRow}
         [] i.part = "link" ->
              {s \in {Prior(i.row)} \ {NoRow} :
                 displayId[s] = Unset /\ request[w].op = "list"}
         [] OTHER -> {}

Holder(w) == OwnerOf[Item(w).row]
HolderKind(w) ==
  IF request[w].read.row = NoRow THEN "EVI" ELSE KindOf[request[w].read.row]

\* allocate_display_id, its SELECTs: the project's number, or the greatest one
\* given to a project; the greatest number of the kind.
SelectSequence(w) ==
  /\ InProgress(w)
  /\ \E r \in Nameless(w) :
       LET k == IF r = NoRow THEN "EVI" ELSE KindOf[r]
           p == Holder(w)
       IN  request' = [request EXCEPT ![w].busy = TRUE, ![w].read =
             [row |-> r, project |-> projectNo[p],
              number |-> IF projectNo[p] = 0 THEN globalSeq ELSE lastSeq[<<p, k>>]]]
  /\ UNCHANGED <<globalSeq, projectNo, lastSeq, displayId, dupOf>>

\* allocate_display_id, its writes, and the UPDATE of the row that follows in
\* the same transaction.  A project without a number gets one first, and then
\* the number of the kind is read inside the transaction.
InsertSequence(w) ==
  LET read == request[w].read
      p == Holder(w)
      key == <<p, HolderKind(w)>>
      named == read.project # 0
      no == IF named THEN read.project ELSE read.number + 1
      n == 1 + (IF named THEN read.number ELSE lastSeq[key])
      id == <<no, key[2], n>>
  IN  /\ request[w].busy
      /\ globalSeq' = IF named THEN globalSeq ELSE no
      /\ projectNo' = [projectNo EXCEPT ![p] = no]
      /\ lastSeq' = [lastSeq EXCEPT ![key] = n]
      /\ displayId' = [r \in Row |-> IF r = read.row THEN id ELSE displayId[r]]
      /\ dupOf' = IF Item(w).part = "link"
                  THEN [dupOf EXCEPT ![Item(w).row] = id] ELSE dupOf
      /\ Finish(w, Rest(w))

\* The older row has its id already, or is quoted by its key.
LinkDuplicate(w) ==
  /\ InProgress(w) /\ Item(w).part = "link" /\ ~ Item(w).done
  /\ Nameless(w) = {}
  /\ LET s == Prior(Item(w).row)
     IN  /\ s # NoRow
         /\ dupOf' = [dupOf EXCEPT ![Item(w).row] =
                        IF displayId[s] # Unset THEN displayId[s] ELSE <<s>>]
  /\ Finish(w, Rest(w))
  /\ UNCHANGED <<globalSeq, projectNo, lastSeq, displayId>>

\* get_finding fetches the evidence of the finding; with none it takes a number
\* that no row ever shows.
FetchEvidence(w) ==
  /\ InProgress(w) /\ Item(w).part = "evidence"
  /\ \E linked \in NewestFirst(LinkedTo[Item(w).row]) :
       Finish(w, IF linked = << >>
                 THEN <<[row |-> Item(w).row, part |-> "spare", done |-> FALSE]>>
                 ELSE [i \in DOMAIN linked |-> Naming(linked[i])])
  /\ UNCHANGED <<globalSeq, projectNo, lastSeq, displayId, dupOf>>

\* Nothing to do for the item at hand.
NextRow(w) ==
  /\ InProgress(w) /\ Item(w).part \in {"name", "link"}
  /\ Item(w).done \/ (Item(w).part = "link" /\ Prior(Item(w).row) = NoRow)
  /\ Finish(w, Rest(w))
  /\ UNCHANGED <<globalSeq, projectNo, lastSeq, displayId, dupOf>>

-----------------------------------------------------------------------------
(* run_database_schema_and_id_migration: one transaction over all tables.  \*)
(* Nothing in the repository calls it: it is run by hand, while no request *)
(* is served.                                                              *)

\* Mutant: the first row of the migration gets the number given last.
PositionFromZero(r, rows) == Cardinality({s \in rows : Newer(r, s)})

Position(r, rows) == Cardinality({s \in rows : ~ Newer(s, r)})

Migrate ==
  LET bare == {r \in Row : displayId[r] = Unset}
      new == {p \in IdProject : projectNo[p] = 0}
      Peers(r) == {s \in bare : OwnerOf[s] = OwnerOf[r] /\ KindOf[s] = KindOf[r]}
  IN  /\ \A w \in Requester : request[w] = NoRequest
      /\ bare # {} \/ new # {}
      /\ \E order \in Bijection(new, 1..Cardinality(new)) :
           projectNo' = [p \in IdProject |->
             IF p \in new THEN globalSeq + order[p] ELSE projectNo[p]]
      /\ globalSeq' = globalSeq + Cardinality(new)
      /\ lastSeq' = [k \in DOMAIN lastSeq |->
           lastSeq[k] + Cardinality({r \in bare : <<OwnerOf[r], KindOf[r]>> = k})]
      /\ displayId' = [r \in Row |->
           IF r \in bare
           THEN <<projectNo'[OwnerOf[r]], KindOf[r],
                  lastSeq[<<OwnerOf[r], KindOf[r]>>] + Position(r, Peers(r))>>
           ELSE displayId[r]]
      /\ dupOf' = [r \in Row |->
           CASE KindOf[r] # "EVI" -> dupOf[r]
             [] Prior(r) # NoRow /\ (r \in bare \/ dupOf[r] = Unset) -> displayId'[Prior(r)]
             [] Prior(r) = NoRow /\ r \in bare -> Unset
             [] OTHER -> dupOf[r]]
      /\ UNCHANGED request

IdNext ==
  \/ \E w \in Requester :
       \/ \E p \in IdProject, k \in EntityKinds : ListRows(w, p, k)
       \/ \E r \in Row : GetRow(w, r) \/ GetFinding(w, r)
       \/ SelectSequence(w) \/ InsertSequence(w) \/ LinkDuplicate(w)
       \/ FetchEvidence(w) \/ NextRow(w)
  \/ Migrate

IdSpec == IdInit /\ [][IdNext]_idVars

-----------------------------------------------------------------------------
(* Properties.                                                             *)

\* Two rows never show the same display id: history/id_service.py gives every
\* row of a project and kind a number of its own.  With one thread it does.
UniqueDisplayIds ==
  \A r, s \in Row : r # s /\ displayId[r] # Unset => displayId[r] # displayId[s]

\* Evidence is only ever called a duplicate of an older row of its project with
\* its hash, whether a list, a detail or the migration linked it, and whatever
\* number that row has been given since.
DuplicatesPointBack ==
  \A r, s \in Row :
    dupOf[r] \in {displayId[s], <<s>>} \ {Unset} =>
      KindOf[s] = "EVI" /\ HashOf[s] = HashOf[r] /\ AgeOf[s] < AgeOf[r]

\* A display id is persistent: once a row has one it keeps it (the head of
\* history/id_service.py, "Persistent Hierarchical Project-Local Identifier").
DisplayIdsPersist ==
  [][\A r \in Row : displayId[r] # Unset => displayId'[r] = displayId[r]]_displayId
=============================================================================
