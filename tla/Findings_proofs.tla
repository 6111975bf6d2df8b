-------------------------- MODULE Findings_proofs ---------------------------
(***************************************************************************)
(* What holds of display ids, of findings, of the verdicts on their        *)
(* reproducers and of the tasks of the analyst's workbench, for every set  *)
(* of them.                                                                *)
(***************************************************************************)
EXTENDS Identifiers, Findings, Validation, Workbench, FiniteSetTheorems,
        WellFoundedInduction, TLAPS

-----------------------------------------------------------------------------
(***************************************************************************)
(* Display ids, for every set of rows, of projects and of requesters.      *)
(***************************************************************************)
USE RowsAssumption

(* Rows and their order.                                                   *)

\* A finite set of rows has an oldest one.
LEMMA Oldest ==
  ASSUME NEW S \in SUBSET Row, S # {}
  PROVE  \E s \in S : \A u \in S : ~ Newer(s, u)
<1> DEFINE Older(m) == {u \in S : AgeOf[u] <= AgeOf[m]}
           Olders == {Older(m) : m \in S}
<1>1. IsFiniteSet(S) /\ \A u \in S : AgeOf[u] \in Nat
  BY FS_Subset
<1>2. \A m \in S : Older(m) \subseteq S /\ IsFiniteSet(Older(m))
  BY <1>1, FS_Subset
<1>3. Olders \subseteq FiniteSubsetsOf(S) /\ Olders # {}
  <2>1. FiniteSubsetsOf(S) = SUBSET S
    BY <1>1, FS_FiniteSubsetsOfFinite
  <2>2. ASSUME NEW R \in Olders PROVE R \subseteq S
    OBVIOUS
  <2>3. PICK m \in S : TRUE
    OBVIOUS
  <2>4. Older(m) \in Olders
    BY <2>3
  <2> HIDE DEF Olders, Older
  <2> QED BY <2>1, <2>2, <2>4, Zenon
<1>4. PICK T \in Olders : \A R \in Olders : <<R, T>> \notin StrictSubsetOrdering(S)
  <2>1. IsWellFoundedOn(StrictSubsetOrdering(S), FiniteSubsetsOf(S))
    BY FS_StrictSubsetOrderingWellFounded
  <2> QED BY <1>3, <2>1, WFMin
<1>5. PICK m \in S : T = Older(m)
  BY <1>4
<1>6. ASSUME NEW u \in S, AgeOf[u] < AgeOf[m] PROVE FALSE
  <2>1. Older(u) \subseteq Older(m) /\ m \in Older(m) /\ m \notin Older(u)
    BY <1>1, <1>6
  <2>2. <<Older(u), Older(m)>> \in StrictSubsetOrdering(S)
    BY <2>1 DEF StrictSubsetOrdering
  <2> QED BY <1>4, <1>5, <2>2
<1> QED BY <1>1, <1>6 DEF Newer

LEMMA PriorIsEarlier ==
  ASSUME NEW r \in Row, Prior(r) # NoRow
  PROVE  Prior(r) \in Earlier(r) /\ Prior(r) \in Row
<1>1. Earlier(r) # {} /\ Earlier(r) \in SUBSET Row
  BY DEF Prior, Earlier
<1>2. \E s \in Earlier(r) : \A u \in Earlier(r) : ~ Newer(s, u)
  BY <1>1, Oldest
<1>3. Prior(r) = CHOOSE s \in Earlier(r) : \A u \in Earlier(r) : ~ Newer(s, u)
  BY <1>1, Zenon DEF Prior
<1> QED BY <1>1, <1>2, <1>3, Zenon

\* A key, a display id and no id at all are told apart.
LEMMA KeysAreNoIds ==
  ASSUME NEW s, NEW d \in DisplayIds
  PROVE  <<s>> # d /\ <<s>> # Unset /\ d # Unset
<1>1. PICK a \in Nat, k \in EntityKinds, n \in Nat : d = <<a, k, n>>
  BY DEF DisplayIds
<1>2. Len(<<a, k, n>>) = 3 /\ Len(<<s>>) = 1 /\ Len(<< >>) = 0
  OBVIOUS
<1> QED BY <1>1, <1>2 DEF Unset

-----------------------------------------------------------------------------
(* Types.                                                                  *)

NameItems == [row : Row, part : {"name", "link", "evidence", "spare"}, done : BOOLEAN]
Reads == [row : Row \cup {NoRow}, project : Nat, number : Nat]
Requests == [op : {"none", "list", "get"}, todo : Seq(NameItems), read : Reads, busy : BOOLEAN]
Duplicates == DisplayIds \cup {<<s>> : s \in Row} \cup {Unset}

IdTyped ==
  /\ globalSeq \in Nat
  /\ projectNo \in [IdProject -> Nat]
  /\ lastSeq \in [IdProject \X EntityKinds -> Nat]
  /\ displayId \in [Row -> DisplayIds \cup {Unset}]
  /\ dupOf \in [Row -> Duplicates]
  /\ request \in [Requester -> Requests]
  /\ \A w \in Requester : request[w].busy => request[w].todo # << >>

LEMMA IdTypedInitially == IdInit => IdTyped
BY DEF IdInit, IdTyped, NoRequest, NoRead, Requests, Reads, Duplicates

LEMMA VisitsTyped ==
  ASSUME NEW k \in EntityKinds, NEW n \in Nat, NEW rows \in [1 .. n -> {r \in Row : KindOf[r] = k}]
  PROVE  Visits(rows, k) \in Seq(NameItems)
<1>1. Len(rows) = n
  OBVIOUS
<1>2. CASE k = "EVI"
  <2>1. Visits(rows, k) =
          [i \in 1 .. 2 * n |-> Visit(rows[1 + ((i - 1) \div 2)])[1 + ((i - 1) % 2)]]
    BY <1>1, <1>2 DEF Visits
  <2>2. ASSUME NEW i \in 1 .. 2 * n
        PROVE  Visit(rows[1 + ((i - 1) \div 2)])[1 + ((i - 1) % 2)] \in NameItems
    <3>1. 1 + ((i - 1) \div 2) \in 1 .. n /\ (i - 1) % 2 \in {0, 1}
      OBVIOUS
    <3>2. PICK r \in Row : r = rows[1 + ((i - 1) \div 2)] /\ KindOf[r] = "EVI"
      BY <1>2, <3>1
    <3>3. Naming(r) \in NameItems /\ Linking(r) \in NameItems
      BY DEF Naming, Linking, NameItems
    <3>4. Visit(r) = <<Naming(r), Linking(r)>>
      BY <3>2 DEF Visit
    <3>5. Visit(r)[1] = Naming(r) /\ Visit(r)[2] = Linking(r)
      BY <3>4
    <3> QED BY <3>1, <3>2, <3>3, <3>5
  <2>3. 2 * n \in Nat
    OBVIOUS
  <2> QED BY <2>1, <2>2, <2>3
<1>3. CASE k # "EVI"
  <2>1. Visits(rows, k) =
          [i \in 1 .. n |-> Visit(rows[1 + ((i - 1) \div 1)])[1 + ((i - 1) % 1)]]
    BY <1>1, <1>3 DEF Visits
  <2>2. ASSUME NEW i \in 1 .. n
        PROVE  Visit(rows[1 + ((i - 1) \div 1)])[1 + ((i - 1) % 1)] \in NameItems
    <3>1. 1 + ((i - 1) \div 1) = i /\ 1 + ((i - 1) % 1) = 1
      OBVIOUS
    <3>2. PICK r \in Row : r = rows[i] /\ KindOf[r] # "EVI"
      BY <1>3
    <3>3. Visit(r)[1] \in NameItems
      BY <3>2 DEF Visit, Naming, NameItems
    <3> QED BY <3>1, <3>2, <3>3
  <2> QED BY <2>1, <2>2
<1> QED BY <1>2, <1>3

LEMMA TodoTypes ==
  ASSUME IdTyped, NEW w \in Requester, request[w].todo # << >>
  PROVE  /\ request[w] \in Requests /\ Item(w) \in NameItems /\ Rest(w) \in Seq(NameItems)
         /\ Item(w).row \in Row /\ Holder(w) \in IdProject
<1>1. request[w] \in Requests
  BY DEF IdTyped
<1> DEFINE todo == request[w].todo
<1>2. todo \in Seq(NameItems) /\ todo # << >>
  BY <1>1 DEF Requests
<1> HIDE DEF todo
<1>3. Head(todo) \in NameItems /\ Tail(todo) \in Seq(NameItems)
  BY <1>2
<1>4. Item(w) \in NameItems /\ Rest(w) \in Seq(NameItems)
  BY <1>3 DEF Item, Rest, todo
<1>5. Item(w).row \in Row
  BY <1>4 DEF NameItems
<1> QED BY <1>1, <1>4, <1>5 DEF Holder

LEMMA FinishTyped ==
  ASSUME IdTyped, NEW w \in Requester, NEW todo \in Seq(NameItems), Finish(w, todo)
  PROVE  /\ request' \in [Requester -> Requests]
         /\ \A v \in Requester : request'[v].busy => request'[v].todo # << >>
         /\ request'[w].busy = FALSE /\ \A v \in Requester \ {w} : request'[v] = request[v]
<1>1. request[w] \in Requests /\ NoRequest \in Requests /\ NoRead \in Reads
  BY DEF IdTyped, NoRequest, NoRead, Requests, Reads
<1>2. CASE todo = << >>
  <2>1. request' = [request EXCEPT ![w] = NoRequest]
    BY <1>2 DEF Finish
  <2>2. NoRequest.busy = FALSE
    BY DEF NoRequest
  <2> QED BY <1>1, <2>1, <2>2 DEF IdTyped
<1>3. CASE todo # << >>
  <2> DEFINE q == [request[w] EXCEPT !.todo = todo, !.busy = FALSE, !.read = NoRead]
  <2>1. request' = [request EXCEPT ![w] = q]
    BY <1>3 DEF Finish
  <2>2. q \in Requests /\ q.busy = FALSE
    BY <1>1 DEF Requests
  <2> HIDE DEF q
  <2> QED BY <2>1, <2>2 DEF IdTyped
<1> QED BY <1>2, <1>3

\* A request that begins.
LEMMA BeginTyped ==
  ASSUME IdTyped, NEW w \in Requester, NEW op \in {"list", "get"}, NEW todo \in Seq(NameItems),
         Begin(w, op, todo)
  PROVE  /\ IdTyped' /\ UNCHANGED <<globalSeq, projectNo, lastSeq, displayId, dupOf>>
         /\ request'[w].busy = FALSE /\ \A v \in Requester \ {w} : request'[v] = request[v]
<1>1. request[w] \in Requests /\ request[w].busy = FALSE
  <2>1. request[w] \in Requests /\ request[w] = NoRequest
    BY DEF IdTyped, Begin
  <2>2. NoRequest.busy = FALSE
    BY DEF NoRequest
  <2> QED BY <2>1, <2>2
<1> DEFINE q == [request[w] EXCEPT !.op = op, !.todo = todo]
<1>2. request' = [request EXCEPT ![w] = q]
  BY DEF Begin
<1>3. q \in Requests /\ q.busy = FALSE
  BY <1>1 DEF Requests
<1> HIDE DEF q
<1> QED BY <1>2, <1>3, ZenonT(60) DEF IdTyped, Begin

LEMMA RequestsBegin ==
  ASSUME IdTyped, NEW w \in Requester,
         \/ \E p \in IdProject, k \in EntityKinds : ListRows(w, p, k)
         \/ \E r \in Row : GetRow(w, r) \/ GetFinding(w, r)
  PROVE  /\ IdTyped' /\ UNCHANGED <<globalSeq, projectNo, lastSeq, displayId, dupOf>>
         /\ request'[w].busy = FALSE /\ \A v \in Requester \ {w} : request'[v] = request[v]
<1>1. ASSUME NEW p \in IdProject, NEW k \in EntityKinds, ListRows(w, p, k)
      PROVE  \E todo \in Seq(NameItems) : Begin(w, "list", todo)
  <2> DEFINE S == {r \in Row : OwnerOf[r] = p /\ KindOf[r] = k}
  <2>1. PICK rows \in NewestFirst(S) : Begin(w, "list", Visits(rows, k))
    BY <1>1 DEF ListRows
  <2>2. Cardinality(S) \in Nat
    BY FS_Subset, FS_CardinalityType
  <2>3. rows \in [1 .. Cardinality(S) -> {r \in Row : KindOf[r] = k}]
    BY <2>1 DEF NewestFirst
  <2> HIDE DEF S
  <2> QED BY <2>1, <2>2, <2>3, VisitsTyped
<1>2. ASSUME NEW r \in Row, GetRow(w, r) \/ GetFinding(w, r)
      PROVE  \E todo \in Seq(NameItems) : Begin(w, "get", todo)
  <2>1. Naming(r) \in NameItems /\ Linking(r) \in NameItems
        /\ [row |-> r, part |-> "evidence", done |-> FALSE] \in NameItems
    BY DEF Naming, Linking, NameItems
  <2>2. Visit(r) \in Seq(NameItems)
    BY <2>1 DEF Visit
  <2>3. <<Naming(r), [row |-> r, part |-> "evidence", done |-> FALSE]>> \in Seq(NameItems)
    BY <2>1
  <2> QED BY <1>2, <2>2, <2>3 DEF GetRow, GetFinding
<1> QED BY <1>1, <1>2, BeginTyped

LEMMA NamelessRows ==
  ASSUME IdTyped, NEW w \in Requester, request[w].todo # << >>, NEW r \in Nameless(w)
  PROVE  /\ r \in Row \cup {NoRow}
         /\ r # NoRow => r \in Row /\ OwnerOf[r] = Holder(w)
         /\ Item(w).part = "link" => r # NoRow /\ r = Prior(Item(w).row)
<1> DEFINE i == Item(w)
<1>1. i \in NameItems /\ i.row \in Row /\ Holder(w) = OwnerOf[i.row]
  BY TodoTypes DEF Holder
<1>2. CASE i.part = "link"
  <2>1. r = Prior(i.row) /\ r # NoRow
    BY <1>2 DEF Nameless
  <2>2. r \in Earlier(i.row)
    BY <1>1, <2>1, PriorIsEarlier
  <2> QED BY <1>1, <1>2, <2>1, <2>2 DEF Earlier
<1>3. CASE i.part # "link"
  <2>1. r = i.row \/ r = NoRow
    BY <1>3 DEF Nameless
  <2> QED BY <1>1, <1>3, <2>1
<1> QED BY <1>2, <1>3

\* What a thread has read of the sequences.
LEMMA SelectIdTyped ==
  ASSUME IdTyped, NEW w \in Requester, SelectSequence(w)
  PROVE  /\ IdTyped' /\ UNCHANGED <<globalSeq, projectNo, lastSeq, displayId, dupOf>>
         /\ \A v \in Requester \ {w} : request'[v] = request[v]
         /\ request'[w].todo = request[w].todo /\ request[w].todo # << >>
         /\ \E r \in Nameless(w) :
              LET k == IF r = NoRow THEN "EVI" ELSE KindOf[r]
                  p == Holder(w)
              IN  request'[w].read =
                    [row |-> r, project |-> projectNo[p],
                     number |-> IF projectNo[p] = 0 THEN globalSeq ELSE lastSeq[<<p, k>>]]
<1>1. request[w].todo # << >> /\ request[w] \in Requests /\ Holder(w) \in IdProject
  BY TodoTypes DEF SelectSequence, InProgress, IdTyped
<1> DEFINE p == Holder(w)
           k(r) == IF r = NoRow THEN "EVI" ELSE KindOf[r]
           d(r) == [row |-> r, project |-> projectNo[p],
                    number |-> IF projectNo[p] = 0 THEN globalSeq ELSE lastSeq[<<p, k(r)>>]]
<1>2. PICK r \in Nameless(w) : request' = [request EXCEPT ![w].busy = TRUE, ![w].read = d(r)]
  BY DEF SelectSequence
<1>3. d(r) \in Reads
  <2>1. r \in Row \cup {NoRow}
    BY <1>1, <1>2, NamelessRows
  <2>2. k(r) \in EntityKinds
    BY <2>1 DEF EntityKinds
  <2>3. <<p, k(r)>> \in IdProject \X EntityKinds /\ projectNo[p] \in Nat /\ globalSeq \in Nat
    BY <1>1, <2>2 DEF IdTyped
  <2> HIDE DEF k
  <2> QED BY <2>1, <2>3 DEF IdTyped, Reads
<1> DEFINE q == [request[w] EXCEPT !.busy = TRUE, !.read = d(r)]
<1>4. request' = [request EXCEPT ![w] = q]
  BY <1>2
<1>5. q \in Requests /\ q.todo = request[w].todo /\ q.read = d(r)
  <2> HIDE DEF d
  <2> QED BY <1>1, <1>3 DEF Requests
<1>6. /\ request' \in [Requester -> Requests] /\ request'[w] = q
      /\ \A v \in Requester \ {w} : request'[v] = request[v]
  <2> HIDE DEF q
  <2> QED BY <1>4, <1>5 DEF IdTyped
<1>7. UNCHANGED <<globalSeq, projectNo, lastSeq, displayId, dupOf>>
  BY DEF SelectSequence
<1>8. IdTyped'
  <2> HIDE DEF q
  <2> QED BY <1>1, <1>5, <1>6, <1>7 DEF IdTyped
<1>9. request'[w].read = d(r)
  BY <1>5, <1>6
<1> QED BY <1>1, <1>2, <1>5, <1>6, <1>7, <1>8, <1>9

\* The number that a project has or gets, and the one that a row gets.
ProjectNumber(w) ==
  IF request[w].read.project # 0 THEN request[w].read.project ELSE request[w].read.number + 1
NumberHere(w) ==
  1 + (IF request[w].read.project # 0 THEN request[w].read.number
       ELSE lastSeq[<<Holder(w), HolderKind(w)>>])
GivenId(w) == <<ProjectNumber(w), HolderKind(w), NumberHere(w)>>

\* The writes of a number, one by one.
LEMMA InsertParts ==
  ASSUME IdTyped, NEW w \in Requester, InsertSequence(w)
  PROVE  /\ Holder(w) \in IdProject /\ HolderKind(w) \in EntityKinds
         /\ ProjectNumber(w) \in Nat \ {0} /\ NumberHere(w) \in Nat \ {0} /\ GivenId(w) \in DisplayIds
         /\ request[w].busy = TRUE /\ request[w].todo # << >> /\ request[w].read \in Reads
         /\ Item(w) \in NameItems /\ Item(w).row \in Row
         /\ globalSeq' = (IF request[w].read.project # 0 THEN globalSeq ELSE ProjectNumber(w))
         /\ projectNo' = [projectNo EXCEPT ![Holder(w)] = ProjectNumber(w)]
         /\ lastSeq' = [lastSeq EXCEPT ![<<Holder(w), HolderKind(w)>>] = NumberHere(w)]
         /\ displayId' = [r \in Row |-> IF r = request[w].read.row THEN GivenId(w)
                                        ELSE displayId[r]]
         /\ dupOf' = (IF Item(w).part = "link" THEN [dupOf EXCEPT ![Item(w).row] = GivenId(w)]
                      ELSE dupOf)
         /\ Finish(w, Rest(w))
<1>1. request[w] \in Requests /\ request[w].busy
  BY DEF IdTyped, InsertSequence
<1>2. request[w].busy = TRUE /\ request[w].read \in Reads
  BY <1>1 DEF Requests
<1>3. request[w].todo # << >> /\ Holder(w) \in IdProject /\ Item(w) \in NameItems /\ Item(w).row \in Row
  BY <1>1, TodoTypes DEF IdTyped
<1>4. HolderKind(w) \in EntityKinds
  BY <1>2 DEF HolderKind, Reads, EntityKinds
<1>5. ProjectNumber(w) \in Nat \ {0} /\ NumberHere(w) \in Nat \ {0}
  <2>1. /\ request[w].read.project \in Nat /\ request[w].read.number \in Nat
        /\ lastSeq[<<Holder(w), HolderKind(w)>>] \in Nat
    BY <1>2, <1>3, <1>4 DEF Reads, IdTyped
  <2> QED BY <2>1 DEF ProjectNumber, NumberHere
<1>6. GivenId(w) \in DisplayIds
  BY <1>4, <1>5 DEF GivenId, DisplayIds
<1>7. /\ globalSeq' = (IF request[w].read.project # 0 THEN globalSeq ELSE ProjectNumber(w))
      /\ projectNo' = [projectNo EXCEPT ![Holder(w)] = ProjectNumber(w)]
      /\ lastSeq' = [lastSeq EXCEPT ![<<Holder(w), HolderKind(w)>>] = NumberHere(w)]
      /\ displayId' = [r \in Row |-> IF r = request[w].read.row THEN GivenId(w)
                                     ELSE displayId[r]]
      /\ dupOf' = (IF Item(w).part = "link" THEN [dupOf EXCEPT ![Item(w).row] = GivenId(w)]
                   ELSE dupOf)
      /\ Finish(w, Rest(w))
  BY DEF InsertSequence, ProjectNumber, NumberHere, GivenId
<1> QED BY <1>2, <1>3, <1>4, <1>5, <1>6, <1>7

LEMMA InsertTyped ==
  ASSUME IdTyped, NEW w \in Requester, InsertSequence(w)
  PROVE  /\ IdTyped' /\ request'[w].busy = FALSE
         /\ \A v \in Requester \ {w} : request'[v] = request[v]
<1>1. Rest(w) \in Seq(NameItems) /\ Finish(w, Rest(w))
  BY InsertParts, TodoTypes
<1>2. /\ globalSeq' \in Nat /\ projectNo' \in [IdProject -> Nat]
      /\ lastSeq' \in [IdProject \X EntityKinds -> Nat]
  BY InsertParts, ZenonT(60) DEF IdTyped
<1>3. displayId' \in [Row -> DisplayIds \cup {Unset}]
  <2>1. /\ GivenId(w) \in DisplayIds
        /\ displayId' = [r \in Row |-> IF r = request[w].read.row THEN GivenId(w)
                                       ELSE displayId[r]]
    BY InsertParts
  <2> QED BY <2>1 DEF IdTyped
<1>4. dupOf' \in [Row -> Duplicates]
  <2>1. GivenId(w) \in Duplicates /\ Item(w).row \in Row
    BY InsertParts DEF Duplicates
  <2>2. dupOf' = dupOf \/ dupOf' = [dupOf EXCEPT ![Item(w).row] = GivenId(w)]
    BY InsertParts
  <2> QED BY <2>1, <2>2 DEF IdTyped
<1> QED BY <1>1, <1>2, <1>3, <1>4, FinishTyped DEF IdTyped

\* An older row that is quoted by its id or by its key.
LEMMA LinkTyped ==
  ASSUME IdTyped, NEW w \in Requester, LinkDuplicate(w)
  PROVE  /\ IdTyped' /\ UNCHANGED <<globalSeq, projectNo, lastSeq, displayId>>
         /\ request'[w].busy = FALSE /\ \A v \in Requester \ {w} : request'[v] = request[v]
         /\ Item(w).row \in Row /\ Prior(Item(w).row) \in Earlier(Item(w).row)
         /\ dupOf' = [dupOf EXCEPT ![Item(w).row] =
                        IF displayId[Prior(Item(w).row)] # Unset
                        THEN displayId[Prior(Item(w).row)] ELSE <<Prior(Item(w).row)>>]
<1> DEFINE r == Item(w).row
           s == Prior(r)
           d == IF displayId[s] # Unset THEN displayId[s] ELSE <<s>>
<1>1. request[w].todo # << >>
  BY DEF LinkDuplicate, InProgress
<1>2. r \in Row /\ Rest(w) \in Seq(NameItems)
  BY <1>1, TodoTypes
<1>3. /\ s # NoRow /\ dupOf' = [dupOf EXCEPT ![r] = d] /\ Finish(w, Rest(w))
      /\ UNCHANGED <<globalSeq, projectNo, lastSeq, displayId>>
  BY DEF LinkDuplicate
<1>4. s \in Earlier(r) /\ s \in Row
  BY <1>2, <1>3, PriorIsEarlier
<1>5. d \in Duplicates
  BY <1>4 DEF Duplicates, IdTyped
<1> HIDE DEF d, s, r
<1>6. dupOf' \in [Row -> Duplicates]
  BY <1>2, <1>3, <1>5 DEF IdTyped
<1>7. IdTyped' /\ request'[w].busy = FALSE /\ \A v \in Requester \ {w} : request'[v] = request[v]
  BY <1>2, <1>3, <1>6, FinishTyped DEF IdTyped
<1> QED BY <1>2, <1>3, <1>4, <1>7 DEF d, s, r

\* Steps that only change what a request has left to do.
LEMMA SkipTyped ==
  ASSUME IdTyped, NEW w \in Requester, FetchEvidence(w) \/ NextRow(w)
  PROVE  /\ IdTyped' /\ UNCHANGED <<globalSeq, projectNo, lastSeq, displayId, dupOf>>
         /\ request'[w].busy = FALSE /\ \A v \in Requester \ {w} : request'[v] = request[v]
<1>1. request[w].todo # << >>
  BY DEF FetchEvidence, NextRow, InProgress
<1>2. Item(w).row \in Row /\ Rest(w) \in Seq(NameItems)
  BY <1>1, TodoTypes
<1>3. UNCHANGED <<globalSeq, projectNo, lastSeq, displayId, dupOf>>
  BY DEF FetchEvidence, NextRow
<1>4. \E todo \in Seq(NameItems) : Finish(w, todo)
  <2>1. CASE NextRow(w)
    BY <1>2, <2>1 DEF NextRow
  <2>2. CASE FetchEvidence(w)
    <3> DEFINE S == LinkedTo[Item(w).row]
               spare == <<[row |-> Item(w).row, part |-> "spare", done |-> FALSE]>>
    <3>1. PICK q \in NewestFirst(S) :
            Finish(w, IF q = << >> THEN spare ELSE [i \in DOMAIN q |-> Naming(q[i])])
      BY <2>2 DEF FetchEvidence
    <3>2. S \in SUBSET Row /\ Cardinality(S) \in Nat
      BY <1>2, FS_Subset, FS_CardinalityType
    <3>3. q \in [1 .. Cardinality(S) -> S]
      BY <3>1 DEF NewestFirst
    <3>4. \A r \in Row : Naming(r) \in NameItems
      BY DEF Naming, NameItems
    <3>5. [i \in DOMAIN q |-> Naming(q[i])] \in Seq(NameItems)
      <4> DEFINE n == Cardinality(S)
                 visits == [i \in DOMAIN q |-> Naming(q[i])]
      <4>1. DOMAIN q = 1 .. n /\ n \in Nat /\ \A i \in 1 .. n : q[i] \in Row
        BY <3>2, <3>3, Zenon
      <4> HIDE DEF S, n
      <4>2. visits \in [1 .. n -> NameItems]
        BY <3>4, <4>1
      <4> HIDE DEF visits
      <4>3. visits \in Seq(NameItems)
        BY <4>1, <4>2
      <4> QED BY <4>3 DEF visits
    <3>6. spare \in Seq(NameItems)
      BY <1>2 DEF NameItems
    <3> HIDE DEF S, spare
    <3> QED BY <3>1, <3>5, <3>6
  <2> QED BY <2>1, <2>2
<1> QED BY <1>3, <1>4, FinishTyped DEF IdTyped

\* A position in a set of rows: no two rows have the same.
LEMMA Positions ==
  ASSUME NEW S \in SUBSET Row, NEW r \in S
  PROVE  /\ Position(r, S) \in Nat \ {0} /\ Position(r, S) <= Cardinality(S)
         /\ Cardinality(S) \in Nat
         /\ \A s \in S : s # r => Position(s, S) # Position(r, S)
<1> DEFINE Upto(u) == {s \in S : ~ Newer(s, u)}
<1>1. /\ IsFiniteSet(S) /\ Cardinality(S) \in Nat /\ \A u \in S : AgeOf[u] \in Nat
      /\ \A u, s \in S : AgeOf[u] = AgeOf[s] => u = s
  BY FS_Subset, FS_CardinalityType
<1>2. \A u \in S : /\ Upto(u) \subseteq S /\ IsFiniteSet(Upto(u)) /\ u \in Upto(u)
                   /\ Position(u, S) = Cardinality(Upto(u))
  BY <1>1, FS_Subset DEF Newer, Position
<1>3. \A u \in S : /\ Position(u, S) \in Nat \ {0} /\ Position(u, S) <= Cardinality(S)
  <2> TAKE u \in S
  <2> HIDE DEF Upto
  <2>1. Cardinality(Upto(u)) \in Nat /\ Cardinality(Upto(u)) <= Cardinality(S)
    BY <1>1, <1>2, FS_Subset, FS_CardinalityType
  <2>2. Cardinality(Upto(u)) # 0
    BY <1>2, FS_EmptySet
  <2> QED BY <1>2, <2>1, <2>2
<1>4. ASSUME NEW u \in S, NEW s \in S, AgeOf[u] < AgeOf[s]
      PROVE  Position(u, S) # Position(s, S)
  <2>1. Upto(u) \subseteq Upto(s) /\ s \in Upto(s) /\ s \notin Upto(u)
    BY <1>1, <1>4 DEF Newer
  <2> HIDE DEF Upto
  <2>2. Cardinality(Upto(u)) # Cardinality(Upto(s))
    BY <1>2, <2>1, FS_Subset
  <2> QED BY <1>2, <2>2
<1>5. ASSUME NEW s \in S, s # r PROVE Position(s, S) # Position(r, S)
  <2>1. AgeOf[s] < AgeOf[r] \/ AgeOf[r] < AgeOf[s]
    BY <1>1, <1>5
  <2> QED BY <1>4, <2>1
<1> QED BY <1>1, <1>3, <1>5

\* The writes of the migration, one by one.
Bare == {r \in Row : displayId[r] = Unset}
New == {p \in IdProject : projectNo[p] = 0}
Peers(r) == {s \in Bare : OwnerOf[s] = OwnerOf[r] /\ KindOf[s] = KindOf[r]}
Keyed(k) == {r \in Bare : <<OwnerOf[r], KindOf[r]>> = k}

LEMMA MigrateParts ==
  ASSUME IdTyped, Migrate
  PROVE  /\ \A w \in Requester : request[w] = NoRequest
         /\ request' = request
         /\ \E order \in [New -> 1 .. Cardinality(New)] :
              /\ \A p, q \in New : order[p] = order[q] => p = q
              /\ projectNo' = [p \in IdProject |->
                   IF p \in New THEN globalSeq + order[p] ELSE projectNo[p]]
         /\ Cardinality(New) \in Nat /\ globalSeq' = globalSeq + Cardinality(New)
         /\ lastSeq' = [k \in IdProject \X EntityKinds |-> lastSeq[k] + Cardinality(Keyed(k))]
         /\ displayId' = [r \in Row |->
              IF r \in Bare
              THEN <<projectNo'[OwnerOf[r]], KindOf[r],
                     lastSeq[<<OwnerOf[r], KindOf[r]>>] + Position(r, Peers(r))>>
              ELSE displayId[r]]
         /\ dupOf' = [r \in Row |->
              CASE KindOf[r] # "EVI" -> dupOf[r]
                [] Prior(r) # NoRow /\ (r \in Bare \/ dupOf[r] = Unset) -> displayId'[Prior(r)]
                [] Prior(r) = NoRow /\ r \in Bare -> Unset
                [] OTHER -> dupOf[r]]
         /\ \A r \in Row \ Bare : displayId'[r] = displayId[r]
<1>1. Cardinality(New) \in Nat
  BY FS_Subset, FS_CardinalityType DEF New
<1>2. PICK order \in Bijection(New, 1 .. Cardinality(New)) :
        projectNo' = [p \in IdProject |->
             IF p \in New THEN globalSeq + order[p] ELSE projectNo[p]]
  BY DEF Migrate, New
<1>3. order \in [New -> 1 .. Cardinality(New)] /\ \A p, q \in New : order[p] = order[q] => p = q
  BY <1>2 DEF Bijection, Injection, IsInjective
<1>4. DOMAIN lastSeq = IdProject \X EntityKinds
  BY DEF IdTyped
<1>5. /\ \A w \in Requester : request[w] = NoRequest
      /\ request' = request /\ globalSeq' = globalSeq + Cardinality(New)
      /\ lastSeq' = [k \in IdProject \X EntityKinds |-> lastSeq[k] + Cardinality(Keyed(k))]
  BY <1>4 DEF Migrate, New, Bare, Keyed
<1>6. displayId' = [r \in Row |->
              IF r \in Bare
              THEN <<projectNo'[OwnerOf[r]], KindOf[r],
                     lastSeq[<<OwnerOf[r], KindOf[r]>>] + Position(r, Peers(r))>>
              ELSE displayId[r]]
  BY DEF Migrate, Bare, Peers
<1>7. dupOf' = [r \in Row |->
              CASE KindOf[r] # "EVI" -> dupOf[r]
                [] Prior(r) # NoRow /\ (r \in Bare \/ dupOf[r] = Unset) -> displayId'[Prior(r)]
                [] Prior(r) = NoRow /\ r \in Bare -> Unset
                [] OTHER -> dupOf[r]]
  BY DEF Migrate, Bare
<1>8. \E order1 \in [New -> 1 .. Cardinality(New)] :
              /\ \A p, q \in New : order1[p] = order1[q] => p = q
              /\ projectNo' = [p \in IdProject |->
                   IF p \in New THEN globalSeq + order1[p] ELSE projectNo[p]]
  BY <1>2, <1>3
<1>9. \A r \in Row \ Bare : displayId'[r] = displayId[r]
  BY <1>6, Zenon
<1> QED BY <1>1, <1>5, <1>6, <1>7, <1>8, <1>9

\* What the migration gives to a row without a display id.
LEMMA MigrateGives ==
  ASSUME IdTyped, Migrate, NEW r \in Bare
  PROVE  \E n \in Nat : /\ displayId'[r] = <<projectNo'[OwnerOf[r]], KindOf[r], n>>
                        /\ n > lastSeq[<<OwnerOf[r], KindOf[r]>>]
                        /\ n <= lastSeq'[<<OwnerOf[r], KindOf[r]>>]
                        /\ n = lastSeq[<<OwnerOf[r], KindOf[r]>>] + Position(r, Peers(r))
<1> DEFINE k == <<OwnerOf[r], KindOf[r]>>
<1>1. r \in Row /\ k \in IdProject \X EntityKinds /\ lastSeq[k] \in Nat
  BY DEF Bare, IdTyped
<1>2. Peers(r) = Keyed(k) /\ Peers(r) \in SUBSET Row /\ r \in Peers(r)
  BY DEF Peers, Keyed, Bare
<1>3. /\ Position(r, Peers(r)) \in Nat \ {0} /\ Position(r, Peers(r)) <= Cardinality(Keyed(k))
      /\ Cardinality(Keyed(k)) \in Nat
  BY <1>2, Positions
<1>4. lastSeq'[k] = lastSeq[k] + Cardinality(Keyed(k))
  BY <1>1, MigrateParts
<1>5. displayId'[r] = <<projectNo'[OwnerOf[r]], KindOf[r], lastSeq[k] + Position(r, Peers(r))>>
  BY <1>1, MigrateParts
<1> DEFINE n == lastSeq[k] + Position(r, Peers(r))
<1>6. n \in Nat /\ n > lastSeq[k] /\ n <= lastSeq'[k]
  BY <1>1, <1>3, <1>4
<1> QED BY <1>5, <1>6

LEMMA MigrateTyped ==
  ASSUME IdTyped, Migrate
  PROVE  IdTyped'
<1>1. globalSeq' \in Nat /\ projectNo' \in [IdProject -> Nat]
  <2>1. PICK order \in [New -> 1 .. Cardinality(New)] :
          projectNo' = [p \in IdProject |->
                   IF p \in New THEN globalSeq + order[p] ELSE projectNo[p]]
    BY MigrateParts
  <2>2. Cardinality(New) \in Nat /\ globalSeq' = globalSeq + Cardinality(New)
    BY MigrateParts
  <2>3. \A p \in New : order[p] \in Nat
    BY <2>2
  <2> QED BY <2>1, <2>2, <2>3 DEF IdTyped
<1>2. lastSeq' \in [IdProject \X EntityKinds -> Nat]
  <2>1. \A k \in IdProject \X EntityKinds : Cardinality(Keyed(k)) \in Nat
    BY FS_Subset, FS_CardinalityType DEF Keyed, Bare
  <2> QED BY <2>1, MigrateParts DEF IdTyped
<1>3. \A r \in Row : displayId'[r] \in DisplayIds \cup {Unset}
  <2> TAKE r \in Row
  <2>1. CASE r \in Bare
    <3>1. PICK n \in Nat : displayId'[r] = <<projectNo'[OwnerOf[r]], KindOf[r], n>>
      BY <2>1, MigrateGives
    <3> QED BY <1>1, <3>1 DEF DisplayIds
  <2>2. CASE r \notin Bare
    <3>1. displayId'[r] = displayId[r]
      BY <2>2, MigrateParts
    <3> QED BY <3>1 DEF IdTyped
  <2> QED BY <2>1, <2>2
<1>4. displayId' \in [Row -> DisplayIds \cup {Unset}]
  BY <1>3, MigrateParts
<1>5. \A r \in Row : dupOf'[r] \in Duplicates
  <2> TAKE r \in Row
  <2>1. dupOf'[r] = dupOf[r] \/ dupOf'[r] = Unset
        \/ (Prior(r) # NoRow /\ dupOf'[r] = displayId'[Prior(r)])
    BY MigrateParts
  <2> QED BY <1>3, <2>1, PriorIsEarlier DEF IdTyped, Duplicates
<1>6. dupOf' \in [Row -> Duplicates]
  BY <1>5, MigrateParts
<1>7. request' = request
  BY MigrateParts
<1> QED BY <1>1, <1>2, <1>4, <1>6, <1>7 DEF IdTyped

\* A step of one requester, whichever it is.
LEMMA StepTyped ==
  ASSUME IdTyped, [IdNext]_idVars
  PROVE  IdTyped'
<1>1. CASE UNCHANGED idVars
  BY <1>1 DEF idVars, IdTyped
<1>2. ASSUME NEW w \in Requester,
             \/ \E p \in IdProject, k \in EntityKinds : ListRows(w, p, k)
             \/ \E r \in Row : GetRow(w, r) \/ GetFinding(w, r)
      PROVE  IdTyped'
  BY <1>2, RequestsBegin
<1>3. ASSUME NEW w \in Requester,
             \/ SelectSequence(w) \/ InsertSequence(w) \/ LinkDuplicate(w)
             \/ FetchEvidence(w) \/ NextRow(w)
      PROVE  IdTyped'
  BY <1>3, SelectIdTyped, InsertTyped, LinkTyped, SkipTyped
<1>4. CASE Migrate
  BY <1>4, MigrateTyped
<1> QED BY <1>1, <1>2, <1>3, <1>4 DEF IdNext

\* Every variable of the identifiers has its type, however many requests run.
THEOREM IdsAreTyped == IdSpec => []IdTypeOK
<1>1. IdInit => IdTyped
  BY IdTypedInitially
<1>2. IdTyped /\ [IdNext]_idVars => IdTyped'
  BY StepTyped
<1>3. IdTyped => IdTypeOK
  BY DEF IdTyped, IdTypeOK, Requests, Reads, Duplicates
<1> QED BY <1>1, <1>2, <1>3, PTL DEF IdSpec

-----------------------------------------------------------------------------
(* One requester at a time.                                                *)

\* Projects have numbers of their own, up to the last one given.
Allotted ==
  /\ \A p \in IdProject : projectNo[p] <= globalSeq
  /\ \A p, q \in IdProject : p # q /\ projectNo[p] # 0 => projectNo[p] # projectNo[q]

\* Row r was given display id d, by the numbers of projects and kinds.
Given(r, d, no, last) ==
  /\ d[1] = no[OwnerOf[r]] /\ d[1] # 0 /\ d[2] = KindOf[r]
  /\ d[3] <= last[<<OwnerOf[r], KindOf[r]>>]

NamedRight ==
  \A r \in Row : displayId[r] # Unset => Given(r, displayId[r], projectNo, lastSeq)

\* What a row calls its original is the key, or a number, of an earlier row.
PointsTo(r, e) ==
  \/ dupOf[r] = <<e>>
  \/ /\ dupOf[r] \in DisplayIds /\ Given(e, dupOf[r], projectNo, lastSeq)
     /\ \A s \in Row : displayId[s] = dupOf[r] => s \in Earlier(r)
Linked ==
  \A r \in Row : dupOf[r] # Unset => \E e \in Earlier(r) : PointsTo(r, e)

\* What a requester has read of the sequences is what they still hold.
ReadsFresh ==
  \A w \in Requester : request[w].busy =>
    LET read == request[w].read IN
    /\ read.project = projectNo[Holder(w)]
    /\ read.number = (IF read.project = 0 THEN globalSeq
                      ELSE lastSeq[<<Holder(w), HolderKind(w)>>])
    /\ read.row # NoRow => OwnerOf[read.row] = Holder(w)
    /\ Item(w).part = "link" => read.row # NoRow /\ read.row = Prior(Item(w).row)

IdInv == IdTyped /\ Allotted /\ NamedRight /\ UniqueDisplayIds /\ Linked /\ ReadsFresh

LEMMA IdInvInitially == IdInit => IdInv
<1> SUFFICES ASSUME IdInit PROVE IdInv
  OBVIOUS
<1>1. \A w \in Requester : request[w].busy = FALSE
  BY DEF IdInit, NoRequest
<1>2. IdTyped
  BY IdTypedInitially
<1>3. Allotted
  BY DEF IdInit, Allotted
<1>4. NamedRight /\ UniqueDisplayIds /\ Linked
  BY DEF IdInit, NamedRight, UniqueDisplayIds, Linked
<1> QED BY <1>1, <1>2, <1>3, <1>4 DEF IdInv, ReadsFresh

LEMMA SameOwner ==
  ASSUME NEW no, NEW last, NEW d, NEW r \in Row, NEW e \in Row,
         \A p, q \in IdProject : p # q /\ no[p] # 0 => no[p] # no[q],
         Given(r, d, no, last), Given(e, d, no, last)
  PROVE  OwnerOf[r] = OwnerOf[e] /\ KindOf[r] = KindOf[e]
<1>1. OwnerOf[r] \in IdProject /\ OwnerOf[e] \in IdProject
  OBVIOUS
<1>2. no[OwnerOf[r]] = no[OwnerOf[e]] /\ no[OwnerOf[r]] # 0 /\ KindOf[r] = KindOf[e]
  BY DEF Given
<1> QED BY <1>1, <1>2

LEMMA DisplayIdParts ==
  ASSUME NEW d \in DisplayIds
  PROVE  d[1] \in Nat /\ d[2] \in EntityKinds /\ d[3] \in Nat
BY DEF DisplayIds

\* Giving new numbers to the rows of N takes none that was given before.
LEMMA Giving ==
  ASSUME IdInv, IdTyped', Allotted', NEW N \in SUBSET Row,
         \A p \in IdProject : projectNo[p] # 0 => projectNo'[p] = projectNo[p],
         \A k \in IdProject \X EntityKinds : lastSeq[k] <= lastSeq'[k],
         \A r \in Row \ N : displayId'[r] = displayId[r],
         \A r \in N : /\ displayId'[r] \in DisplayIds
                      /\ Given(r, displayId'[r], projectNo', lastSeq')
                      /\ displayId'[r][3] > lastSeq[<<OwnerOf[r], KindOf[r]>>],
         \A r, s \in N : r # s /\ OwnerOf[r] = OwnerOf[s] /\ KindOf[r] = KindOf[s]
                           => displayId'[r][3] # displayId'[s][3]
  PROVE  /\ NamedRight' /\ UniqueDisplayIds'
         /\ \A e \in Row, d \in DisplayIds : Given(e, d, projectNo, lastSeq) =>
              /\ Given(e, d, projectNo', lastSeq')
              /\ \A r \in N : displayId'[r] # d
<1>1. ASSUME NEW e \in Row, NEW d \in DisplayIds, Given(e, d, projectNo, lastSeq)
      PROVE  Given(e, d, projectNo', lastSeq')
  <2>1. OwnerOf[e] \in IdProject /\ <<OwnerOf[e], KindOf[e]>> \in IdProject \X EntityKinds
    OBVIOUS
  <2>2. projectNo'[OwnerOf[e]] = projectNo[OwnerOf[e]]
    BY <1>1, <2>1 DEF Given
  <2>3. /\ lastSeq[<<OwnerOf[e], KindOf[e]>>] \in Nat /\ lastSeq'[<<OwnerOf[e], KindOf[e]>>] \in Nat
        /\ d[3] \in Nat
    BY <2>1, DisplayIdParts DEF IdInv, IdTyped
  <2> QED BY <1>1, <2>1, <2>2, <2>3 DEF Given
<1>2. ASSUME NEW e \in Row, NEW d \in DisplayIds, Given(e, d, projectNo, lastSeq),
             NEW r \in N, displayId'[r] = d
      PROVE  FALSE
  <2>1. Given(e, d, projectNo', lastSeq') /\ Given(r, d, projectNo', lastSeq')
    BY <1>1, <1>2
  <2>2. OwnerOf[e] = OwnerOf[r] /\ KindOf[e] = KindOf[r]
    <3>1. \A p, q \in IdProject : p # q /\ projectNo'[p] # 0 => projectNo'[p] # projectNo'[q]
      BY DEF Allotted
    <3> QED BY <2>1, <3>1, SameOwner
  <2>3. <<OwnerOf[e], KindOf[e]>> \in IdProject \X EntityKinds
    OBVIOUS
  <2>4. d[3] > lastSeq[<<OwnerOf[e], KindOf[e]>>] /\ d[3] <= lastSeq[<<OwnerOf[e], KindOf[e]>>]
    BY <1>2, <2>2 DEF Given
  <2>5. d[3] \in Nat /\ lastSeq[<<OwnerOf[e], KindOf[e]>>] \in Nat
    BY <2>3, DisplayIdParts DEF IdInv, IdTyped
  <2> QED BY <2>4, <2>5
<1>3. \A r \in Row \ N : displayId[r] # Unset =>
        displayId[r] \in DisplayIds /\ Given(r, displayId[r], projectNo, lastSeq)
  BY DEF IdInv, IdTyped, NamedRight
<1>4. NamedRight'
  <2>1. ASSUME NEW r \in Row, displayId'[r] # Unset
        PROVE  Given(r, displayId'[r], projectNo', lastSeq')
    BY <1>1, <1>3, <2>1
  <2> QED BY <2>1 DEF NamedRight
<1>5. UniqueDisplayIds'
  <2>1. ASSUME NEW r \in Row, NEW s \in Row, r # s, displayId'[r] # Unset
        PROVE  displayId'[r] # displayId'[s]
    <3>1. CASE r \notin N /\ s \notin N
      BY <2>1, <3>1 DEF IdInv, UniqueDisplayIds
    <3>2. CASE r \in N /\ s \in N
      <4>1. SUFFICES ASSUME displayId'[r] = displayId'[s] PROVE FALSE
        OBVIOUS
      <4>2. OwnerOf[r] = OwnerOf[s] /\ KindOf[r] = KindOf[s]
        <5>1. \A p, q \in IdProject : p # q /\ projectNo'[p] # 0 => projectNo'[p] # projectNo'[q]
          BY DEF Allotted
        <5>2. Given(r, displayId'[r], projectNo', lastSeq')
              /\ Given(s, displayId'[r], projectNo', lastSeq')
          BY <3>2, <4>1
        <5> QED BY <5>1, <5>2, SameOwner
      <4> QED BY <2>1, <3>2, <4>1, <4>2
    <3>3. CASE r \in N /\ s \notin N
      <4>1. CASE displayId[s] = Unset
        BY <2>1, <3>3, <4>1
      <4>2. CASE displayId[s] # Unset
        BY <1>2, <1>3, <3>3, <4>2
      <4> QED BY <4>1, <4>2
    <3>4. CASE r \notin N /\ s \in N
      BY <1>2, <1>3, <2>1, <3>4
    <3> QED BY <3>1, <3>2, <3>3, <3>4
  <2> QED BY <2>1 DEF UniqueDisplayIds
<1> QED BY <1>1, <1>2, <1>4, <1>5

\* What still points to an earlier row after new numbers are given.
LEMMA StillLinked ==
  ASSUME IdInv, NEW N \in SUBSET Row,
         \A e \in Row, d \in DisplayIds : Given(e, d, projectNo, lastSeq) =>
              /\ Given(e, d, projectNo', lastSeq')
              /\ \A r \in N : displayId'[r] # d,
         \A r \in Row \ N : displayId'[r] = displayId[r],
         NEW r \in Row, dupOf[r] # Unset, dupOf'[r] = dupOf[r]
  PROVE  \E e \in Earlier(r) : PointsTo(r, e)'
<1>1. PICK e \in Earlier(r) : PointsTo(r, e)
  BY DEF IdInv, Linked
<1>2. e \in Row
  BY DEF Earlier
<1>3. CASE dupOf[r] = <<e>>
  BY <1>3 DEF PointsTo
<1>4. CASE dupOf[r] # <<e>>
  <2>1. /\ dupOf[r] \in DisplayIds /\ Given(e, dupOf[r], projectNo, lastSeq)
        /\ \A s \in Row : displayId[s] = dupOf[r] => s \in Earlier(r)
    BY <1>1, <1>4 DEF PointsTo
  <2>2. Given(e, dupOf[r], projectNo', lastSeq') /\ \A s \in N : displayId'[s] # dupOf[r]
    BY <1>2, <2>1
  <2>3. \A s \in Row : displayId'[s] = dupOf[r] => s \in Earlier(r)
    BY <2>1, <2>2
  <2>4. PointsTo(r, e)'
    BY <2>1, <2>2, <2>3 DEF PointsTo
  <2> QED BY <2>4
<1> QED BY <1>3, <1>4

\* Steps that leave the numbers alone and no request busy.
LEMMA Quiet ==
  ASSUME IdInv, IdTyped', UNCHANGED <<globalSeq, projectNo, lastSeq, displayId, dupOf>>,
         \A w \in Requester : request'[w].busy = FALSE
  PROVE  IdInv'
<1>1. ReadsFresh'
  BY DEF ReadsFresh
<1>2. Allotted' /\ NamedRight' /\ UniqueDisplayIds'
  BY DEF IdInv, Allotted, NamedRight, UniqueDisplayIds
<1>3. Linked'
  <2>1. ASSUME NEW r \in Row, dupOf'[r] # Unset PROVE \E e \in Earlier(r) : PointsTo(r, e)'
    <3>1. PICK e \in Earlier(r) : PointsTo(r, e)
      BY <2>1 DEF IdInv, Linked
    <3>2. PointsTo(r, e)'
      BY <3>1 DEF PointsTo
    <3> QED BY <3>2
  <2> QED BY <2>1 DEF Linked
<1> QED BY <1>1, <1>2, <1>3 DEF IdInv

LEMMA SelectKeeps ==
  ASSUME IdInv, \A v, w \in Requester : v = w, NEW w \in Requester, SelectSequence(w)
  PROVE  IdInv'
<1>1. /\ IdTyped' /\ UNCHANGED <<globalSeq, projectNo, lastSeq, displayId, dupOf>>
      /\ request'[w].todo = request[w].todo /\ request[w].todo # << >>
  BY SelectIdTyped DEF IdInv
<1>2. PICK r \in Nameless(w) :
              LET k == IF r = NoRow THEN "EVI" ELSE KindOf[r]
                  p == Holder(w)
              IN  request'[w].read =
                    [row |-> r, project |-> projectNo[p],
                     number |-> IF projectNo[p] = 0 THEN globalSeq ELSE lastSeq[<<p, k>>]]
  BY SelectIdTyped DEF IdInv
<1>3. /\ r # NoRow => r \in Row /\ OwnerOf[r] = Holder(w)
      /\ Item(w).part = "link" => r # NoRow /\ r = Prior(Item(w).row)
  BY <1>1, NamelessRows DEF IdInv
<1>4. Item(w)' = Item(w) /\ Holder(w)' = Holder(w)
  BY <1>1 DEF Item, Holder
<1>5. /\ request'[w].read.row = r /\ request'[w].read.project = projectNo[Holder(w)]
      /\ HolderKind(w)' = (IF r = NoRow THEN "EVI" ELSE KindOf[r])
  BY <1>2 DEF HolderKind
<1>6. request'[w].read.number = (IF projectNo[Holder(w)] = 0 THEN globalSeq
                                 ELSE lastSeq[<<Holder(w), HolderKind(w)'>>])
  BY <1>2, <1>5
<1>7. ReadsFresh'
  <2>1. /\ request'[w].read.project = projectNo'[Holder(w)']
        /\ request'[w].read.number =
             (IF request'[w].read.project = 0 THEN globalSeq'
              ELSE lastSeq'[<<Holder(w)', HolderKind(w)'>>])
    BY <1>1, <1>4, <1>5, <1>6
  <2>2. /\ request'[w].read.row # NoRow => OwnerOf[request'[w].read.row] = Holder(w)'
        /\ Item(w)'.part = "link" => /\ request'[w].read.row # NoRow
                                     /\ request'[w].read.row = Prior(Item(w)'.row)
    BY <1>3, <1>4, <1>5
  <2> QED BY <2>1, <2>2 DEF ReadsFresh
<1>8. Allotted' /\ NamedRight' /\ UniqueDisplayIds'
  BY <1>1 DEF IdInv, Allotted, NamedRight, UniqueDisplayIds
<1>9. Linked'
  <2>1. ASSUME NEW s \in Row, dupOf'[s] # Unset PROVE \E e \in Earlier(s) : PointsTo(s, e)'
    <3>1. PICK e \in Earlier(s) : PointsTo(s, e)
      BY <1>1, <2>1 DEF IdInv, Linked
    <3>2. PointsTo(s, e)'
      BY <1>1, <3>1 DEF PointsTo
    <3> QED BY <3>2
  <2> QED BY <2>1 DEF Linked
<1> QED BY <1>1, <1>7, <1>8, <1>9 DEF IdInv

LEMMA InsertKeeps ==
  ASSUME IdInv, \A v, w \in Requester : v = w, NEW w \in Requester, InsertSequence(w)
  PROVE  IdInv'
<1> DEFINE p == Holder(w)
           k == HolderKind(w)
           no == ProjectNumber(w)
           n == NumberHere(w)
           r == request[w].read.row
           N == {r} \ {NoRow}
<1>1. /\ IdTyped' /\ \A v \in Requester : request'[v].busy = FALSE
  BY InsertTyped DEF IdInv
<1>2. /\ request[w].read.project = projectNo[p]
      /\ request[w].read.number = (IF projectNo[p] = 0 THEN globalSeq ELSE lastSeq[<<p, k>>])
      /\ r # NoRow => OwnerOf[r] = p
      /\ Item(w).part = "link" => r # NoRow /\ r = Prior(Item(w).row)
  BY InsertParts, ZenonT(60) DEF IdInv, ReadsFresh
<1>3. p \in IdProject /\ k \in EntityKinds /\ no \in Nat \ {0} /\ n \in Nat \ {0}
      /\ r \in Row \cup {NoRow}
  BY InsertParts DEF IdInv, Reads
<1>4. projectNo[p] \in Nat /\ lastSeq[<<p, k>>] \in Nat /\ globalSeq \in Nat
  BY <1>3 DEF IdInv, IdTyped
<1>5. no = (IF projectNo[p] # 0 THEN projectNo[p] ELSE globalSeq + 1) /\ n = 1 + lastSeq[<<p, k>>]
  BY <1>2, <1>4 DEF ProjectNumber, NumberHere
<1>6. r # NoRow => r \in Row /\ k = KindOf[r] /\ OwnerOf[r] = p
  BY <1>2, <1>3 DEF HolderKind
<1>7. /\ globalSeq' = (IF projectNo[p] # 0 THEN globalSeq ELSE no)
      /\ projectNo' = [projectNo EXCEPT ![p] = no]
      /\ lastSeq' = [lastSeq EXCEPT ![<<p, k>>] = n]
      /\ displayId' = [s \in Row |-> IF s = r THEN <<no, k, n>> ELSE displayId[s]]
      /\ dupOf' = (IF Item(w).part = "link" THEN [dupOf EXCEPT ![Item(w).row] = <<no, k, n>>]
                   ELSE dupOf)
  BY <1>2, InsertParts, ZenonT(60) DEF GivenId, IdInv
<1>8. Item(w).row \in Row
  BY InsertParts DEF IdInv
<1> HIDE DEF p, k, no, n, r
<1>9. Allotted'
  BY <1>3, <1>4, <1>5, <1>7, SMTT(40) DEF Allotted, IdInv, IdTyped
<1>10. \A q \in IdProject : projectNo[q] # 0 => projectNo'[q] = projectNo[q]
  BY <1>3, <1>5, <1>7 DEF IdInv, IdTyped
<1>11. \A key \in IdProject \X EntityKinds : lastSeq[key] <= lastSeq'[key]
  <2>1. <<p, k>> \in IdProject \X EntityKinds /\ n >= lastSeq[<<p, k>>]
    BY <1>3, <1>4, <1>5
  <2> DEFINE here == <<p, k>>
  <2> HIDE DEF here
  <2>2. lastSeq' = [lastSeq EXCEPT ![here] = n] /\ here \in IdProject \X EntityKinds
        /\ n >= lastSeq[here]
    BY <1>7, <2>1 DEF here
  <2> QED BY <2>2 DEF IdInv, IdTyped
<1>12. N \in SUBSET Row /\ \A s \in Row \ N : displayId'[s] = displayId[s]
  BY <1>3, <1>6, <1>7, RowsAssumption
<1>13. \A s \in N : /\ displayId'[s] = <<no, k, n>> /\ displayId'[s] \in DisplayIds
                    /\ Given(s, displayId'[s], projectNo', lastSeq')
                    /\ displayId'[s][3] > lastSeq[<<OwnerOf[s], KindOf[s]>>]
  <2> SUFFICES ASSUME r # NoRow
               PROVE  /\ displayId'[r] = <<no, k, n>> /\ displayId'[r] \in DisplayIds
                      /\ Given(r, displayId'[r], projectNo', lastSeq')
                      /\ displayId'[r][3] > lastSeq[<<OwnerOf[r], KindOf[r]>>]
    OBVIOUS
  <2>1. r \in Row /\ k = KindOf[r] /\ OwnerOf[r] = p /\ displayId'[r] = <<no, k, n>>
    BY <1>6, <1>7
  <2>2. projectNo'[p] = no /\ lastSeq'[<<p, k>>] = n
    BY <1>3, <1>7 DEF IdInv, IdTyped
  <2> QED BY <1>3, <1>4, <1>5, <2>1, <2>2 DEF Given, DisplayIds
<1>14. \A s, t \in N : s = t
  OBVIOUS
<1> HIDE DEF N
<1>15. /\ NamedRight' /\ UniqueDisplayIds'
       /\ \A e \in Row, d \in DisplayIds : Given(e, d, projectNo, lastSeq) =>
            /\ Given(e, d, projectNo', lastSeq')
            /\ \A s \in N : displayId'[s] # d
  BY <1>1, <1>9, <1>10, <1>11, <1>12, <1>13, <1>14, Giving, SMTT(40)
<1>16. ASSUME NEW s \in Row, dupOf'[s] # Unset PROVE \E e \in Earlier(s) : PointsTo(s, e)'
  <2>1. CASE dupOf'[s] = dupOf[s]
    BY <1>12, <1>15, <1>16, <2>1, StillLinked
  <2>2. CASE dupOf'[s] # dupOf[s]
    <3>1. Item(w).part = "link" /\ s = Item(w).row /\ dupOf'[s] = <<no, k, n>>
      BY <1>7, <1>8, <2>2 DEF IdInv, IdTyped
    <3>2. r # NoRow /\ r = Prior(s) /\ r \in Earlier(s) /\ r \in N
      BY <1>2, <3>1, PriorIsEarlier DEF r, N
    <3>3. /\ displayId'[r] = dupOf'[s] /\ displayId'[r] \in DisplayIds
          /\ Given(r, displayId'[r], projectNo', lastSeq') /\ displayId'[r] # Unset
      BY <1>13, <3>1, <3>2, KeysAreNoIds
    <3>4. \A t \in Row : displayId'[t] = dupOf'[s] => t = r
      BY <1>12, <1>15, <3>2, <3>3 DEF UniqueDisplayIds
    <3>5. PICK e \in Earlier(s) : e = r
      BY <3>2
    <3>6. PointsTo(s, e)'
      BY <3>3, <3>4, <3>5 DEF PointsTo
    <3> QED BY <3>6
  <2> QED BY <2>1, <2>2
<1>17. Linked'
  BY <1>16 DEF Linked
<1>18. ReadsFresh'
  BY <1>1 DEF ReadsFresh
<1> QED BY <1>1, <1>9, <1>15, <1>17, <1>18 DEF IdInv

LEMMA LinkKeeps ==
  ASSUME IdInv, \A v, w \in Requester : v = w, NEW w \in Requester, LinkDuplicate(w)
  PROVE  IdInv'
<1>1. /\ IdTyped' /\ UNCHANGED <<globalSeq, projectNo, lastSeq, displayId>>
      /\ \A v \in Requester : request'[v].busy = FALSE
  BY LinkTyped DEF IdInv
<1>2. PICK r \in Row, e \in Row :
        /\ e \in Earlier(r)
        /\ dupOf' = [dupOf EXCEPT ![r] = IF displayId[e] # Unset THEN displayId[e] ELSE <<e>>]
  <2>1. Item(w).row \in Row /\ Prior(Item(w).row) \in Row
    BY LinkTyped DEF IdInv, Earlier
  <2> DEFINE r == Item(w).row
             e == Prior(r)
  <2>2. /\ e \in Earlier(r)
        /\ dupOf' = [dupOf EXCEPT ![r] = IF displayId[e] # Unset THEN displayId[e] ELSE <<e>>]
    BY LinkTyped DEF IdInv
  <2> HIDE DEF r, e
  <2>3. r \in Row /\ e \in Row
    BY <2>1 DEF r, e
  <2> QED BY <2>2, <2>3
<1>3. ReadsFresh'
  BY <1>1 DEF ReadsFresh
<1>4. Allotted' /\ NamedRight' /\ UniqueDisplayIds'
  BY <1>1 DEF IdInv, Allotted, NamedRight, UniqueDisplayIds
<1>5. ASSUME NEW s \in Row, dupOf'[s] # Unset PROVE \E u \in Earlier(s) : PointsTo(s, u)'
  <2>1. CASE dupOf'[s] = dupOf[s]
    <3>1. PICK u \in Earlier(s) : PointsTo(s, u)
      BY <1>5, <2>1 DEF IdInv, Linked
    <3>2. PointsTo(s, u)'
      BY <1>1, <2>1, <3>1 DEF PointsTo
    <3> QED BY <3>2
  <2>2. CASE dupOf'[s] # dupOf[s]
    <3>1. s = r /\ dupOf'[s] = (IF displayId[e] # Unset THEN displayId[e] ELSE <<e>>)
      BY <1>2, <2>2 DEF IdInv, IdTyped
    <3>2. e \in Row /\ e \in Earlier(s)
      BY <1>2, <3>1
    <3>3. CASE displayId[e] = Unset
      BY <3>1, <3>2, <3>3 DEF PointsTo
    <3>4. CASE displayId[e] # Unset
      <4>1. /\ dupOf'[s] = displayId[e] /\ displayId[e] \in DisplayIds
            /\ Given(e, displayId[e], projectNo, lastSeq)
            /\ \A t \in Row : displayId[t] = displayId[e] => t = e
        BY <3>1, <3>2, <3>4 DEF IdInv, IdTyped, NamedRight, UniqueDisplayIds
      <4>2. PointsTo(s, e)'
        BY <1>1, <3>2, <4>1 DEF PointsTo
      <4> QED BY <3>2, <4>2
    <3> QED BY <3>3, <3>4
  <2> QED BY <2>1, <2>2
<1>6. Linked'
  BY <1>5 DEF Linked
<1> QED BY <1>1, <1>3, <1>4, <1>6 DEF IdInv

LEMMA MigrateKeeps ==
  ASSUME IdInv, Migrate
  PROVE  IdInv'
<1>1. IdTyped'
  BY MigrateTyped DEF IdInv
<1>2. PICK order \in [New -> 1 .. Cardinality(New)] :
        /\ \A p, q \in New : order[p] = order[q] => p = q
        /\ projectNo' = [p \in IdProject |->
             IF p \in New THEN globalSeq + order[p] ELSE projectNo[p]]
  BY MigrateParts DEF IdInv
<1>3. Cardinality(New) \in Nat /\ globalSeq' = globalSeq + Cardinality(New)
  BY MigrateParts DEF IdInv
<1>4. /\ globalSeq \in Nat /\ New = {p \in IdProject : projectNo[p] = 0}
      /\ \A p \in IdProject : projectNo[p] \in Nat /\ projectNo[p] <= globalSeq
  BY DEF IdInv, IdTyped, New, Allotted
<1>5. \A p \in New : order[p] \in Nat \ {0} /\ order[p] <= Cardinality(New)
  BY <1>2, <1>3
<1>6. /\ \A p \in New : projectNo'[p] = globalSeq + order[p]
      /\ \A p \in IdProject \ New : projectNo'[p] = projectNo[p]
      /\ \A p \in IdProject : projectNo'[p] # 0
  BY <1>2, <1>4, <1>5
<1>7. Allotted'
  <2>1. \A p \in IdProject : projectNo'[p] <= globalSeq'
    BY <1>3, <1>4, <1>5, <1>6
  <2>2. ASSUME NEW p \in IdProject, NEW q \in IdProject, projectNo'[p] = projectNo'[q] PROVE p = q
    <3>1. CASE p \in New /\ q \in New
      <4>1. globalSeq + order[p] = globalSeq + order[q]
        BY <1>6, <2>2, <3>1
      <4>2. order[p] = order[q]
        BY <1>4, <1>5, <3>1, <4>1
      <4> QED BY <1>2, <3>1, <4>2
    <3>2. CASE p \notin New /\ q \notin New
      BY <1>4, <1>6, <2>2, <3>2 DEF IdInv, Allotted
    <3>3. CASE p \in New /\ q \notin New
      BY <1>4, <1>5, <1>6, <2>2, <3>3
    <3>4. CASE p \notin New /\ q \in New
      BY <1>4, <1>5, <1>6, <2>2, <3>4, SMTT(40)
    <3> QED BY <3>1, <3>2, <3>3, <3>4
  <2> QED BY <2>1, <2>2 DEF Allotted
<1>8. \A p \in IdProject : projectNo[p] # 0 => projectNo'[p] = projectNo[p]
  BY <1>4, <1>6
<1>9. \A k \in IdProject \X EntityKinds : lastSeq[k] <= lastSeq'[k]
  <2> TAKE k \in IdProject \X EntityKinds
  <2>1. Cardinality(Keyed(k)) \in Nat
    BY FS_Subset, FS_CardinalityType DEF Keyed, Bare
  <2>2. lastSeq'[k] = lastSeq[k] + Cardinality(Keyed(k)) /\ lastSeq[k] \in Nat
    BY MigrateParts DEF IdInv, IdTyped
  <2> QED BY <2>1, <2>2
<1>10. Bare \in SUBSET Row /\ \A r \in Row \ Bare : displayId'[r] = displayId[r]
  BY MigrateParts DEF Bare, IdInv
<1>11. \A r \in Bare : /\ displayId'[r] \in DisplayIds
                       /\ Given(r, displayId'[r], projectNo', lastSeq')
                       /\ displayId'[r][3] > lastSeq[<<OwnerOf[r], KindOf[r]>>]
                       /\ displayId'[r][3] = lastSeq[<<OwnerOf[r], KindOf[r]>>]
                                             + Position(r, Peers(r))
  <2> TAKE r \in Bare
  <2>1. PICK n \in Nat : /\ displayId'[r] = <<projectNo'[OwnerOf[r]], KindOf[r], n>>
                         /\ n > lastSeq[<<OwnerOf[r], KindOf[r]>>]
                         /\ n <= lastSeq'[<<OwnerOf[r], KindOf[r]>>]
                         /\ n = lastSeq[<<OwnerOf[r], KindOf[r]>>] + Position(r, Peers(r))
    BY MigrateGives DEF IdInv
  <2>2. r \in Row /\ OwnerOf[r] \in IdProject /\ projectNo'[OwnerOf[r]] \in Nat
        /\ projectNo'[OwnerOf[r]] # 0
    BY <1>1, <1>6, <1>10 DEF IdTyped
  <2> QED BY <2>1, <2>2 DEF Given, DisplayIds
<1>12. ASSUME NEW r \in Bare, NEW s \in Bare, r # s, OwnerOf[r] = OwnerOf[s],
              KindOf[r] = KindOf[s]
       PROVE  displayId'[r][3] # displayId'[s][3]
  <2>1. Peers(r) = Peers(s) /\ Peers(r) \in SUBSET Row /\ r \in Peers(r) /\ s \in Peers(r)
    BY <1>10, <1>12 DEF Peers
  <2>2. /\ Position(r, Peers(r)) # Position(s, Peers(r))
        /\ Position(r, Peers(r)) \in Nat /\ Position(s, Peers(r)) \in Nat
    BY <1>12, <2>1, Positions
  <2>3. lastSeq[<<OwnerOf[r], KindOf[r]>>] \in Nat
    BY <1>10 DEF IdInv, IdTyped
  <2> QED BY <1>11, <1>12, <2>1, <2>2, <2>3
<1>13. /\ NamedRight' /\ UniqueDisplayIds'
       /\ \A e \in Row, d \in DisplayIds : Given(e, d, projectNo, lastSeq) =>
            /\ Given(e, d, projectNo', lastSeq')
            /\ \A s \in Bare : displayId'[s] # d
  <2>1. \A r \in Bare : /\ displayId'[r] \in DisplayIds
                        /\ Given(r, displayId'[r], projectNo', lastSeq')
                        /\ displayId'[r][3] > lastSeq[<<OwnerOf[r], KindOf[r]>>]
    BY <1>11
  <2>2. \A r, s \in Bare : r # s /\ OwnerOf[r] = OwnerOf[s] /\ KindOf[r] = KindOf[s]
                           => displayId'[r][3] # displayId'[s][3]
    BY <1>12
  <2>3. \A p \in IdProject : projectNo[p] # 0 => projectNo'[p] = projectNo[p]
    BY <1>8
  <2> QED BY <1>1, <1>7, <2>3, <1>9, <1>10, <2>1, <2>2, Giving
<1>14. \A e \in Row : displayId'[e] \in DisplayIds /\ displayId'[e] # Unset
  <2> TAKE e \in Row
  <2>1. CASE e \in Bare
    BY <1>11, <2>1, KeysAreNoIds
  <2>2. CASE e \notin Bare
    BY <1>10, <2>2 DEF Bare, IdInv, IdTyped
  <2> QED BY <2>1, <2>2
<1>15. ASSUME NEW s \in Row, dupOf'[s] # Unset PROVE \E e \in Earlier(s) : PointsTo(s, e)'
  <2>1. CASE dupOf'[s] = dupOf[s]
    BY <1>10, <1>13, <1>15, <2>1, StillLinked
  <2>2. CASE dupOf'[s] # dupOf[s]
    <3>1. Prior(s) # NoRow /\ dupOf'[s] = displayId'[Prior(s)]
      BY <1>15, <2>2, MigrateParts DEF IdInv
    <3>2. PICK e \in Earlier(s) : e = Prior(s) /\ e \in Row
      BY <3>1, PriorIsEarlier
    <3>3. dupOf'[s] = displayId'[e] /\ displayId'[e] \in DisplayIds /\ displayId'[e] # Unset
      BY <1>14, <3>1, <3>2
    <3>4. Given(e, displayId'[e], projectNo', lastSeq')
          /\ \A t \in Row : displayId'[t] = displayId'[e] => t = e
      BY <1>13, <3>2, <3>3 DEF NamedRight, UniqueDisplayIds
    <3>5. PointsTo(s, e)'
      BY <3>2, <3>3, <3>4 DEF PointsTo
    <3> QED BY <3>5
  <2> QED BY <2>1, <2>2
<1>16. Linked'
  BY <1>15 DEF Linked
<1>17. ReadsFresh'
  <2>1. \A w \in Requester : request'[w] = NoRequest
    BY MigrateParts DEF IdInv
  <2>2. NoRequest.busy = FALSE
    BY DEF NoRequest
  <2> QED BY <2>1, <2>2 DEF ReadsFresh
<1> QED BY <1>1, <1>7, <1>13, <1>16, <1>17 DEF IdInv

LEMMA IdInvKept ==
  ASSUME IdInv, \A v, w \in Requester : v = w, [IdNext]_idVars
  PROVE  IdInv'
<1>1. CASE UNCHANGED idVars
  <2>1. UNCHANGED <<globalSeq, projectNo, lastSeq, displayId, dupOf>> /\ request' = request
    BY <1>1 DEF idVars
  <2>2. IdTyped' /\ Allotted' /\ NamedRight' /\ UniqueDisplayIds'
    BY <2>1 DEF IdInv, IdTyped, Allotted, NamedRight, UniqueDisplayIds
  <2>3. Linked'
    <3>1. ASSUME NEW r \in Row, dupOf'[r] # Unset PROVE \E e \in Earlier(r) : PointsTo(r, e)'
      <4>1. PICK e \in Earlier(r) : PointsTo(r, e)
        BY <2>1, <3>1 DEF IdInv, Linked
      <4>2. PointsTo(r, e)'
        BY <2>1, <4>1, SMTT(40) DEF PointsTo
      <4> QED BY <4>2
    <3> QED BY <3>1 DEF Linked
  <2>4. ReadsFresh'
    BY <2>1 DEF IdInv, ReadsFresh, Holder, HolderKind, Item
  <2> QED BY <2>2, <2>3, <2>4 DEF IdInv
<1>2. ASSUME NEW w \in Requester,
             \/ \E p \in IdProject, k \in EntityKinds : ListRows(w, p, k)
             \/ \E r \in Row : GetRow(w, r) \/ GetFinding(w, r)
             \/ FetchEvidence(w) \/ NextRow(w)
      PROVE  IdInv'
  <2>1. /\ IdTyped' /\ UNCHANGED <<globalSeq, projectNo, lastSeq, displayId, dupOf>>
        /\ request'[w].busy = FALSE
    BY <1>2, RequestsBegin, SkipTyped DEF IdInv
  <2> QED BY <2>1, Quiet
<1>3. ASSUME NEW w \in Requester, SelectSequence(w) \/ InsertSequence(w) \/ LinkDuplicate(w)
      PROVE  IdInv'
  BY <1>3, SelectKeeps, InsertKeeps, LinkKeeps
<1>4. CASE Migrate
  BY <1>4, MigrateKeeps
<1> QED BY <1>1, <1>2, <1>3, <1>4 DEF IdNext

\* As long as requests come one at a time, no two rows show the same display
\* id, whatever is listed, opened or migrated, and in whatever order.
THEOREM IdsAreUnique ==
  ASSUME \A v, w \in Requester : v = w
  PROVE  IdSpec => []UniqueDisplayIds
<1>1. IdInit => IdInv
  BY IdInvInitially
<1>2. IdInv /\ [IdNext]_idVars => IdInv'
  BY IdInvKept
<1>3. IdInv => UniqueDisplayIds
  BY DEF IdInv
<1> QED BY <1>1, <1>2, <1>3, PTL DEF IdSpec

\* Nor is evidence then called a duplicate of a row that is not older, of
\* another hash or of another project, even when the older row was renamed
\* since.
THEOREM DuplicatesAreOlder ==
  ASSUME \A v, w \in Requester : v = w
  PROVE  IdSpec => []DuplicatesPointBack
<1>1. IdInit => IdInv
  BY IdInvInitially
<1>2. IdInv /\ [IdNext]_idVars => IdInv'
  BY IdInvKept
<1>3. IdInv => DuplicatesPointBack
  <2> SUFFICES ASSUME IdInv, NEW r \in Row, NEW s \in Row,
                      dupOf[r] \in {displayId[s], <<s>>} \ {Unset}
               PROVE  s \in Earlier(r)
    BY DEF DuplicatesPointBack, Earlier, Newer
  <2>1. PICK e \in Earlier(r) : PointsTo(r, e)
    BY DEF IdInv, Linked
  <2>2. displayId[s] \in DisplayIds \cup {Unset}
    BY DEF IdInv, IdTyped
  <2>3. CASE dupOf[r] = <<e>>
    <3>1. displayId[s] # <<e>>
      BY <2>2, <2>3, KeysAreNoIds
    <3>2. <<s>> = <<e>>
      BY <2>3, <3>1
    <3> QED BY <3>2
  <2>4. CASE dupOf[r] # <<e>>
    <3>1. dupOf[r] \in DisplayIds /\ (displayId[s] = dupOf[r] => s \in Earlier(r))
      BY <2>1, <2>4 DEF PointsTo
    <3>2. dupOf[r] # <<s>>
      BY <3>1, KeysAreNoIds
    <3> QED BY <3>1, <3>2
  <2> QED BY <2>3, <2>4
<1> QED BY <1>1, <1>2, <1>3, PTL DEF IdSpec

HIDE RowsAssumption

-----------------------------------------------------------------------------
(***************************************************************************)
(* Findings and the versions of their reproducers, for every set of        *)
(* findings and readers.                                                   *)
(***************************************************************************)
USE FindingsAssumption

(* The inductive invariant.  A count is read before the transaction that   *)
(* inserts: it is at most the count there is then, because no version is   *)
(* ever deleted.                                                           *)

Numbered == \A f \in Finding : Count(f) \in 0..MaxVersions /\ Numbers(f) = 1..Count(f)

\* What a dossier's thread has counted, and the handler on the event loop.
CountsSound ==
  /\ \A r \in Reader : dossier[r].of = NoFinding => dossier[r].count = 0
  /\ \A r \in Reader : \A f \in Finding : dossier[r].of = f /\ dossier[r].count >= 0 =>
       dossier[r].count <= Count(f) /\ dossier[r].count < MaxVersions
  /\ handler.step = "generate" =>
       /\ handler.id[1] \in Finding /\ handler.count \in Nat
       /\ \A f \in Finding : handler.id[1] = f => handler.count <= Count(f)
       /\ handler.count < MaxVersions

\* The handler about to validate a version has recorded the verdict on it.
VerdictSound ==
  handler.step = "validate" => handler.id \in Versions /\ handler.id \in verdicts

FindingInv ==
  FindingTypeOK /\ Numbered /\ CountsSound /\ VerdictSound
    /\ VerdictBeforeVersion /\ ValidatedIsConfirmed

LEMMA CountUpTo == \A n \in Nat : Cardinality(1..n) = n
  BY FS_Interval

LEMMA FindingsInitially == FindingInit => FindingInv
<1> SUFFICES ASSUME FindingInit PROVE FindingInv
  OBVIOUS
<1>1. \A f \in Finding : Numbers(f) = {} /\ Count(f) = 0
  BY FS_EmptySet DEF FindingInit, Numbers, Count
<1>2. FindingTypeOK
  BY DEF FindingInit, FindingTypeOK, FindingStates, Absent, NoDossier, NoHandler, VersionStatuses
<1>3. Numbered
  <2>1. 1..0 = {} /\ 0 \in 0..MaxVersions
    OBVIOUS
  <2> QED BY <1>1, <2>1 DEF Numbered
<1>4. CountsSound /\ VerdictSound
  BY DEF FindingInit, CountsSound, VerdictSound, NoDossier, NoHandler
<1>5. VerdictBeforeVersion /\ ValidatedIsConfirmed
  BY <1>1 DEF FindingInit, VerdictBeforeVersion, ValidatedIsConfirmed, Absent
<1> QED BY <1>2, <1>3, <1>4, <1>5 DEF FindingInv

-----------------------------------------------------------------------------
(* Statements on reproducer_versions.                                      *)

\* A statement writes the version next in number or one that is there.
LEMMA PutStep ==
  ASSUME FindingTypeOK, Numbered, NEW f \in Finding, NEW n \in 1..MaxVersions,
         n <= Count(f) + 1, NEW s \in VersionStatuses, Put(f, n, s)
  PROVE  /\ Numbered'
         /\ DOMAIN version' = Finding
         /\ \A g \in Finding : Count(g)' >= Count(g)
         /\ version'[f][n] = s
         /\ \A g \in Finding : \A k \in Numbers(g)' :
              g # f \/ k # n => k \in Numbers(g) /\ version'[g][k] = version[g][k]
<1>1. /\ DOMAIN version = Finding
      /\ DOMAIN version' = Finding
      /\ version'[f] = [k \in Numbers(f) \cup {n} |-> IF k = n THEN s ELSE version[f][k]]
      /\ \A g \in Finding \ {f} : version'[g] = version[g]
  BY DEF Put, FindingTypeOK
<1>2. /\ Numbers(f)' = Numbers(f) \cup {n}
      /\ \A g \in Finding \ {f} : Numbers(g)' = Numbers(g)
  BY <1>1 DEF Numbers
<1>3. PICK c \in 0..MaxVersions : c = Count(f) /\ Numbers(f) = 1..c
  BY DEF Numbered
<1>4. \E d \in 0..MaxVersions : d >= c /\ Numbers(f)' = 1..d
  <2>1. CASE n <= c
    BY <1>2, <1>3, <2>1
  <2>2. CASE n = c + 1
    BY <1>2, <1>3, <2>2
  <2> QED BY <1>3, <2>1, <2>2
<1>5. PICK d \in 0..MaxVersions : d >= c /\ Numbers(f)' = 1..d
  BY <1>4
<1>6. Count(f)' = d
  BY <1>5, CountUpTo DEF Count
<1>7. \A g \in Finding \ {f} : Count(g)' = Count(g)
  BY <1>2 DEF Count
<1>8. \A g \in Finding : Count(g) \in 0..MaxVersions /\ Numbers(g) = 1..Count(g)
  BY DEF Numbered
<1>9. Numbered'
  <2>1. \A g \in Finding : Count(g)' \in 0..MaxVersions /\ Numbers(g)' = 1..Count(g)'
    BY <1>2, <1>5, <1>6, <1>7, <1>8
  <2> QED BY <2>1 DEF Numbered
<1>10. \A g \in Finding : Count(g)' >= Count(g)
  BY <1>3, <1>5, <1>6, <1>7, <1>8
<1>11. version'[f][n] = s /\ \A k \in Numbers(f) : k # n => version'[f][k] = version[f][k]
  BY <1>1
<1> QED BY <1>1, <1>2, <1>9, <1>10, <1>11

\* What such a statement leaves: the types, the counts others have read, and
\* the verdict behind a VALIDATED version.
LEMMA VersionStep ==
  ASSUME FindingInv, NEW f \in Finding, NEW n \in 1..MaxVersions, n <= Count(f) + 1,
         NEW s \in VersionStatuses, Put(f, n, s), s = "VALIDATED" => <<f, n>> \in verdicts,
         verdicts' = verdicts
  PROVE  /\ Numbered' /\ VerdictBeforeVersion'
         /\ DOMAIN version' = Finding
         /\ \A g \in Finding : /\ DOMAIN version'[g] \subseteq 1..MaxVersions
                               /\ \A k \in DOMAIN version'[g] : version'[g][k] \in VersionStatuses
         /\ \A g \in Finding : Count(g)' >= Count(g)
<1>1. /\ Numbered'
      /\ DOMAIN version' = Finding
      /\ \A g \in Finding : Count(g)' >= Count(g)
      /\ version'[f][n] = s
      /\ \A g \in Finding : \A k \in Numbers(g)' :
           g # f \/ k # n => k \in Numbers(g) /\ version'[g][k] = version[g][k]
  BY PutStep DEF FindingInv
<1>2. VerdictBeforeVersion'
  BY <1>1 DEF FindingInv, VerdictBeforeVersion
<1>3. \A g \in Finding : DOMAIN version'[g] \subseteq 1..MaxVersions
  BY <1>1 DEF Numbered, Numbers
<1>4. \A g \in Finding : \A k \in DOMAIN version'[g] : version'[g][k] \in VersionStatuses
  BY <1>1 DEF FindingInv, FindingTypeOK, Numbers
<1> QED BY <1>1, <1>2, <1>3, <1>4

\* Counts only grow, so what was read of them stays at most what they are.
LEMMA CountsKeep ==
  ASSUME FindingInv, \A g \in Finding : Count(g)' >= Count(g) /\ Count(g)' \in Nat,
         \A r \in Reader : dossier'[r] \in {dossier[r], NoDossier},
         handler' \in {handler, NoHandler}
  PROVE  CountsSound'
<1>1. ASSUME NEW r \in Reader, NEW f \in Finding, dossier'[r].of = f, dossier'[r].count >= 0
      PROVE  dossier'[r].count <= Count(f)' /\ dossier'[r].count < MaxVersions
  <2>1. dossier'[r] = dossier[r]
    BY <1>1 DEF NoDossier
  <2>2. /\ dossier[r].count \in Int /\ dossier[r].count < MaxVersions
        /\ dossier[r].count <= Count(f)
    BY <1>1, <2>1 DEF FindingInv, FindingTypeOK, CountsSound
  <2>3. Count(f) \in Nat /\ Count(f)' \in Nat /\ Count(f)' >= Count(f)
    BY DEF FindingInv, Numbered
  <2> QED BY <2>1, <2>2, <2>3
<1>2. ASSUME handler'.step = "generate", NEW f \in Finding, handler'.id[1] = f
      PROVE  handler'.count <= Count(f)'
  <2>1. handler' = handler
    BY <1>2 DEF NoHandler
  <2>2. handler.count \in Nat /\ handler.count <= Count(f)
    BY <1>2, <2>1 DEF FindingInv, CountsSound
  <2>3. Count(f) \in Nat /\ Count(f)' \in Nat /\ Count(f)' >= Count(f)
    BY DEF FindingInv, Numbered
  <2> QED BY <2>1, <2>2, <2>3
<1>3. handler'.step = "generate" =>
        handler'.id[1] \in Finding /\ handler'.count \in Nat /\ handler'.count < MaxVersions
  BY DEF FindingInv, CountsSound, NoHandler
<1>4. \A r \in Reader : dossier'[r].of = NoFinding => dossier'[r].count = 0
  BY DEF FindingInv, CountsSound, NoDossier
<1> QED BY <1>1, <1>2, <1>3, <1>4 DEF CountsSound

-----------------------------------------------------------------------------
(* The handlers, by what they write.                                       *)

\* A handler that leaves the versions alone, and begins no insertion.
LEMMA RowOnlyStep ==
  ASSUME FindingInv, version' = version, verdicts \subseteq verdicts', verdicts' \subseteq Versions,
         finding' \in [Finding -> [state : FindingStates, validation : {"NULL", "VALIDATED"},
                                   reproducer : {"NULL", "DRAFT"}]],
         ValidatedIsConfirmed', CountsSound', VerdictSound',
         dossier' \in [Reader -> [of : Finding \cup {NoFinding}, count : (-1)..MaxVersions]],
         handler'.step \in {"none", "generate", "validate"}
  PROVE  FindingInv'
<1>1. FindingTypeOK'
  BY DEF FindingInv, FindingTypeOK
<1>2. Numbered' /\ VerdictBeforeVersion'
  BY DEF FindingInv, Numbered, Numbers, Count, VerdictBeforeVersion
<1> QED BY <1>1, <1>2 DEF FindingInv

LEMMA FindingRowStep ==
  ASSUME FindingInv,
         \/ \E f \in Finding : RecordFinding(f)
         \/ \E g \in Finding : \E id \in Versions : RecordVerdict(g, id)
  PROVE  FindingInv'
<1> DEFINE Findings == [state : FindingStates, validation : {"NULL", "VALIDATED"},
                        reproducer : {"NULL", "DRAFT"}]
<1>1. /\ finding \in [Finding -> Findings] /\ verdicts \subseteq Versions
      /\ dossier \in [Reader -> [of : Finding \cup {NoFinding}, count : (-1)..MaxVersions]]
      /\ handler.step \in {"none", "generate", "validate"}
      /\ ValidatedIsConfirmed /\ CountsSound /\ VerdictSound
  BY DEF FindingInv, FindingTypeOK
<1>2. ASSUME NEW f \in Finding, RecordFinding(f) PROVE FindingInv'
  <2>1. PICK s \in {"OPEN", "CONFIRMED"} :
          finding' = [finding EXCEPT ![f] = [state |-> s, validation |-> "NULL",
                                             reproducer |-> "NULL"]]
    BY <1>2 DEF RecordFinding, Absent
  <2>2. UNCHANGED <<version, verdicts, dossier, handler>>
    BY <1>2 DEF RecordFinding
  <2>3. finding' \in [Finding -> Findings]
    BY <1>1, <2>1 DEF FindingStates
  <2>4. ValidatedIsConfirmed'
    BY <1>1, <2>1 DEF ValidatedIsConfirmed
  <2>5. CountsSound' /\ VerdictSound'
    BY <1>1, <2>2 DEF CountsSound, VerdictSound, Count, Numbers
  <2> QED BY <1>1, <2>2, <2>3, <2>4, <2>5, RowOnlyStep
<1>3. ASSUME NEW g \in Finding, NEW id \in Versions, RecordVerdict(g, id) PROVE FindingInv'
  <2>1. /\ verdicts' = verdicts \cup {id}
        /\ handler' = [step |-> "validate", id |-> id, count |-> 0]
        /\ UNCHANGED <<version, dossier>>
        /\ \/ finding' = finding
           \/ finding' = [finding EXCEPT ![g] =
                [finding[g] EXCEPT !.state = "CONFIRMED", !.validation = "VALIDATED"]]
    BY <1>1, <1>3 DEF RecordVerdict
  <2>2. finding' \in [Finding -> Findings] /\ ValidatedIsConfirmed'
    <3>1. CASE finding' = finding
      BY <1>1, <3>1 DEF ValidatedIsConfirmed
    <3>2. CASE finding' = [finding EXCEPT ![g] =
                 [finding[g] EXCEPT !.state = "CONFIRMED", !.validation = "VALIDATED"]]
      <4>1. /\ [finding[g] EXCEPT !.state = "CONFIRMED", !.validation = "VALIDATED"] \in Findings
            /\ [finding[g] EXCEPT !.state = "CONFIRMED", !.validation = "VALIDATED"].state
                 = "CONFIRMED"
        BY <1>1 DEF FindingStates
      <4> QED BY <1>1, <3>2, <4>1 DEF ValidatedIsConfirmed
    <3> QED BY <2>1, <3>1, <3>2
  <2>3. CountsSound' /\ VerdictSound'
    BY <1>1, <2>1 DEF CountsSound, VerdictSound, Count, Numbers
  <2>4. verdicts' \subseteq Versions
    BY <1>1, <2>1
  <2> QED BY <1>1, <2>1, <2>2, <2>3, <2>4, RowOnlyStep
<1> QED BY <1>2, <1>3

LEMMA CountStep ==
  ASSUME FindingInv,
         \/ \E f \in Finding : CountVersions(f)
         \/ \E f \in Finding, r \in Reader : OpenDossier(r, f)
         \/ \E r \in Reader : CountForDossier(r)
         \/ StopServer
         \/ UNCHANGED findingVars
  PROVE  FindingInv'
<1>1. /\ FindingTypeOK /\ Numbered /\ ValidatedIsConfirmed /\ CountsSound /\ VerdictSound
  BY DEF FindingInv
<1>2. UNCHANGED <<finding, version, verdicts>>
  BY DEF CountVersions, OpenDossier, CountForDossier, StopServer, findingVars
<1>3. \A g : Count(g)' = Count(g)
  BY <1>2 DEF Count, Numbers
<1>4. ValidatedIsConfirmed'
  BY <1>1, <1>2 DEF ValidatedIsConfirmed
<1>5. ASSUME NEW f \in Finding, CountVersions(f) PROVE FindingInv'
  <2>1. /\ handler' = [step |-> "generate", id |-> <<f, 0>>, count |-> Count(f)]
        /\ dossier' = dossier /\ Count(f) < MaxVersions /\ Count(f) \in Nat
    BY <1>1, <1>5 DEF CountVersions, Numbered
  <2>2. CountsSound'
    BY <1>1, <1>3, <2>1 DEF CountsSound
  <2>3. VerdictSound'
    BY <2>1 DEF VerdictSound
  <2> QED BY <1>1, <1>2, <1>4, <2>1, <2>2, <2>3, RowOnlyStep DEF FindingTypeOK
<1>6. ASSUME NEW f \in Finding, NEW r \in Reader, OpenDossier(r, f) PROVE FindingInv'
  <2>1. /\ dossier' = [dossier EXCEPT ![r] = [of |-> f, count |-> -1]]
        /\ handler' = handler
    BY <1>6 DEF OpenDossier
  <2>2. dossier' \in [Reader -> [of : Finding \cup {NoFinding}, count : (-1)..MaxVersions]]
    BY <1>1, <2>1 DEF FindingTypeOK
  <2>3. CountsSound' /\ VerdictSound'
    BY <1>1, <1>2, <1>3, <2>1 DEF FindingTypeOK, CountsSound, VerdictSound
  <2> QED BY <1>1, <1>2, <1>4, <2>1, <2>2, <2>3, RowOnlyStep DEF FindingTypeOK
<1>7. ASSUME NEW r \in Reader, CountForDossier(r) PROVE FindingInv'
  <2>1. /\ dossier' = [dossier EXCEPT ![r].count = Count(dossier[r].of)]
        /\ handler' = handler /\ Count(dossier[r].of) < MaxVersions
        /\ dossier[r].count = -1
    BY <1>7 DEF CountForDossier
  <2>2. CASE dossier[r].of = NoFinding
    BY <1>1, <2>1, <2>2 DEF CountsSound
  <2>3. CASE dossier[r].of # NoFinding
    <3>1. PICK f \in Finding : f = dossier[r].of
      BY <1>1, <2>3 DEF FindingTypeOK
    <3>2. /\ dossier' = [dossier EXCEPT ![r] = [of |-> f, count |-> Count(f)]]
          /\ Count(f) \in 0..MaxVersions
      <4>1. Count(f) \in 0..MaxVersions /\ Count(dossier[r].of) = Count(f)
        BY <1>1, <3>1 DEF Numbered
      <4>2. dossier' = [dossier EXCEPT ![r] = [dossier[r] EXCEPT !.count = Count(f)]]
        BY <2>1, <4>1
      <4>3. [dossier[r] EXCEPT !.count = Count(f)] = [of |-> f, count |-> Count(f)]
        BY <1>1, <3>1, <4>1 DEF FindingTypeOK
      <4> QED BY <4>1, <4>2, <4>3
    <3>3. dossier' \in [Reader -> [of : Finding \cup {NoFinding}, count : (-1)..MaxVersions]]
      BY <1>1, <3>2 DEF FindingTypeOK
    <3>4. CountsSound' /\ VerdictSound'
      BY <1>1, <1>2, <1>3, <2>1, <3>1, <3>2 DEF FindingTypeOK, CountsSound, VerdictSound
    <3> QED BY <1>1, <1>2, <1>4, <2>1, <3>3, <3>4, RowOnlyStep DEF FindingTypeOK
  <2> QED BY <2>2, <2>3
<1>8. CASE StopServer
  <2>1. handler' = NoHandler /\ dossier' = [r \in Reader |-> NoDossier]
    BY <1>8 DEF StopServer
  <2>2. dossier' \in [Reader -> [of : Finding \cup {NoFinding}, count : (-1)..MaxVersions]]
    BY <2>1 DEF NoDossier
  <2>3. CountsSound' /\ VerdictSound' /\ handler'.step = "none"
    BY <2>1 DEF CountsSound, VerdictSound, NoDossier, NoHandler
  <2> QED BY <1>1, <1>2, <1>4, <2>2, <2>3, RowOnlyStep DEF FindingTypeOK
<1>9. CASE UNCHANGED findingVars
  <2>1. CountsSound' /\ VerdictSound' /\ dossier' = dossier /\ handler' = handler
    BY <1>1, <1>3, <1>9 DEF findingVars, CountsSound, VerdictSound
  <2> QED BY <1>1, <1>2, <1>4, <2>1, RowOnlyStep DEF FindingTypeOK
<1> QED BY <1>5, <1>6, <1>7, <1>8, <1>9

\* An insertion or an update of a version, by the handler or a dossier.
LEMMA FindingWriteStep ==
  ASSUME FindingInv, NEW f \in Finding, NEW n \in 1..MaxVersions, n <= Count(f) + 1,
         NEW s \in VersionStatuses, s = "VALIDATED" => <<f, n>> \in verdicts,
         Put(f, n, s) \/ version' = version,
         \/ finding' = finding
         \/ finding' = [finding EXCEPT ![f].reproducer = "DRAFT"],
         verdicts' = verdicts,
         dossier' = dossier \/ \E r \in Reader : dossier' = [dossier EXCEPT ![r] = NoDossier],
         handler' \in {handler, NoHandler}
  PROVE  FindingInv'
<1> DEFINE Findings == [state : FindingStates, validation : {"NULL", "VALIDATED"},
                        reproducer : {"NULL", "DRAFT"}]
<1>1. FindingTypeOK /\ Numbered /\ ValidatedIsConfirmed /\ CountsSound /\ VerdictSound
      /\ VerdictBeforeVersion
  BY DEF FindingInv
<1>2. finding' \in [Finding -> Findings] /\ ValidatedIsConfirmed'
  <2>1. CASE finding' = finding
    BY <1>1, <2>1 DEF FindingTypeOK, ValidatedIsConfirmed
  <2>2. CASE finding' = [finding EXCEPT ![f].reproducer = "DRAFT"]
    <3>1. finding \in [Finding -> Findings]
      BY <1>1 DEF FindingTypeOK
    <3>2. /\ finding' = [finding EXCEPT ![f] = [finding[f] EXCEPT !.reproducer = "DRAFT"]]
          /\ [finding[f] EXCEPT !.reproducer = "DRAFT"] \in Findings
      BY <2>2, <3>1 DEF FindingStates
    <3>3. finding' \in [Finding -> Findings]
      BY <3>1, <3>2
    <3>4. \A g \in Finding : /\ finding'[g].state = finding[g].state
                             /\ finding'[g].validation = finding[g].validation
      BY <3>1, <3>2
    <3> QED BY <1>1, <3>3, <3>4 DEF ValidatedIsConfirmed
  <2> QED BY <2>1, <2>2
<1>3. /\ dossier' \in [Reader -> [of : Finding \cup {NoFinding}, count : (-1)..MaxVersions]]
      /\ \A r \in Reader : dossier'[r] \in {dossier[r], NoDossier}
      /\ handler'.step \in {"none", "generate", "validate"}
  BY <1>1 DEF FindingTypeOK, NoDossier, NoHandler
<1>4. VerdictSound'
  BY <1>1 DEF VerdictSound, NoHandler
<1>5. /\ Numbered' /\ VerdictBeforeVersion'
      /\ DOMAIN version' = Finding
      /\ \A g \in Finding : /\ DOMAIN version'[g] \subseteq 1..MaxVersions
                            /\ \A k \in DOMAIN version'[g] : version'[g][k] \in VersionStatuses
      /\ \A g \in Finding : Count(g)' >= Count(g)
  <2>1. CASE Put(f, n, s)
    BY <2>1, VersionStep
  <2>2. CASE version' = version
    <3>1. \A g \in Finding : Count(g)' = Count(g) /\ Count(g) \in Nat
      BY <1>1, <2>2 DEF Count, Numbers, Numbered
    <3>2. Numbered' /\ VerdictBeforeVersion'
      BY <1>1, <2>2 DEF Numbered, Numbers, Count, VerdictBeforeVersion
    <3> QED BY <1>1, <2>2, <3>1, <3>2 DEF FindingTypeOK
  <2> QED BY <2>1, <2>2
<1>6. FindingTypeOK'
  BY <1>1, <1>2, <1>3, <1>5 DEF FindingTypeOK
<1>7. \A g \in Finding : Count(g)' >= Count(g) /\ Count(g)' \in Nat
  BY <1>5 DEF Numbered
<1>8. CountsSound'
  BY <1>3, <1>7, CountsKeep
<1> QED BY <1>2, <1>4, <1>5, <1>6, <1>8 DEF FindingInv

LEMMA HandlerStep ==
  ASSUME FindingInv,
         \/ \E f \in Finding, n \in 1..MaxVersions : ExecuteVersion(<<f, n>>)
         \/ \E r \in Reader : SeedDossier(r)
         \/ GenerateVersion \/ ValidateVersion
  PROVE  FindingInv'
<1>1. FindingTypeOK /\ Numbered /\ CountsSound /\ VerdictSound
  BY DEF FindingInv
<1>2. ASSUME NEW f \in Finding, NEW n \in 1..MaxVersions, ExecuteVersion(<<f, n>>)
      PROVE  FindingInv'
  <2>1. /\ (n \in Numbers(f) /\ Put(f, n, "REPRODUCED")) \/ version' = version
        /\ UNCHANGED <<finding, verdicts, dossier, handler>>
    BY <1>2 DEF ExecuteVersion, UpdateVersion
  <2>2. CASE n \in Numbers(f) /\ Put(f, n, "REPRODUCED")
    <3>1. n <= Count(f) + 1
      BY <1>1, <2>2 DEF Numbered
    <3> QED BY <2>1, <2>2, <3>1, FindingWriteStep DEF VersionStatuses
  <2>3. CASE version' = version
    BY <2>1, <2>3, CountStep DEF findingVars
  <2> QED BY <2>1, <2>2, <2>3
<1>3. ASSUME NEW r \in Reader, SeedDossier(r) PROVE FindingInv'
  <2>1. PICK f \in Finding : f = dossier[r].of
    BY <1>1, <1>3 DEF SeedDossier, FindingTypeOK
  <2>2. PICK n \in 1..MaxVersions : n = dossier[r].count + 1 /\ n <= Count(f) + 1
    <3>1. /\ dossier[r].count \in Int /\ dossier[r].count >= 0
          /\ dossier[r].count <= Count(f) /\ dossier[r].count < MaxVersions /\ Count(f) \in Nat
      BY <1>1, <1>3, <2>1 DEF SeedDossier, FindingTypeOK, CountsSound, Numbered
    <3> QED BY <3>1
  <2>3. InsertVersion(f, n) /\ dossier' = [dossier EXCEPT ![r] = NoDossier]
        /\ UNCHANGED <<verdicts, handler>>
    BY <1>3, <2>1, <2>2 DEF SeedDossier
  <2> QED BY <2>2, <2>3, FindingWriteStep DEF InsertVersion, VersionStatuses
<1>4. CASE GenerateVersion
  <2>1. PICK f \in Finding : f = handler.id[1]
    BY <1>1, <1>4 DEF GenerateVersion, CountsSound
  <2>2. PICK n \in 1..MaxVersions : n = handler.count + 1 /\ n <= Count(f) + 1
    <3>1. /\ handler.count \in Nat /\ handler.count <= Count(f) /\ handler.count < MaxVersions
          /\ Count(f) \in Nat
      BY <1>1, <1>4, <2>1 DEF GenerateVersion, CountsSound, Numbered
    <3> QED BY <3>1
  <2>3. InsertVersion(f, n) /\ handler' = NoHandler /\ UNCHANGED <<verdicts, dossier>>
    BY <1>4, <2>1, <2>2 DEF GenerateVersion
  <2> QED BY <2>2, <2>3, FindingWriteStep DEF InsertVersion, VersionStatuses
<1>5. CASE ValidateVersion
  <2>1. PICK f \in Finding, n \in Nat : handler.id = <<f, n>> /\ <<f, n>> \in verdicts
    BY <1>1, <1>5 DEF ValidateVersion, VerdictSound, Versions
  <2>2. /\ (n \in Numbers(f) /\ Put(f, n, "VALIDATED")) \/ version' = version
        /\ handler' = NoHandler /\ UNCHANGED <<finding, verdicts, dossier>>
    BY <1>5, <2>1 DEF ValidateVersion, UpdateVersion
  <2>3. CASE n \in Numbers(f) /\ Put(f, n, "VALIDATED")
    <3>1. n \in 1..MaxVersions /\ n <= Count(f) + 1
      BY <1>1, <2>3 DEF Numbered
    <3> QED BY <2>1, <2>2, <2>3, <3>1, FindingWriteStep DEF VersionStatuses
  <2>4. CASE version' = version
    <3>1. \A g \in Finding : Count(g)' >= Count(g) /\ Count(g)' \in Nat
      BY <1>1, <2>4 DEF Count, Numbers, Numbered
    <3>2. CountsSound'
      BY <2>2, <3>1, CountsKeep
    <3>3. VerdictSound' /\ ValidatedIsConfirmed' /\ handler'.step = "none"
      BY <2>2 DEF FindingInv, VerdictSound, ValidatedIsConfirmed, NoHandler
    <3> QED BY <1>1, <2>2, <2>4, <3>2, <3>3, RowOnlyStep DEF FindingTypeOK
  <2> QED BY <2>2, <2>3, <2>4
<1> QED BY <1>2, <1>3, <1>4, <1>5

LEMMA FindingsInvariance == FindingInv /\ [FindingNext]_findingVars => FindingInv'
<1> SUFFICES ASSUME FindingInv, [FindingNext]_findingVars PROVE FindingInv'
  OBVIOUS
<1>1. CASE \/ \E f \in Finding : RecordFinding(f)
           \/ \E g \in Finding : \E id \in Versions : RecordVerdict(g, id)
  BY <1>1, FindingRowStep
<1>2. CASE \/ \E f \in Finding : CountVersions(f)
           \/ \E f \in Finding, r \in Reader : OpenDossier(r, f)
           \/ \E r \in Reader : CountForDossier(r)
           \/ StopServer
           \/ UNCHANGED findingVars
  BY <1>2, CountStep
<1>3. CASE \/ \E f \in Finding, n \in 1..MaxVersions : ExecuteVersion(<<f, n>>)
           \/ \E r \in Reader : SeedDossier(r)
           \/ GenerateVersion \/ ValidateVersion
  BY <1>3, HandlerStep
<1>4. \A f \in Finding : \A n \in 1..MaxVersions : <<f, n>> \in Versions
  BY DEF Versions
<1> QED BY <1>1, <1>2, <1>3, <1>4 DEF FindingNext

-----------------------------------------------------------------------------
(* The theorems.                                                           *)

\* The handlers keep findings, versions and verdicts what their readers take
\* them for: every variable has its type, in every state.
THEOREM FindingsTyped == FindingSpec => []FindingTypeOK
<1>1. FindingInv => FindingTypeOK
  BY DEF FindingInv
<1> QED BY <1>1, FindingsInitially, FindingsInvariance, PTL DEF FindingSpec

\* The versions of every finding are numbered without a gap, however many
\* dossiers and generations count before one of them inserts.
THEOREM VersionsAreContiguous == FindingSpec => []VersionsContiguous
<1>1. FindingInv => VersionsContiguous
  BY DEF FindingInv, Numbered, VersionsContiguous
<1> QED BY <1>1, FindingsInitially, FindingsInvariance, PTL DEF FindingSpec

\* A VALIDATED version has its verdict, also after a stop between the two
\* transactions of validate_finding_poc.
THEOREM VerdictsAreThere == FindingSpec => []VerdictBeforeVersion
<1>1. FindingInv => VerdictBeforeVersion
  BY DEF FindingInv
<1> QED BY <1>1, FindingsInitially, FindingsInvariance, PTL DEF FindingSpec

\* A finding whose validation_state is VALIDATED is CONFIRMED, whatever order
\* re-runs and verdicts come in.
THEOREM ValidatedAreConfirmed == FindingSpec => []ValidatedIsConfirmed
<1>1. FindingInv => ValidatedIsConfirmed
  BY DEF FindingInv
<1> QED BY <1>1, FindingsInitially, FindingsInvariance, PTL DEF FindingSpec

HIDE FindingsAssumption

-----------------------------------------------------------------------------
(***************************************************************************)
(* What a stored verdict rests on, for every number of replays and every   *)
(* exit code.                                                              *)
(***************************************************************************)
USE ReplaysAssumption, CodesAssumption

(* The inductive invariant.                                                *)

\* The counters are about the executions there are: a counter that has reached
\* their number says the same of each of them.
Tallied ==
  phase \in {"replay", "decide"} =>
    /\ Len(executions) \in 1..Replays
    /\ successes + failures = Len(executions)
    /\ successes = Len(executions) =>
         \A i \in DOMAIN executions : executions[i].reproduced = TRUE
    /\ failures = Len(executions) =>
         \A i \in DOMAIN executions : executions[i].reproduced = FALSE
    /\ phase = "decide" => Len(executions) = Replays

ValInv == ValTypeOK /\ Tallied /\ Justified(verdict) /\ VerdictJustified

-----------------------------------------------------------------------------
LEMMA ReplaysPositive == Replays \in Nat \ {0}
BY DEF Replays

LEMMA Undecided ==
  ASSUME NEW d, d.verdict = "INCONCLUSIVE"
  PROVE  Justified(d)
BY DEF Justified

\* A decision without a verdict, as the early returns build it.
LEMMA NoVerdict ==
  ASSUME NEW n \in Nat, NEW S \in SUBSET Executions
  PROVE  /\ [NoDecision EXCEPT !.replays = n, !.runs = S] \in Decisions
         /\ Justified([NoDecision EXCEPT !.replays = n, !.runs = S])
BY Undecided DEF NoDecision, Decisions, Verdicts

LEMMA ExecuteTyped ==
  ASSUME NEW o \in Outputs
  PROVE  Execute(o) \in Executions
<1>1. Reproduced(o) \in BOOLEAN
  BY DEF Reproduced
<1>2. o.status \in Statuses /\ o.exit \in {0, FailCode, Timeout, LaunchFailed, -1}
  BY DEF Outputs
<1> QED BY <1>1, <1>2 DEF Execute, Executions

LEMMA ValidationInitially == ValInit => ValInv
<1> SUFFICES ASSUME ValInit PROVE ValInv
  OBVIOUS
<1>1. ValTypeOK
  BY DEF ValInit, ValTypeOK, NoDecision, Decisions, Verdicts, Phases
<1>2. Tallied /\ VerdictJustified
  BY DEF ValInit, Tallied, VerdictJustified
<1>3. Justified(verdict)
  BY Undecided DEF ValInit, NoDecision
<1> QED BY <1>1, <1>2, <1>3 DEF ValInv

\* The end of a process leaves the stored results.
LEMMA ExitStep ==
  ASSUME ValInv, Exit, results' \subseteq Decisions, \A d \in results' : Justified(d)
  PROVE  ValInv'
<1>1. ValTypeOK'
  BY DEF ValInv, ValTypeOK, Exit, NoDecision, Decisions, Verdicts, Phases
<1>2. Tallied' /\ VerdictJustified'
  BY DEF Exit, Tallied, VerdictJustified
<1>3. Justified(verdict)'
  BY DEF Exit, NoDecision, Justified
<1> QED BY <1>1, <1>2, <1>3 DEF ValInv

LEMMA PrimaryStep ==
  ASSUME ValInv, NEW o \in Outputs, RunPrimary(o)
  PROVE  ValInv'
<1> DEFINE e == Execute(o)
<1>1. e \in Executions /\ e.reproduced \in BOOLEAN
  BY ExecuteTyped DEF Executions
<1> HIDE DEF e
<1>2. CASE o.status \in Infrastructure
  <2>1. PICK n \in {0, 1} : GiveUp(n, 1, {e})
    BY <1>2 DEF RunPrimary, e
  <2>2. verdict' \in Decisions /\ Justified(verdict')
    BY <1>1, <2>1, NoVerdict DEF GiveUp
  <2>3. UNCHANGED <<executions, successes, failures, manifest, results>>
    BY <1>2 DEF RunPrimary
  <2>4. ValTypeOK'
    BY <2>1, <2>2, <2>3 DEF ValInv, ValTypeOK, GiveUp, Phases
  <2>5. Tallied' /\ VerdictJustified'
    BY <2>1, <2>3 DEF GiveUp, Tallied, VerdictJustified, ValInv
  <2>6. Justified(verdict)'
    BY <2>2 DEF Justified
  <2> QED BY <2>4, <2>5, <2>6 DEF ValInv
<1>3. CASE o.status \notin Infrastructure
  <2>1. /\ executions' = <<e>> /\ phase' = "replay"
        /\ successes' = (IF e.reproduced THEN 1 ELSE 0)
        /\ failures' = (IF e.reproduced THEN 0 ELSE 1)
        /\ UNCHANGED <<manifest, verdict, unstored, results>>
    BY <1>3 DEF RunPrimary, e
  <2>2. ValTypeOK'
    BY <1>1, <2>1 DEF ValInv, ValTypeOK, Phases
  <2>3. Len(executions') = 1 /\ DOMAIN executions' = {1} /\ executions'[1] = e
    BY <1>1, <2>1
  <2>4. Tallied'
    <3>1. CASE e.reproduced = TRUE
      BY <2>1, <2>3, <3>1, ReplaysPositive DEF Tallied
    <3>2. CASE e.reproduced = FALSE
      BY <2>1, <2>3, <3>2, ReplaysPositive DEF Tallied
    <3> QED BY <1>1, <3>1, <3>2
  <2>5. Justified(verdict)' /\ VerdictJustified'
    BY <2>1 DEF ValInv, Justified, VerdictJustified
  <2> QED BY <2>2, <2>4, <2>5 DEF ValInv
<1> QED BY <1>2, <1>3

LEMMA ReplayStep ==
  ASSUME ValInv, NEW o \in Outputs, Replay(o)
  PROVE  ValInv'
<1> DEFINE e == Execute(o)
<1>1. e \in Executions /\ e.reproduced \in BOOLEAN
  BY ExecuteTyped DEF Executions
<1>2. /\ phase = "replay" /\ Len(executions) < Replays
      /\ executions' = Append(executions, e)
      /\ successes' = (IF e.reproduced THEN successes + 1 ELSE successes)
      /\ failures' = (IF e.reproduced THEN failures ELSE failures + 1)
      /\ UNCHANGED <<manifest, phase, verdict, unstored, results>>
  BY DEF Replay
<1> HIDE DEF e
<1>3. executions \in Seq(Executions) /\ successes \in Nat /\ failures \in Nat
  BY DEF ValInv, ValTypeOK
<1>4. ValTypeOK'
  BY <1>1, <1>2, <1>3 DEF ValInv, ValTypeOK
<1>5. /\ Len(executions') = Len(executions) + 1
      /\ \A i \in DOMAIN executions : executions'[i] = executions[i]
      /\ executions'[Len(executions) + 1] = e
      /\ DOMAIN executions' = DOMAIN executions \cup {Len(executions) + 1}
  BY <1>1, <1>2, <1>3
<1>6. Tallied'
  <2>1. /\ Len(executions) \in 1..Replays
        /\ successes + failures = Len(executions)
        /\ successes = Len(executions) =>
             \A i \in DOMAIN executions : executions[i].reproduced = TRUE
        /\ failures = Len(executions) =>
             \A i \in DOMAIN executions : executions[i].reproduced = FALSE
    BY <1>2 DEF ValInv, Tallied
  <2>2. Len(executions') \in 1..Replays
    BY <1>2, <1>5, <2>1, ReplaysPositive
  <2>3. CASE e.reproduced = TRUE
    <3>1. successes' = successes + 1 /\ failures' = failures
      BY <1>2, <2>3
    <3>2. successes' + failures' = Len(executions') /\ failures' # Len(executions')
      BY <1>3, <1>5, <2>1, <3>1
    <3>3. ASSUME successes' = Len(executions'), NEW i \in DOMAIN executions'
          PROVE  executions'[i].reproduced = TRUE
      <4>1. successes = Len(executions)
        BY <1>3, <1>5, <3>1, <3>3
      <4> QED BY <1>5, <2>1, <2>3, <3>3, <4>1
    <3> QED BY <1>2, <2>2, <3>2, <3>3 DEF Tallied
  <2>4. CASE e.reproduced = FALSE
    <3>1. successes' = successes /\ failures' = failures + 1
      BY <1>2, <2>4
    <3>2. successes' + failures' = Len(executions') /\ successes' # Len(executions')
      BY <1>3, <1>5, <2>1, <3>1
    <3>3. ASSUME failures' = Len(executions'), NEW i \in DOMAIN executions'
          PROVE  executions'[i].reproduced = FALSE
      <4>1. failures = Len(executions)
        BY <1>3, <1>5, <3>1, <3>3
      <4> QED BY <1>5, <2>1, <2>4, <3>3, <4>1
    <3> QED BY <1>2, <2>2, <3>2, <3>3 DEF Tallied
  <2> QED BY <1>1, <2>3, <2>4
<1>7. Justified(verdict)' /\ VerdictJustified'
  BY <1>2 DEF ValInv, Justified, VerdictJustified
<1> QED BY <1>4, <1>6, <1>7 DEF ValInv

LEMMA DecideStep ==
  ASSUME ValInv, Decide
  PROVE  ValInv'
<1> DEFINE outcome == CASE Deterministic /\ executions[1].reproduced -> "CONFIRMED"
                        [] Deterministic /\ ~ executions[1].reproduced
                             /\ executions[1].exit = 0 -> "REJECTED"
                        [] OTHER -> "INCONCLUSIVE"
           runs == {executions[i] : i \in DOMAIN executions}
<1>1. /\ phase = "decide" /\ phase' = "store" /\ unstored' = Len(executions)
      /\ verdict' = [verdict |-> outcome, replays |-> Replays,
                     successes |-> successes, runs |-> runs]
      /\ UNCHANGED <<manifest, executions, successes, failures, results>>
  BY DEF Decide, Range
<1>2. /\ executions \in Seq(Executions) /\ Len(executions) = Replays
      /\ 1 \in DOMAIN executions
  BY <1>1, ReplaysPositive DEF ValInv, ValTypeOK, Tallied
<1>3. \A i \in DOMAIN executions :
        executions[i] \in Executions /\ executions[i].reproduced \in BOOLEAN
  <2>1. \A i \in DOMAIN executions : executions[i] \in Executions
    BY <1>2
  <2>2. \A x \in Executions : x.reproduced \in BOOLEAN
    BY DEF Executions
  <2> QED BY <2>1, <2>2
<1>4. \/ outcome = "INCONCLUSIVE"
      \/ outcome = "CONFIRMED" /\ Deterministic /\ executions[1].reproduced = TRUE
      \/ outcome = "REJECTED" /\ Deterministic /\ executions[1].reproduced = FALSE
  BY <1>2, <1>3
<1> HIDE DEF outcome
<1>5. outcome = "CONFIRMED" =>
        successes = Replays /\ \A x \in runs : x.reproduced
  BY <1>1, <1>2, <1>4, ReplaysPositive DEF Deterministic, ValInv, Tallied
<1>6. outcome = "REJECTED" => \A x \in runs : ~ x.reproduced /\ x.exit = 0
  BY <1>1, <1>2, <1>4, ReplaysPositive DEF Deterministic, ValInv, Tallied
<1>7. Justified(verdict)'
  BY <1>1, <1>5, <1>6 DEF Justified
<1>8. verdict' \in Decisions
  BY <1>1, <1>2, <1>3, <1>4, ReplaysPositive DEF Decisions, Verdicts, ValInv, ValTypeOK
<1>9. ValTypeOK'
  BY <1>1, <1>2, <1>8 DEF ValInv, ValTypeOK, Phases
<1>10. Tallied' /\ VerdictJustified'
  BY <1>1 DEF ValInv, Tallied, VerdictJustified
<1> QED BY <1>7, <1>9, <1>10 DEF ValInv

LEMMA Preserved == ValInv /\ [ValNext]_valVars => ValInv'
<1> SUFFICES ASSUME ValInv, [ValNext]_valVars PROVE ValInv'
  OBVIOUS
<1>1. ASSUME Start PROVE ValInv'
  BY <1>1 DEF Start, ValInv, ValTypeOK, Phases, Tallied, Justified, VerdictJustified
<1>2. ASSUME NEW n \in Nat, GiveUp(n, 0, {}),
             UNCHANGED <<manifest, executions, successes, failures, results>>
      PROVE  ValInv'
  <2>1. verdict' \in Decisions /\ Justified(verdict')
    BY <1>2, NoVerdict DEF GiveUp
  <2>2. ValTypeOK'
    BY <1>2, <2>1 DEF ValInv, ValTypeOK, GiveUp, Phases
  <2>3. Tallied' /\ Justified(verdict)' /\ VerdictJustified'
    BY <1>2, <2>1 DEF ValInv, GiveUp, Tallied, Justified, VerdictJustified
  <2> QED BY <2>2, <2>3 DEF ValInv
<1>3. ASSUME phase' \in Phases \ {"replay", "decide"},
             UNCHANGED <<manifest, executions, successes, failures, verdict, results>>,
             unstored' \in Nat
      PROVE  ValInv'
  BY <1>3 DEF ValInv, ValTypeOK, Tallied, Justified, VerdictJustified
<1>4. ASSUME CheckIntegrity PROVE ValInv'
  <2>1. CASE GiveUp(0, 0, {})
    BY <1>2, <1>4, <2>1 DEF CheckIntegrity
  <2>2. CASE phase' \in {"build", "primary"} /\ UNCHANGED <<verdict, unstored>>
    BY <1>3, <1>4, <2>2 DEF CheckIntegrity, Phases, ValInv, ValTypeOK
  <2> QED BY <1>4, <2>1, <2>2 DEF CheckIntegrity
<1>5. ASSUME Build PROVE ValInv'
  <2>1. CASE GiveUp(1, 0, {})
    BY <1>2, <1>5, <2>1 DEF Build
  <2>2. CASE phase' \in {"primary", "idle"} /\ UNCHANGED <<verdict, unstored>>
    BY <1>3, <1>5, <2>2 DEF Build, Phases, ValInv, ValTypeOK
  <2> QED BY <1>5, <2>1, <2>2 DEF Build
<1>6. ASSUME Minimize PROVE ValInv'
  BY <1>6 DEF Minimize, ValInv, ValTypeOK, Phases, Tallied, Justified, VerdictJustified
<1>7. ASSUME StoreEvidence PROVE ValInv'
  <2>1. phase' = "store" /\ unstored' \in Nat
    BY <1>7 DEF StoreEvidence, ValInv, ValTypeOK
  <2> QED BY <1>3, <1>7, <2>1 DEF StoreEvidence, Phases
<1>8. ASSUME SaveResult PROVE ValInv'
  <2>1. results' = {verdict} /\ Exit
    BY <1>8 DEF SaveResult
  <2> QED BY <2>1, ExitStep DEF ValInv, ValTypeOK
<1>9. ASSUME EndProcess PROVE ValInv'
  <2>1. results' = results /\ Exit
    BY <1>9 DEF EndProcess
  <2> QED BY <2>1, ExitStep DEF ValInv, ValTypeOK, VerdictJustified
<1>10. ASSUME UNCHANGED valVars PROVE ValInv'
  BY <1>10 DEF valVars, ValInv, ValTypeOK, Tallied, Justified, VerdictJustified
<1> QED
  BY <1>1, <1>4, <1>5, <1>6, <1>7, <1>8, <1>9, <1>10, PrimaryStep, ReplayStep, DecideStep
  DEF ValNext

-----------------------------------------------------------------------------
\* A stored result says CONFIRMED only when the primary run and every replay
\* reproduced, and REJECTED only when each exited with 0 and none did, for any
\* number of replays, wherever the process ends (validator/service.py).
THEOREM VerdictsAreJustified == ValSpec => [](ValTypeOK /\ VerdictJustified)
<1>1. ValInv => VerdictJustified
  BY DEF ValInv
<1>2. ValInv => ValTypeOK
  BY DEF ValInv
<1> QED BY ValidationInitially, Preserved, <1>1, <1>2, PTL DEF ValSpec

HIDE CodesAssumption
HIDE ReplaysAssumption

-----------------------------------------------------------------------------
(***************************************************************************)
(* Tasks and their attempts, for every set of tasks and threads.           *)
(***************************************************************************)
USE WorkbenchAssumption

(* The inductive invariant.  Attempts are only appended, and an attempt's  *)
(* number is at most its place: create_attempt counts, a retry adds one to *)
(* a number there is, and two that read before either writes do not leave  *)
(* the bound.                                                              *)

NumbersOf(j) == {tries[j][i].number : i \in 1 .. Len(tries[j])}

\* A number is at most its place, and a task that is not there has no attempt.
Placed ==
  /\ jobs \subseteq Job
  /\ \A j \in Job : j \notin jobs => tries[j] = << >>
  /\ \A j \in Job : \A i \in 1 .. Len(tries[j]) :
       tries[j][i].number >= 1 /\ tries[j][i].number <= i

\* What the handler on the event loop has read is still there.
DeskSound ==
  LET j == desk.job IN
  /\ desk.at = "unit" => desk.told = 0 /\ desk.parent = 0
  /\ desk.at \in {"list", "count", "insert", "chat", "tool"} =>
       /\ j \in jobs
       /\ desk.told <= instructions[j]
       /\ desk.parent <= Len(tries[j])
  /\ desk.at = "insert" => desk.number >= 1 /\ desk.number <= Len(tries[j]) + 1
  /\ desk.at = "insert" /\ desk.parent # 0 => tries[j][desk.parent].number < desk.number
  /\ desk.at \in {"chat", "tool"} => desk.number \in NumbersOf(j) /\ tools[j] < Len(tries[j])

\* So is what a retry has read.
RetriesSound ==
  \A w \in Retrier :
    LET r == retrier[w] IN
    r # NoRetry =>
      /\ r.job \in jobs /\ r.parent <= Len(tries[r.job])
      /\ r.number >= 1 /\ r.number <= Len(tries[r.job]) + 1
      /\ r.parent # 0 => tries[r.job][r.parent].number < r.number

\* What the properties say, over positions.
Lineage ==
  \A j \in Job : \A i \in 1 .. Len(tries[j]) :
    LET a == tries[j][i] IN
    /\ a.parent # 0 => a.parent < i /\ tries[j][a.parent].number < a.number
    /\ a.told <= instructions[j]
    /\ \A k \in 1 .. Len(tries[j]) :
         a.derived /\ tries[j][k].derived /\ tries[j][k].number = a.number => k = i
Acknowledged ==
  \A j \in Job :
    /\ acks[j] \subseteq NumbersOf(j)
    /\ tries[j] # << >> => current[j] \in NumbersOf(j)
    /\ tools[j] <= Len(tries[j])

WbInv ==
  WbTypeOK /\ Placed /\ DeskSound /\ RetriesSound /\ Lineage /\ Acknowledged

-----------------------------------------------------------------------------
(* Appending an attempt.                                                   *)

LEMMA AppendTry ==
  ASSUME NEW s \in Seq(Tries), NEW a \in Tries
  PROVE  /\ Append(s, a) \in Seq(Tries) /\ Len(Append(s, a)) = Len(s) + 1
         /\ Len(s) \in Nat
         /\ \A i \in 1 .. Len(s) : Append(s, a)[i] = s[i]
         /\ Append(s, a)[Len(s) + 1] = a
OBVIOUS

\* An attempt that may be appended to those of j.
Fits(j, a) ==
  /\ a \in Tries /\ a.number >= 1 /\ a.number <= Len(tries[j]) + 1
  /\ a.parent # 0 => a.parent <= Len(tries[j]) /\ tries[j][a.parent].number < a.number
  /\ a.told <= instructions[j]
  /\ a.derived => \A k \in 1 .. Len(tries[j]) :
                    ~ (tries[j][k].derived /\ tries[j][k].number = a.number)

\* The attempts there were stay at their places, and so do their numbers.
LEMMA Longer ==
  ASSUME WbTypeOK, NEW j \in Job, NEW a \in Tries,
         tries' = [tries EXCEPT ![j] = Append(@, a)]
  PROVE  /\ tries' \in [Job -> Seq(Tries)]
         /\ Len(tries'[j]) = Len(tries[j]) + 1 /\ tries'[j][Len(tries[j]) + 1] = a
         /\ \A h \in Job : Len(tries[h]) \in Nat /\ Len(tries[h]) <= Len(tries'[h])
         /\ \A h \in Job : \A i \in 1 .. Len(tries[h]) : tries'[h][i] = tries[h][i]
         /\ \A h \in Job \ {j} : tries'[h] = tries[h]
         /\ \A h \in Job : NumbersOf(h) \subseteq NumbersOf(h)'
         /\ a.number \in NumbersOf(j)'
<1>1. tries \in [Job -> Seq(Tries)] /\ tries[j] \in Seq(Tries)
  BY DEF WbTypeOK
<1>2. tries'[j] = Append(tries[j], a) /\ \A h \in Job \ {j} : tries'[h] = tries[h]
  BY <1>1
<1>3. tries' \in [Job -> Seq(Tries)]
  BY <1>1, AppendTry
<1>4. /\ Len(tries'[j]) = Len(tries[j]) + 1 /\ tries'[j][Len(tries[j]) + 1] = a
      /\ Len(tries[j]) \in Nat
      /\ \A i \in 1 .. Len(tries[j]) : tries'[j][i] = tries[j][i]
  BY <1>1, <1>2, AppendTry
<1>5. \A h \in Job : Len(tries[h]) \in Nat /\ Len(tries[h]) <= Len(tries'[h])
  BY <1>1, <1>2, <1>4
<1>6. \A h \in Job : \A i \in 1 .. Len(tries[h]) : tries'[h][i] = tries[h][i]
  BY <1>2, <1>4
<1>7. \A h \in Job : NumbersOf(h) \subseteq NumbersOf(h)'
  BY <1>5, <1>6 DEF NumbersOf
<1>8. a.number \in NumbersOf(j)'
  BY <1>4, SMTT(40) DEF NumbersOf
<1> QED BY <1>2, <1>3, <1>4, <1>5, <1>6, <1>7, <1>8

LEMMA LineageKept ==
  ASSUME WbInv, NEW j \in Job, NEW a, Fits(j, a),
         tries' = [tries EXCEPT ![j] = Append(@, a)], instructions' = instructions
  PROVE  Lineage'
<1> SUFFICES ASSUME NEW h \in Job, NEW i \in 1 .. Len(tries'[h])
             PROVE  LET b == tries'[h][i] IN
                    /\ b.parent # 0 => b.parent < i /\ tries'[h][b.parent].number < b.number
                    /\ b.told <= instructions[h]
                    /\ \A k \in 1 .. Len(tries'[h]) :
                         b.derived /\ tries'[h][k].derived /\ tries'[h][k].number = b.number
                           => k = i
  BY ZenonT(60) DEF Lineage
<1>0. a \in Tries
  BY DEF Fits
<1>1. /\ Len(tries'[j]) = Len(tries[j]) + 1 /\ tries'[j][Len(tries[j]) + 1] = a
      /\ \A g \in Job : Len(tries[g]) \in Nat /\ Len(tries[g]) <= Len(tries'[g])
      /\ \A g \in Job : \A n \in 1 .. Len(tries[g]) : tries'[g][n] = tries[g][n]
      /\ \A g \in Job \ {j} : tries'[g] = tries[g]
  BY <1>0, Longer DEF WbInv
<1>2. \A g \in Job : \A n \in 1 .. Len(tries[g]) : tries[g][n] \in Tries
  BY SMTT(40) DEF WbInv, WbTypeOK
<1>3. CASE h # j
  BY <1>1, <1>3 DEF WbInv, Lineage
<1>4. CASE h = j /\ i # Len(tries[j]) + 1
  <2>1. i \in 1 .. Len(tries[j]) /\ tries'[h][i] = tries[j][i]
    BY <1>1, <1>4
  <2>2. tries[j][i].parent # 0 => /\ tries[j][i].parent < i
                                  /\ tries[j][tries[j][i].parent].number < tries[j][i].number
    BY <2>1 DEF WbInv, Lineage
  <2>3. tries[j][i].parent # 0 => tries[j][i].parent \in 1 .. Len(tries[j])
    BY <1>1, <1>2, <2>1, <2>2 DEF Tries
  <2>4. ASSUME NEW k \in 1 .. Len(tries'[j]), tries[j][i].derived, tries'[j][k].derived,
               tries'[j][k].number = tries[j][i].number
        PROVE  k = i
    <3>1. k # Len(tries[j]) + 1
      BY <1>1, <2>1, <2>4 DEF Fits
    <3>2. k \in 1 .. Len(tries[j]) /\ tries'[j][k] = tries[j][k]
      BY <1>1, <3>1
    <3> QED BY <2>1, <2>4, <3>2 DEF WbInv, Lineage
  <2>5. tries[j][i].told <= instructions[j]
    BY <2>1 DEF WbInv, Lineage
  <2> QED BY <1>1, <1>4, <2>1, <2>2, <2>3, <2>4, <2>5
<1>5. CASE h = j /\ i = Len(tries[j]) + 1
  <2>1. tries'[h][i] = a
    BY <1>1, <1>5
  <2>2. a.parent # 0 => a.parent \in 1 .. Len(tries[j])
    BY <1>0, <1>1 DEF Fits, Tries
  <2>3. ASSUME NEW k \in 1 .. Len(tries'[j]), a.derived, tries'[j][k].derived,
               tries'[j][k].number = a.number
        PROVE  k = i
    <3>1. ~ k \in 1 .. Len(tries[j])
      BY <1>1, <2>3 DEF Fits
    <3> QED BY <1>1, <1>5, <3>1
  <2> QED BY <1>1, <1>5, <2>1, <2>2, <2>3 DEF Fits
<1> QED BY <1>1, <1>3, <1>4, <1>5

LEMMA PlacedKept ==
  ASSUME WbInv, NEW j \in jobs', NEW a, Fits(j, a), jobs \subseteq jobs', jobs' \subseteq Job,
         tries' = [tries EXCEPT ![j] = Append(@, a)]
  PROVE  Placed'
<1>1. j \in Job /\ a \in Tries
  BY DEF Fits
<1>2. /\ Len(tries'[j]) = Len(tries[j]) + 1 /\ tries'[j][Len(tries[j]) + 1] = a
      /\ Len(tries[j]) \in Nat
      /\ \A h \in Job : \A i \in 1 .. Len(tries[h]) : tries'[h][i] = tries[h][i]
      /\ \A h \in Job \ {j} : tries'[h] = tries[h]
  BY <1>1, Longer DEF WbInv
<1>3. \A h \in Job : h \notin jobs' => tries'[h] = << >>
  BY <1>2 DEF WbInv, Placed
<1>4. ASSUME NEW h \in Job, NEW i \in 1 .. Len(tries'[h])
      PROVE  tries'[h][i].number >= 1 /\ tries'[h][i].number <= i
  <2>1. CASE h # j
    BY <1>2, <2>1 DEF WbInv, Placed
  <2>2. CASE h = j /\ i = Len(tries[j]) + 1
    BY <1>2, <2>2 DEF Fits
  <2>3. CASE h = j /\ i # Len(tries[j]) + 1
    <3>1. i \in 1 .. Len(tries[j])
      BY <1>2, <2>3
    <3> QED BY <1>1, <1>2, <2>3, <3>1 DEF WbInv, Placed
  <2> QED BY <2>1, <2>2, <2>3
<1> QED BY <1>3, <1>4 DEF Placed

-----------------------------------------------------------------------------
(* What a handler knows stays true while others act: attempts and          *)
(* instructions become more.                                               *)

Growing ==
  /\ jobs \subseteq jobs'
  /\ \A h \in Job :
       /\ Len(tries[h]) <= Len(tries'[h])
       /\ \A i \in 1 .. Len(tries[h]) : tries'[h][i] = tries[h][i]
       /\ NumbersOf(h) \subseteq NumbersOf(h)'
       /\ instructions[h] <= instructions'[h]

LEMMA Unchanging ==
  ASSUME WbInv, UNCHANGED <<tries, instructions>>, jobs \subseteq jobs'
  PROVE  Growing
<1>1. \A h \in Job : Len(tries[h]) \in Nat /\ instructions[h] \in Nat
  BY DEF WbInv, WbTypeOK
<1> QED BY <1>1 DEF Growing, NumbersOf

LEMMA Appending ==
  ASSUME WbInv, NEW j \in Job, NEW a, Fits(j, a), jobs \subseteq jobs',
         tries' = [tries EXCEPT ![j] = Append(@, a)], instructions' = instructions
  PROVE  Growing
<1>1. \A h \in Job : instructions[h] \in Nat
  BY DEF WbInv, WbTypeOK
<1>2. a \in Tries
  BY DEF Fits
<1>3. /\ \A h \in Job : Len(tries[h]) <= Len(tries'[h])
      /\ \A h \in Job : \A i \in 1 .. Len(tries[h]) : tries'[h][i] = tries[h][i]
      /\ \A h \in Job : NumbersOf(h) \subseteq NumbersOf(h)'
  BY <1>2, Longer DEF WbInv
<1> QED BY <1>1, <1>3 DEF Growing

LEMMA DeskStays ==
  ASSUME WbInv, WbTypeOK', Growing, UNCHANGED <<desk, tools>>
  PROVE  DeskSound'
<1> DEFINE j == desk.job
<1>1. desk.parent \in Nat /\ desk.number \in Nat /\ desk.told \in Nat
  BY DEF WbInv, WbTypeOK
<1>2. \A h \in Job : /\ Len(tries[h]) \in Nat /\ Len(tries'[h]) \in Nat
                     /\ instructions[h] \in Nat /\ instructions'[h] \in Nat /\ tools[h] \in Nat
  BY SMTT(40) DEF WbInv, WbTypeOK
<1>3. ASSUME desk.at \in {"list", "count", "insert", "chat", "tool"}
      PROVE  /\ j \in jobs' /\ j \in Job
             /\ desk.told <= instructions'[j]
             /\ desk.parent <= Len(tries'[j]) /\ desk.parent <= Len(tries[j])
  BY <1>1, <1>2, <1>3, SMTT(40) DEF WbInv, Placed, DeskSound, Growing
<1>4. desk.at = "insert" => desk.number >= 1 /\ desk.number <= Len(tries'[j]) + 1
  BY <1>1, <1>2, <1>3 DEF WbInv, DeskSound, Growing
<1>5. ASSUME desk.at = "insert", desk.parent # 0
      PROVE  tries'[j][desk.parent].number < desk.number
  <2>1. desk.parent \in 1 .. Len(tries[j])
    BY <1>1, <1>2, <1>3, <1>5
  <2> QED BY <1>3, <1>5, <2>1 DEF WbInv, DeskSound, Growing
<1>6. desk.at \in {"chat", "tool"} => desk.number \in NumbersOf(j)' /\ tools[j] < Len(tries'[j])
  BY <1>2, <1>3 DEF WbInv, DeskSound, Growing
<1>7. desk.at = "unit" => desk.told = 0 /\ desk.parent = 0
  BY DEF WbInv, DeskSound
<1> QED BY <1>3, <1>4, <1>5, <1>6, <1>7 DEF DeskSound

LEMMA RetriesStay ==
  ASSUME WbInv, WbTypeOK', Growing, \A w \in Retrier : retrier'[w] \in {retrier[w], NoRetry}
  PROVE  RetriesSound'
<1> SUFFICES ASSUME NEW w \in Retrier, retrier'[w] # NoRetry
             PROVE  LET r == retrier'[w] IN
                    /\ r.job \in jobs' /\ r.parent <= Len(tries'[r.job])
                    /\ r.number >= 1 /\ r.number <= Len(tries'[r.job]) + 1
                    /\ r.parent # 0 => tries'[r.job][r.parent].number < r.number
  BY DEF RetriesSound
<1> DEFINE r == retrier[w]
<1>1. retrier'[w] = r /\ r # NoRetry
  OBVIOUS
<1>2. r.parent \in Nat /\ r.number \in Nat
  BY DEF WbInv, WbTypeOK
<1>0. tries \in [Job -> Seq(Tries)] /\ tries' \in [Job -> Seq(Tries)]
  BY DEF WbInv, WbTypeOK
<1>3. \A h \in Job : Len(tries[h]) \in Nat /\ Len(tries'[h]) \in Nat
  BY <1>0
<1>4. /\ r.job \in jobs /\ r.parent <= Len(tries[r.job])
      /\ r.number >= 1 /\ r.number <= Len(tries[r.job]) + 1
      /\ r.parent # 0 => tries[r.job][r.parent].number < r.number
  BY <1>1 DEF WbInv, RetriesSound
<1>5. r.job \in Job
  BY <1>4 DEF WbInv, Placed
<1>6. r.parent # 0 => r.parent \in 1 .. Len(tries[r.job])
  BY <1>2, <1>3, <1>4, <1>5
<1>7. /\ r.job \in jobs' /\ Len(tries[r.job]) <= Len(tries'[r.job])
      /\ r.parent # 0 => tries'[r.job][r.parent] = tries[r.job][r.parent]
  BY <1>4, <1>5, <1>6 DEF Growing
<1>8. r.parent <= Len(tries'[r.job]) /\ r.number <= Len(tries'[r.job]) + 1
  <2>1. Len(tries[r.job]) \in Nat /\ Len(tries'[r.job]) \in Nat
    BY <1>3, <1>5
  <2>2. r.parent <= Len(tries[r.job]) /\ r.number <= Len(tries[r.job]) + 1
    BY <1>4
  <2>3. Len(tries[r.job]) <= Len(tries'[r.job])
    BY <1>7
  <2> HIDE DEF r
  <2> QED BY <1>2, <2>1, <2>2, <2>3, SMTT(40)
<1>9. r.parent # 0 => tries'[r.job][r.parent].number < r.number
  BY <1>4, <1>7
<1> HIDE DEF r
<1> QED BY <1>1, <1>4, <1>7, <1>8, <1>9

LEMMA AcknowledgedStays ==
  ASSUME WbInv, WbTypeOK', Growing, UNCHANGED <<acks, tools>>,
         \A h \in Job : tries'[h] # << >> =>
           current'[h] \in NumbersOf(h)' \/ (current'[h] = current[h] /\ tries[h] # << >>)
  PROVE  Acknowledged'
<1>0. tries \in [Job -> Seq(Tries)] /\ tries' \in [Job -> Seq(Tries)] /\ tools \in [Job -> Nat]
  BY DEF WbInv, WbTypeOK
<1>1. \A h \in Job : Len(tries[h]) \in Nat /\ Len(tries'[h]) \in Nat /\ tools[h] \in Nat
  BY <1>0
<1> QED BY <1>1 DEF WbInv, Acknowledged, Growing
-----------------------------------------------------------------------------
(* Type correctness.                                                       *)

Desks == [op : Orders, at : DeskSteps, job : Job \cup {NoJob}, told : Nat, parent : Nat, number : Nat]
Retries == [job : Job \cup {NoJob}, parent : Nat, number : Nat]

\* Every step but an append leaves the attempts and their type alone.
LEMMA TypeStep ==
  ASSUME WbInv, WbNext
  PROVE  WbTypeOK'
<1> DEFINE j == desk.job
<1>0. WbTypeOK /\ desk \in Desks /\ retrier \in [Retrier -> Retries]
  BY DEF WbInv, WbTypeOK, Desks, Retries
<1>a. FreeDesk \in Desks /\ NoRetry \in Retries
  BY DEF FreeDesk, NoRetry, Desks, Retries, Orders, DeskSteps
<1>b. desk.at \in {"list", "count", "insert", "chat", "tool"} => j \in Job
  BY DEF WbInv, DeskSound, Placed
<1>c. tries \in [Job -> Seq(Tries)] /\ \A h \in Job : Len(tries[h]) \in Nat
  BY <1>0 DEF WbTypeOK
<1>1. CASE StartTerminal
  BY <1>0, <1>1 DEF StartTerminal, WbTypeOK
<1>2. CASE StartAnalysis
  <2>1. desk' \in Desks
    BY <1>2 DEF StartAnalysis, FreeDesk, Desks, Orders, DeskSteps
  <2> QED BY <1>0, <1>2, <2>1 DEF StartAnalysis, WbTypeOK, Desks
<1>3. CASE EndStart
  BY <1>0, <1>a, <1>3 DEF EndStart, WbTypeOK, Desks
<1>4. CASE ListAttempts
  <2>1. PICK i \in IF tries[j] = << >> THEN {0} ELSE Latest(j) :
          desk' = [desk EXCEPT !.at = "count", !.parent = i]
    BY <1>4 DEF ListAttempts
  <2>2. tries[j] \in Seq(Tries)
    BY <1>b, <1>c, <1>4 DEF ListAttempts
  <2>3. i \in Nat
    BY <2>1, <2>2 DEF Latest
  <2>4. desk' \in Desks
    BY <1>0, <2>1, <2>3 DEF Desks, DeskSteps
  <2> QED BY <1>0, <1>4, <2>4 DEF ListAttempts, WbTypeOK, Desks
<1>5. CASE CountAttempts
  <2>1. Len(tries[j]) + 1 \in Nat
    BY <1>b, <1>c, <1>5 DEF CountAttempts
  <2>2. desk' \in Desks
    BY <1>0, <1>5, <2>1 DEF CountAttempts, Desks, DeskSteps
  <2> QED BY <1>0, <1>5, <2>2 DEF CountAttempts, WbTypeOK, Desks
<1>6. CASE InsertAttempt
  <2> DEFINE a == [number |-> desk.number, parent |-> desk.parent, told |-> desk.told,
                   derived |-> TRUE]
  <2>1. a \in Tries /\ j \in Job
    BY <1>0, <1>b, <1>6 DEF InsertAttempt, Tries, Desks
  <2>2. tries' \in [Job -> Seq(Tries)]
    <3>1. tries' = tries \/ tries' = [tries EXCEPT ![j] = Append(@, a)]
      BY <1>6 DEF InsertAttempt
    <3>2. tries[j] \in Seq(Tries)
      BY <1>c, <2>1
    <3>3. Append(tries[j], a) \in Seq(Tries)
      BY <2>1, <3>2, AppendTry
    <3> HIDE DEF a, j
    <3> QED BY <1>c, <3>1, <3>3
  <2>3. current' \in [Job -> Nat]
    <3>1. current' = current \/ current' = [current EXCEPT ![j] = desk.number]
      BY <1>6 DEF InsertAttempt
    <3> QED BY <1>0, <3>1 DEF WbTypeOK, Desks
  <2>4. desk' \in Desks
    <3>1. [desk EXCEPT !.at = "chat"] \in Desks /\ [desk EXCEPT !.at = "tool"] \in Desks
      BY <1>0 DEF Desks, DeskSteps
    <3>2. NextStep \in Desks
      BY <1>a, <3>1 DEF NextStep
    <3> QED BY <1>a, <1>6, <3>2 DEF InsertAttempt
  <2> QED BY <1>0, <1>6, <2>2, <2>3, <2>4 DEF InsertAttempt, WbTypeOK, Desks
<1>7. CASE SaveMessages
  <2>1. desk' \in Desks
    BY <1>0, <1>7 DEF SaveMessages, Desks, DeskSteps
  <2>2. acks' \in [Job -> SUBSET Nat]
    BY <1>0, <1>7 DEF SaveMessages, WbTypeOK, Desks
  <2> QED BY <1>0, <1>7, <2>1, <2>2 DEF SaveMessages, WbTypeOK, Desks
<1>8. CASE RecordTool
  <2>1. desk' \in Desks
    <3>1. [FreeDesk EXCEPT !.op = "analysis", !.at = "unit"] \in Desks
      BY DEF FreeDesk, Desks, Orders, DeskSteps
    <3> QED BY <1>a, <1>8, <3>1 DEF RecordTool
  <2>2. tools' \in [Job -> Nat]
    BY <1>0, <1>b, <1>8 DEF RecordTool, WbTypeOK
  <2> QED BY <1>0, <1>8, <2>1, <2>2 DEF RecordTool, WbTypeOK, Desks
<1>9. CASE EndServer
  BY <1>0, <1>a, <1>9 DEF EndServer, WbTypeOK, Desks, Retries
<1>10. ASSUME NEW h \in Job, InsertUnit(h) PROVE WbTypeOK'
  <2>1. desk' \in Desks
    BY <1>0, <1>10 DEF InsertUnit, Desks, DeskSteps
  <2> QED BY <1>0, <1>10, <2>1 DEF InsertUnit, InsertTask, WbTypeOK, Desks
<1>11. ASSUME NEW h \in Job, CreateTask(h) PROVE WbTypeOK'
  BY <1>0, <1>11 DEF CreateTask, InsertTask, WbTypeOK
<1>12. ASSUME NEW h \in Job, CreateUserTask(h) PROVE WbTypeOK'
  <2>1. tries' \in [Job -> Seq(Tries)]
    BY <1>c, <1>12 DEF CreateUserTask, Tries
  <2> QED BY <1>0, <1>12, <2>1 DEF CreateUserTask, InsertTask, WbTypeOK
<1>13. ASSUME NEW h \in Job, NEW op \in {"instruct", "rerun", "chat"}, Order(op, h)
       PROVE  WbTypeOK'
  <2>1. PICK n \in {0, 1} : /\ Instruct(h, n)
                            /\ desk' = [FreeDesk EXCEPT !.op = op, !.at = "list", !.job = h,
                                         !.told = IF n = 0 THEN 0 ELSE instructions[h] + 1]
    BY <1>13 DEF Order
  <2>2. instructions \in [Job -> Nat]
    BY <1>0 DEF WbTypeOK
  <2>3. instructions' \in [Job -> Nat]
    BY <2>1, <2>2 DEF Instruct
  <2>4. (IF n = 0 THEN 0 ELSE instructions[h] + 1) \in Nat
    BY <2>2
  <2>5. desk' \in Desks
    BY <2>1, <2>4 DEF FreeDesk, Desks, Orders, DeskSteps
  <2> QED BY <1>0, <1>13, <2>3, <2>5 DEF Order, WbTypeOK, Desks
<1>14. ASSUME NEW w \in Retrier, WriteRetry(w) PROVE WbTypeOK'
  <2> DEFINE r == retrier[w]
             a == [number |-> r.number, parent |-> r.parent, told |-> 0, derived |-> FALSE]
  <2>1. a \in Tries
    BY <1>0 DEF Tries, Retries
  <2>2. tries' \in [Job -> Seq(Tries)] /\ current' \in [Job -> Nat]
    <3>1. tries' = [tries EXCEPT ![r.job] = Append(@, a)]
      BY <1>14 DEF WriteRetry
    <3>2. current' = [current EXCEPT ![r.job] = r.number] /\ r.number \in Nat
      BY <1>0, <1>14 DEF WriteRetry, Retries
    <3>3. r.job \in Job
      BY <1>14 DEF WriteRetry, WbInv, RetriesSound, Placed
    <3>4. Append(tries[r.job], a) \in Seq(Tries)
      BY <1>c, <2>1, <3>3, AppendTry
    <3> HIDE DEF a, r
    <3>5. tries' \in [Job -> Seq(Tries)]
      BY <1>c, <3>1, <3>4
    <3>6. current' \in [Job -> Nat]
      BY <1>0, <3>2 DEF WbTypeOK
    <3> QED BY <3>5, <3>6
  <2> QED BY <1>0, <1>a, <1>14, <2>2 DEF WriteRetry, WbTypeOK, Retries
<1>15. ASSUME NEW w \in Retrier, NEW h \in Job, ReadForRetry(w, h) PROVE WbTypeOK'
  <2>1. PICK i \in IF tries[h] = << >> THEN {0} ELSE Latest(h) :
          retrier' = [retrier EXCEPT ![w] =
            [job |-> h, parent |-> i, number |-> IF i = 0 THEN 1 ELSE tries[h][i].number + 1]]
    BY <1>15 DEF ReadForRetry
  <2>2. i \in Nat /\ (i # 0 => tries[h][i] \in Tries)
    BY <1>c, <2>1 DEF Latest
  <2>3. [job |-> h, parent |-> i, number |-> IF i = 0 THEN 1 ELSE tries[h][i].number + 1]
          \in Retries
    BY <2>2 DEF Retries, Tries
  <2> QED BY <1>0, <1>15, <2>1, <2>3 DEF ReadForRetry, WbTypeOK, Retries
<1> QED BY <1>1, <1>2, <1>3, <1>4, <1>5, <1>6, <1>7, <1>8, <1>9, <1>10, <1>11, <1>12,
           <1>13, <1>14, <1>15 DEF WbNext

-----------------------------------------------------------------------------
(* The steps.                                                              *)

LEMMA InitStep == WbInit => WbInv
<1> SUFFICES ASSUME WbInit PROVE WbInv
  OBVIOUS
<1>1. WbTypeOK
  BY DEF WbInit, WbTypeOK, FreeDesk, NoRetry, Orders, DeskSteps
<1>2. Placed /\ DeskSound /\ RetriesSound
  BY DEF WbInit, Placed, DeskSound, RetriesSound, FreeDesk
<1>3. Lineage /\ Acknowledged
  BY DEF WbInit, Lineage, Acknowledged, NumbersOf
<1> QED BY <1>1, <1>2, <1>3 DEF WbInv

\* A step that leaves the tables alone and the handler without an attempt.
LEMMA QuietStep ==
  ASSUME WbInv, WbTypeOK', UNCHANGED <<jobs, tries, current, instructions, acks, tools>>,
         DeskSound', \A w \in Retrier : retrier'[w] \in {retrier[w], NoRetry}
  PROVE  WbInv'
<1>1. Growing
  BY Unchanging
<1>2. Placed' /\ Lineage' /\ Acknowledged'
  BY DEF WbInv, Placed, Lineage, Acknowledged, NumbersOf
<1> QED BY <1>1, <1>2, RetriesStay DEF WbInv

LEMMA UnitStep ==
  ASSUME WbInv, WbTypeOK', NEW j \in Job, InsertUnit(j) \/ CreateTask(j)
  PROVE  WbInv'
<1>1. /\ j \notin jobs /\ jobs' = jobs \cup {j} /\ current' = [current EXCEPT ![j] = 1]
      /\ UNCHANGED <<tries, instructions, acks, tools, retrier>>
  BY DEF InsertUnit, CreateTask, InsertTask
<1>2. Growing
  BY <1>1, Unchanging
<1>3. tries[j] = << >> /\ current \in [Job -> Nat]
  BY <1>1 DEF WbInv, Placed, WbTypeOK
<1>4. Placed' /\ Lineage'
  BY <1>1 DEF WbInv, Placed, Lineage
<1>5. Acknowledged'
  BY <1>1, <1>2, <1>3, AcknowledgedStays
<1>6. DeskSound'
  <2>1. CASE CreateTask(j)
    BY <1>1, <1>2, <2>1, DeskStays DEF CreateTask
  <2>2. CASE InsertUnit(j)
    <3>1. desk'.at = "count" /\ desk'.job = j /\ desk'.told = 0 /\ desk'.parent = 0
      BY <2>2 DEF InsertUnit, WbInv, WbTypeOK, DeskSound
    <3>2. instructions[j] >= 0 /\ Len(tries[j]) >= 0
      BY <1>3 DEF WbInv, WbTypeOK
    <3> QED BY <1>1, <3>1, <3>2 DEF DeskSound
  <2> QED BY <2>1, <2>2
<1>7. RetriesSound'
  BY <1>1, <1>2, RetriesStay
<1> QED BY <1>4, <1>5, <1>6, <1>7 DEF WbInv

LEMMA UserTaskStep ==
  ASSUME WbInv, WbTypeOK', NEW j \in Job, CreateUserTask(j)
  PROVE  WbInv'
<1> DEFINE a == [number |-> 1, parent |-> 0, told |-> 0, derived |-> FALSE]
<1>1. /\ j \notin jobs /\ jobs' = jobs \cup {j} /\ current' = [current EXCEPT ![j] = 1]
      /\ tries' = [tries EXCEPT ![j] = <<a>>]
      /\ UNCHANGED <<instructions, acks, tools, desk, retrier>>
  BY DEF CreateUserTask, InsertTask
<1>2. /\ tries[j] = << >> /\ current \in [Job -> Nat] /\ instructions[j] \in Nat
      /\ jobs' \subseteq Job
  BY <1>1 DEF WbInv, Placed, WbTypeOK
<1>3. Append(tries[j], a) = <<a>>
  BY <1>2
<1>4. tries' = [tries EXCEPT ![j] = Append(@, a)]
  BY <1>1, <1>3
<1>5. Fits(j, a) /\ a \in Tries /\ a.number = 1
  BY <1>2 DEF Fits, Tries
<1> HIDE DEF a
<1>6. Growing
  BY <1>1, <1>4, <1>5, Appending
<1>7. Placed'
  BY <1>1, <1>2, <1>4, <1>5, PlacedKept
<1>8. Lineage'
  BY <1>1, <1>4, <1>5, LineageKept
<1>9. Acknowledged'
  <2>1. 1 \in NumbersOf(j)' /\ \A h \in Job \ {j} : tries'[h] = tries[h]
    BY <1>4, <1>5, Longer DEF WbInv
  <2> QED BY <1>1, <1>2, <1>6, <2>1, AcknowledgedStays
<1> QED BY <1>1, <1>6, <1>7, <1>8, <1>9, DeskStays, RetriesStay DEF WbInv

LEMMA OrderStep ==
  ASSUME WbInv, WbTypeOK', NEW j \in Job, NEW op \in {"instruct", "rerun", "chat"}, Order(op, j)
  PROVE  WbInv'
<1>1. PICK n \in {0, 1} : /\ Instruct(j, n)
                          /\ desk' = [FreeDesk EXCEPT !.op = op, !.at = "list", !.job = j,
                                       !.told = IF n = 0 THEN 0 ELSE instructions[j] + 1]
  BY DEF Order
<1>2. j \in jobs /\ UNCHANGED <<analysis, jobs, tries, current, acks, tools, retrier>>
  BY DEF Order
<1>0. tries \in [Job -> Seq(Tries)] /\ instructions \in [Job -> Nat]
  BY DEF WbInv, WbTypeOK
<1>3. instructions \in [Job -> Nat] /\ Len(tries[j]) \in Nat
  BY <1>0
<1>4. \A h \in Job : instructions[h] <= instructions'[h]
  BY <1>1, <1>3 DEF Instruct
<1>5. Growing
  BY <1>2, <1>4 DEF Growing, NumbersOf, WbInv, WbTypeOK
<1>6. /\ desk'.at = "list" /\ desk'.job = j /\ desk'.parent = 0
      /\ desk'.told = IF n = 0 THEN 0 ELSE instructions[j] + 1
  BY <1>1 DEF FreeDesk
<1>7. desk'.told <= instructions'[j]
  BY <1>1, <1>3, <1>6 DEF Instruct
<1>8. DeskSound'
  BY <1>2, <1>3, <1>6, <1>7 DEF DeskSound
<1>9. Placed'
  BY <1>2 DEF WbInv, Placed
<1>10. Lineage'
  <2>1. \A h \in Job : \A i \in 1 .. Len(tries[h]) : tries[h][i].told \in Nat
    <3>1. \A h \in Job : \A i \in 1 .. Len(tries[h]) : tries[h][i] \in Tries
      BY <1>0
    <3> QED BY <3>1 DEF Tries
  <2>2. instructions' \in [Job -> Nat]
    BY DEF WbTypeOK
  <2>3. \A h \in Job : \A i \in 1 .. Len(tries[h]) : tries[h][i].told <= instructions'[h]
    BY <1>3, <1>4, <2>1, <2>2 DEF WbInv, Lineage
  <2> QED BY <1>2, <2>3 DEF WbInv, Lineage
<1>11. Acknowledged'
  BY <1>2 DEF WbInv, Acknowledged, NumbersOf
<1> QED BY <1>2, <1>5, <1>8, <1>9, <1>10, <1>11, RetriesStay DEF WbInv

LEMMA ReadStep ==
  ASSUME WbInv, WbTypeOK', ListAttempts \/ CountAttempts
  PROVE  WbInv'
<1> DEFINE j == desk.job
<1>1. /\ UNCHANGED <<jobs, tries, current, instructions, acks, tools, retrier>>
      /\ desk.at \in {"list", "count"}
  BY DEF ListAttempts, CountAttempts
<1>2. j \in jobs /\ j \in Job /\ desk.told <= instructions[j] /\ desk.parent <= Len(tries[j])
  BY <1>1 DEF WbInv, DeskSound, Placed
<1>3. tries[j] \in Seq(Tries) /\ Len(tries[j]) \in Nat /\ desk.parent \in Nat
  BY <1>2 DEF WbInv, WbTypeOK
<1>4. DeskSound'
  <2>1. CASE ListAttempts
    <3>1. PICK i \in IF tries[j] = << >> THEN {0} ELSE Latest(j) :
            desk' = [desk EXCEPT !.at = "count", !.parent = i]
      BY <2>1 DEF ListAttempts
    <3>2. i <= Len(tries[j])
      BY <1>3, <3>1 DEF Latest
    <3>3. desk'.at = "count" /\ desk'.job = j /\ desk'.told = desk.told /\ desk'.parent = i
      BY <3>1 DEF WbInv, WbTypeOK
    <3> QED BY <1>1, <1>2, <3>2, <3>3 DEF DeskSound
  <2>2. CASE CountAttempts
    <3>1. /\ desk'.at = "insert" /\ desk'.job = j /\ desk'.told = desk.told
          /\ desk'.parent = desk.parent /\ desk'.number = Len(tries[j]) + 1
      BY <2>2 DEF CountAttempts, WbInv, WbTypeOK
    <3>2. ASSUME desk.parent # 0 PROVE tries[j][desk.parent].number < Len(tries[j]) + 1
      <4>1. desk.parent \in 1 .. Len(tries[j])
        BY <1>2, <1>3, <3>2
      <4>2. tries[j][desk.parent].number <= desk.parent /\ tries[j][desk.parent] \in Tries
        BY <1>2, <1>3, <4>1 DEF WbInv, Placed
      <4> QED BY <1>2, <1>3, <4>2, SMTT(40) DEF Tries
    <3> HIDE DEF j
    <3> QED BY <1>1, <1>2, <1>3, <3>1, <3>2 DEF DeskSound
  <2> QED BY <2>1, <2>2
<1> QED BY <1>1, <1>4, QuietStep

LEMMA InsertStep ==
  ASSUME WbInv, WbTypeOK', InsertAttempt
  PROVE  WbInv'
<1> SUFFICES ASSUME NEW j, j = desk.job PROVE WbInv'
  OBVIOUS
<1> DEFINE a == [number |-> desk.number, parent |-> desk.parent, told |-> desk.told,
                 derived |-> TRUE]
           taken == \E i \in DOMAIN tries[j] :
                      tries[j][i].derived /\ tries[j][i].number = desk.number
<1>1. desk.at = "insert" /\ UNCHANGED <<analysis, jobs, instructions, acks, tools, retrier>>
  BY DEF InsertAttempt
<1>2. /\ j \in jobs /\ j \in Job /\ desk.told <= instructions[j] /\ desk.parent <= Len(tries[j])
      /\ desk.number >= 1 /\ desk.number <= Len(tries[j]) + 1
      /\ desk.parent # 0 => tries[j][desk.parent].number < desk.number
  BY <1>1 DEF WbInv, DeskSound, Placed
<1>3. /\ tries[j] \in Seq(Tries) /\ Len(tries[j]) \in Nat /\ tools[j] \in Nat
      /\ desk.number \in Nat /\ desk.parent \in Nat /\ desk.told \in Nat
      /\ DOMAIN tries[j] = 1 .. Len(tries[j])
  BY <1>2 DEF WbInv, WbTypeOK
<1>4. CASE taken
  <2>1. tries' = tries /\ current' = current /\ desk' = FreeDesk
    BY <1>4 DEF InsertAttempt
  <2>2. DeskSound'
    BY <2>1 DEF DeskSound, FreeDesk
  <2> QED BY <1>1, <2>1, <2>2, QuietStep
<1>5. CASE ~ taken
  <2>1. /\ tries' = [tries EXCEPT ![j] = Append(@, a)]
        /\ current' = [current EXCEPT ![j] = desk.number] /\ desk' = NextStep
    BY <1>5 DEF InsertAttempt
  <2>2. Fits(j, a) /\ a \in Tries /\ a.number = desk.number
    BY <1>2, <1>3, <1>5 DEF Fits, Tries
  <2> HIDE DEF a
  <2>3. Growing
    BY <1>1, <1>2, <2>1, <2>2, Appending
  <2>4. /\ Len(tries'[j]) = Len(tries[j]) + 1 /\ desk.number \in NumbersOf(j)'
        /\ \A h \in Job \ {j} : tries'[h] = tries[h]
    BY <1>2, <2>1, <2>2, Longer DEF WbInv
  <2>5. Placed'
    BY <1>1, <1>2, <2>1, <2>2, PlacedKept DEF WbInv, Placed
  <2>6. Lineage'
    BY <1>1, <1>2, <2>1, <2>2, LineageKept
  <2>7. Acknowledged'
    <3>1. current \in [Job -> Nat]
      BY DEF WbInv, WbTypeOK
    <3>2. \A h \in Job : tries'[h] # << >> =>
            current'[h] \in NumbersOf(h)' \/ (current'[h] = current[h] /\ tries[h] # << >>)
      BY <2>1, <2>4, <3>1
    <3> QED BY <1>1, <2>3, <3>2, AcknowledgedStays
  <2>8. DeskSound'
    <3>1. tools[j] < Len(tries'[j])
      BY <1>2, <1>3, <2>4 DEF WbInv, Acknowledged
    <3>2. \/ desk' = FreeDesk
          \/ /\ desk'.at \in {"chat", "tool"} /\ desk'.job = j /\ desk'.told = desk.told
             /\ desk'.parent = desk.parent /\ desk'.number = desk.number
      BY <2>1 DEF NextStep, WbInv, WbTypeOK
    <3>3. CASE desk' = FreeDesk
      BY <3>3 DEF DeskSound, FreeDesk
    <3>4. CASE desk' # FreeDesk
      <4>1. desk'.parent <= Len(tries'[j])
        BY <1>2, <1>3, <2>4, <3>2, <3>4
      <4> QED BY <1>1, <1>2, <2>4, <3>1, <3>2, <3>4, <4>1 DEF DeskSound
    <3> QED BY <3>3, <3>4
  <2> QED BY <1>1, <2>3, <2>5, <2>6, <2>7, <2>8, RetriesStay DEF WbInv
<1> QED BY <1>4, <1>5

LEMMA FreedDesk ==
  ASSUME NEW d, \/ d = FreeDesk
                \/ d = [FreeDesk EXCEPT !.op = "analysis", !.at = "unit"]
  PROVE  d.at \in {"none", "unit"} /\ d.told = 0 /\ d.parent = 0
<1>1. CASE d = FreeDesk
  BY <1>1 DEF FreeDesk
<1>2. CASE d = [FreeDesk EXCEPT !.op = "analysis", !.at = "unit"]
  <2>1. d = [op |-> "analysis", at |-> "unit", job |-> NoJob, told |-> 0, parent |-> 0,
             number |-> 0]
    BY <1>2 DEF FreeDesk
  <2> QED BY <2>1
<1> QED BY <1>1, <1>2

LEMMA TellStep ==
  ASSUME WbInv, WbTypeOK', SaveMessages \/ RecordTool
  PROVE  WbInv'
<1> DEFINE j == desk.job
<1>1. /\ UNCHANGED <<jobs, tries, current, instructions, retrier>>
      /\ desk.at \in {"chat", "tool"}
  BY DEF SaveMessages, RecordTool
<1>2. /\ j \in jobs /\ j \in Job /\ desk.told <= instructions[j] /\ desk.parent <= Len(tries[j])
      /\ desk.number \in NumbersOf(j) /\ tools[j] < Len(tries[j])
  BY <1>1 DEF WbInv, DeskSound, Placed
<1>3. tries \in [Job -> Seq(Tries)] /\ tools \in [Job -> Nat] /\ acks \in [Job -> SUBSET Nat]
  BY DEF WbInv, WbTypeOK
<1>4. Growing /\ Placed' /\ Lineage' /\ RetriesSound'
  BY <1>1, Unchanging, RetriesStay DEF WbInv, Placed, Lineage
<1>5. CASE SaveMessages
  <2>1. /\ acks' = [acks EXCEPT ![j] = @ \cup {desk.number}] /\ tools' = tools
        /\ desk' = [desk EXCEPT !.at = "tool"]
    BY <1>5 DEF SaveMessages
  <2>2. Acknowledged'
    <3>1. \A h \in Job : acks'[h] \subseteq NumbersOf(h)
      BY <1>2, <1>3, <2>1 DEF WbInv, Acknowledged
    <3> QED BY <1>1, <2>1, <3>1 DEF WbInv, Acknowledged, NumbersOf
  <2>3. /\ desk'.at = "tool" /\ desk'.job = j /\ desk'.told = desk.told
        /\ desk'.parent = desk.parent /\ desk'.number = desk.number
    BY <2>1 DEF WbInv, WbTypeOK
  <2>4. DeskSound'
    BY <1>1, <1>2, <2>1, <2>3 DEF DeskSound, NumbersOf
  <2> QED BY <1>4, <2>2, <2>4 DEF WbInv
<1>6. CASE RecordTool
  <2>1. /\ tools' = [tools EXCEPT ![j] = @ + 1] /\ acks' = acks
        /\ desk' \in {FreeDesk, [FreeDesk EXCEPT !.op = "analysis", !.at = "unit"]}
    BY <1>6 DEF RecordTool
  <2>2. Acknowledged'
    <3>1. \A h \in Job : tools'[h] <= Len(tries[h])
      BY <1>2, <1>3, <2>1 DEF WbInv, Acknowledged
    <3> QED BY <1>1, <2>1, <3>1 DEF WbInv, Acknowledged, NumbersOf
  <2>3. DeskSound'
    <3>1. desk'.at \in {"none", "unit"} /\ desk'.told = 0 /\ desk'.parent = 0
      BY <2>1, FreedDesk
    <3> QED BY <3>1 DEF DeskSound
  <2> QED BY <1>4, <2>2, <2>3 DEF WbInv
<1> QED BY <1>5, <1>6

LEMMA ReadRetryStep ==
  ASSUME WbInv, WbTypeOK', NEW w \in Retrier, NEW j \in Job, ReadForRetry(w, j)
  PROVE  WbInv'
<1>1. PICK i \in IF tries[j] = << >> THEN {0} ELSE Latest(j) :
        retrier' = [retrier EXCEPT ![w] =
          [job |-> j, parent |-> i, number |-> IF i = 0 THEN 1 ELSE tries[j][i].number + 1]]
  BY DEF ReadForRetry
<1>2. j \in jobs /\ UNCHANGED <<analysis, jobs, tries, current, instructions, acks, tools, desk>>
  BY DEF ReadForRetry
<1>0. /\ tries \in [Job -> Seq(Tries)]
      /\ retrier \in [Retrier -> [job : Job \cup {NoJob}, parent : Nat, number : Nat]]
  BY DEF WbInv, WbTypeOK
<1>3. /\ tries[j] \in Seq(Tries) /\ Len(tries[j]) \in Nat
      /\ retrier \in [Retrier -> [job : Job \cup {NoJob}, parent : Nat, number : Nat]]
  BY <1>0
<1>4. i <= Len(tries[j]) /\ i \in Nat /\ (i # 0 => i \in 1 .. Len(tries[j]))
  BY <1>1, <1>3 DEF Latest
<1>5. i # 0 => tries[j][i] \in Tries /\ tries[j][i].number >= 1 /\ tries[j][i].number <= i
  BY <1>3, <1>4 DEF WbInv, Placed
<1>6. Growing /\ DeskSound'
  BY <1>2, Unchanging, DeskStays
<1>7. RetriesSound'
  <2> SUFFICES ASSUME NEW v \in Retrier, retrier'[v] # NoRetry
               PROVE  LET r == retrier'[v] IN
                      /\ r.job \in jobs /\ r.parent <= Len(tries[r.job])
                      /\ r.number >= 1 /\ r.number <= Len(tries[r.job]) + 1
                      /\ r.parent # 0 => tries[r.job][r.parent].number < r.number
    BY <1>2 DEF RetriesSound
  <2>1. CASE v # w
    BY <1>1, <1>3, <2>1 DEF WbInv, RetriesSound
  <2>2. CASE v = w /\ i = 0
    BY <1>1, <1>2, <1>3, <1>4, <2>2
  <2>3. CASE v = w /\ i # 0
    <3>1. tries[j][i].number \in Nat /\ i <= Len(tries[j])
      BY <1>4, <1>5, <2>3 DEF Tries
    <3>2. retrier'[v] = [job |-> j, parent |-> i, number |-> tries[j][i].number + 1]
      BY <1>1, <1>3, <2>3
    <3> QED BY <1>2, <1>3, <1>4, <1>5, <2>3, <3>1, <3>2
  <2> QED BY <2>1, <2>2, <2>3
<1> QED BY <1>2, <1>6, <1>7 DEF WbInv, Placed, Lineage, Acknowledged, NumbersOf

LEMMA WriteRetryStep ==
  ASSUME WbInv, WbTypeOK', NEW w \in Retrier, WriteRetry(w)
  PROVE  WbInv'
<1> SUFFICES ASSUME NEW r, r = retrier[w], NEW j, j = r.job PROVE WbInv'
  OBVIOUS
<1> DEFINE a == [number |-> r.number, parent |-> r.parent, told |-> 0, derived |-> FALSE]
<1>1. /\ r # NoRetry /\ tries' = [tries EXCEPT ![j] = Append(@, a)]
      /\ current' = [current EXCEPT ![j] = r.number]
      /\ retrier' = [retrier EXCEPT ![w] = NoRetry]
      /\ UNCHANGED <<analysis, jobs, instructions, acks, tools, desk>>
  BY DEF WriteRetry
<1>2. /\ j \in jobs /\ j \in Job /\ r.parent <= Len(tries[j])
      /\ r.number >= 1 /\ r.number <= Len(tries[j]) + 1
      /\ r.parent # 0 => tries[j][r.parent].number < r.number
  BY <1>1 DEF WbInv, RetriesSound, Placed
<1>3. r.number \in Nat /\ r.parent \in Nat /\ instructions[j] \in Nat
  BY <1>2 DEF WbInv, WbTypeOK
<1>4. Fits(j, a) /\ a \in Tries /\ a.number = r.number
  BY <1>2, <1>3 DEF Fits, Tries
<1> HIDE DEF a
<1>5. Growing
  BY <1>1, <1>2, <1>4, Appending
<1>6. r.number \in NumbersOf(j)' /\ \A h \in Job \ {j} : tries'[h] = tries[h]
  BY <1>1, <1>2, <1>4, Longer, ZenonT(60) DEF WbInv
<1>7. Placed'
  BY <1>1, <1>2, <1>4, PlacedKept DEF WbInv, Placed
<1>8. Lineage'
  BY <1>1, <1>2, <1>4, LineageKept
<1>9. Acknowledged'
  <2>1. current \in [Job -> Nat]
    BY DEF WbInv, WbTypeOK
  <2>2. \A h \in Job : tries'[h] # << >> =>
          current'[h] \in NumbersOf(h)' \/ (current'[h] = current[h] /\ tries[h] # << >>)
    BY <1>1, <1>6, <2>1
  <2> QED BY <1>1, <1>5, <2>2, AcknowledgedStays
<1>10. \A v \in Retrier : retrier'[v] \in {retrier[v], NoRetry}
  BY <1>1 DEF WbInv, WbTypeOK
<1> QED BY <1>1, <1>5, <1>7, <1>8, <1>9, <1>10, DeskStays, RetriesStay DEF WbInv

-----------------------------------------------------------------------------
(* The theorems.                                                           *)

LEMMA WorkbenchInvariance == WbInv /\ [WbNext]_wbVars => WbInv'
<1> SUFFICES ASSUME WbInv, [WbNext]_wbVars PROVE WbInv'
  OBVIOUS
<1>1. CASE UNCHANGED wbVars
  BY <1>1, SMTT(40) DEF wbVars, WbInv, WbTypeOK, Placed, DeskSound, RetriesSound, Lineage, Acknowledged,
              NumbersOf
<1>2. CASE WbNext
  <2>0. WbTypeOK'
    BY <1>2, TypeStep
  <2>1. CASE StartTerminal \/ StartAnalysis \/ EndStart \/ EndServer
    <3>1. /\ UNCHANGED <<jobs, tries, current, instructions, acks, tools>>
          /\ \A w \in Retrier : retrier'[w] \in {retrier[w], NoRetry}
      BY <2>1 DEF StartTerminal, StartAnalysis, EndStart, EndServer
    <3>2. \/ desk' = desk
          \/ desk' \in {FreeDesk, [FreeDesk EXCEPT !.op = "analysis", !.at = "unit"]}
      BY <2>1 DEF StartTerminal, StartAnalysis, EndStart, EndServer
    <3>3. DeskSound'
      <4>1. CASE desk' = desk
        BY <2>0, <3>1, <4>1, Unchanging, DeskStays
      <4>2. CASE desk' # desk
        <5>1. desk'.at \in {"none", "unit"} /\ desk'.told = 0 /\ desk'.parent = 0
          BY <3>2, <4>2, FreedDesk
        <5> QED BY <5>1 DEF DeskSound
      <4> QED BY <4>1, <4>2
    <3> QED BY <2>0, <3>1, <3>3, QuietStep
  <2>2. CASE ListAttempts \/ CountAttempts
    BY <2>0, <2>2, ReadStep
  <2>3. CASE InsertAttempt
    BY <2>0, <2>3, InsertStep
  <2>4. CASE SaveMessages \/ RecordTool
    BY <2>0, <2>4, TellStep
  <2>5. CASE \E j \in Job : InsertUnit(j) \/ CreateTask(j)
    BY <2>0, <2>5, UnitStep
  <2>6. CASE \E j \in Job : CreateUserTask(j)
    BY <2>0, <2>6, UserTaskStep
  <2>7. CASE \E j \in Job : \E op \in {"instruct", "rerun", "chat"} : Order(op, j)
    BY <2>0, <2>7, OrderStep
  <2>8. CASE \E w \in Retrier : WriteRetry(w)
    BY <2>0, <2>8, WriteRetryStep
  <2>9. CASE \E w \in Retrier : \E j \in Job : ReadForRetry(w, j)
    BY <2>0, <2>9, ReadRetryStep
  <2> QED BY <1>2, <2>1, <2>2, <2>3, <2>4, <2>5, <2>6, <2>7, <2>8, <2>9 DEF WbNext
<1> QED BY <1>1, <1>2

\* The invariant of the proof holds in every state.
LEMMA WorkbenchInvariant == WbSpec => []WbInv
<1>1. WbInit => WbInv
  BY InitStep
<1>2. WbInv /\ [WbNext]_wbVars => WbInv'
  BY WorkbenchInvariance
<1> QED BY <1>1, <1>2, PTL DEF WbSpec

\* Whatever handlers and retries interleave, and wherever the process ends, the
\* lineage of every task can be followed (create_attempt,
\* execute_retry_attempt).
THEOREM LineageIsSound == WbSpec => [](WbTypeOK /\ LineageSound)
<1>1. WbInv => LineageSound
  <2> SUFFICES ASSUME WbInv PROVE LineageSound
    OBVIOUS
  <2>1. \A j \in Job : DOMAIN tries[j] = 1 .. Len(tries[j])
    BY DEF WbInv, WbTypeOK
  <2> QED BY <2>1 DEF WbInv, Lineage, LineageSound
<1>2. WbInv => WbTypeOK
  BY DEF WbInv
<1> QED BY <1>1, <1>2, WorkbenchInvariant, PTL

\* What the analyst was told of exists (send_task_instruction, start_analysis).
THEOREM AcknowledgedIsThere == WbSpec => []AcknowledgedExists
<1>1. WbInv => AcknowledgedExists
  <2> SUFFICES ASSUME WbInv PROVE AcknowledgedExists
    OBVIOUS
  <2>1. \A j \in Job : DOMAIN tries[j] = 1 .. Len(tries[j])
    BY DEF WbInv, WbTypeOK
  <2>2. \A j \in Job : {tries[j][i].number : i \in DOMAIN tries[j]} = NumbersOf(j)
    BY <2>1 DEF NumbersOf
  <2> QED BY <2>2 DEF WbInv, Acknowledged, AcknowledgedExists
<1> QED BY <1>1, WorkbenchInvariant, PTL
=============================================================================
