-------------------------- MODULE Workspace_proofs --------------------------
(***************************************************************************)
(* What holds of the projects, of their directories and logs, of the start *)
(* of an analysis, of the schema of the database, of plans and of their    *)
(* closure, for every number of them and of threads.                       *)
(***************************************************************************)
EXTENDS Workspace, LogRetention, Intake, Schema, Closure, Planning,
        FiniteSetTheorems, SequenceTheorems, WellFoundedInduction, TLAPS

-----------------------------------------------------------------------------
(***************************************************************************)
(* Projects, directories and the target repository.                        *)
(***************************************************************************)
USE WorkspaceAssumption

(* The inductive invariant: rows are rows, one project at most is active,  *)
(* and a repository that was current is one that can be read.              *)

ProjectRow == [status : ProjectStatuses, active : BOOLEAN, dir : Directory \cup {NoDirectory}]

RowsSound == \A p \in Stored : project[p] \in ProjectRow

\* A thread's place; what it writes back is a status and a directory.
Threads(ats, ids) ==
  [at : ats, id : ids, status : ProjectStatuses, dir : Directory \cup {NoDirectory}]
Thread(c) == \E ats, ids : c \in Threads(ats, ids)

ClientsSound == DOMAIN client = Client /\ \A w \in Client : Thread(client[w])

DiskSound == DOMAIN disk = Directory

OneActive == \A p, q \in Active : p = q
OneCurrent == \A d, e \in DOMAIN target : target[d] /\ target[e] => d = e
TargetsReadable == DOMAIN target \subseteq Directory /\ \A d \in DOMAIN target : Selectable(d)

WsInv == RowsSound /\ ClientsSound /\ DiskSound /\ OneActive /\ OneCurrent /\ TargetsReadable

\* A handler's thread goes on, with a directory or without.
Goes == DOMAIN client' = Client /\ \A w \in Client : Thread(client'[w])

LEMMA Initially == WsInit => WsInv
<1> SUFFICES ASSUME WsInit PROVE WsInv
  OBVIOUS
<1>1. DOMAIN << >> = {}
  OBVIOUS
<1>2. Stored = {} /\ DOMAIN target = {}
  BY <1>1 DEF WsInit, Stored
<1>3. ClientsSound /\ DiskSound
  <2>1. Idle \in Threads({"none"}, {NoProject})
    BY DEF Threads, Idle, ProjectStatuses
  <2> QED BY <2>1 DEF WsInit, ClientsSound, Thread, DiskSound
<1> QED BY <1>2, <1>3 DEF WsInv, RowsSound, OneActive, Active, OneCurrent, TargetsReadable

-----------------------------------------------------------------------------
(* Statements.                                                             *)

\* The threads' places change, nothing else.
LEMMA GoStep ==
  ASSUME WsInv, UNCHANGED <<project, disk, target>>, Goes
  PROVE  WsInv'
<1>1. ClientsSound'
  BY DEF Goes, ClientsSound
<1>2. RowsSound' /\ OneActive'
  BY DEF WsInv, RowsSound, OneActive, Active, Stored
<1>3. DiskSound' /\ OneCurrent' /\ TargetsReadable'
  BY DEF WsInv, DiskSound, OneCurrent, TargetsReadable, Selectable
<1> QED BY <1>1, <1>2, <1>3 DEF WsInv

\* Projects are written so that the new active one, if any, is the only one,
\* or none becomes active.
LEMMA ProjectStep ==
  ASSUME WsInv, Goes, DiskSound', TargetsReadable', target' = target,
         \A p \in DOMAIN project' : project'[p] \in ProjectRow,
         \/ \E p \in DOMAIN project' \cup {NoProject} :
              \A q \in DOMAIN project' : project'[q].active => q = p
         \/ \A q \in DOMAIN project' :
              project'[q].active => q \in Stored /\ project[q].active
  PROVE  WsInv'
<1>1. ClientsSound'
  BY DEF Goes, ClientsSound
<1>2. RowsSound'
  BY DEF RowsSound, Stored
<1>3. OneActive'
  BY DEF WsInv, OneActive, Active, Stored
<1>4. OneCurrent'
  BY DEF WsInv, OneCurrent
<1> QED BY <1>1, <1>2, <1>3, <1>4 DEF WsInv

\* Looking into a directory leaves what could be read readable.
LEMMA InspectKeeps ==
  ASSUME WsInv, NEW d, Inspect(d), target' = target
  PROVE  DiskSound' /\ TargetsReadable'
<1>1. CASE disk' = disk
  BY <1>1 DEF WsInv, DiskSound, TargetsReadable, Selectable
<1>2. CASE disk' = [disk EXCEPT ![d] = Fresh(d)]
  <2>1. Fresh(d).there = TRUE /\ Fresh(d).readable = TRUE
    BY DEF Fresh
  <2>2. DiskSound'
    BY <1>2 DEF WsInv, DiskSound
  <2>3. \A e \in Directory : disk'[e] = IF e = d THEN Fresh(d) ELSE disk[e]
    BY <1>2 DEF WsInv, DiskSound
  <2>4. ASSUME NEW e \in DOMAIN target PROVE Selectable(e)'
    <3>1. e \in Directory /\ Selectable(e)
      BY DEF WsInv, TargetsReadable
    <3>2. CASE e = d
      BY <2>1, <2>3, <3>1, <3>2 DEF Selectable
    <3>3. CASE e # d
      BY <2>3, <3>1, <3>3 DEF Selectable
    <3> QED BY <3>2, <3>3
  <2> QED BY <2>2, <2>4 DEF WsInv, TargetsReadable
<1> QED BY <1>1, <1>2 DEF Inspect

LEMMA DiskStays ==
  ASSUME WsInv, UNCHANGED <<disk, target>>
  PROVE  DiskSound' /\ TargetsReadable'
  BY DEF WsInv, DiskSound, TargetsReadable, Selectable

LEMMA GotoGoes ==
  ASSUME WsInv, NEW w \in Client, NEW at, NEW id, Goto(w, at, id)
  PROVE  Goes
<1>1. client' = [client EXCEPT ![w] = [client[w] EXCEPT !.at = at, !.id = id]]
  BY DEF Goto, WsInv, ClientsSound
<1>2. Thread([client[w] EXCEPT !.at = at, !.id = id])
  <2>1. PICK ats, ids : client[w] \in Threads(ats, ids)
    BY DEF WsInv, ClientsSound, Thread
  <2>2. [client[w] EXCEPT !.at = at, !.id = id] \in Threads(ats \cup {at}, ids \cup {id})
    BY <2>1 DEF Threads
  <2> QED BY <2>2 DEF Thread
<1> QED BY <1>1, <1>2 DEF WsInv, ClientsSound, Goes

LEMMA DoneGoes == ASSUME WsInv, NEW w \in Client, Done(w) PROVE Goes
<1>1. Thread(Idle)
  <2>1. Idle \in Threads({"none"}, {NoProject})
    BY DEF Threads, Idle, ProjectStatuses
  <2> QED BY <2>1 DEF Thread
<1> QED BY <1>1 DEF WsInv, ClientsSound, Goes, Done

\* What a thread has read, by its fields.
LEMMA ThreadFields ==
  ASSUME WsInv, NEW w \in Client
  PROVE  client[w].status \in ProjectStatuses /\ client[w].dir \in Directory \cup {NoDirectory}
  BY DEF WsInv, ClientsSound, Thread, Threads

LEMMA SetActiveStep ==
  ASSUME WsInv, NEW p, SetActive(p), Goes, UNCHANGED <<disk, target>>
  PROVE  WsInv'
<1>1. project' = [q \in Stored |-> [project[q] EXCEPT !.active = (q = p)]]
  BY DEF SetActive
<1>2. \A q \in Stored : /\ project'[q] \in ProjectRow
                        /\ project'[q].active => q = p
  <2> SUFFICES ASSUME NEW q \in Stored
               PROVE  project'[q] \in ProjectRow /\ (project'[q].active => q = p)
    OBVIOUS
  <2>1. PICK b \in BOOLEAN : b <=> (q = p)
    OBVIOUS
  <2>2. \A r \in ProjectRow, c \in BOOLEAN :
          [r EXCEPT !.active = c] \in ProjectRow /\ [r EXCEPT !.active = c].active = c
    BY DEF ProjectRow
  <2>3. project'[q] = [project[q] EXCEPT !.active = (q = p)] /\ (q = p) \in BOOLEAN
    BY <1>1
  <2>4. project[q] \in ProjectRow
    BY DEF WsInv, RowsSound
  <2> QED BY <2>2, <2>3, <2>4
<1>3. DOMAIN project' = Stored
  BY <1>1
<1>4. DiskSound' /\ TargetsReadable'
  BY DiskStays
<1>5. CASE p \in Stored
  BY <1>2, <1>3, <1>4, <1>5, ProjectStep
<1>6. CASE p \notin Stored
  BY <1>2, <1>3, <1>4, <1>6, ProjectStep
<1> QED BY <1>5, <1>6

\* A row is written over, its active flag with it or taken away.
LEMMA RowStep ==
  ASSUME WsInv, Goes, UNCHANGED <<disk, target>>, NEW p, NEW r,
         project' = [project EXCEPT ![p] = r],
         p \in Stored => r \in ProjectRow /\ (r.active => project[p].active)
  PROVE  WsInv'
<1>1. DOMAIN project' = Stored
  BY DEF Stored
<1>2. \A q \in Stored : project'[q] = IF q = p THEN r ELSE project[q]
  BY DEF Stored
<1>3. \A q \in Stored : /\ project'[q] \in ProjectRow
                        /\ project'[q].active => project[q].active
  BY <1>2 DEF WsInv, RowsSound
<1>4. DiskSound' /\ TargetsReadable'
  BY DiskStays
<1> QED BY <1>1, <1>3, <1>4, ProjectStep

-----------------------------------------------------------------------------
(* The handlers.                                                           *)

LEMMA SeedStep == ASSUME WsInv, NEW w \in Client, SeedDefaults(w) PROVE WsInv'
<1>1. Goes /\ UNCHANGED <<disk, target>>
  BY DoneGoes DEF SeedDefaults
<1>2. CASE project' = project
  BY <1>1, <1>2, GoStep
<1>3. ASSUME NEW d \in Directory,
             project' = [p \in ToSet(DefaultProject) |->
               [status |-> IF p = DefaultProject[1] THEN "READY" ELSE "INITIALIZED",
                active |-> p = DefaultProject[1], dir |-> d]]
      PROVE  WsInv'
  <2>1. DOMAIN project' = ToSet(DefaultProject)
    BY <1>3
  <2>2. DefaultProject[1] \in ToSet(DefaultProject)
    BY DEF ToSet
  <2>3. ASSUME NEW p \in DOMAIN project'
        PROVE  project'[p] \in ProjectRow /\ (project'[p].active => p = DefaultProject[1])
    <3>1. \A s \in ProjectStatuses, c \in BOOLEAN :
            /\ [status |-> s, active |-> c, dir |-> d] \in ProjectRow
            /\ [status |-> s, active |-> c, dir |-> d].active = c
      BY <1>3 DEF ProjectRow
    <3>2. (IF p = DefaultProject[1] THEN "READY" ELSE "INITIALIZED") \in ProjectStatuses
      BY DEF ProjectStatuses
    <3>3. (p = DefaultProject[1]) \in BOOLEAN
      OBVIOUS
    <3>4. project'[p] = [status |-> IF p = DefaultProject[1] THEN "READY" ELSE "INITIALIZED",
                         active |-> p = DefaultProject[1], dir |-> d]
      BY <1>3, <2>3
    <3> QED BY <3>1, <3>2, <3>3, <3>4
  <2>4. DiskSound' /\ TargetsReadable'
    BY <1>1, DiskStays
  <2> QED BY <1>1, <2>1, <2>2, <2>3, <2>4, ProjectStep
<1> QED BY <1>2, <1>3 DEF SeedDefaults

LEMMA CreateStep ==
  ASSUME WsInv, NEW w \in Client, NEW p \in Project, NEW d \in Directory, CreateProject(w, p, d)
  PROVE  WsInv'
<1>1. PICK s \in ProjectStatuses :
        project' = [q \in Stored \cup {p} |->
          IF q = p THEN [status |-> s, active |-> TRUE, dir |-> d]
          ELSE [project[q] EXCEPT !.active = FALSE]]
  BY DEF CreateProject, ProjectStatuses
<1>2. DOMAIN project' = Stored \cup {p}
  BY <1>1
<1>3. [status |-> s, active |-> TRUE, dir |-> d] \in ProjectRow
  BY DEF ProjectRow
<1>4. \A r \in ProjectRow : [r EXCEPT !.active = FALSE] \in ProjectRow
                     /\ [r EXCEPT !.active = FALSE].active = FALSE
  BY DEF ProjectRow
<1>5. \A q \in DOMAIN project' : project'[q] \in ProjectRow /\ (project'[q].active => q = p)
  BY <1>1, <1>3, <1>4 DEF WsInv, RowsSound
<1>6. Goes /\ target' = target
  BY DEF CreateProject, WsInv, ClientsSound, Goes
<1>7. DiskSound' /\ TargetsReadable'
  BY <1>6, InspectKeeps DEF CreateProject
<1> QED BY <1>2, <1>5, <1>6, <1>7, ProjectStep

LEMMA ViewStep ==
  ASSUME WsInv, NEW w \in Client, NEW p \in Project, ViewProject(w, p)
  PROVE  WsInv'
<1>1. Goes /\ project' = project /\ target' = target
  BY DEF ViewProject, WsInv, ClientsSound, Goes
<1>2. DiskSound' /\ TargetsReadable'
  BY <1>1, InspectKeeps DEF ViewProject
<1>3. \A q \in DOMAIN project' : project'[q] \in ProjectRow /\ q \in Stored
  BY <1>1 DEF WsInv, RowsSound, Stored
<1> QED BY <1>1, <1>2, <1>3, ProjectStep

LEMMA ArchiveStep ==
  ASSUME WsInv, NEW w \in Client, NEW p \in Project, ArchiveProject(w, p)
  PROVE  WsInv'
<1>1. Goes /\ UNCHANGED <<disk, target>>
  BY GotoGoes DEF ArchiveProject
<1>2. p \in Stored /\ project[p] \in ProjectRow
  BY DEF ArchiveProject, WsInv, RowsSound
<1>3. project' = [project EXCEPT ![p] = [project[p] EXCEPT !.status = "ARCHIVED", !.active = FALSE]]
  BY <1>2 DEF ArchiveProject, Stored
<1>4. /\ [project[p] EXCEPT !.status = "ARCHIVED", !.active = FALSE] \in ProjectRow
      /\ [project[p] EXCEPT !.status = "ARCHIVED", !.active = FALSE].active = FALSE
  BY <1>2 DEF ProjectRow, ProjectStatuses
<1> QED BY <1>1, <1>3, <1>4, RowStep

LEMMA WriteStep == ASSUME WsInv, NEW w \in Client, WriteProject(w) \/ Retarget(w) PROVE WsInv'
<1> DEFINE p == client[w].id
<1>1. Goes /\ UNCHANGED <<disk, target>>
  BY DoneGoes DEF WriteProject, Retarget
<1>2. client[w].status \in ProjectStatuses /\ client[w].dir \in Directory \cup {NoDirectory}
  BY ThreadFields
<1>3. \A r \in ProjectRow : \A s \in ProjectStatuses : \A d \in Directory \cup {NoDirectory} :
        /\ [r EXCEPT !.status = s, !.dir = d] \in ProjectRow
        /\ [r EXCEPT !.status = s, !.dir = d].active = r.active
        /\ [r EXCEPT !.dir = d] \in ProjectRow
        /\ [r EXCEPT !.dir = d].active = r.active
  BY DEF ProjectRow
<1>4. p \in Stored => project[p] \in ProjectRow
  BY DEF WsInv, RowsSound
<1>5. CASE WriteProject(w)
  <2>1. PICK d \in Directory \cup {NoDirectory} :
          project' = [project EXCEPT ![p].status = client[w].status, ![p].dir = d]
    BY <1>2, <1>5 DEF WriteProject
  <2>2. project' = [project EXCEPT ![p] = [project[p] EXCEPT !.status = client[w].status, !.dir = d]]
    BY <2>1 DEF Stored
  <2>3. p \in Stored =>
          /\ [project[p] EXCEPT !.status = client[w].status, !.dir = d] \in ProjectRow
          /\ [project[p] EXCEPT !.status = client[w].status, !.dir = d].active = project[p].active
    <3>1. PICK s \in ProjectStatuses : s = client[w].status
      BY <1>2
    <3>2. \A q \in ProjectRow : /\ [q EXCEPT !.status = s, !.dir = d] \in ProjectRow
                         /\ [q EXCEPT !.status = s, !.dir = d].active = q.active
      BY DEF ProjectRow
    <3> QED BY <1>4, <3>1, <3>2
  <2> QED BY <1>1, <2>2, <2>3, RowStep
<1>6. CASE Retarget(w)
  <2>1. project' = [project EXCEPT ![p] = [project[p] EXCEPT !.dir = client[w].dir]]
    BY <1>6 DEF Retarget
  <2> QED BY <1>1, <1>2, <1>3, <1>4, <2>1, RowStep, ZenonT(60)
<1> QED BY <1>5, <1>6

LEMMA SelectStep ==
  ASSUME WsInv, NEW w \in Client, NEW d \in Directory, SelectRepository(w, d)
  PROVE  WsInv'
<1>1. /\ Selectable(d) /\ UNCHANGED <<project, disk>>
      /\ target' = [e \in DOMAIN target \cup {d} |-> e = d]
      /\ client' = [client EXCEPT ![w].at = "sync", ![w].dir = d]
  BY DEF SelectRepository, MakeCurrent
<1>2. Goes
  <2>1. PICK ats, ids : client[w] \in Threads(ats, ids)
    BY DEF WsInv, ClientsSound, Thread
  <2>2. client' = [client EXCEPT ![w] = [client[w] EXCEPT !.at = "sync", !.dir = d]]
    BY <1>1 DEF WsInv, ClientsSound
  <2>3. [client[w] EXCEPT !.at = "sync", !.dir = d] \in Threads(ats \cup {"sync"}, ids)
    BY <2>1 DEF Threads
  <2> QED BY <2>2, <2>3 DEF WsInv, ClientsSound, Goes, Thread
<1>3. DOMAIN target' = DOMAIN target \cup {d}
  BY <1>1
<1>4. \A e \in DOMAIN target' : target'[e] = (e = d)
  BY <1>1
<1>5. OneCurrent'
  BY <1>4 DEF OneCurrent
<1>6. TargetsReadable'
  BY <1>1, <1>3 DEF WsInv, TargetsReadable, Selectable
<1>7. ClientsSound' /\ RowsSound' /\ DiskSound' /\ OneActive'
  BY <1>1, <1>2 DEF WsInv, Goes, ClientsSound, RowsSound, DiskSound, OneActive, Active, Stored
<1> QED BY <1>5, <1>6, <1>7 DEF WsInv

LEMMA WalkStep ==
  ASSUME WsInv, NEW w \in Client,
         \/ CountProjects(w) \/ GetActive(w) \/ ListProjects(w) \/ AfterArchive(w)
         \/ FindActive(w) \/ \E p \in Project : ReadProject(w, p)
  PROVE  WsInv'
<1>1. UNCHANGED <<project, disk, target>>
  BY DEF CountProjects, GetActive, ListProjects, AfterArchive, FindActive, ReadProject
<1>2. CASE \/ Done(w) \/ \E at, id : Goto(w, at, id)
  BY <1>1, <1>2, GotoGoes, DoneGoes, GoStep
<1>3. ASSUME NEW p \in Project, ReadProject(w, p) PROVE WsInv'
  <2>1. project[p].status \in ProjectStatuses /\ project[p].dir \in Directory \cup {NoDirectory}
    BY <1>3 DEF ReadProject, WsInv, RowsSound, ProjectRow
  <2>2. client' = [client EXCEPT ![w] = [at |-> "write", id |-> p, status |-> project[p].status,
                                         dir |-> project[p].dir]]
    BY <1>3 DEF ReadProject
  <2>3. [at |-> "write", id |-> p, status |-> project[p].status, dir |-> project[p].dir]
          \in Threads({"write"}, {p})
    BY <2>1 DEF Threads
  <2>4. Goes
    BY <2>2, <2>3 DEF WsInv, ClientsSound, Goes, Thread
  <2> QED BY <1>1, <2>4, GoStep
<1> QED BY <1>2, <1>3 DEF CountProjects, GetActive, ListProjects, AfterArchive, FindActive

LEMMA ActivateStep ==
  ASSUME WsInv, NEW w \in Client, ActivateListed(w) \/ \E p \in Project : ActivateProject(w, p)
  PROVE  WsInv'
<1>1. UNCHANGED <<disk, target>> /\ \E p : SetActive(p)
  BY DEF ActivateListed, ActivateProject
<1>2. Goes
  <2>1. CASE client' = client
    BY <2>1 DEF WsInv, ClientsSound, Goes
  <2>2. CASE \/ Done(w) \/ \E at, id : Goto(w, at, id)
    BY <2>2, GotoGoes, DoneGoes
  <2> QED BY <2>1, <2>2 DEF ActivateListed, ActivateProject
<1> QED BY <1>1, <1>2, SetActiveStep

LEMMA Invariance == WsInv /\ [WsNext]_wsVars => WsInv'
<1> SUFFICES ASSUME WsInv, [WsNext]_wsVars PROVE WsInv'
  OBVIOUS
<1>1. CASE UNCHANGED wsVars
  BY <1>1, GoStep DEF wsVars, WsInv, ClientsSound, Goes
<1>2. ASSUME NEW w \in Client,
             \/ CountProjects(w) \/ SeedDefaults(w)
             \/ GetActive(w) \/ ListProjects(w) \/ ActivateListed(w) \/ AfterArchive(w)
             \/ WriteProject(w) \/ FindActive(w) \/ Retarget(w)
             \/ \E d \in Directory : SelectRepository(w, d)
             \/ \E p \in Project :
                  \/ ActivateProject(w, p) \/ ArchiveProject(w, p) \/ ReadProject(w, p)
                  \/ ViewProject(w, p)
                  \/ \E d \in Directory : CreateProject(w, p, d)
      PROVE  WsInv'
  BY <1>2, WalkStep, ActivateStep, SeedStep, WriteStep, SelectStep, ArchiveStep, ViewStep,
     CreateStep
<1> QED BY <1>1, <1>2 DEF WsNext

-----------------------------------------------------------------------------
(* The theorem.                                                            *)

\* At most one project is active, at most one repository is current, and every
\* repository that was selected is in an allowed directory that can be read,
\* however many handlers interleave on however many threads.
THEOREM OneIsChosen == WsSpec => []OneChosen
<1>1. WsInv => OneChosen
  BY DEF WsInv, OneActive, OneCurrent, TargetsReadable, OneChosen
<1> QED BY <1>1, Initially, Invariance, PTL DEF WsSpec

-----------------------------------------------------------------------------
(* Types.                                                                  *)

\* A non-empty set of numbers has a least one.
LEMMA Least ==
  ASSUME NEW T \in SUBSET Nat, T # {}
  PROVE  \E i \in T : \A j \in T : i <= j
<1> DEFINE Below(m) == {k \in T : k <= m}
           Belows == {Below(m) : m \in T}
<1>1. IsWellFoundedOn(StrictSubsetOrdering(Nat), FiniteSubsetsOf(Nat))
  BY FS_StrictSubsetOrderingWellFounded
<1>2. ASSUME NEW m \in T PROVE Below(m) \in SUBSET Nat /\ IsFiniteSet(Below(m))
  <2>1. Below(m) \in SUBSET Nat /\ \A k \in Below(m) : k <= m
    OBVIOUS
  <2> QED BY <2>1, FS_BoundedSetOfNaturals
<1>3. Belows \subseteq FiniteSubsetsOf(Nat) /\ Belows # {}
  <2>1. PICK m \in T : TRUE
    OBVIOUS
  <2>2. Below(m) \in Belows
    OBVIOUS
  <2>3. \A B \in Belows : B \in SUBSET Nat /\ IsFiniteSet(B)
    BY <1>2
  <2> HIDE DEF Belows
  <2> QED BY <2>2, <2>3 DEF FiniteSubsetsOf
<1>4. PICK S \in Belows : \A R \in Belows : <<R, S>> \notin StrictSubsetOrdering(Nat)
  BY <1>1, <1>3, WFMin
<1>5. PICK m \in T : S = Below(m)
  BY <1>4
<1>6. ASSUME NEW k \in T, k < m PROVE FALSE
  <2>1. k \in Nat /\ m \in Nat /\ T \subseteq Nat
    BY <1>6
  <2>2. (\A x \in T : x <= k => x <= m) /\ m <= m /\ ~ (m <= k)
    BY <1>6, <2>1
  <2>3. Below(k) \subseteq Below(m) /\ m \in Below(m) /\ m \notin Below(k)
    BY <2>2
  <2>4. Below(k) \in SUBSET Nat /\ Below(m) \in SUBSET Nat /\ Below(k) # Below(m)
    BY <1>2, <2>3
  <2>5. <<Below(k), Below(m)>> \in StrictSubsetOrdering(Nat)
    BY <2>3, <2>4 DEF StrictSubsetOrdering
  <2>6. Below(k) \in Belows
    BY <1>6
  <2> QED BY <1>4, <1>5, <2>5, <2>6
<1>7. \A k \in T : k \in Nat /\ m \in Nat
  OBVIOUS
<1> QED BY <1>6, <1>7

\* Moving an element to the front gives the same elements, each once.
LEMMA MovedToFront ==
  ASSUME NEW S, NEW s \in Seq(S), IsInjective(s), NEW i \in DOMAIN s,
         NEW r \in [DOMAIN s -> S],
         \A j \in DOMAIN s : r[j] = IF j = 1 THEN s[i] ELSE IF j > i THEN s[j] ELSE s[j - 1]
  PROVE  r \in Seq(S) /\ ToSet(r) = ToSet(s) /\ IsInjective(r)
<1> DEFINE n == Len(s)
           from(j) == IF j = 1 THEN i ELSE IF j > i THEN j ELSE j - 1
<1>1. DOMAIN s = 1 .. n /\ n \in Nat /\ i \in 1 .. n /\ \A j \in 1 .. n : s[j] \in S
  OBVIOUS
<1>2. ASSUME NEW j \in 1 .. n PROVE from(j) \in 1 .. n /\ r[j] = s[from(j)]
  <2>1. from(j) \in 1 .. n
    BY <1>1
  <2>2. r[j] = IF j = 1 THEN s[i] ELSE IF j > i THEN s[j] ELSE s[j - 1]
    BY <1>1
  <2> QED BY <2>1, <2>2
<1>3. DOMAIN r = 1 .. n
  BY <1>1
<1>4. r \in Seq(S)
  <2>1. r \in [1 .. n -> S]
    BY <1>1
  <2> QED BY <1>1, <2>1
<1>5. ASSUME NEW k \in 1 .. n PROVE \E j \in 1 .. n : from(j) = k
  <2>1. CASE k = i
    <3>1. from(1) = k /\ 1 \in 1 .. n
      BY <1>1, <2>1
    <3> QED BY <3>1
  <2>2. CASE k > i
    <3>1. from(k) = k
      BY <1>1, <2>2
    <3> QED BY <3>1
  <2>3. CASE k < i
    <3>1. k + 1 \in 1 .. n /\ from(k + 1) = k
      BY <1>1, <2>3
    <3> QED BY <3>1
  <2> QED BY <1>1, <2>1, <2>2, <2>3
<1>6. \A a, b \in 1 .. n : from(a) = from(b) => a = b
  BY <1>1
<1> HIDE DEF from
<1>7. ToSet(r) = ToSet(s)
  <2>1. ToSet(r) = {r[j] : j \in 1 .. n} /\ ToSet(s) = {s[j] : j \in 1 .. n}
    BY <1>1, <1>3 DEF ToSet
  <2>2. \A j \in 1 .. n : r[j] \in ToSet(s)
    BY <1>2, <2>1, SMTT(40)
  <2>3. ASSUME NEW k \in 1 .. n PROVE s[k] \in ToSet(r)
    <3>1. PICK j \in 1 .. n : from(j) = k
      BY <1>5
    <3>2. s[k] = r[j]
      BY <1>2, <3>1
    <3> QED BY <2>1, <3>2
  <2>4. ToSet(r) \subseteq ToSet(s)
    BY <2>1, <2>2
  <2>5. ToSet(s) \subseteq ToSet(r)
    BY <2>1, <2>3
  <2> QED BY <2>4, <2>5
<1>8. IsInjective(r)
  <2> SUFFICES ASSUME NEW a \in 1 .. n, NEW b \in 1 .. n, r[a] = r[b] PROVE a = b
    BY <1>3 DEF IsInjective
  <2>1. from(a) = from(b)
    BY <1>1, <1>2 DEF IsInjective
  <2> QED BY <1>6, <2>1
<1> QED BY <1>4, <1>7, <1>8

\* A new element at the front.
LEMMA PutInFront ==
  ASSUME NEW S, NEW s \in Seq(S), IsInjective(s), NEW p \in S, p \notin ToSet(s)
  PROVE  LET r == <<p>> \o s IN
         r \in Seq(S) /\ ToSet(r) = ToSet(s) \cup {p} /\ IsInjective(r)
<1> DEFINE n == Len(s)
           r == <<p>> \o s
<1>1. DOMAIN s = 1 .. n /\ n \in Nat
  OBVIOUS
<1>2. /\ r \in Seq(S) /\ Len(r) = n + 1 /\ DOMAIN r = 1 .. n + 1
      /\ r[1] = p /\ \A j \in 2 .. n + 1 : r[j] = s[j - 1]
  OBVIOUS
<1> HIDE DEF r
<1>3. ToSet(r) = {r[j] : j \in 1 .. n + 1} /\ ToSet(s) = {s[j] : j \in 1 .. n}
  BY <1>1, <1>2 DEF ToSet
<1>4. ToSet(r) = ToSet(s) \cup {p}
  <2>1. ASSUME NEW j \in 1 .. n + 1 PROVE r[j] \in ToSet(s) \cup {p}
    <3>1. CASE j = 1
      BY <1>2, <3>1
    <3>2. CASE j # 1
      <4>1. j \in 2 .. n + 1 /\ j - 1 \in 1 .. n
        BY <1>1, <3>2
      <4> QED BY <1>2, <1>3, <4>1
    <3> QED BY <3>1, <3>2
  <2>2. p \in ToSet(r)
    <3>1. 1 \in 1 .. n + 1
      BY <1>1
    <3> QED BY <1>2, <1>3, <3>1
  <2>3. ASSUME NEW k \in 1 .. n PROVE s[k] \in ToSet(r)
    <3>1. k + 1 \in 2 .. n + 1 /\ k + 1 \in 1 .. n + 1 /\ (k + 1) - 1 = k
      BY <1>1
    <3>2. s[k] = r[k + 1]
      BY <1>2, <3>1
    <3> QED BY <1>3, <3>1, <3>2
  <2> QED BY <1>3, <2>1, <2>2, <2>3
<1>5. IsInjective(r)
  <2> SUFFICES ASSUME NEW a \in 1 .. n + 1, NEW b \in 1 .. n + 1, r[a] = r[b] PROVE a = b
    BY <1>2 DEF IsInjective
  <2>1. ASSUME NEW j \in 2 .. n + 1 PROVE j - 1 \in 1 .. n /\ r[j] = s[j - 1] /\ r[j] # p
    <3>1. j - 1 \in 1 .. n
      BY <1>1
    <3>2. s[j - 1] \in ToSet(s)
      BY <1>3, <3>1
    <3> QED BY <1>2, <3>1, <3>2
  <2>2. a = 1 \/ a \in 2 .. n + 1
    BY <1>1
  <2>3. b = 1 \/ b \in 2 .. n + 1
    BY <1>1
  <2>4. CASE a \in 2 .. n + 1 /\ b \in 2 .. n + 1
    <3>1. s[a - 1] = s[b - 1]
      BY <2>1, <2>4
    <3>2. a - 1 = b - 1
      BY <1>1, <2>1, <2>4, <3>1 DEF IsInjective
    <3> QED BY <3>2
  <2> QED BY <1>2, <2>1, <2>2, <2>3, <2>4
<1> QED BY <1>2, <1>4, <1>5 DEF r

\* What a thread holds; it goes back to a project that is there, and to a
\* directory, where it is about to write.
Hand == [at : Places, id : Project \cup {NoProject}, status : ProjectStatuses,
         dir : Directory \cup {NoDirectory}]
PlaceSound(h, ids) ==
  /\ h.at \in {"activate", "write", "retarget"} => h.id \in ids
  /\ h.at \in {"write", "sync", "retarget"} => h.dir \in Directory
ClientsTyped == client \in [Client -> Hand] /\ \A w \in Client : PlaceSound(client[w], Stored)

\* A table of projects, once filled, keeps the seeds, so that no second seed
\* replaces it.
ProjectsTyped ==
  /\ Stored \subseteq Project
  /\ \A p \in Stored : project[p] \in [status : ProjectStatuses, active : BOOLEAN, dir : Directory]
  /\ recent \in Seq(Project) /\ ToSet(recent) = Stored /\ IsInjective(recent)
  /\ Stored = {} \/ ToSet(DefaultProject) \subseteq Stored
DiskTyped ==
  /\ disk \in [Directory -> Contents]
  /\ DOMAIN target \subseteq Directory /\ \A d \in DOMAIN target : target[d] \in BOOLEAN

WsTyped == ProjectsTyped /\ DiskTyped /\ ClientsTyped

LEMMA WsTypedInitially == WsInit => WsTyped
<1> SUFFICES ASSUME WsInit PROVE WsTyped
  OBVIOUS
<1>1. DOMAIN << >> = {}
  OBVIOUS
<1>2. Stored = {} /\ DOMAIN target = {} /\ DOMAIN recent = {} /\ recent \in Seq(Project)
  BY <1>1 DEF WsInit, Stored
<1>3. ToSet(recent) = {} /\ IsInjective(recent)
  BY <1>2 DEF ToSet, IsInjective
<1>4. Idle \in Hand /\ PlaceSound(Idle, Stored)
  BY DEF Idle, Hand, Places, ProjectStatuses, PlaceSound
<1>5. disk \in [Directory -> Contents] /\ client = [w \in Client |-> Idle]
  BY DEF WsInit
<1> QED BY <1>2, <1>3, <1>4, <1>5 DEF WsTyped, ProjectsTyped, DiskTyped, ClientsTyped

\* One thread goes on, and no project goes away.
LEMMA HandStep ==
  ASSUME WsTyped, NEW w \in Client, NEW h \in Hand, client' = [client EXCEPT ![w] = h],
         Stored \subseteq Stored', PlaceSound(h, Stored')
  PROVE  ClientsTyped'
<1>1. client' \in [Client -> Hand] /\ \A v \in Client : client'[v] = IF v = w THEN h ELSE client[v]
  BY DEF WsTyped, ClientsTyped
<1>2. ASSUME NEW v \in Client PROVE PlaceSound(client'[v], Stored')
  <2>1. CASE v = w
    BY <1>1, <2>1 DEF PlaceSound
  <2>2. CASE v # w
    <3>1. PlaceSound(client[v], Stored) /\ client'[v] = client[v]
      BY <1>1, <2>2 DEF WsTyped, ClientsTyped
    <3> QED BY <3>1 DEF PlaceSound
  <2> QED BY <2>1, <2>2
<1> QED BY <1>1, <1>2 DEF ClientsTyped

LEMMA ResetTyped ==
  ASSUME WsTyped, NEW w \in Client, Done(w) \/ client' = client, Stored \subseteq Stored'
  PROVE  ClientsTyped'
<1>1. CASE Done(w)
  <2>1. Idle \in Hand /\ PlaceSound(Idle, Stored') /\ client' = [client EXCEPT ![w] = Idle]
    BY <1>1 DEF Idle, Hand, Places, ProjectStatuses, PlaceSound, Done
  <2> QED BY <2>1, HandStep
<1>2. CASE client' = client
  BY <1>2 DEF WsTyped, ClientsTyped, PlaceSound
<1> QED BY <1>1, <1>2

LEMMA GotoTyped ==
  ASSUME WsTyped, NEW w \in Client, NEW at \in Places, NEW id \in Project \cup {NoProject},
         Goto(w, at, id), Stored \subseteq Stored',
         at \in {"activate", "write", "retarget"} => id \in Stored',
         at \in {"write", "sync", "retarget"} => client[w].dir \in Directory
  PROVE  ClientsTyped'
<1> DEFINE h == [client[w] EXCEPT !.at = at, !.id = id]
<1>1. client[w] \in Hand
  BY DEF WsTyped, ClientsTyped
<1>2. h \in Hand /\ h.at = at /\ h.id = id /\ h.dir = client[w].dir
  BY <1>1 DEF Hand
<1>3. client' = [client EXCEPT ![w] = h]
  BY DEF Goto, WsTyped, ClientsTyped
<1> HIDE DEF h
<1>4. PlaceSound(h, Stored')
  BY <1>2 DEF PlaceSound
<1> QED BY <1>2, <1>3, <1>4, HandStep

\* A row as it is stored.
Stores == [status : ProjectStatuses, active : BOOLEAN, dir : Directory]

LEMMA TouchTyped ==
  ASSUME WsTyped, NEW p \in Stored, Touch(p)
  PROVE  recent' \in Seq(Project) /\ ToSet(recent') = Stored /\ IsInjective(recent')
<1> DEFINE i == CHOOSE j \in DOMAIN recent : recent[j] = p
<1>1. \E j \in DOMAIN recent : recent[j] = p
  BY DEF WsTyped, ProjectsTyped, ToSet
<1>2. i \in DOMAIN recent /\ recent[i] = p
  BY <1>1
<1>3. recent' = [j \in DOMAIN recent |->
                   IF j = 1 THEN p ELSE IF j > i THEN recent[j] ELSE recent[j - 1]]
  BY Zenon DEF Touch
<1> HIDE DEF i
<1>4. recent \in Seq(Project) /\ IsInjective(recent) /\ ToSet(recent) = Stored
  BY DEF WsTyped, ProjectsTyped
<1>5. DOMAIN recent = 1 .. Len(recent) /\ Len(recent) \in Nat
      /\ \A j \in DOMAIN recent : recent[j] \in Project
  BY <1>4
<1>6. /\ recent' \in [DOMAIN recent -> Project]
      /\ \A j \in DOMAIN recent :
           recent'[j] = IF j = 1 THEN recent[i] ELSE IF j > i THEN recent[j] ELSE recent[j - 1]
  <2>1. \A j \in DOMAIN recent : j # 1 => j - 1 \in DOMAIN recent
    BY <1>5
  <2> QED BY <1>2, <1>3, <1>5, <2>1
<1> QED BY <1>2, <1>4, <1>6, MovedToFront, SMTT(40)

\* One row is written over.
LEMMA RowTyped ==
  ASSUME WsTyped, NEW p \in Stored, Touch(p), NEW r \in Stores, project' = [project EXCEPT ![p] = r]
  PROVE  ProjectsTyped' /\ Stored' = Stored
<1>1. Stored' = Stored /\ \A q \in Stored : project'[q] = IF q = p THEN r ELSE project[q]
  BY DEF Stored
<1>2. \A q \in Stored' : project'[q] \in Stores
  BY <1>1 DEF WsTyped, ProjectsTyped, Stores
<1> QED BY <1>1, <1>2, TouchTyped DEF WsTyped, ProjectsTyped, Stores

LEMMA SetActiveTyped ==
  ASSUME WsTyped, NEW p, SetActive(p)
  PROVE  ProjectsTyped' /\ Stored' = Stored
<1>1. project' = [q \in Stored |-> [project[q] EXCEPT !.active = (q = p)]]
  BY DEF SetActive
<1>2. Stored' = Stored
  BY <1>1 DEF Stored
<1>3. \A r \in Stores, c \in BOOLEAN : [r EXCEPT !.active = c] \in Stores
  BY DEF Stores
<1>4. ASSUME NEW q \in Stored PROVE project'[q] \in Stores
  <2>1. project[q] \in Stores /\ (q = p) \in BOOLEAN
    BY DEF WsTyped, ProjectsTyped, Stores
  <2>2. project'[q] = [project[q] EXCEPT !.active = (q = p)]
    BY <1>1
  <2> QED BY <1>3, <2>1, <2>2
<1>5. recent' \in Seq(Project) /\ ToSet(recent') = Stored /\ IsInjective(recent')
  <2>1. CASE p \in Stored
    BY <2>1, TouchTyped DEF SetActive
  <2>2. CASE p \notin Stored
    BY <2>2 DEF SetActive, WsTyped, ProjectsTyped
  <2> QED BY <2>1, <2>2
<1> QED BY <1>2, <1>4, <1>5 DEF WsTyped, ProjectsTyped, Stores

LEMMA StillTyped ==
  ASSUME WsTyped
  PROVE  /\ UNCHANGED <<project, recent>> => ProjectsTyped' /\ Stored' = Stored
         /\ UNCHANGED <<disk, target>> => DiskTyped'
BY DEF WsTyped, ProjectsTyped, DiskTyped, Stored

LEMMA InspectTyped ==
  ASSUME WsTyped, NEW d \in Directory, Inspect(d), target' = target
  PROVE  DiskTyped'
<1>1. Fresh(d) \in Contents
  BY DEF Fresh, Contents
<1>2. disk' \in [Directory -> Contents]
  BY <1>1 DEF Inspect, WsTyped, DiskTyped
<1> QED BY <1>2 DEF WsTyped, DiskTyped

\* Of some projects there is one that was written last.
LEMMA FirstThere ==
  ASSUME WsTyped, NEW ps \in SUBSET Stored, ps # {}
  PROVE  First(ps) \in ps
<1> DEFINE T == {i \in DOMAIN recent : recent[i] \in ps}
<1>1. DOMAIN recent = 1 .. Len(recent) /\ Len(recent) \in Nat
  BY DEF WsTyped, ProjectsTyped
<1>2. T \in SUBSET Nat /\ T # {}
  <2>1. PICK p \in ps : TRUE
    OBVIOUS
  <2>2. \E i \in DOMAIN recent : recent[i] = p
    BY DEF WsTyped, ProjectsTyped, ToSet
  <2> QED BY <1>1, <2>1, <2>2
<1>3. PICK i \in T : \A j \in T : i <= j
  BY <1>2, Least
<1>4. \A j \in 1 .. (i - 1) : recent[j] \notin ps
  BY <1>1, <1>3
<1>5. \E k \in DOMAIN recent : recent[k] \in ps /\ \A j \in 1 .. (k - 1) : recent[j] \notin ps
  BY <1>3, <1>4
<1> QED BY <1>5 DEF First

LEMMA ListedThere == ASSUME WsTyped, Live # {} PROVE Listed \in Stored
<1>1. Live \subseteq Stored /\ Live \cap Active \subseteq Stored
  BY DEF Live
<1>2. CASE Live \cap Active # {}
  BY <1>1, <1>2, FirstThere DEF Listed
<1>3. CASE Live \cap Active = {}
  BY <1>1, <1>3, FirstThere DEF Listed
<1> QED BY <1>2, <1>3

LEMMA WalkTyped ==
  ASSUME WsTyped, NEW w \in Client,
         \/ CountProjects(w) \/ GetActive(w) \/ ListProjects(w) \/ AfterArchive(w) \/ FindActive(w)
  PROVE  WsTyped'
<1>1. UNCHANGED <<project, recent, disk, target>>
  BY DEF CountProjects, GetActive, ListProjects, AfterArchive, FindActive
<1>2. ProjectsTyped' /\ DiskTyped' /\ Stored' = Stored
  BY <1>1, StillTyped
<1>3. ClientsTyped'
  <2>1. CASE Done(w)
    BY <1>2, <2>1, ResetTyped
  <2>2. CASE \E at \in {"seed", "list"} : Goto(w, at, NoProject)
    BY <1>2, <2>2, GotoTyped DEF Places
  <2>3. CASE Live # {} /\ Goto(w, "activate", Listed)
    <3>1. Listed \in Stored /\ Listed \in Project \cup {NoProject}
      BY <2>3, ListedThere DEF WsTyped, ProjectsTyped
    <3> QED BY <1>2, <2>3, <3>1, GotoTyped DEF Places
  <2>4. CASE /\ client[w].at = "sync" /\ Live \cap Active # {}
             /\ Goto(w, "retarget", First(Live \cap Active))
    <3>1. Live \cap Active \in SUBSET Stored
      BY DEF Live
    <3>2. First(Live \cap Active) \in Stored /\ First(Live \cap Active) \in Project \cup {NoProject}
      BY <2>4, <3>1, FirstThere DEF WsTyped, ProjectsTyped
    <3>3. client[w].dir \in Directory
      BY <2>4 DEF WsTyped, ClientsTyped, PlaceSound
    <3> QED BY <1>2, <2>4, <3>2, <3>3, GotoTyped DEF Places
  <2> QED BY <2>1, <2>2, <2>3, <2>4 DEF CountProjects, GetActive, ListProjects, AfterArchive, FindActive
<1> QED BY <1>2, <1>3 DEF WsTyped

LEMMA ReadTyped ==
  ASSUME WsTyped, NEW w \in Client, NEW p \in Project, ReadProject(w, p)
  PROVE  WsTyped'
<1> DEFINE h == [at |-> "write", id |-> p, status |-> project[p].status, dir |-> project[p].dir]
<1>1. /\ UNCHANGED <<project, recent, disk, target>> /\ p \in Stored
      /\ client' = [client EXCEPT ![w] = h]
  BY DEF ReadProject, Ready
<1>2. ProjectsTyped' /\ DiskTyped' /\ Stored' = Stored
  BY <1>1, StillTyped
<1>3. project[p].status \in ProjectStatuses /\ project[p].dir \in Directory
  BY <1>1 DEF WsTyped, ProjectsTyped
<1>4. h \in Hand /\ PlaceSound(h, Stored')
  BY <1>1, <1>2, <1>3 DEF Hand, Places, PlaceSound
<1> HIDE DEF h
<1>5. ClientsTyped'
  BY <1>1, <1>2, <1>4, HandStep
<1> QED BY <1>2, <1>5 DEF WsTyped

LEMMA SelectTyped ==
  ASSUME WsTyped, NEW w \in Client, NEW d \in Directory, SelectRepository(w, d)
  PROVE  WsTyped'
<1> DEFINE h == [client[w] EXCEPT !.at = "sync", !.dir = d]
<1>1. /\ UNCHANGED <<project, recent, disk>> /\ target' = [e \in DOMAIN target \cup {d} |-> e = d]
      /\ client' = [client EXCEPT ![w].at = "sync", ![w].dir = d]
  BY DEF SelectRepository, MakeCurrent
<1>2. ProjectsTyped' /\ Stored' = Stored
  BY <1>1, StillTyped
<1>3. DiskTyped'
  <2>1. DOMAIN target' = DOMAIN target \cup {d} /\ \A e \in DOMAIN target' : target'[e] = (e = d)
    BY <1>1
  <2>2. \A e \in DOMAIN target' : target'[e] \in BOOLEAN
    BY <2>1
  <2> QED BY <1>1, <2>1, <2>2 DEF WsTyped, DiskTyped
<1>4. client[w] \in Hand /\ client' = [client EXCEPT ![w] = h]
  BY <1>1 DEF WsTyped, ClientsTyped
<1>5. h \in Hand /\ PlaceSound(h, Stored')
  <2>1. h \in Hand /\ h.at = "sync" /\ h.dir = d
    BY <1>4 DEF Hand, Places
  <2> HIDE DEF h
  <2> QED BY <2>1 DEF PlaceSound
<1> HIDE DEF h
<1>6. ClientsTyped'
  BY <1>2, <1>4, <1>5, HandStep
<1> QED BY <1>2, <1>3, <1>6 DEF WsTyped

LEMMA SeedTyped == ASSUME WsTyped, NEW w \in Client, SeedDefaults(w) PROVE WsTyped'
<1>1. DiskTyped' /\ Done(w)
  BY StillTyped DEF SeedDefaults
<1>2. CASE UNCHANGED <<project, recent>>
  BY <1>1, <1>2, StillTyped, ResetTyped DEF WsTyped
<1>3. ASSUME ToSet(DefaultProject) \cap Stored = {}, NEW d \in Directory, recent' = DefaultProject,
             project' = [p \in ToSet(DefaultProject) |->
               [status |-> IF p = DefaultProject[1] THEN "READY" ELSE "INITIALIZED",
                active |-> p = DefaultProject[1], dir |-> d]]
      PROVE  WsTyped'
  <2>1. Stored' = ToSet(DefaultProject)
    BY <1>3 DEF Stored
  <2>2. ToSet(DefaultProject) \subseteq Project /\ ToSet(DefaultProject) # {}
    <3>1. /\ DOMAIN DefaultProject = 1 .. Len(DefaultProject) /\ Len(DefaultProject) \in Nat
          /\ \A i \in DOMAIN DefaultProject : DefaultProject[i] \in Project
      OBVIOUS
    <3>2. DefaultProject[1] \in ToSet(DefaultProject)
      BY DEF ToSet
    <3> QED BY <3>1, <3>2 DEF ToSet
  <2>3. Stored = {}
    BY <1>3, <2>2 DEF WsTyped, ProjectsTyped
  <2>4. ASSUME NEW p \in Stored' PROVE project'[p] \in Stores
    <3>1. (IF p = DefaultProject[1] THEN "READY" ELSE "INITIALIZED") \in ProjectStatuses
      BY DEF ProjectStatuses
    <3>2. (p = DefaultProject[1]) \in BOOLEAN
      OBVIOUS
    <3>3. project'[p] = [status |-> IF p = DefaultProject[1] THEN "READY" ELSE "INITIALIZED",
                         active |-> p = DefaultProject[1], dir |-> d]
      BY <1>3, <2>1
    <3>4. \A s \in ProjectStatuses, c \in BOOLEAN : [status |-> s, active |-> c, dir |-> d] \in Stores
      BY <1>3 DEF Stores
    <3> QED BY <3>1, <3>2, <3>3, <3>4
  <2>5. ProjectsTyped'
    BY <1>3, <2>1, <2>2, <2>4 DEF ProjectsTyped, Stores
  <2>6. ClientsTyped'
    BY <1>1, <2>3, ResetTyped
  <2> QED BY <1>1, <2>5, <2>6 DEF WsTyped
<1> QED BY <1>2, <1>3 DEF SeedDefaults

LEMMA CreateTyped ==
  ASSUME WsTyped, NEW w \in Client, NEW p \in Project, NEW d \in Directory, CreateProject(w, p, d)
  PROVE  WsTyped'
<1>1. PICK s \in ProjectStatuses :
        project' = [q \in Stored \cup {p} |->
          IF q = p THEN [status |-> s, active |-> TRUE, dir |-> d]
          ELSE [project[q] EXCEPT !.active = FALSE]]
  BY DEF CreateProject, ProjectStatuses
<1>2. Stored' = Stored \cup {p} /\ p \notin Stored /\ Stored # {}
  BY <1>1 DEF Stored, CreateProject, Ready
<1>3. [status |-> s, active |-> TRUE, dir |-> d] \in Stores
      /\ \A r \in Stores : [r EXCEPT !.active = FALSE] \in Stores
  BY DEF Stores
<1>4. \A q \in Stored' : project'[q] \in Stores
  BY <1>1, <1>2, <1>3 DEF WsTyped, ProjectsTyped, Stores
<1>5. recent' \in Seq(Project) /\ ToSet(recent') = Stored' /\ IsInjective(recent')
  <2>1. recent \in Seq(Project) /\ IsInjective(recent) /\ ToSet(recent) = Stored
    BY DEF WsTyped, ProjectsTyped
  <2>2. recent' = <<p>> \o recent
    BY DEF CreateProject
  <2>3. p \notin ToSet(recent)
    BY <1>2, <2>1
  <2> QED BY <1>2, <2>1, <2>2, <2>3, PutInFront
<1>6. ProjectsTyped'
  BY <1>2, <1>4, <1>5 DEF WsTyped, ProjectsTyped, Stores
<1>7. DiskTyped' /\ client' = client
  BY InspectTyped DEF CreateProject
<1>8. ClientsTyped'
  BY <1>2, <1>7, ResetTyped
<1> QED BY <1>6, <1>7, <1>8 DEF WsTyped

LEMMA ViewTyped ==
  ASSUME WsTyped, NEW w \in Client, NEW p \in Project, ViewProject(w, p)
  PROVE  WsTyped'
<1>1. project[p].dir \in Directory /\ Inspect(project[p].dir)
      /\ UNCHANGED <<project, recent, target, client>>
  BY DEF ViewProject, WsTyped, ProjectsTyped
<1>2. DiskTyped'
  BY <1>1, InspectTyped
<1>3. ProjectsTyped' /\ Stored' = Stored
  BY <1>1, StillTyped
<1>4. ClientsTyped'
  BY <1>1, <1>3, ResetTyped
<1> QED BY <1>2, <1>3, <1>4 DEF WsTyped

LEMMA ActivateTyped ==
  ASSUME WsTyped, NEW w \in Client, ActivateListed(w) \/ \E p \in Project : ActivateProject(w, p)
  PROVE  WsTyped'
<1>1. UNCHANGED <<disk, target>> /\ \E p : SetActive(p)
  BY DEF ActivateListed, ActivateProject
<1>2. ProjectsTyped' /\ DiskTyped' /\ Stored' = Stored
  BY <1>1, SetActiveTyped, StillTyped
<1>3. ClientsTyped'
  <2>1. CASE Done(w) \/ client' = client
    BY <1>2, <2>1, ResetTyped
  <2>2. CASE /\ client[w].at = "activate" /\ client[w].dir # NoDirectory
             /\ Goto(w, "retarget", client[w].id)
    <3>1. client[w].id \in Stored /\ client[w].dir \in Directory
      BY <2>2 DEF WsTyped, ClientsTyped, PlaceSound, Hand
    <3>2. client[w].id \in Project \cup {NoProject}
      BY DEF WsTyped, ClientsTyped, Hand
    <3> QED BY <1>2, <2>2, <3>1, <3>2, GotoTyped DEF Places
  <2> QED BY <2>1, <2>2 DEF ActivateListed, ActivateProject
<1> QED BY <1>2, <1>3 DEF WsTyped

LEMMA ArchiveTyped ==
  ASSUME WsTyped, NEW w \in Client, NEW p \in Project, ArchiveProject(w, p)
  PROVE  WsTyped'
<1> DEFINE r == [project[p] EXCEPT !.status = "ARCHIVED", !.active = FALSE]
<1>1. /\ p \in Stored /\ Touch(p) /\ Goto(w, "archived", NoProject)
      /\ UNCHANGED <<disk, target>> /\ project' = [project EXCEPT ![p] = r]
  BY DEF ArchiveProject, Stored
<1>2. r \in Stores
  <2>1. project[p] \in Stores
    BY <1>1 DEF WsTyped, ProjectsTyped, Stores
  <2> QED BY <2>1 DEF Stores, ProjectStatuses
<1> HIDE DEF r
<1>3. ProjectsTyped' /\ DiskTyped' /\ Stored' = Stored
  BY <1>1, <1>2, RowTyped, StillTyped
<1>4. ClientsTyped'
  BY <1>1, <1>3, GotoTyped DEF Places
<1> QED BY <1>3, <1>4 DEF WsTyped

LEMMA WriteTyped ==
  ASSUME WsTyped, NEW w \in Client, WriteProject(w) \/ Retarget(w)
  PROVE  WsTyped'
<1> DEFINE p == client[w].id
<1>1. p \in Stored /\ client[w].dir \in Directory /\ client[w].status \in ProjectStatuses
  BY DEF WriteProject, Retarget, WsTyped, ClientsTyped, PlaceSound, Hand
<1>2. project[p] \in Stores
  BY <1>1 DEF WsTyped, ProjectsTyped, Stores
<1>3. \A r \in Stores, s \in ProjectStatuses, d \in Directory :
        [r EXCEPT !.status = s, !.dir = d] \in Stores /\ [r EXCEPT !.dir = d] \in Stores
  BY DEF Stores
<1>4. \E r \in Stores : project' = [project EXCEPT ![p] = r]
  <2>1. CASE WriteProject(w)
    <3>1. PICK d \in Directory :
            project' = [project EXCEPT ![p].status = client[w].status, ![p].dir = d]
      BY <1>1, <2>1 DEF WriteProject
    <3>2. project' = [project EXCEPT ![p] = [project[p] EXCEPT !.status = client[w].status, !.dir = d]]
      BY <1>1, <3>1 DEF Stored
    <3>3. [project[p] EXCEPT !.status = client[w].status, !.dir = d] \in Stores
      <4>1. PICK s \in ProjectStatuses : s = client[w].status
        BY <1>1
      <4> QED BY <1>2, <1>3, <4>1
    <3> QED BY <3>2, <3>3
  <2>2. CASE Retarget(w)
    <3>1. project' = [project EXCEPT ![p] = [project[p] EXCEPT !.dir = client[w].dir]]
      BY <1>1, <2>2 DEF Retarget, Stored
    <3>2. [project[p] EXCEPT !.dir = client[w].dir] \in Stores
      BY <1>1, <1>2, <1>3
    <3> QED BY <3>1, <3>2
  <2> QED BY <2>1, <2>2
<1>5. Touch(p) /\ Done(w) /\ UNCHANGED <<disk, target>>
  BY DEF WriteProject, Retarget
<1> HIDE DEF p
<1>6. ProjectsTyped' /\ DiskTyped' /\ Stored' = Stored
  BY <1>1, <1>4, <1>5, RowTyped, StillTyped
<1>7. ClientsTyped'
  BY <1>5, <1>6, ResetTyped
<1> QED BY <1>6, <1>7 DEF WsTyped

\* Every variable has its type, however the handlers interleave: a project is
\* listed once, and a handler that writes finds its project there.
THEOREM WorkspaceIsTyped == WsSpec => []WsTypeOK
<1>1. WsTyped /\ [WsNext]_wsVars => WsTyped'
  <2> SUFFICES ASSUME WsTyped, [WsNext]_wsVars PROVE WsTyped'
    OBVIOUS
  <2>1. CASE UNCHANGED wsVars
    <3>1. UNCHANGED <<project, recent, disk, target, client>>
      BY <2>1 DEF wsVars
    <3> QED BY <3>1 DEF WsTyped, ProjectsTyped, DiskTyped, ClientsTyped, Stored, PlaceSound
  <2>2. ASSUME NEW w \in Client,
               \/ CountProjects(w) \/ SeedDefaults(w)
               \/ GetActive(w) \/ ListProjects(w) \/ ActivateListed(w) \/ AfterArchive(w)
               \/ WriteProject(w) \/ FindActive(w) \/ Retarget(w)
               \/ \E d \in Directory : SelectRepository(w, d)
               \/ \E p \in Project :
                    \/ ActivateProject(w, p) \/ ArchiveProject(w, p) \/ ReadProject(w, p)
                    \/ ViewProject(w, p)
                    \/ \E d \in Directory : CreateProject(w, p, d)
        PROVE  WsTyped'
    BY <2>2, WalkTyped, ReadTyped, SelectTyped, SeedTyped, CreateTyped, ViewTyped, ActivateTyped,
       ArchiveTyped, WriteTyped
  <2> QED BY <2>1, <2>2 DEF WsNext
<1>2. WsTyped => WsTypeOK
  BY DEF WsTyped, ProjectsTyped, DiskTyped, ClientsTyped, Hand, WsTypeOK
<1> QED BY <1>1, <1>2, WsTypedInitially, PTL DEF WsSpec

HIDE WorkspaceAssumption

-----------------------------------------------------------------------------
(***************************************************************************)
(* The retention of logs, for every set of files and cleanups.             *)
(***************************************************************************)
USE LogAssumption

\* A line is owed while, and only while, a cleanup is about to write it.
NotesOwed == \A c \in Cleanup : cleaner[c].at = "note" <=> cleaner[c].last \in Log

\* The trail has a line for each removal but those owed.
Trail == \A l \in Log :
  removed[l] = noted[l] + Cardinality({c \in Cleanup : cleaner[c].last = l})

\* What a cleanup has taken it has counted, and will not take again.
TookCounted == \A c \in Cleanup :
  /\ IsFiniteSet(cleaner[c].took) /\ cleaner[c].count = Cardinality(cleaner[c].took)
  /\ cleaner[c].todo \cap cleaner[c].took = {}
  /\ cleaner[c].at \in {"none", "runs", "list"} => cleaner[c].todo = {} /\ cleaner[c].took = {}

\* The runs that have been RUNNING all along are those the cleanup leaves alone.
Spared == \A c \in Cleanup :
  /\ cleaner[c].at = "none" => guarded[c] = {}
  /\ cleaner[c].at = "runs" => guarded[c] \subseteq running
  /\ cleaner[c].at \notin {"none", "runs"} => guarded[c] \subseteq cleaner[c].active
  /\ \A l \in cleaner[c].todo \cup cleaner[c].took :
       LogKind[l] = "run" => RunOfLog[l] \notin cleaner[c].active

LogInv == LogTypeOK /\ NotesOwed /\ Trail /\ TookCounted /\ Spared

LEMMA LogInitially == LogInit => LogInv
<1> SUFFICES ASSUME LogInit PROVE LogInv
  OBVIOUS
<1>1. LogTypeOK /\ NotesOwed
  BY DEF LogInit, LogTypeOK, NotesOwed, Resting, CleanerSteps
<1>2. ASSUME NEW l \in Log PROVE {c \in Cleanup : cleaner[c].last = l} = {}
  BY DEF LogInit, Resting
<1>3. Trail
  BY <1>2, FS_EmptySet, SMTT(40) DEF LogInit, Trail
<1>4. TookCounted /\ Spared
  BY FS_EmptySet DEF LogInit, Resting, TookCounted, Spared
<1> QED BY <1>1, <1>3, <1>4 DEF LogInv

Cleaner == [at : CleanerSteps, active : SUBSET LogRun, todo : SUBSET Log,
            last : Log \cup {NoLog}, took : SUBSET Log, count : Nat]

\* A cleanup that steps without taking a file and without writing a line.
LEMMA PlaceStep ==
  ASSUME LogInv, NEW c \in Cleanup, NEW d \in Cleaner, cleaner' = [cleaner EXCEPT ![c] = d],
         present' \subseteq Log, UNCHANGED <<running, lines, noted, removed>>,
         cleaner[c].at # "note", d.at # "note", d.last = cleaner[c].last,
         d.took = cleaner[c].took, d.count = cleaner[c].count, d.todo \cap d.took = {},
         d.at \in {"none", "runs", "list"} => d.todo = {} /\ d.took = {},
         NEW g \in SUBSET LogRun, guarded' = [guarded EXCEPT ![c] = g],
         d.at # "none", d.at = "runs" => g \subseteq running,
         d.at # "runs" => g \subseteq d.active,
         \A l \in d.todo \cup d.took : LogKind[l] = "run" => RunOfLog[l] \notin d.active
  PROVE  LogInv'
<1>1. /\ cleaner' \in [Cleanup -> Cleaner] /\ guarded' \in [Cleanup -> SUBSET LogRun]
      /\ cleaner'[c] = d /\ guarded'[c] = g
      /\ \A e \in Cleanup \ {c} : cleaner'[e] = cleaner[e] /\ guarded'[e] = guarded[e]
  BY DEF LogInv, LogTypeOK, Cleaner
<1>2. LogTypeOK'
  BY <1>1 DEF LogInv, LogTypeOK, Cleaner
<1>3. \A e \in Cleanup : cleaner'[e].last = cleaner[e].last
  BY <1>1
<1>4. NotesOwed'
  BY <1>1 DEF LogInv, NotesOwed
<1>5. Trail'
  <2> SUFFICES ASSUME NEW l \in Log
               PROVE  removed'[l] = noted'[l] + Cardinality({e \in Cleanup : cleaner'[e].last = l})
    BY DEF Trail
  <2>1. {e \in Cleanup : cleaner'[e].last = l} = {e \in Cleanup : cleaner[e].last = l}
    BY <1>3
  <2> QED BY <2>1 DEF LogInv, Trail
<1>6. TookCounted'
  BY <1>1 DEF LogInv, TookCounted
<1>7. Spared'
  BY <1>1 DEF LogInv, Spared
<1> QED BY <1>2, <1>4, <1>5, <1>6, <1>7 DEF LogInv

LEMMA WriterStep ==
  ASSUME LogInv,
         \/ \E r \in LogRun : StartLogRun(r) \/ LeaveRunning(r)
         \/ \E l \in Log : WriteLine(l)
  PROVE  LogInv'
<1>1. ASSUME NEW r \in LogRun, StartLogRun(r) PROVE LogInv'
  BY <1>1 DEF StartLogRun, LogInv, LogTypeOK, NotesOwed, Trail, TookCounted, Spared
<1>2. ASSUME NEW r \in LogRun, LeaveRunning(r) PROVE LogInv'
  <2>1. /\ guarded' \in [Cleanup -> SUBSET LogRun]
        /\ \A c \in Cleanup : guarded'[c] = guarded[c] \ {r}
    BY <1>2 DEF LeaveRunning, LogInv, LogTypeOK
  <2> QED BY <1>2, <2>1 DEF LeaveRunning, LogInv, LogTypeOK, NotesOwed, Trail, TookCounted, Spared
<1>3. ASSUME NEW l \in Log, WriteLine(l) PROVE LogInv'
  BY <1>3 DEF WriteLine, LogInv, LogTypeOK, NotesOwed, Trail, TookCounted, Spared
<1> QED BY <1>1, <1>2, <1>3

LEMMA PlacesStep ==
  ASSUME LogInv, NEW c \in Cleanup,
         \/ BeginCleanup(c) \/ ReadActive(c) \/ ListLogs(c) \/ RaiseInListing(c)
         \/ FinishCleanup(c) \/ \E l \in Log : MissLog(c, l)
  PROVE  LogInv'
<1> DEFINE k == cleaner[c]
<1>1. /\ k \in Cleaner /\ cleaner \in [Cleanup -> Cleaner]
      /\ guarded[c] \in SUBSET LogRun /\ guarded = [guarded EXCEPT ![c] = guarded[c]]
      /\ running \subseteq LogRun /\ present \subseteq Log /\ SchedulerLine \subseteq Log
  BY DEF LogInv, LogTypeOK, Cleaner, SchedulerLine
<1>2. /\ k.todo \cap k.took = {}
      /\ k.at \in {"none", "runs", "list"} => k.todo = {} /\ k.took = {}
      /\ k.at = "runs" => guarded[c] \subseteq running
      /\ k.at \notin {"none", "runs"} => guarded[c] \subseteq k.active
      /\ \A l \in k.todo \cup k.took : LogKind[l] = "run" => RunOfLog[l] \notin k.active
  BY DEF LogInv, TookCounted, Spared
<1>3. CASE BeginCleanup(c)
  <2> DEFINE d == [k EXCEPT !.at = "runs"]
  <2>1. d \in Cleaner /\ cleaner' = [cleaner EXCEPT ![c] = d]
    BY <1>1, <1>3 DEF BeginCleanup, Cleaner, CleanerSteps
  <2>2. /\ d.at = "runs" /\ d.last = k.last /\ d.took = k.took /\ d.count = k.count
        /\ d.todo = k.todo /\ d.active = k.active
    BY <1>1 DEF Cleaner
  <2> HIDE DEF d
  <2> QED BY <1>1, <1>2, <1>3, <2>1, <2>2, PlaceStep DEF BeginCleanup
<1>4. CASE ReadActive(c)
  <2> DEFINE d == [k EXCEPT !.at = "list", !.active = running]
  <2>1. d \in Cleaner /\ cleaner' = [cleaner EXCEPT ![c] = d]
    BY <1>1, <1>4 DEF ReadActive, Cleaner, CleanerSteps
  <2>2. /\ d.at = "list" /\ d.last = k.last /\ d.took = k.took /\ d.count = k.count
        /\ d.todo = k.todo /\ d.active = running
    BY <1>1 DEF Cleaner
  <2>3. /\ guarded[c] \subseteq d.active /\ d.todo = {} /\ d.took = {} /\ k.at # "note"
        /\ UNCHANGED <<present, running, lines, noted, removed, guarded>>
    BY <1>2, <1>4, <2>2 DEF ReadActive
  <2> HIDE DEF d
  <2> QED BY <1>1, <2>1, <2>2, <2>3, PlaceStep
<1>5. CASE ListLogs(c)
  <2> DEFINE d == [k EXCEPT !.at = "delete", !.todo = Candidates(k.active)]
  <2>1. d \in Cleaner /\ cleaner' = [cleaner EXCEPT ![c] = d]
    BY <1>1, <1>5 DEF ListLogs, Cleaner, CleanerSteps, Candidates
  <2>2. /\ d.at = "delete" /\ d.last = k.last /\ d.took = k.took /\ d.count = k.count
        /\ d.todo = Candidates(k.active) /\ d.active = k.active
    BY <1>1 DEF Cleaner
  <2>3. /\ guarded[c] \subseteq d.active /\ d.took = {} /\ k.at # "note"
        /\ UNCHANGED <<present, running, lines, noted, removed, guarded>>
    BY <1>2, <1>5, <2>2 DEF ListLogs
  <2>4. \A l \in d.todo \cup d.took : LogKind[l] = "run" => RunOfLog[l] \notin d.active
    BY <2>2, <2>3 DEF Candidates
  <2> HIDE DEF d
  <2> QED BY <1>1, <2>1, <2>2, <2>3, <2>4, PlaceStep, ZenonT(60)
<1>6. CASE RaiseInListing(c)
  <2> DEFINE d == [k EXCEPT !.at = "raised"]
  <2>1. d \in Cleaner /\ cleaner' = [cleaner EXCEPT ![c] = d]
    BY <1>1, <1>6 DEF RaiseInListing, Cleaner, CleanerSteps
  <2>2. /\ d.at = "raised" /\ d.last = k.last /\ d.took = k.took /\ d.count = k.count
        /\ d.todo = k.todo /\ d.active = k.active
    BY <1>1 DEF Cleaner
  <2> HIDE DEF d
  <2> QED BY <1>1, <1>2, <1>6, <2>1, <2>2, PlaceStep, ZenonT(60) DEF RaiseInListing
<1>7. CASE FinishCleanup(c)
  <2> DEFINE d == [k EXCEPT !.at = "done"]
  <2>1. d \in Cleaner /\ cleaner' = [cleaner EXCEPT ![c] = d]
    BY <1>1, <1>7 DEF FinishCleanup, Cleaner, CleanerSteps
  <2>2. /\ d.at = "done" /\ d.last = k.last /\ d.took = k.took /\ d.count = k.count
        /\ d.todo = k.todo /\ d.active = k.active
    BY <1>1 DEF Cleaner
  <2> HIDE DEF d
  <2> QED BY <1>1, <1>2, <1>7, <2>1, <2>2, PlaceStep, ZenonT(60) DEF FinishCleanup
<1>8. ASSUME NEW l \in Log, MissLog(c, l) PROVE LogInv'
  <2> DEFINE d == [k EXCEPT !.todo = @ \ {l}]
  <2>1. d \in Cleaner /\ cleaner' = [cleaner EXCEPT ![c] = d]
    BY <1>1, <1>8 DEF MissLog, Cleaner
  <2>2. /\ d.at = "delete" /\ d.last = k.last /\ d.took = k.took /\ d.count = k.count
        /\ d.todo = k.todo \ {l} /\ d.active = k.active
    BY <1>1, <1>8 DEF Cleaner, MissLog
  <2>3. /\ guarded[c] \subseteq d.active /\ k.at # "note" /\ d.todo \cap d.took = {}
        /\ UNCHANGED <<present, running, lines, noted, removed, guarded>>
        /\ \A f \in d.todo \cup d.took : LogKind[f] = "run" => RunOfLog[f] \notin d.active
    BY <1>2, <1>8, <2>2 DEF MissLog
  <2> HIDE DEF d
  <2> QED BY <1>1, <2>1, <2>2, <2>3, PlaceStep
<1> QED BY <1>3, <1>4, <1>5, <1>6, <1>7, <1>8

\* The cleanups that owe a line, as one comes to owe one or has written it.
LEMMA OneMore ==
  ASSUME NEW S, IsFiniteSet(S), NEW x, x \notin S
  PROVE  Cardinality(S \cup {x}) = Cardinality(S) + 1 /\ Cardinality(S) \in Nat
BY FS_AddElement, FS_CardinalityType

LEMMA DeleteStep ==
  ASSUME LogInv, NEW c \in Cleanup, NEW l \in Log, DeleteLog(c, l)
  PROVE  LogInv'
<1> DEFINE k == cleaner[c]
           d == [k EXCEPT !.at = "note", !.todo = @ \ {l}, !.last = l,
                          !.took = @ \cup {l}, !.count = @ + 1]
<1>1. /\ k \in Cleaner /\ cleaner \in [Cleanup -> Cleaner] /\ present \subseteq Log
      /\ removed \in [Log -> Nat] /\ noted \in [Log -> Nat]
  BY DEF LogInv, LogTypeOK, Cleaner
<1>2. /\ k.at = "delete" /\ l \in k.todo /\ present' = present \ {l}
      /\ removed' = [removed EXCEPT ![l] = @ + 1] /\ cleaner' = [cleaner EXCEPT ![c] = d]
      /\ UNCHANGED <<running, lines, noted, guarded>>
  BY <1>1 DEF DeleteLog, Due
<1>3. /\ d \in Cleaner /\ d.at = "note" /\ d.todo = k.todo \ {l} /\ d.last = l
      /\ d.took = k.took \cup {l} /\ d.count = k.count + 1 /\ d.active = k.active
  <2>1. k.count + 1 \in Nat /\ k.todo \ {l} \in SUBSET Log /\ k.took \cup {l} \in SUBSET Log
    BY <1>1 DEF Cleaner
  <2> QED BY <1>1, <2>1 DEF Cleaner, CleanerSteps
<1>4. k.last = NoLog /\ l \notin k.took
  BY <1>1, <1>2 DEF LogInv, NotesOwed, TookCounted, Cleaner
<1> HIDE DEF d
<1>5. /\ cleaner' \in [Cleanup -> Cleaner] /\ cleaner'[c] = d
      /\ \A e \in Cleanup \ {c} : cleaner'[e] = cleaner[e]
  BY <1>1, <1>2, <1>3
<1>6. LogTypeOK' /\ NotesOwed'
  BY <1>1, <1>2, <1>3, <1>5 DEF LogInv, LogTypeOK, NotesOwed, Cleaner
<1>7. Trail'
  <2> SUFFICES ASSUME NEW f \in Log
               PROVE  removed'[f] = noted'[f] + Cardinality({e \in Cleanup : cleaner'[e].last = f})
    BY DEF Trail
  <2> DEFINE owing == {e \in Cleanup : cleaner[e].last = f}
  <2>1. removed[f] = noted[f] + Cardinality(owing) /\ removed[f] \in Nat /\ noted[f] \in Nat
    BY <1>1 DEF LogInv, Trail
  <2>2. CASE f = l
    <3>1. {e \in Cleanup : cleaner'[e].last = f} = owing \cup {c} /\ c \notin owing
      BY <1>3, <1>4, <1>5, <2>2
    <3>2. IsFiniteSet(owing)
      BY FS_Subset
    <3> HIDE DEF owing
    <3>3. Cardinality(owing \cup {c}) = Cardinality(owing) + 1 /\ Cardinality(owing) \in Nat
      BY <3>1, <3>2, OneMore
    <3>4. removed'[f] = removed[f] + 1 /\ noted'[f] = noted[f]
      BY <1>1, <1>2, <2>2
    <3>5. removed'[f] = noted'[f] + Cardinality(owing \cup {c})
      BY <2>1, <3>3, <3>4
    <3> QED BY <3>1, <3>5
  <2>3. CASE f # l
    <3>1. {e \in Cleanup : cleaner'[e].last = f} = owing
      BY <1>3, <1>4, <1>5, <2>3
    <3> QED BY <1>1, <1>2, <2>1, <2>3, <3>1
  <2> QED BY <2>2, <2>3
<1>8. TookCounted'
  <2>1. IsFiniteSet(k.took) /\ k.count = Cardinality(k.took)
    BY DEF LogInv, TookCounted
  <2>2. IsFiniteSet(d.took) /\ d.count = Cardinality(d.took)
    BY <1>3, <1>4, <2>1, OneMore, FS_AddElement
  <2> QED BY <1>3, <1>5, <2>2, ZenonT(60) DEF LogInv, TookCounted
<1>9. Spared'
  BY <1>2, <1>3, <1>5 DEF LogInv, Spared
<1> QED BY <1>6, <1>7, <1>8, <1>9 DEF LogInv

LEMMA NoteStep ==
  ASSUME LogInv, NEW c \in Cleanup, NoteDeletion(c)
  PROVE  LogInv'
<1> DEFINE k == cleaner[c]
           l == k.last
           d == [k EXCEPT !.at = "delete", !.last = NoLog]
<1>1. /\ k \in Cleaner /\ cleaner \in [Cleanup -> Cleaner] /\ SchedulerLine \subseteq Log
      /\ removed \in [Log -> Nat] /\ noted \in [Log -> Nat]
  BY DEF LogInv, LogTypeOK, Cleaner, SchedulerLine
<1>2. /\ k.at = "note" /\ l \in Log /\ present' = SchedulerLine
      /\ noted' = [noted EXCEPT ![l] = @ + 1] /\ cleaner' = [cleaner EXCEPT ![c] = d]
      /\ UNCHANGED <<running, lines, removed, guarded>>
  BY <1>1 DEF NoteDeletion, LogInv, NotesOwed
<1>3. /\ d \in Cleaner /\ d.at = "delete" /\ d.todo = k.todo /\ d.last = NoLog
      /\ d.took = k.took /\ d.count = k.count /\ d.active = k.active
  BY <1>1 DEF Cleaner, CleanerSteps
<1> HIDE DEF d
<1>4. /\ cleaner' \in [Cleanup -> Cleaner] /\ cleaner'[c] = d
      /\ \A e \in Cleanup \ {c} : cleaner'[e] = cleaner[e]
  BY <1>1, <1>2, <1>3
<1>5. LogTypeOK' /\ NotesOwed'
  BY <1>1, <1>2, <1>3, <1>4 DEF LogInv, LogTypeOK, NotesOwed, Cleaner
<1>6. Trail'
  <2> SUFFICES ASSUME NEW f \in Log
               PROVE  removed'[f] = noted'[f] + Cardinality({e \in Cleanup : cleaner'[e].last = f})
    BY DEF Trail
  <2> DEFINE owing == {e \in Cleanup : cleaner[e].last = f}
             left == {e \in Cleanup : cleaner'[e].last = f}
  <2>1. removed[f] = noted[f] + Cardinality(owing) /\ removed[f] \in Nat /\ noted[f] \in Nat
    BY <1>1 DEF LogInv, Trail
  <2>2. CASE f = l
    <3>1. owing = left \cup {c} /\ c \notin left
      BY <1>2, <1>3, <1>4, <2>2
    <3>2. IsFiniteSet(left)
      BY FS_Subset
    <3> HIDE DEF owing, left
    <3>3. Cardinality(owing) = Cardinality(left) + 1 /\ Cardinality(left) \in Nat
      BY <3>1, <3>2, OneMore
    <3>4. removed'[f] = removed[f] /\ noted'[f] = noted[f] + 1
      BY <1>1, <1>2, <2>2
    <3> QED BY <2>1, <3>3, <3>4 DEF left
  <2>3. CASE f # l
    <3>1. left = owing
      BY <1>2, <1>3, <1>4, <2>3
    <3> QED BY <1>1, <1>2, <2>1, <2>3, <3>1
  <2> QED BY <2>2, <2>3
<1>7. TookCounted' /\ Spared'
  BY <1>2, <1>3, <1>4 DEF LogInv, TookCounted, Spared
<1> QED BY <1>5, <1>6, <1>7 DEF LogInv

LEMMA LogInvariance == LogInv /\ [LogNext]_logVars => LogInv'
<1> SUFFICES ASSUME LogInv, [LogNext]_logVars PROVE LogInv'
  OBVIOUS
<1>1. CASE UNCHANGED logVars
  BY <1>1 DEF logVars, LogInv, LogTypeOK, NotesOwed, Trail, TookCounted, Spared
<1> QED BY <1>1, WriterStep, PlacesStep, DeleteStep, NoteStep DEF LogNext

\* "Cleanup Honest": with any number of cleanups at once the trail has a line for
\* each removal but those about to be written, each cleanup counts what it
\* removed itself, and none takes a file of a run that has been RUNNING ever
\* since it began (run_cleanup and write_log in history/).
THEOREM CleanupsAreHonest == LogSpec => [](LogTypeOK /\ CleanupHonest)
<1>1. LogInv => CleanupHonest
  <2> SUFFICES ASSUME LogInv PROVE CleanupHonest
    OBVIOUS
  <2>1. ASSUME NEW c \in Cleanup, NEW l \in cleaner[c].took, LogKind[l] = "run"
        PROVE  RunOfLog[l] \notin guarded[c]
    BY <2>1 DEF LogInv, TookCounted, Spared
  <2> QED BY <2>1 DEF LogInv, Trail, TookCounted, CleanupHonest
<1>2. LogInv => LogTypeOK
  BY DEF LogInv
<1> QED BY <1>1, <1>2, LogInitially, LogInvariance, PTL DEF LogSpec

HIDE LogAssumption

-----------------------------------------------------------------------------
(***************************************************************************)
(* Reports about a repository and the questions they raise.                *)
(***************************************************************************)
USE IntakeAssumption

Report == [at : Reporting \cup {"none", "done", "failed"}, onLoop : BOOLEAN,
           path : RepoPath \cup {NoPath}, seen : Tree,
           asked : 0..MaxQuestions, saw : SUBSET (1..MaxQuestions)]
Question == [path : RepoPath \cup {NoPath},
             status : {"QUESTION_PENDING", "QUESTION_ANSWERED", "QUESTION_DISMISSED"},
             saw : SUBSET (1..MaxQuestions), after : 0..MaxQuestions]

\* A pending question about the directory d is out of sight of one who has read
\* the pages saw, and the first n questions.
Unseen(d, saw, n, j) ==
  question[j].path = d /\ question[j].status = "QUESTION_PENDING" =>
    j > n \/ Cardinality({m \in saw : m > j}) >= QuestionPage

\* How far a report has come shows in what it holds, and one about to ask has
\* overlooked nothing.
ReportSound(i) ==
  LET r == inspector[i] IN
  /\ r.at # "none" => r.path \in RepoPath
  /\ r.at \in {"none", "scan", "failed"} => r.seen = "absent" /\ r.asked = 0
  /\ r.at = "store" => r.asked = 0
  /\ r.at \in {"pending", "ask"} => r.seen = "empty"
  /\ r.at = "ask" => /\ r.asked <= Len(question)
                     /\ \A j \in 1 .. Len(question) : Unseen(r.path, r.saw, r.asked, j)
  /\ r.at = "done" => IF r.seen = "empty"
                      THEN r.asked \in 1 .. Len(question) /\ question[r.asked].path = r.path
                      ELSE r.asked = 0

ReportsSound == \A i \in Inspector : ReportSound(i)

InTurn == \A k \in 1 .. Len(question) : \A j \in 1 .. k - 1 :
            question[k].path # NoPath =>
              Unseen(question[k].path, question[k].saw, question[k].after, j)

IntakeInv == IntakeTypeOK /\ ReportsSound /\ InTurn

LEMMA IntakeInitially == IntakeInit => IntakeInv
BY DEF IntakeInit, IntakeInv, IntakeTypeOK, ReportsSound, ReportSound, InTurn, Tree, Reporting

\* A report that goes on while the questions stay.
LEMMA ReportGoes ==
  ASSUME IntakeInv, NEW i \in Inspector, NEW r \in Report,
         inspector' = [inspector EXCEPT ![i] = r],
         UNCHANGED <<tree, changes, question>>, stored' \subseteq Inspector,
         ReportSound(i)'
  PROVE  IntakeInv'
<1>1. /\ inspector' \in [Inspector -> Report]
      /\ \A h \in Inspector \ {i} : inspector'[h] = inspector[h]
  BY DEF IntakeInv, IntakeTypeOK, Report
<1>2. IntakeTypeOK'
  BY <1>1 DEF IntakeInv, IntakeTypeOK, Report
<1>3. \A h \in Inspector \ {i} : ReportSound(h)'
  BY <1>1 DEF IntakeInv, ReportsSound, ReportSound, Unseen
<1>4. ReportsSound'
  BY <1>3 DEF ReportsSound
<1>5. InTurn'
  BY DEF IntakeInv, InTurn, Unseen
<1> QED BY <1>2, <1>4, <1>5 DEF IntakeInv

LEMMA ReportType == ASSUME IntakeInv, NEW i \in Inspector
                    PROVE  inspector[i] \in Report /\ ReportSound(i)
BY DEF IntakeInv, IntakeTypeOK, Report, ReportsSound

LEMMA BeginStep ==
  ASSUME IntakeInv, NEW i \in Inspector, NEW d \in RepoPath,
         AnalyzeRepository(i, d) \/ ViewRepository(i, d)
  PROVE  IntakeInv'
<1> DEFINE q == inspector[i]
           r == [q EXCEPT !.at = "scan", !.onLoop = inspector'[i].onLoop, !.path = d]
<1>1. q \in Report /\ ReportSound(i) /\ q.at = "none" /\ inspector \in [Inspector -> Report]
  BY ReportType DEF AnalyzeRepository, ViewRepository, IntakeInv, IntakeTypeOK, Report
<1>2. /\ inspector'[i].onLoop \in BOOLEAN /\ inspector' = [inspector EXCEPT ![i] = r]
      /\ UNCHANGED <<tree, changes, stored, question>>
  <2>1. CASE AnalyzeRepository(i, d)
    BY <1>1, <2>1 DEF AnalyzeRepository, Report
  <2>2. CASE ViewRepository(i, d)
    BY <1>1, <2>2, ZenonT(60) DEF ViewRepository, Report
  <2> QED BY <2>1, <2>2
<1>3. /\ r \in Report /\ r.at = "scan" /\ r.seen = q.seen /\ r.asked = q.asked /\ r.path = d
  BY <1>1, <1>2 DEF Report, Reporting
<1> HIDE DEF r
<1>4. inspector'[i] = r
  BY <1>1, <1>2
<1>5. ReportSound(i)'
  BY <1>1, <1>3, <1>4 DEF ReportSound
<1> QED BY <1>2, <1>3, <1>5, ReportGoes DEF IntakeInv, IntakeTypeOK

LEMMA ScanStep ==
  ASSUME IntakeInv, NEW i \in Inspector, ScanTree(i) \/ StoreScan(i)
  PROVE  IntakeInv'
<1> DEFINE q == inspector[i]
<1>1. /\ q \in Report /\ ReportSound(i) /\ inspector \in [Inspector -> Report]
      /\ stored \subseteq Inspector
  BY ReportType DEF IntakeInv, IntakeTypeOK, Report
<1>2. CASE ScanTree(i) /\ tree[q.path] = "absent"
  <2> DEFINE r == [q EXCEPT !.at = "failed"]
  <2>1. inspector' = [inspector EXCEPT ![i] = r] /\ q.at = "scan"
        /\ UNCHANGED <<tree, changes, stored, question>>
    BY <1>1, <1>2 DEF ScanTree, Move
  <2>2. r \in Report /\ r.at = "failed" /\ r.seen = q.seen /\ r.asked = q.asked /\ r.path = q.path
    BY <1>1 DEF Report
  <2> HIDE DEF r
  <2>3. ReportSound(i)'
    BY <1>1, <2>1, <2>2 DEF ReportSound
  <2> QED BY <1>1, <2>1, <2>2, <2>3, ReportGoes
<1>3. CASE ScanTree(i) /\ tree[q.path] # "absent"
  <2> DEFINE r == [q EXCEPT !.at = "store", !.seen = tree[q.path]]
  <2>1. inspector' = [inspector EXCEPT ![i] = r] /\ q.at = "scan"
        /\ UNCHANGED <<tree, changes, stored, question>>
    BY <1>1, <1>3 DEF ScanTree
  <2>2. r \in Report /\ r.at = "store" /\ r.asked = q.asked /\ r.path = q.path
    <3>1. tree[q.path] \in Tree
      BY <1>1, <2>1 DEF IntakeInv, IntakeTypeOK, ReportSound
    <3> QED BY <1>1, <3>1 DEF Report, Reporting
  <2> HIDE DEF r
  <2>3. ReportSound(i)'
    BY <1>1, <2>1, <2>2 DEF ReportSound
  <2> QED BY <1>1, <2>1, <2>2, <2>3, ReportGoes
<1>4. CASE StoreScan(i)
  <2> DEFINE r == [q EXCEPT !.at = IF q.seen = "empty" THEN "pending" ELSE "done"]
  <2>1. inspector' = [inspector EXCEPT ![i] = r] /\ q.at = "store"
        /\ UNCHANGED <<tree, changes, question>> /\ stored' \subseteq Inspector
    BY <1>1, <1>4 DEF StoreScan, Move, SaveUnits
  <2>2. /\ r \in Report /\ r.at = (IF q.seen = "empty" THEN "pending" ELSE "done")
        /\ r.seen = q.seen /\ r.asked = q.asked /\ r.path = q.path
    BY <1>1 DEF Report, Reporting
  <2> HIDE DEF r
  <2>3. ReportSound(i)'
    BY <1>1, <2>1, <2>2 DEF ReportSound
  <2> QED BY <1>1, <2>1, <2>2, <2>3, ReportGoes
<1> QED BY <1>2, <1>3, <1>4

LEMMA PendingType ==
  ASSUME IntakeInv, NEW K \in SUBSET (1 .. Len(question))
  PROVE  /\ Pending \subseteq 1 .. Len(question) /\ Len(question) \in 0 .. MaxQuestions
         /\ Cardinality(K) \in Nat
<1>1. Len(question) \in 0 .. MaxQuestions /\ DOMAIN question = 1 .. Len(question)
  BY DEF IntakeInv, IntakeTypeOK
<1>2. IsFiniteSet(1 .. Len(question))
  BY <1>1, FS_Interval
<1>3. IsFiniteSet(K)
  BY <1>2, FS_Subset
<1> QED BY <1>1, <1>3, FS_CardinalityType DEF Pending

LEMMA FindStep == ASSUME IntakeInv, NEW i \in Inspector, FindPending(i) PROVE IntakeInv'
<1> DEFINE q == inspector[i]
           about == {k \in Newest(Pending) : question[k].path = q.path}
<1>1. /\ q \in Report /\ ReportSound(i) /\ inspector \in [Inspector -> Report]
      /\ q.at = "pending" /\ UNCHANGED <<tree, changes, stored, question>>
      /\ stored \subseteq Inspector /\ QuestionPage \in Nat
  BY ReportType DEF IntakeInv, IntakeTypeOK, Report, FindPending
<1>2. /\ Pending \subseteq 1 .. Len(question) /\ Len(question) \in 0 .. MaxQuestions
      /\ \A j \in Pending : Cardinality({m \in Pending : m > j}) \in Nat
  <2>1. \A j \in Pending : {m \in Pending : m > j} \subseteq 1 .. Len(question)
    BY PendingType
  <2> QED BY <2>1, PendingType
<1>3. CASE /\ about = {}
           /\ inspector' = [inspector EXCEPT ![i].at = "ask", ![i].saw = Pending,
                                             ![i].asked = Len(question)]
  <2> DEFINE r == [q EXCEPT !.at = "ask", !.saw = Pending, !.asked = Len(question)]
  <2>1. inspector' = [inspector EXCEPT ![i] = r]
    BY <1>1, <1>3
  <2>2. /\ r \in Report /\ r.at = "ask" /\ r.seen = q.seen /\ r.path = q.path
        /\ r.saw = Pending /\ r.asked = Len(question)
    <3>1. Pending \in SUBSET (1..MaxQuestions) /\ Len(question) \in 0..MaxQuestions
      BY <1>2
    <3> QED BY <1>1, <3>1 DEF Report, Reporting
  <2>3. ASSUME NEW j \in 1 .. Len(question) PROVE Unseen(q.path, Pending, Len(question), j)
    <3> SUFFICES ASSUME question[j].path = q.path, question[j].status = "QUESTION_PENDING"
                 PROVE  Cardinality({m \in Pending : m > j}) >= QuestionPage
      BY DEF Unseen
    <3>1. j \in Pending
      BY DEF Pending, IntakeInv, IntakeTypeOK
    <3>2. ~(Cardinality({m \in Pending : m > j}) < QuestionPage)
      BY <1>3, <3>1 DEF Newest
    <3> QED BY <1>1, <1>2, <3>1, <3>2
  <2> HIDE DEF r
  <2>4. inspector'[i] = r /\ question' = question
    BY <1>1, <2>1
  <2>5. ReportSound(i)'
    BY <1>1, <2>2, <2>3, <2>4 DEF ReportSound, Unseen
  <2> QED BY <1>1, <2>1, <2>2, <2>5, ReportGoes
<1>4. ASSUME NEW k \in about, inspector' = [inspector EXCEPT ![i].at = "done", ![i].asked = k]
      PROVE  IntakeInv'
  <2> DEFINE r == [q EXCEPT !.at = "done", !.asked = k]
  <2>1. inspector' = [inspector EXCEPT ![i] = r]
    BY <1>1, <1>4
  <2>2. k \in 1 .. Len(question) /\ question[k].path = q.path
    BY <1>2 DEF Newest
  <2>3. /\ r \in Report /\ r.at = "done" /\ r.seen = q.seen /\ r.path = q.path /\ r.asked = k
    <3>1. k \in 0..MaxQuestions
      BY <1>2, <2>2
    <3> QED BY <1>1, <3>1 DEF Report
  <2> HIDE DEF r
  <2>4. inspector'[i] = r /\ question' = question
    BY <1>1, <2>1
  <2>5. ReportSound(i)'
    BY <1>1, <2>2, <2>3, <2>4 DEF ReportSound
  <2> QED BY <1>1, <2>1, <2>3, <2>5, ReportGoes
<1> QED BY <1>3, <1>4 DEF FindPending

\* A question more, which is about no directory or asked by a report in sight of
\* what it overlooks.
LEMMA AskingStep ==
  ASSUME IntakeInv, NEW d \in RepoPath \cup {NoPath}, NEW saw \in SUBSET (1..MaxQuestions),
         NEW n \in 0 .. MaxQuestions, Asking(d, saw, n),
         d # NoPath => \A j \in 1 .. Len(question) : Unseen(d, saw, n, j)
  PROVE  /\ question' \in Seq(Question) /\ Len(question') <= MaxQuestions /\ InTurn'
         /\ Len(question') = Len(question) + 1 /\ question'[Len(question')].path = d
         /\ \A i \in Inspector :
              inspector'[i] = inspector[i] => ReportSound(i)'
<1> DEFINE a == [path |-> d, saw |-> saw, after |-> n, status |-> "QUESTION_PENDING"]
<1>1. a \in Question /\ a.path = d /\ a.saw = saw /\ a.after = n
  BY DEF Question
<1>2. question' = Append(question, a) /\ Len(question) < MaxQuestions /\ question \in Seq(Question)
  BY DEF Asking, IntakeInv, IntakeTypeOK, Question
<1> HIDE DEF a
<1>3. /\ question' \in Seq(Question) /\ Len(question') = Len(question) + 1
      /\ Len(question) \in Nat
      /\ \A j \in 1 .. Len(question) : question'[j] = question[j]
      /\ question'[Len(question) + 1] = a
  BY <1>1, <1>2
<1>4. InTurn'
  <2> SUFFICES ASSUME NEW k \in 1 .. Len(question'), NEW j \in 1 .. k - 1,
                      question'[k].path # NoPath
               PROVE  Unseen(question[k].path, question[k].saw, question[k].after, j)'
    BY DEF InTurn
  <2>1. CASE k = Len(question) + 1
    BY <1>1, <1>3, <2>1 DEF Unseen
  <2>2. CASE k # Len(question) + 1
    <3>1. k \in 1 .. Len(question) /\ j \in 1 .. Len(question)
      BY <1>3, <2>2
    <3>2. question'[k] = question[k] /\ question'[j] = question[j]
      BY <1>3, <3>1
    <3>3. Unseen(question[k].path, question[k].saw, question[k].after, j)
      BY <3>1, <3>2 DEF IntakeInv, InTurn
    <3> QED BY <3>2, <3>3 DEF Unseen
  <2> QED BY <2>1, <2>2
<1>5. ASSUME NEW i \in Inspector, inspector'[i] = inspector[i] PROVE ReportSound(i)'
  <2>1. ReportSound(i) /\ inspector[i] \in Report
    BY ReportType
  <2>2. ASSUME inspector[i].at = "ask", NEW j \in 1 .. Len(question')
        PROVE  Unseen(inspector[i].path, inspector[i].saw, inspector[i].asked, j)'
    <3>1. CASE j = Len(question) + 1
      <4>1. j > inspector[i].asked
        BY <1>3, <2>1, <2>2, <3>1 DEF Report, ReportSound
      <4> QED BY <1>5, <4>1 DEF Unseen
    <3>2. CASE j # Len(question) + 1
      <4>1. j \in 1 .. Len(question) /\ question'[j] = question[j]
        BY <1>3, <2>2, <3>2
      <4>2. Unseen(inspector[i].path, inspector[i].saw, inspector[i].asked, j)
        BY <2>1, <2>2, <4>1 DEF ReportSound
      <4> QED BY <1>5, <4>1, <4>2 DEF Unseen
    <3> QED BY <3>1, <3>2
  <2>3. \A k \in 1 .. Len(question) : k \in 1 .. Len(question')
    BY <1>3
  <2>4. inspector[i].at = "ask" => inspector[i].asked <= Len(question')
    BY <1>3, <2>1 DEF ReportSound, Report
  <2>5. inspector[i].at = "done" /\ inspector[i].seen = "empty" =>
          /\ inspector[i].asked \in 1 .. Len(question')
          /\ question'[inspector[i].asked].path = inspector[i].path
    BY <1>3, <2>1, <2>3 DEF ReportSound
  <2> QED BY <1>5, <2>1, <2>2, <2>4, <2>5 DEF ReportSound
<1>6. Len(question') <= MaxQuestions
  BY <1>2, <1>3
<1> QED BY <1>1, <1>3, <1>4, <1>5, <1>6

LEMMA QuestionStep ==
  ASSUME IntakeInv,
         \/ \E i \in Inspector : AskWhatToDo(i)
         \/ CreateQuestion
         \/ \E k \in DOMAIN question : AnswerQuestion(k) \/ DismissQuestion(k)
  PROVE  IntakeInv'
<1>1. ASSUME NEW i \in Inspector, AskWhatToDo(i) PROVE IntakeInv'
  <2> DEFINE q == inspector[i]
             r == [q EXCEPT !.at = "done", !.asked = Len(question'), !.saw = {}]
  <2>1. /\ q \in Report /\ ReportSound(i) /\ inspector \in [Inspector -> Report] /\ q.at = "ask"
        /\ Asking(q.path, q.saw, q.asked) /\ inspector' = [inspector EXCEPT ![i] = r]
        /\ UNCHANGED <<tree, changes, stored>>
    BY <1>1, ReportType DEF IntakeInv, IntakeTypeOK, Report, AskWhatToDo
  <2>2. /\ question' \in Seq(Question) /\ Len(question') <= MaxQuestions /\ InTurn'
        /\ Len(question') = Len(question) + 1 /\ question'[Len(question')].path = q.path
        /\ \A h \in Inspector : inspector'[h] = inspector[h] => ReportSound(h)'
    <3>1. /\ q.path \in RepoPath \cup {NoPath} /\ q.saw \in SUBSET (1..MaxQuestions)
          /\ q.asked \in 0..MaxQuestions
          /\ \A j \in 1 .. Len(question) : Unseen(q.path, q.saw, q.asked, j)
      BY <2>1 DEF Report, ReportSound
    <3> QED BY <2>1, <3>1, AskingStep
  <2>3. /\ r \in Report /\ r.at = "done" /\ r.seen = q.seen /\ r.path = q.path
        /\ r.asked = Len(question')
    <3>1. Len(question') \in 0..MaxQuestions /\ {} \in SUBSET (1..MaxQuestions)
      BY <2>2
    <3> QED BY <2>1, <3>1 DEF Report
  <2> HIDE DEF r
  <2>4. /\ inspector'[i] = r /\ \A h \in Inspector \ {i} : inspector'[h] = inspector[h]
        /\ inspector' \in [Inspector -> Report]
    BY <2>1, <2>3
  <2>5. ReportSound(i)'
    <3>1. Len(question') \in 1 .. Len(question') /\ q.seen = "empty" /\ q.path \in RepoPath
      BY <2>1, <2>2 DEF ReportSound, IntakeInv, IntakeTypeOK
    <3> QED BY <2>2, <2>3, <2>4, <3>1 DEF ReportSound
  <2> QED BY <2>1, <2>2, <2>4, <2>5 DEF IntakeInv, IntakeTypeOK, ReportsSound, Report, Question
<1>2. CASE CreateQuestion
  <2>1. /\ question' \in Seq(Question) /\ Len(question') <= MaxQuestions /\ InTurn'
        /\ \A h \in Inspector : inspector'[h] = inspector[h] => ReportSound(h)'
    BY <1>2, AskingStep DEF CreateQuestion
  <2> QED BY <1>2, <2>1 DEF CreateQuestion, IntakeInv, IntakeTypeOK, ReportsSound, Question
<1>3. ASSUME NEW k \in DOMAIN question, NEW status \in {"QUESTION_ANSWERED", "QUESTION_DISMISSED"},
             Dispose(k, status)
      PROVE  IntakeInv'
  <2>1. /\ question \in Seq(Question) /\ k \in 1 .. Len(question)
        /\ question' = [question EXCEPT ![k].status = status]
        /\ UNCHANGED <<tree, changes, inspector, stored>>
    BY <1>3 DEF Dispose, IntakeInv, IntakeTypeOK, Question
  <2>2. /\ question' \in Seq(Question) /\ Len(question') = Len(question)
        /\ \A j \in 1 .. Len(question) :
             /\ question'[j].path = question[j].path /\ question'[j].saw = question[j].saw
             /\ question'[j].after = question[j].after
             /\ question'[j].status = "QUESTION_PENDING" => question[j].status = "QUESTION_PENDING"
    <3>1. [question[k] EXCEPT !.status = status] \in Question
      <4>1. question[k] \in Question
        BY <2>1
      <4> QED BY <4>1 DEF Question
    <3> DEFINE b == [question[k] EXCEPT !.status = status]
    <3>2. question' = [question EXCEPT ![k] = b]
      BY <2>1
    <3>3. /\ b.path = question[k].path /\ b.saw = question[k].saw /\ b.after = question[k].after
          /\ b.status # "QUESTION_PENDING"
      BY <2>1 DEF Question
    <3> HIDE DEF b
    <3> QED BY <2>1, <3>1, <3>2, <3>3 DEF b
  <2>3. ReportsSound'
    <3> SUFFICES ASSUME NEW i \in Inspector PROVE ReportSound(i)'
      BY DEF ReportsSound
    <3>1. ReportSound(i) /\ inspector'[i] = inspector[i]
      BY <2>1, ReportType
    <3> QED BY <2>2, <3>1 DEF ReportSound, Unseen
  <2>4. InTurn'
    <3>1. \A h \in 1 .. Len(question) : \A j \in 1 .. h - 1 : j \in 1 .. Len(question)
      BY <2>1
    <3> QED BY <2>1, <2>2, <3>1, SMTT(40) DEF IntakeInv, InTurn, Unseen
  <2> QED BY <2>1, <2>2, <2>3, <2>4 DEF IntakeInv, IntakeTypeOK, Question
<1> QED BY <1>1, <1>2, <1>3 DEF AnswerQuestion, DismissQuestion

LEMMA IntakeInvariance == IntakeInv /\ [IntakeNext]_intakeVars => IntakeInv'
<1> SUFFICES ASSUME IntakeInv, [IntakeNext]_intakeVars PROVE IntakeInv'
  OBVIOUS
<1>1. CASE UNCHANGED intakeVars
  BY <1>1, SMTT(40) DEF intakeVars, IntakeInv, IntakeTypeOK, ReportsSound, ReportSound, InTurn, Unseen
<1>2. ASSUME NEW d \in RepoPath, NEW content \in Tree, ChangeTree(d, content) PROVE IntakeInv'
  <2>1. IntakeTypeOK'
    BY <1>2 DEF ChangeTree, IntakeInv, IntakeTypeOK
  <2>2. ReportsSound' /\ InTurn'
    BY <1>2 DEF ChangeTree, IntakeInv, ReportsSound, ReportSound, InTurn, Unseen
  <2> QED BY <2>1, <2>2 DEF IntakeInv
<1> QED BY <1>1, <1>2, BeginStep, ScanStep, FindStep, QuestionStep DEF IntakeNext

\* "Asked In Turn": while a question about a directory is pending it is asked
\* again only by reports that were looking at the same time, or when newer
\* questions fill the page, and a report about an empty tree ends with a question
\* about its own directory, for any number of directories, reports and questions
\* (_build_repository_capability_report in api/routers/repository.py).
THEOREM QuestionsAreInTurn == IntakeSpec => [](IntakeTypeOK /\ AskedInTurn)
<1>1. IntakeInv => AskedInTurn
  <2> SUFFICES ASSUME IntakeInv PROVE AskedInTurn
    OBVIOUS
  <2>1. DOMAIN question = 1 .. Len(question) /\ Len(question) \in Nat
    BY DEF IntakeInv, IntakeTypeOK
  <2>2. ASSUME NEW j \in 1 .. Len(question), NEW k \in 1 .. Len(question), j < k,
               question[j].path = question[k].path, question[j].path # NoPath,
               question[j].status = "QUESTION_PENDING"
        PROVE  \/ j > question[k].after
               \/ Cardinality({m \in question[k].saw : m > j}) >= QuestionPage
    <3>1. j \in 1 .. k - 1
      BY <2>1, <2>2
    <3> QED BY <2>2, <3>1 DEF IntakeInv, InTurn, Unseen
  <2>3. \A i \in Inspector : ReportSound(i)
    BY DEF IntakeInv, ReportsSound
  <2> QED BY <2>1, <2>2, <2>3 DEF AskedInTurn, ReportSound
<1>2. IntakeInv => IntakeTypeOK
  BY DEF IntakeInv
<1> QED BY <1>1, <1>2, IntakeInitially, IntakeInvariance, PTL DEF IntakeSpec

HIDE IntakeAssumption

-----------------------------------------------------------------------------
(***************************************************************************)
(* The schema, for every number of passes over it.                         *)
(***************************************************************************)
USE SchemaAssumption

(* The stages.                                                             *)

Exempt == {"analyst_questions", "projects"}

\* The tables a stage needs are there once those before it have run.
Provided(n, t) == \E j \in 1 .. n - 1 : Stages[j].adds = "table" /\ t \in Stages[j].on

LEMMA Fourteen ==
  /\ Len(Stages) = 14 /\ DOMAIN Stages = 1 .. 14
  /\ Stages[1] = Create(BaseTables, FALSE)
  /\ Stages[2] = Add("api", ApiColumns)
  /\ Stages[3] = Create(ModelTables \cup AnalystTables, FALSE)
  /\ Stages[4] = Add("finding", FindingColumns)
  /\ Stages[5] = Add("run_state", TimerColumns)
  /\ Stages[6] = Create({"run_control_events"}, TRUE)
  /\ Stages[7] = Create({"questions"}, FALSE)
  /\ Stages[8] = Add("timer", TimerColumns)
  /\ Stages[9] = Create(VerificationTables, TRUE)
  /\ Stages[10] = Add("plan", PlanColumns)
  /\ Stages[11] = Add("project_id", ProjectScoped)
  /\ Stages[12] = Add("legacy", {})
  /\ Stages[13] = Create(SequenceTables, TRUE)
  /\ Stages[14] = Add("display_id", NumberedTables)
<1> DEFINE c1 == Create(BaseTables, FALSE)
           c2 == Add("api", ApiColumns)
           c3 == Create(ModelTables \cup AnalystTables, FALSE)
           c4 == Add("finding", FindingColumns)
           c5 == Add("run_state", TimerColumns)
           c6 == Create({"run_control_events"}, TRUE)
           c7 == Create({"questions"}, FALSE)
           c8 == Add("timer", TimerColumns)
           c9 == Create(VerificationTables, TRUE)
           c10 == Add("plan", PlanColumns)
           c11 == Add("project_id", ProjectScoped)
           c12 == Add("legacy", {})
           c13 == Create(SequenceTables, TRUE)
           c14 == Add("display_id", NumberedTables)
           S == {c1, c2, c3, c4, c5, c6, c7, c8, c9, c10, c11, c12, c13, c14}
           x == <<c1, c2, c3, c4, c5, c6, c7, c8>>
           y == <<c9, c10, c11>>
           z == <<c12, c13, c14>>
<1>1. Stages = x \o y \o z
  BY DEF Stages, VerificationStages
<1> HIDE DEF c1, c2, c3, c4, c5, c6, c7, c8, c9, c10, c11, c12, c13, c14
<1>2. x \in Seq(S) /\ y \in Seq(S) /\ z \in Seq(S)
  OBVIOUS
<1>3. /\ Len(x) = 8 /\ Len(y) = 3 /\ Len(z) = 3
      /\ x[1] = c1 /\ x[2] = c2 /\ x[3] = c3 /\ x[4] = c4 /\ x[5] = c5 /\ x[6] = c6
      /\ x[7] = c7 /\ x[8] = c8
      /\ y[1] = c9 /\ y[2] = c10 /\ y[3] = c11
      /\ z[1] = c12 /\ z[2] = c13 /\ z[3] = c14
  OBVIOUS
<1> HIDE DEF S, x, y, z
<1> DEFINE v == x \o y
<1> HIDE DEF v
<1>4. /\ v \in Seq(S) /\ Len(v) = 11
      /\ \A i \in 1 .. 8 : v[i] = x[i]
      /\ \A i \in 1 .. 3 : v[i + 8] = y[i]
  <2>1. /\ v \in Seq(S) /\ Len(v) = Len(x) + Len(y)
        /\ \A i \in 1 .. Len(x) + Len(y) :
             v[i] = IF i <= Len(x) THEN x[i] ELSE y[i - Len(x)]
    BY <1>2, ConcatProperties, Zenon DEF v
  <2>2. Len(x) = 8 /\ Len(y) = 3
    BY <1>3
  <2>3. /\ Len(v) = 8 + 3
        /\ \A i \in 1 .. 8 + 3 : v[i] = IF i <= 8 THEN x[i] ELSE y[i - 8]
    BY <2>1, <2>2, Zenon
  <2>4. Len(v) = 11
    BY <2>3
  <2>5. ASSUME NEW i \in 1 .. 8 PROVE v[i] = x[i]
    BY <2>3
  <2>6. ASSUME NEW i \in 1 .. 3 PROVE v[i + 8] = y[i]
    <3>1. i + 8 \in 1 .. 8 + 3 /\ ~ (i + 8 <= 8) /\ (i + 8) - 8 = i
      OBVIOUS
    <3> QED BY <2>3, <3>1, Zenon
  <2> QED BY <2>1, <2>4, <2>5, <2>6
<1> DEFINE u == v \o z
<1> HIDE DEF u
<1>5. /\ u \in Seq(S) /\ Len(u) = 14
      /\ \A i \in 1 .. 11 : u[i] = v[i]
      /\ \A i \in 1 .. 3 : u[i + 11] = z[i]
  <2>1. /\ u \in Seq(S) /\ Len(u) = Len(v) + Len(z)
        /\ \A i \in 1 .. Len(v) + Len(z) :
             u[i] = IF i <= Len(v) THEN v[i] ELSE z[i - Len(v)]
    BY <1>2, <1>4, ConcatProperties, ZenonT(60) DEF u
  <2>2. Len(v) = 11 /\ Len(z) = 3
    BY <1>3, <1>4
  <2>3. /\ Len(u) = 11 + 3
        /\ \A i \in 1 .. 11 + 3 : u[i] = IF i <= 11 THEN v[i] ELSE z[i - 11]
    BY <2>1, <2>2, Zenon
  <2>4. Len(u) = 14
    BY <2>3
  <2>5. ASSUME NEW i \in 1 .. 11 PROVE u[i] = v[i]
    BY <2>3
  <2>6. ASSUME NEW i \in 1 .. 3 PROVE u[i + 11] = z[i]
    <3>1. i + 11 \in 1 .. 11 + 3 /\ ~ (i + 11 <= 11) /\ (i + 11) - 11 = i
      OBVIOUS
    <3> QED BY <2>3, <3>1, Zenon
  <2> QED BY <2>1, <2>4, <2>5, <2>6
<1>6. Stages = u
  BY <1>1 DEF u, v
<1>7. Len(Stages) = 14 /\ DOMAIN Stages = 1 .. 14
  BY <1>5, <1>6, LenProperties
<1>8. /\ Stages[1] = c1 /\ Stages[2] = c2 /\ Stages[3] = c3 /\ Stages[4] = c4 /\ Stages[5] = c5
      /\ Stages[6] = c6 /\ Stages[7] = c7 /\ Stages[8] = c8
  BY <1>3, <1>4, <1>5, <1>6
<1>9. /\ Stages[9] = c9 /\ Stages[10] = c10 /\ Stages[11] = c11
  <2>1. v[1 + 8] = c9 /\ v[2 + 8] = c10 /\ v[3 + 8] = c11
    BY <1>3, <1>4
  <2> QED BY <1>5, <1>6, <2>1
<1>10. /\ Stages[12] = c12 /\ Stages[13] = c13 /\ Stages[14] = c14
  <2>1. u[1 + 11] = c12 /\ u[2 + 11] = c13 /\ u[3 + 11] = c14
    BY <1>3, <1>5
  <2> QED BY <1>6, <2>1
<1> QED BY <1>7, <1>8, <1>9, <1>10 DEF c1, c2, c3, c4, c5, c6, c7, c8, c9, c10, c11, c12, c13, c14

\* No stage needs a table that only a later one creates, those aside that none
\* creates: "analyst_questions", and the projects of ProjectRepository.
LEMMA TablesComeFirst ==
  \A n \in DOMAIN Stages : Stages[n].adds # "table" =>
    \A t \in Stages[n].on \ Exempt : Provided(n, t)
<1> SUFFICES ASSUME NEW n \in 1 .. 14, Stages[n].adds # "table", NEW t \in Stages[n].on \ Exempt
             PROVE  Provided(n, t)
  BY Fourteen
<1>1. /\ Stages[1].adds = "table" /\ Stages[1].on = BaseTables
      /\ Stages[3].adds = "table" /\ Stages[3].on = ModelTables \cup AnalystTables
      /\ Stages[6].adds = "table" /\ Stages[6].on = {"run_control_events"}
      /\ Stages[7].adds = "table" /\ Stages[7].on = {"questions"}
      /\ Stages[9].adds = "table" /\ Stages[9].on = VerificationTables
      /\ Stages[13].adds = "table"
  BY Fourteen DEF Create
<1>2. /\ Stages[2].on = ApiColumns /\ Stages[4].on = FindingColumns /\ Stages[5].on = TimerColumns
      /\ Stages[8].on = TimerColumns /\ Stages[10].on = PlanColumns
      /\ Stages[11].on = ProjectScoped /\ Stages[12].on = {} /\ Stages[14].on = NumberedTables
  BY Fourteen DEF Add
<1>3. n \in {2, 4, 5, 8, 10, 11, 12, 14}
  BY <1>1
<1>4. /\ 1 \in 1 .. n - 1
      /\ n \in {10, 11, 14} => {3, 6, 7, 9} \subseteq 1 .. n - 1
  BY <1>3
<1>5. CASE n \in {2, 4, 5, 8}
  <2>1. t \in BaseTables
    BY <1>2, <1>5 DEF ApiColumns, FindingColumns, TimerColumns, BaseTables, WorkTables,
       EvidenceTables, SourceTables, UnitTables, ReproducerTables
  <2> QED BY <1>1, <1>4, <2>1 DEF Provided
<1>6. CASE n \in {10, 14}
  <2>1. t \in BaseTables \cup AnalystTables \cup VerificationTables
    BY <1>2, <1>6 DEF PlanColumns, NumberedTables, Exempt, BaseTables, WorkTables, EvidenceTables,
       AnalystTables, VerificationTables, ObjectiveTables, PlanTables
  <2> QED BY <1>1, <1>4, <1>6, <2>1 DEF Provided
<1>7. CASE n = 11
  <2>1. t \in BaseTables \cup ModelTables \cup AnalystTables \cup VerificationTables
                \cup {"run_control_events", "questions"}
    BY <1>2, <1>7 DEF ProjectScoped, Exempt, BaseTables, WorkTables, EvidenceTables, SourceTables,
       UnitTables, ModelTables, AnalystTables, VerificationTables, ObjectiveTables, PlanTables
  <2> QED BY <1>1, <1>4, <1>7, <2>1 DEF Provided
<1>8. CASE n = 12
  BY <1>2, <1>8
<1> QED BY <1>3, <1>5, <1>6, <1>7, <1>8

-----------------------------------------------------------------------------
(* The passes.                                                             *)

\* What the first n stages make is there.
Present(i, t) == IF Stages[i].adds = "table" THEN t \in tables ELSE <<Stages[i].adds, t>> \in columns
Reached(n) == \A i \in 1 .. n : \A t \in Stages[i].on \ Exempt : Present(i, t)

SchemaInv ==
  /\ pass \in [Pass -> [at : 0..14, clean : BOOLEAN]]
  /\ \A w \in Pass : pass[w].clean => Reached(pass[w].at)

LEMMA SchemaInitially == SchemaInit => SchemaInv
BY Fourteen DEF SchemaInit, SchemaInv, NotBegun, Reached

\* Tables and columns are only ever added.
LEMMA EffectGrows ==
  ASSUME NEW s, NEW ts, NEW cs, NEW locked
  PROVE  ts \subseteq Effect(s, ts, cs, locked).tables /\ cs \subseteq Effect(s, ts, cs, locked).columns
BY DEF Effect

LEMMA OnlyGrows ==
  ASSUME [SchemaNext]_schemaVars
  PROVE  tables \subseteq tables' /\ columns \subseteq columns'
<1>1. ASSUME NEW w \in Pass, RunStage(w) PROVE tables \subseteq tables' /\ columns \subseteq columns'
  BY <1>1, EffectGrows, Zenon DEF RunStage
<1>2. ASSUME NEW w \in Pass, LockedStage(w) PROVE tables \subseteq tables' /\ columns \subseteq columns'
  <2>1. \/ \E t : /\ tables' = Effect(Stages[pass[w].at + 1], tables, columns, t).tables
                  /\ columns' = Effect(Stages[pass[w].at + 1], tables, columns, t).columns
        \/ \E s, t : /\ tables' = Effect(s, tables, columns, t).tables
                     /\ columns' = Effect(s, tables, columns, t).columns
    BY <1>2, Zenon DEF LockedStage
  <2> QED BY <2>1, EffectGrows, Zenon
<1>3. CASE (\E w \in Pass : RestartPass(w)) \/ CreateProjects \/ UNCHANGED schemaVars
  BY <1>3 DEF RestartPass, CreateProjects, schemaVars
<1> QED BY <1>1, <1>2, <1>3 DEF SchemaNext

LEMMA StageStep ==
  ASSUME SchemaInv, NEW w \in Pass, RunStage(w), pass[w].clean, NEW n, n = pass[w].at + 1
  PROVE  Reached(n)'
<1> DEFINE s == Stages[n]
<1>1. /\ pass[w].at \in 0 .. 13 /\ n \in 1 .. 14 /\ Reached(pass[w].at)
      /\ tables \subseteq tables' /\ columns \subseteq columns'
      /\ tables' = Effect(s, tables, columns, NoTable).tables
      /\ columns' = Effect(s, tables, columns, NoTable).columns
  <2>1. pass[w].at \in 0 .. 14 /\ pass[w].at # 14 /\ Reached(pass[w].at)
    BY Fourteen DEF SchemaInv, RunStage, Passed
  <2>2. tables \subseteq tables' /\ columns \subseteq columns'
    BY OnlyGrows DEF SchemaNext
  <2>3. /\ tables' = Effect(s, tables, columns, NoTable).tables
        /\ columns' = Effect(s, tables, columns, NoTable).columns
    BY Zenon DEF RunStage
  <2> QED BY <2>1, <2>2, <2>3
<1> SUFFICES ASSUME NEW i \in 1 .. n, NEW t \in Stages[i].on \ Exempt
             PROVE  Present(i, t)'
  BY <1>1, Zenon DEF Reached
<1>2. CASE i # n
  <2>1. i \in 1 .. pass[w].at
    BY <1>1, <1>2
  <2>2. Present(i, t)
    BY <1>1, <2>1 DEF Reached
  <2> QED BY <1>1, <2>2 DEF Present
<1>3. CASE i = n
  <2>1. t # NoTable
    BY <1>1, <1>3, Fourteen, NoTableAssumption, ZenonT(60) DEF TableNames
  <2>2. CASE s.adds = "table"
    BY <1>1, <1>3, <2>1, <2>2 DEF Effect, Present
  <2>3. CASE s.adds # "table"
    <3>1. PICK j \in 1 .. n - 1 : Stages[j].adds = "table" /\ t \in Stages[j].on
      BY <1>1, <1>3, <2>3, Fourteen, TablesComeFirst DEF Provided
    <3>2. t \in tables
      <4>1. j \in 1 .. pass[w].at
        BY <1>1, <3>1
      <4> QED BY <1>1, <3>1, <4>1 DEF Reached, Present
    <3>3. columns' = columns \cup ({s.adds} \X ((s.on \ {NoTable}) \cap tables))
      BY <1>1, <2>3 DEF Effect
    <3>4. <<s.adds, t>> \in columns'
      BY <1>3, <2>1, <3>2, <3>3
    <3> QED BY <1>3, <2>3, <3>4, SMTT(40) DEF Present
  <2> QED BY <2>2, <2>3
<1> QED BY <1>2, <1>3

LEMMA SchemaInvariance == SchemaInv /\ [SchemaNext]_schemaVars => SchemaInv'
<1> SUFFICES ASSUME SchemaInv, [SchemaNext]_schemaVars PROVE SchemaInv'
  OBVIOUS
<1>1. tables \subseteq tables' /\ columns \subseteq columns'
  BY OnlyGrows
<1>2. \A n : Reached(n) => Reached(n)'
  BY <1>1 DEF Reached, Present
<1>3. ASSUME NEW w \in Pass, RunStage(w) PROVE SchemaInv'
  <2>1. /\ pass[w].at \in 0 .. 13 /\ pass' = [pass EXCEPT ![w].at = @ + 1]
        /\ pass[w] \in [at : 0..14, clean : BOOLEAN]
    BY <1>3, Fourteen DEF SchemaInv, RunStage, Passed
  <2>2. /\ pass' \in [Pass -> [at : 0..14, clean : BOOLEAN]]
        /\ pass'[w].at = pass[w].at + 1 /\ pass'[w].clean = pass[w].clean
        /\ \A v \in Pass \ {w} : pass'[v] = pass[v]
    <3>1. pass[w].at + 1 \in 0 .. 14
      BY <2>1
    <3> QED BY <2>1, <3>1 DEF SchemaInv
  <2>3. ASSUME NEW v \in Pass, pass'[v].clean PROVE Reached(pass[v].at)' 
    <3>1. CASE v = w
      <4>1. \A n : n = pass[w].at + 1 => Reached(n)'
        BY <1>3, <2>2, <2>3, <3>1, StageStep
      <4>2. PICK n : n = pass'[w].at
        OBVIOUS
      <4>3. Reached(n)'
        BY <2>2, <4>1, <4>2
      <4> QED BY <3>1, <4>2, <4>3 DEF Reached
    <3>2. CASE v # w
      BY <1>2, <2>2, <2>3, <3>2 DEF SchemaInv
    <3> QED BY <3>1, <3>2
  <2> QED BY <2>2, <2>3 DEF SchemaInv
<1>4. ASSUME NEW w \in Pass, LockedStage(w) PROVE SchemaInv'
  <2>1. \/ pass' = [pass EXCEPT ![w] = NotBegun]
        \/ pass' = [pass EXCEPT ![w] = [at |-> pass[w].at + 1, clean |-> FALSE]]
           /\ pass[w].at + 1 \in 0 .. 14
    BY <1>4, Fourteen DEF LockedStage, SchemaInv, Passed
  <2>2. Reached(0)'
    BY DEF Reached
  <2>3. CASE pass' = [pass EXCEPT ![w] = NotBegun]
    BY <1>2, <2>2, <2>3 DEF SchemaInv, NotBegun
  <2>4. CASE pass' = [pass EXCEPT ![w] = [at |-> pass[w].at + 1, clean |-> FALSE]]
             /\ pass[w].at + 1 \in 0 .. 14
    <3>1. \A v \in Pass : pass'[v].clean => v # w /\ pass'[v] = pass[v]
      BY <2>4 DEF SchemaInv
    <3>2. pass' \in [Pass -> [at : 0..14, clean : BOOLEAN]]
      BY <2>4 DEF SchemaInv
    <3> QED BY <1>2, <3>1, <3>2 DEF SchemaInv
  <2> QED BY <2>1, <2>3, <2>4
<1>5. ASSUME NEW w \in Pass, RestartPass(w) PROVE SchemaInv'
  <2>1. Reached(0)'
    BY DEF Reached
  <2> QED BY <1>2, <1>5, <2>1 DEF RestartPass, SchemaInv, NotBegun
<1>6. CASE CreateProjects \/ UNCHANGED schemaVars
  BY <1>2, <1>6 DEF CreateProjects, schemaVars, SchemaInv
<1> QED BY <1>3, <1>4, <1>5, <1>6 DEF SchemaNext

\* "A Pass Completes": a pass that meets no lock leaves every table and column,
\* whichever release made the file, whatever passes broke off or run beside it and
\* however many statements elsewhere found the database locked: every statement of
\* _init_db comes after those that create its table (history/database.py).
THEOREM PassesComplete == SchemaSpec => []PassCompletes
<1>1. SchemaInv => PassCompletes
  BY Fourteen DEF SchemaInv, PassCompletes, Passed, Whole, Reached, Present, Exempt
<1> QED BY <1>1, SchemaInitially, SchemaInvariance, PTL DEF SchemaSpec

-----------------------------------------------------------------------------
(* Types.                                                                  *)

\* A stage is on tables that have a name, and adds them or a kind of column.
LEMMA StageNames ==
  ASSUME NEW i \in DOMAIN Stages
  PROVE  Stages[i].on \subseteq TableNames /\ Stages[i].adds \in Kinds
BY DEF TableNames, Kinds

\* Every stage is one of the two records.
LEMMA StageRecords ==
  ASSUME NEW i \in DOMAIN Stages
  PROVE  (\E o, g : Stages[i] = Create(o, g)) \/ (\E a, o : Stages[i] = Add(a, o))
<1>1. i \in {1, 3, 6, 7, 9, 13} \/ i \in {2, 4, 5, 8, 10, 11, 12, 14}
  BY Fourteen
<1>2. CASE i \in {1, 3, 6, 7, 9, 13}
  <2>1. \E o, g : Stages[i] = Create(o, g)
    BY <1>2, Fourteen, ZenonT(60)
  <2> QED BY <2>1
<1>3. CASE i \in {2, 4, 5, 8, 10, 11, 12, 14}
  <2>1. \E a, o : Stages[i] = Add(a, o)
    BY <1>3, Fourteen, ZenonT(60)
  <2> QED BY <2>1
<1> QED BY <1>1, <1>2, <1>3

\* What a stage leaves of named tables and columns, whatever of it was done.
LEMMA EffectNamed ==
  ASSUME NEW s, s.adds \in Kinds, s.on \subseteq TableNames, NEW ts \in SUBSET TableNames,
         NEW cs \in SUBSET (Kinds \X TableNames), NEW locked
  PROVE  /\ Effect(s, ts, cs, locked).tables \subseteq TableNames
         /\ Effect(s, ts, cs, locked).columns \subseteq Kinds \X TableNames
<1>1. ({s.adds} \X ((s.on \ {locked}) \cap ts)) \subseteq Kinds \X TableNames
  OBVIOUS
<1> QED BY <1>1 DEF Effect

LEMMA ReleaseNamed ==
  ASSUME NEW n \in Made
  PROVE  Release(n).tables \subseteq TableNames /\ Release(n).columns \subseteq Kinds \X TableNames
<1> DEFINE made(k) == UNION {Stages[i].on : i \in {j \in 1..k : Stages[j].adds = "table"}}
           added == {j \in 1..n : Stages[j].adds # "table"}
<1>1. n \in 0 .. 10 /\ 1 .. n \subseteq DOMAIN Stages
  BY Fourteen
<1>2. ASSUME NEW k \in 0 .. n PROVE made(k) \subseteq TableNames
  <2>1. \A i \in 1 .. k : i \in DOMAIN Stages
    BY <1>1
  <2> QED BY <2>1, StageNames
<1>3. ASSUME NEW i \in added
      PROVE  ({Stages[i].adds} \X (Stages[i].on \cap made(i))) \subseteq Kinds \X TableNames
  <2>1. Stages[i].adds \in Kinds /\ Stages[i].on \subseteq TableNames
    BY <1>1, StageNames
  <2> HIDE DEF made
  <2> QED BY <2>1
<1>4. Release(n) = [tables |-> made(n), columns |->
                      UNION {{Stages[i].adds} \X (Stages[i].on \cap made(i)) : i \in added}]
  BY Zenon DEF Release
<1>5. made(n) \subseteq TableNames
  BY <1>1, <1>2
<1> HIDE DEF made, added
<1> QED BY <1>3, <1>4, <1>5

\* "SchemaTypeOK": no table or column without a name, whatever was interrupted.
LEMMA SchemaTyping ==
  ASSUME SchemaTypeOK, SchemaNext
  PROVE  SchemaTypeOK'
<1>1. /\ tables \subseteq TableNames /\ columns \subseteq Kinds \X TableNames
      /\ pass \in [Pass -> [at : 0..14, clean : BOOLEAN]] /\ locks \in 0 .. MaxLocks
      /\ unowned \in BOOLEAN /\ NotBegun \in [at : 0..14, clean : BOOLEAN]
  BY Fourteen DEF SchemaTypeOK, NotBegun
<1>2. SUFFICES /\ tables' \subseteq TableNames /\ columns' \subseteq Kinds \X TableNames
               /\ pass' \in [Pass -> [at : 0..14, clean : BOOLEAN]] /\ locks' \in 0 .. MaxLocks
               /\ unowned' \in BOOLEAN
  BY Fourteen DEF SchemaTypeOK
<1>3. ASSUME NEW w \in Pass, ~ Passed(w)
      PROVE  /\ pass[w].at + 1 \in DOMAIN Stages /\ pass[w].at + 1 \in 0 .. 14
             /\ Stages[pass[w].at + 1].adds \in Kinds
             /\ Stages[pass[w].at + 1].on \subseteq TableNames
  <2>1. pass[w].at \in 0 .. 13
    BY <1>1, <1>3, Fourteen DEF Passed
  <2>2. pass[w].at + 1 \in DOMAIN Stages /\ pass[w].at + 1 \in 0 .. 14
    BY <2>1, Fourteen
  <2> QED BY <2>2, StageNames
<1>4. ASSUME NEW w \in Pass, RunStage(w)
      PROVE  /\ tables' \subseteq TableNames /\ columns' \subseteq Kinds \X TableNames
             /\ pass' \in [Pass -> [at : 0..14, clean : BOOLEAN]] /\ locks' \in 0 .. MaxLocks
             /\ unowned' \in BOOLEAN
  <2> DEFINE s == Stages[pass[w].at + 1]
  <2>1. /\ s.adds \in Kinds /\ s.on \subseteq TableNames /\ pass[w].at + 1 \in 0 .. 14
    BY <1>3, <1>4 DEF RunStage
  <2>2. /\ tables' = Effect(s, tables, columns, NoTable).tables
        /\ columns' = Effect(s, tables, columns, NoTable).columns
        /\ pass' = [pass EXCEPT ![w].at = @ + 1] /\ UNCHANGED <<locks, unowned>>
    BY <1>4, Zenon DEF RunStage
  <2> HIDE DEF s
  <2>3. tables' \subseteq TableNames /\ columns' \subseteq Kinds \X TableNames
    BY <1>1, <2>1, <2>2, EffectNamed
  <2>4. pass' \in [Pass -> [at : 0..14, clean : BOOLEAN]]
    BY <1>1, <2>1, <2>2
  <2> QED BY <1>1, <2>2, <2>3, <2>4
<1>5. ASSUME NEW w \in Pass, LockedStage(w)
      PROVE  /\ tables' \subseteq TableNames /\ columns' \subseteq Kinds \X TableNames
             /\ pass' \in [Pass -> [at : 0..14, clean : BOOLEAN]] /\ locks' \in 0 .. MaxLocks
             /\ unowned' \in BOOLEAN
  <2> DEFINE s == Stages[pass[w].at + 1]
  <2>1. /\ s.adds \in Kinds /\ s.on \subseteq TableNames /\ pass[w].at + 1 \in 0 .. 14
    BY <1>3, <1>5 DEF LockedStage
  <2>2. /\ \E t \in s.on :
             IF s.guarded
             THEN /\ tables' = Effect(s, tables, columns, t).tables
                  /\ columns' = Effect(s, tables, columns, t).columns
                  /\ pass' = [pass EXCEPT ![w] = [at |-> pass[w].at + 1, clean |-> FALSE]]
             ELSE /\ \E before \in {{}, s.on \ {t}} :
                       /\ tables' = Effect([s EXCEPT !.on = before], tables, columns, t).tables
                       /\ columns' = Effect([s EXCEPT !.on = before], tables, columns, t).columns
                  /\ pass' = [pass EXCEPT ![w] = NotBegun]
        /\ locks < MaxLocks /\ locks' = locks + 1 /\ unowned' = unowned
    BY <1>5, Zenon DEF LockedStage
  <2>3. \A b : [s EXCEPT !.on = b].on = b /\ [s EXCEPT !.on = b].adds = s.adds
    BY <1>3, <1>5, StageRecords DEF LockedStage, Create, Add
  <2> HIDE DEF s
  <2>4. PICK t \in s.on :
          \/ /\ tables' = Effect(s, tables, columns, t).tables
             /\ columns' = Effect(s, tables, columns, t).columns
             /\ pass' = [pass EXCEPT ![w] = [at |-> pass[w].at + 1, clean |-> FALSE]]
          \/ /\ ~ s.guarded
             /\ \E before \in {{}, s.on \ {t}} :
                  /\ tables' = Effect([s EXCEPT !.on = before], tables, columns, t).tables
                  /\ columns' = Effect([s EXCEPT !.on = before], tables, columns, t).columns
             /\ pass' = [pass EXCEPT ![w] = NotBegun]
    BY <2>2, Zenon
  <2>5. tables' \subseteq TableNames /\ columns' \subseteq Kinds \X TableNames
    <3>1. CASE /\ tables' = Effect(s, tables, columns, t).tables
               /\ columns' = Effect(s, tables, columns, t).columns
      BY <1>1, <2>1, <3>1, EffectNamed
    <3>2. ASSUME NEW b \in {{}, s.on \ {t}}, ~ s.guarded,
                 tables' = Effect([s EXCEPT !.on = b], tables, columns, t).tables,
                 columns' = Effect([s EXCEPT !.on = b], tables, columns, t).columns
          PROVE  tables' \subseteq TableNames /\ columns' \subseteq Kinds \X TableNames
      <4>1. /\ [s EXCEPT !.on = b].on = b /\ [s EXCEPT !.on = b].adds = s.adds
            /\ b \subseteq s.on
        BY <2>3, <3>2
      <4> DEFINE z == [s EXCEPT !.on = b]
      <4>2. z.adds \in Kinds /\ z.on \subseteq TableNames
        BY <2>1, <4>1
      <4>3. /\ tables' = Effect(z, tables, columns, t).tables
            /\ columns' = Effect(z, tables, columns, t).columns
        BY <3>2
      <4> HIDE DEF z
      <4> QED BY <1>1, <4>2, <4>3, EffectNamed
    <3> QED BY <2>4, <3>1, <3>2
  <2>6. pass' \in [Pass -> [at : 0..14, clean : BOOLEAN]]
    <3>1. [at |-> pass[w].at + 1, clean |-> FALSE] \in [at : 0..14, clean : BOOLEAN]
      BY <2>1
    <3> QED BY <1>1, <2>4, <3>1
  <2> QED BY <1>1, <2>2, <2>5, <2>6
<1>6. ASSUME NEW w \in Pass, RestartPass(w)
      PROVE  /\ pass' \in [Pass -> [at : 0..14, clean : BOOLEAN]]
             /\ UNCHANGED <<tables, columns, locks, unowned>>
  BY <1>1, <1>6 DEF RestartPass
<1>7. CASE CreateProjects
  <2>1. "projects" \in TableNames
    BY DEF TableNames
  <2>2. tables' = tables \cup {"projects"} /\ UNCHANGED <<columns, pass, locks, unowned>>
    BY <1>7 DEF CreateProjects
  <2> QED BY <1>1, <2>1, <2>2
<1> QED BY <1>1, <1>4, <1>5, <1>6, <1>7 DEF SchemaNext

LEMMA SchemaTypedInitially == SchemaInit => SchemaTypeOK
<1> SUFFICES ASSUME SchemaInit PROVE SchemaTypeOK
  OBVIOUS
<1>1. tables \subseteq TableNames /\ columns \subseteq Kinds \X TableNames
  BY ReleaseNamed DEF SchemaInit
<1>2. pass \in [Pass -> [at : 0..14, clean : BOOLEAN]] /\ locks \in 0 .. MaxLocks /\ unowned \in BOOLEAN
  BY DEF SchemaInit, NotBegun
<1> QED BY <1>1, <1>2, Fourteen DEF SchemaTypeOK

\* No table or column without a name comes to be, whatever release made the file,
\* whatever passes broke off and however many statements were given up.
THEOREM SchemaIsTyped == SchemaSpec => []SchemaTypeOK
<1>1. SchemaTypeOK /\ [SchemaNext]_schemaVars => SchemaTypeOK'
  <2> SUFFICES ASSUME SchemaTypeOK, [SchemaNext]_schemaVars PROVE SchemaTypeOK'
    OBVIOUS
  <2>1. CASE UNCHANGED schemaVars
    BY <2>1 DEF SchemaTypeOK, schemaVars
  <2> QED BY <2>1, SchemaTyping
<1> QED BY <1>1, SchemaTypedInitially, PTL DEF SchemaSpec

HIDE SchemaAssumption

-----------------------------------------------------------------------------
(***************************************************************************)
(* Snapshots of closure and the replies about them.                        *)
(***************************************************************************)
USE ClosureAssumption

(* The counts.                                                             *)

PlanItems(p) == [state : Counted, objective : Named(p), bucket : Bucket]
Works == [of : ClosurePlan, about : UNION {Named(p) : p \in ClosurePlan}, state : WorkStates]

\* PlanItems are counted within their number.
LEMMA ItemsCount ==
  ASSUME NEW X, NEW p, items[p] \in Seq(X), NEW S, NEW T \in SUBSET Coverage(p, S)
  PROVE  IsFiniteSet(T) /\ Cardinality(T) \in Nat /\ Cardinality(T) <= Len(items[p])
<1>1. Len(items[p]) \in Nat /\ DOMAIN items[p] = 1 .. Len(items[p]) BY SMT
<1>2. IsFiniteSet(1 .. Len(items[p])) /\ Cardinality(1 .. Len(items[p])) = Len(items[p])
  BY <1>1, FS_Interval
<1>3. T \subseteq 1 .. Len(items[p]) BY <1>1 DEF Coverage
<1> QED BY <1>2, <1>3, FS_Subset, FS_CardinalityType

\* The smaller of two numbers, and the larger.
LEMMA OfTwo ==
  ASSUME NEW a \in Nat, NEW b \in Nat
  PROVE  /\ Max({a, b}) \in {a, b} /\ Max({a, b}) >= a /\ Max({a, b}) >= b
         /\ Min({a, b}) \in {a, b} /\ Min({a, b}) <= a /\ Min({a, b}) <= b
<1>1. \E x \in {a, b} : \A y \in {a, b} : x >= y BY SMT
<1>2. \E x \in {a, b} : \A y \in {a, b} : x <= y BY SMT
<1>3. Max({a, b}) \in {a, b} /\ \A y \in {a, b} : Max({a, b}) >= y BY <1>1 DEF Max
<1>4. Min({a, b}) \in {a, b} /\ \A y \in {a, b} : Min({a, b}) <= y BY <1>2 DEF Min
<1> QED BY <1>3, <1>4

\* A bucket claims no more than its objectives, and something only for an item or
\* an objective whose task has passed.
LEMMA BucketCount ==
  ASSUME NEW X, NEW p, items[p] \in Seq(X), NEW os, IsFiniteSet(os), NEW tasks, NEW b
  PROVE  LET n == CoveredIn(p, os, tasks, b) IN
         /\ n \in Nat /\ n <= Cardinality(OfBucket(os, b))
         /\ n > 0 => items[p] # << >> \/ Having(os, tasks, Proven) # {}
<1> DEFINE inBucket(S) == {k \in Coverage(p, S) : items[p][k].bucket = b}
           counted == Cardinality(inBucket(Counted))
           waived == Cardinality(inBucket({"WAIVED"}))
           passed == OfBucket(Having(os, tasks, Proven), b)
           n == CoveredIn(p, os, tasks, b)
<1>1. counted \in Nat /\ counted <= Len(items[p]) BY ItemsCount
<1>2. waived \in Nat /\ waived <= Len(items[p]) BY ItemsCount
<1>3. IsFiniteSet(passed) /\ Cardinality(passed) \in Nat
  <2>1. passed \subseteq os BY DEF OfBucket, Having
  <2> QED BY <2>1, FS_Subset, FS_CardinalityType
<1>4. Cardinality(OfBucket(os, b)) \in Nat
  <2>1. OfBucket(os, b) \subseteq os BY DEF OfBucket
  <2> QED BY <2>1, FS_Subset, FS_CardinalityType
<1>5. n = Min({Cardinality(OfBucket(os, b)), Max({counted + waived, Cardinality(passed)})})
  BY DEF CoveredIn
<1> HIDE DEF n, counted, waived
<1>6. counted + waived \in Nat BY <1>1, <1>2
<1>7. Max({counted + waived, Cardinality(passed)}) \in {counted + waived, Cardinality(passed)}
  BY <1>3, <1>6, OfTwo
<1>8. n \in Nat /\ n <= Cardinality(OfBucket(os, b))
      /\ n <= Max({counted + waived, Cardinality(passed)})
  <2> DEFINE larger == Max({counted + waived, Cardinality(passed)})
  <2>1. larger \in Nat BY <1>3, <1>6, <1>7
  <2> HIDE DEF larger
  <2>2. n = Min({Cardinality(OfBucket(os, b)), larger}) BY <1>5 DEF larger
  <2>3. /\ n \in {Cardinality(OfBucket(os, b)), larger}
        /\ n <= Cardinality(OfBucket(os, b)) /\ n <= larger
    BY <1>4, <2>1, <2>2, OfTwo
  <2>4. n \in Nat BY <1>4, <2>1, <2>3
  <2> QED BY <2>3, <2>4 DEF larger
<1>9. ASSUME n > 0, items[p] = << >> PROVE Having(os, tasks, Proven) # {}
  <2>1. Len(items[p]) = 0 BY <1>9
  <2>2. counted + waived = 0 BY <2>1, <1>1, <1>2
  <2>3. Cardinality(passed) # 0 BY <2>2, <1>3, <1>7, <1>8, <1>9
  <2>4. passed # {} BY <2>3, FS_EmptySet
  <2> QED BY <2>4 DEF OfBucket
<1> QED BY <1>8, <1>9 DEF n

\* All buckets together claim no more than there are objectives: each claim can
\* be laid on an objective of its own.
LEMMA BucketsTogether ==
  ASSUME NEW X, NEW p, items[p] \in Seq(X), NEW os, IsFiniteSet(os), NEW tasks
  PROVE  LET n == Cardinality(Claims(p, os, tasks)) IN
         /\ n \in Nat /\ n <= Cardinality(os)
         /\ n > 0 => items[p] # << >> \/ Having(os, tasks, Proven) # {}
<1> DEFINE In(b) == CoveredIn(p, os, tasks, b)
           claims == UNION {{b} \X (1 .. In(b)) : b \in Bucket}
           listing == [b \in Bucket |->
                        CHOOSE f : f \in Bijection(1 .. Cardinality(OfBucket(os, b)), OfBucket(os, b))]
           place == [c \in claims |-> listing[c[1]][c[2]]]
<1>1. \A b : /\ In(b) \in Nat /\ In(b) <= Cardinality(OfBucket(os, b))
             /\ In(b) > 0 => items[p] # << >> \/ Having(os, tasks, Proven) # {}
  BY BucketCount
<1>2. \A b : OfBucket(os, b) \subseteq os BY DEF OfBucket
<1>3. \A b : Cardinality(OfBucket(os, b)) \in Nat /\
             ExistsBijection(1 .. Cardinality(OfBucket(os, b)), OfBucket(os, b))
  BY <1>2, FS_Subset, FS_CardinalityType
<1> HIDE DEF In
<1>4. \A c \in claims : c = <<c[1], c[2]>> /\ c[1] \in Bucket /\ c[2] \in 1 .. In(c[1])
  OBVIOUS
<1>5. \A b \in Bucket :
        listing[b] \in Bijection(1 .. Cardinality(OfBucket(os, b)), OfBucket(os, b))
  BY <1>3, Zenon DEF ExistsBijection
<1> HIDE DEF listing
<1>6. \A c \in claims : c[2] \in 1 .. Cardinality(OfBucket(os, c[1]))
  BY <1>1, <1>3, <1>4
<1>7. \A b \in Bucket : \A i, j \in 1 .. Cardinality(OfBucket(os, b)) :
        /\ listing[b][i] \in OfBucket(os, b)
        /\ listing[b][i] = listing[b][j] => i = j
  <2> SUFFICES ASSUME NEW b \in Bucket, NEW N, N = Cardinality(OfBucket(os, b)),
                      NEW i \in 1 .. N, NEW j \in 1 .. N
               PROVE  /\ listing[b][i] \in OfBucket(os, b)
                      /\ listing[b][i] = listing[b][j] => i = j
    OBVIOUS
  <2>1. listing[b] \in Bijection(1 .. N, OfBucket(os, b)) BY <1>5
  <2>2. listing[b] \in [1 .. N -> OfBucket(os, b)] BY <2>1, Zenon DEF Bijection, Injection
  <2>3. \A k, l \in 1 .. N : listing[b][k] = listing[b][l] => k = l
    BY <2>1, Zenon DEF Bijection, Injection, IsInjective
  <2> QED BY <2>2, <2>3
<1>8. \A c \in claims : place[c] \in OfBucket(os, c[1])
  BY <1>4, <1>6, <1>7
<1>9. \A c, d \in claims : place[c] = place[d] => c = d
  <2> SUFFICES ASSUME NEW c \in claims, NEW d \in claims, place[c] = place[d] PROVE c = d
    OBVIOUS
  <2>0. BucketOf[place[c]] = c[1] /\ BucketOf[place[d]] = d[1]
    <3> HIDE DEF place
    <3> QED BY <1>8 DEF OfBucket
  <2>1. c[1] = d[1] BY <2>0
  <2>2. c[2] = d[2] BY <2>1, <1>4, <1>6, <1>7
  <2> QED BY <2>1, <2>2, <1>4
<1>10. place \in Injection(claims, os)
  <2>1. \A c \in claims : place[c] \in os
    <3> HIDE DEF place, claims
    <3> QED BY <1>2, <1>8
  <2>2. place \in [claims -> os] BY <2>1
  <2> HIDE DEF place, claims
  <2> QED BY <2>2, <1>9 DEF Injection, IsInjective
<1>11. IsFiniteSet(claims) /\ Cardinality(claims) <= Cardinality(os)
  BY <1>10, FS_Injection
<1>12. ASSUME Cardinality(claims) > 0 PROVE items[p] # << >> \/ Having(os, tasks, Proven) # {}
  <2>1. claims # {}
    <3> HIDE DEF claims
    <3>1. claims = {} => Cardinality(claims) = 0 BY FS_EmptySet, Zenon
    <3>2. Cardinality(claims) # 0 BY <1>12, <1>11, FS_CardinalityType
    <3> QED BY <3>1, <3>2
  <2>2. PICK c \in claims : TRUE BY <2>1
  <2>3. In(c[1]) > 0 BY <2>2, <1>1, <1>4
  <2> QED BY <2>3, <1>1
<1>13. Cardinality(claims) \in Nat BY <1>11, FS_CardinalityType
<1>14. claims = Claims(p, os, tasks) BY DEF Claims, In
<1> HIDE DEF claims
<1> QED BY <1>11, <1>12, <1>13, <1>14

-----------------------------------------------------------------------------
(* The invariant.                                                          *)

Figures == [covered : Nat, waivers : Nat, total : Nat, closed : BOOLEAN]
Replies == [executed : Nat, validated : Nat, covered : Nat, total : Nat, ready : BOOLEAN]
Evaluations == [of : ClosurePlan \cup {NoPlan}, at : {"none", "computed", "saved", "answered"},
                value : Figures, reply : Replies]

ClTyped ==
  /\ plan \in [ClosurePlan -> ClosurePlanStates]
  /\ DOMAIN objectives = ClosurePlan
  /\ \A p \in ClosurePlan : objectives[p] \subseteq Objective[p]
  /\ DOMAIN items = ClosurePlan
  /\ \A p \in ClosurePlan : items[p] \in Seq(PlanItems(p))
  /\ gaps \in [ClosurePlan -> Nat]
  /\ work \in Seq(Works)
  /\ snapshot \in [ClosurePlan -> Figures]
  /\ evaluator \in [Evaluator -> Evaluations]

\* The figures s of plan p rest on its items.
FiguresSound(p, s) ==
  /\ s.covered <= Len(items[p]) /\ s.waivers <= s.covered
  /\ s.closed => Exists(p) /\ 100 * Len(items[p]) >= 99 * s.total

\* Some task has passed.
SomePassed == \E i \in DOMAIN work : work[i].state \in Proven

ReplySound(p, r) ==
  /\ r.validated <= r.executed /\ r.executed <= r.total /\ r.covered <= r.total
  /\ r.ready => items[p] # << >> \/ SomePassed

ClInv ==
  /\ ClTyped
  /\ IsFiniteSet(UNION {objectives[p] : p \in ClosurePlan})
  /\ \A p \in ClosurePlan : FiguresSound(p, snapshot[p])
  /\ \A w \in Evaluator :
       /\ evaluator[w].at = "computed" => FiguresSound(evaluator[w].of, evaluator[w].value)
       /\ evaluator[w].at \in {"computed", "saved"} => evaluator[w].of \in ClosurePlan
       /\ ReplySound(evaluator[w].of, evaluator[w].reply)
       /\ evaluator[w].reply.ready => evaluator[w].of \in ClosurePlan

LEMMA ClInitially == ClInit => ClInv
<1> SUFFICES ASSUME ClInit PROVE ClInv OBVIOUS
<1>1. ClTyped
  BY DEF ClInit, ClTyped, ClosurePlanStates, Open, NoSnapshot, NoPlanReply, Figures, Replies,
         Evaluations
<1>2. UNION {objectives[p] : p \in ClosurePlan} = {} BY DEF ClInit
<1>3. IsFiniteSet(UNION {objectives[p] : p \in ClosurePlan}) BY <1>2, FS_EmptySet
<1>4. \A p \in ClosurePlan : FiguresSound(p, snapshot[p]) BY DEF ClInit, FiguresSound, Open
<1>5. \A w \in Evaluator : ReplySound(evaluator[w].of, evaluator[w].reply)
  BY DEF ClInit, ReplySound, NoSnapshot, NoPlanReply
<1>6. \A w \in Evaluator : evaluator[w].at = "none" /\ ~ evaluator[w].reply.ready
  BY DEF ClInit, NoSnapshot, NoPlanReply
<1> QED BY <1>1, <1>3, <1>4, <1>5, <1>6 DEF ClInv

\* What was claimed stays justified: plans stay, items and passed tasks only grow.
ItemsGrow ==
  /\ \A p \in ClosurePlan : /\ Exists(p) => Exists(p)'
                            /\ Len(items[p]) <= Len(items'[p])
                            /\ items[p] # << >> => items'[p] # << >>
  /\ SomePassed => SomePassed'

LEMMA StillSound ==
  ASSUME ClTyped, ClTyped', ItemsGrow, NEW p \in ClosurePlan
  PROVE  /\ \A s \in Figures : FiguresSound(p, s) => FiguresSound(p, s)'
         /\ \A r \in Replies : ReplySound(p, r) => ReplySound(p, r)'
<1>1. Len(items[p]) \in Nat /\ Len(items'[p]) \in Nat BY DEF ClTyped
<1>2. \A s \in Figures : s.covered \in Nat /\ s.waivers \in Nat /\ s.total \in Nat BY DEF Figures
<1> QED BY <1>1, <1>2, SMTT(40) DEF ItemsGrow, FiguresSound, ReplySound

LEMMA RowsStep ==
  ASSUME ClInv, ClTyped', ItemsGrow, UNCHANGED <<snapshot, evaluator>>,
         IsFiniteSet(UNION {objectives'[p] : p \in ClosurePlan})
  PROVE  ClInv'
<1>1. ASSUME NEW p \in ClosurePlan PROVE FiguresSound(p, snapshot[p])'
  BY StillSound DEF ClInv, ClTyped
<1>2. ASSUME NEW w \in Evaluator, evaluator[w].at = "computed"
      PROVE  FiguresSound(evaluator[w].of, evaluator[w].value)'
  <2>1. evaluator[w].of \in ClosurePlan /\ FiguresSound(evaluator[w].of, evaluator[w].value)
    BY <1>2 DEF ClInv
  <2>2. evaluator[w].value \in Figures BY DEF ClInv, ClTyped, Evaluations
  <2> QED BY <2>1, <2>2, StillSound DEF ClInv
<1>3. ASSUME NEW w \in Evaluator PROVE ReplySound(evaluator[w].of, evaluator[w].reply)'
  <2>1. evaluator[w].reply \in Replies /\ ReplySound(evaluator[w].of, evaluator[w].reply)
    BY DEF ClInv, ClTyped, Evaluations
  <2>2. CASE evaluator[w].reply.ready
    <3>1. evaluator[w].of \in ClosurePlan BY <2>2 DEF ClInv
    <3> QED BY <2>1, <3>1, StillSound DEF ClInv
  <2>3. CASE ~ evaluator[w].reply.ready
    BY <2>1, <2>3 DEF ReplySound
  <2> QED BY <2>2, <2>3
<1> QED BY <1>1, <1>2, <1>3 DEF ClInv

\* A proposal, step by step, and what is recorded of its gaps.
LEMMA PlanStep ==
  ASSUME ClInv, NEW p \in ClosurePlan,
         \/ ProposePlan(p) \/ SavePackages(p) \/ SaveObjectives(p) \/ EndProposal(p)
         \/ RejectDraft(p) \/ RecordGap(p)
  PROVE  ClInv'
<1> USE DEF ProposePlan, SavePackages, SaveObjectives, EndProposal, RejectDraft, RecordGap
<1>1. ClTyped'
  <2>1. plan' \in [ClosurePlan -> ClosurePlanStates] BY DEF ClInv, ClTyped, ClosurePlanStates
  <2>2. /\ DOMAIN objectives' = ClosurePlan
        /\ \A q \in ClosurePlan : objectives'[q] \subseteq Objective[q]
    BY ZenonT(60) DEF ClInv, ClTyped
  <2>3. gaps' \in [ClosurePlan -> Nat] BY DEF ClInv, ClTyped
  <2>4. UNCHANGED <<items, work, snapshot, evaluator>> OBVIOUS
  <2> QED BY <2>1, <2>2, <2>3, <2>4 DEF ClInv, ClTyped
<1>2. ItemsGrow
  <2>1. \A q \in ClosurePlan : Exists(q) => Exists(q)' BY DEF ClInv, ClTyped, Exists
  <2>2. UNCHANGED <<items, work>> OBVIOUS
  <2>3. \A q \in ClosurePlan : Len(items[q]) \in Nat BY DEF ClInv, ClTyped
  <2> QED BY <2>1, <2>2, <2>3 DEF ItemsGrow, SomePassed
<1>3. IsFiniteSet(UNION {objectives'[q] : q \in ClosurePlan})
  <2> DEFINE all == UNION {objectives[q] : q \in ClosurePlan}
  <2>1. IsFiniteSet(all) BY DEF ClInv
  <2>2. IsFiniteSet(all \cup Objective[p]) BY <2>1, FS_Union
  <2>3. \A q \in ClosurePlan : objectives'[q] = objectives[q] \/ objectives'[q] = Objective[p]
    BY DEF ClInv, ClTyped
  <2>4. UNION {objectives'[q] : q \in ClosurePlan} \subseteq all \cup Objective[p]
    BY <2>3
  <2> QED BY <2>2, <2>4, FS_Subset
<1>4. UNCHANGED <<snapshot, evaluator>> OBVIOUS
<1> QED BY <1>1, <1>2, <1>3, <1>4, RowsStep

\* Coverage and tasks.
LEMMA CoverageStep ==
  ASSUME ClInv,
         \/ \E p \in ClosurePlan, o \in UNION {Named(q) : q \in ClosurePlan} :
              /\ o \in Named(p)
              /\ CreateWork(p, o) \/ \E b \in Bucket : RecordWaiver(p, o, b)
         \/ \E i \in DOMAIN work : RunWork(i) \/ \E b \in Bucket : CoverTask(i, b)
  PROVE  ClInv'
<1> DEFINE About == UNION {Named(q) : q \in ClosurePlan}
           Itemized ==
             \/ UNCHANGED items
             \/ \E p \in ClosurePlan, s \in Counted, b \in Bucket : \E o \in Named(p) :
                  items' = [items EXCEPT ![p] =
                              Append(@, [state |-> s, objective |-> o, bucket |-> b])]
           Worked ==
             \/ UNCHANGED work
             \/ \E p \in ClosurePlan, o \in About :
                  work' = Append(work, [of |-> p, about |-> o, state |-> "QUEUED"])
             \/ \E i \in DOMAIN work, s \in WorkStates :
                  /\ work' = [work EXCEPT ![i].state = s]
                  /\ work[i].state \in Proven => s \in Proven
           Recorded == Itemized /\ Worked /\ UNCHANGED <<plan, objectives, gaps, snapshot, evaluator>>
<1>1. Recorded
  <2>1. ASSUME NEW p \in ClosurePlan, NEW o \in Named(p), CreateWork(p, o) PROVE Recorded
    BY <2>1 DEF CreateWork
  <2>2. ASSUME NEW p \in ClosurePlan, NEW o \in Named(p), NEW b \in Bucket, RecordWaiver(p, o, b)
        PROVE Recorded
    BY <2>2 DEF RecordWaiver, RecordCoverage, Counted
  <2>3. ASSUME NEW i \in DOMAIN work, RunWork(i) PROVE Recorded
    BY <2>3 DEF RunWork, WorkStates, Proven
  <2>4. ASSUME NEW i \in DOMAIN work, NEW b \in Bucket, CoverTask(i, b) PROVE Recorded
    <3>0. work[i] \in Works
      <4>1. work \in Seq(Works) BY DEF ClInv, ClTyped
      <4> QED BY <4>1
    <3>1. work[i].of \in ClosurePlan BY <3>0 DEF Works
    <3>2. NoObjective \in Named(work[i].of) BY DEF Named
    <3>3. Itemized BY <2>4, <3>1, <3>2 DEF CoverTask, RecordCoverage, Counted
    <3>4. Worked BY <2>4 DEF CoverTask, WorkStates, Proven
    <3> QED BY <2>4, <3>3, <3>4 DEF CoverTask
  <2> QED BY <2>1, <2>2, <2>3, <2>4
<1> HIDE DEF Itemized, Worked
<1> DEFINE Itemizing ==
             /\ DOMAIN items' = ClosurePlan /\ \A p \in ClosurePlan : items'[p] \in Seq(PlanItems(p))
             /\ \A p \in ClosurePlan : /\ Len(items[p]) <= Len(items'[p])
                                       /\ items[p] # << >> => items'[p] # << >>
           Working == work' \in Seq(Works) /\ (SomePassed => SomePassed')
<1>2. Itemizing
  <2>1. /\ DOMAIN items = ClosurePlan
        /\ \A q \in ClosurePlan : items[q] \in Seq(PlanItems(q)) /\ Len(items[q]) \in Nat
    BY DEF ClInv, ClTyped
  <2>2. CASE UNCHANGED items BY <2>1, <2>2
  <2>3. ASSUME NEW p \in ClosurePlan, NEW s \in Counted, NEW b \in Bucket, NEW o \in Named(p),
               items' = [items EXCEPT ![p] =
                           Append(@, [state |-> s, objective |-> o, bucket |-> b])]
        PROVE  Itemizing
    <3> DEFINE item == [state |-> s, objective |-> o, bucket |-> b]
    <3>1. item \in PlanItems(p) BY DEF PlanItems
    <3> HIDE DEF item
    <3>2. items' = [items EXCEPT ![p] = Append(items[p], item)] BY <2>3 DEF item
    <3>3. /\ Append(items[p], item) \in Seq(PlanItems(p))
          /\ Len(Append(items[p], item)) = Len(items[p]) + 1
      BY <2>1, <3>1
    <3>4. Append(items[p], item) # << >>
      <4>1. Len(Append(items[p], item)) # 0 BY <2>1, <3>3
      <4>2. Len(<< >>) = 0 OBVIOUS
      <4> QED BY <4>1, <4>2, Zenon
    <3> QED BY <2>1, <3>2, <3>3, <3>4
  <2> QED BY <1>1, <2>2, <2>3 DEF Itemized
<1>3. Working
  <2>1. work \in Seq(Works) BY DEF ClInv, ClTyped
  <2>2. CASE UNCHANGED work BY <2>1, <2>2 DEF SomePassed
  <2>3. ASSUME NEW p \in ClosurePlan, NEW o \in About,
               work' = Append(work, [of |-> p, about |-> o, state |-> "QUEUED"])
        PROVE  Working
    <3> DEFINE task == [of |-> p, about |-> o, state |-> "QUEUED"]
    <3>1. task \in Works BY DEF Works, WorkStates
    <3>2. work' = Append(work, task) BY <2>3
    <3> HIDE DEF task
    <3>3. work' \in Seq(Works) /\ DOMAIN work \subseteq DOMAIN work'
          /\ \A i \in DOMAIN work : work'[i] = work[i]
      BY <2>1, <3>1, <3>2
    <3> QED BY <3>3 DEF SomePassed
  <2>4. ASSUME NEW i \in DOMAIN work, NEW s \in WorkStates, work' = [work EXCEPT ![i].state = s],
               work[i].state \in Proven => s \in Proven
        PROVE  Working
    <3>0. work[i] \in Works BY <2>1
    <3>1. [work[i] EXCEPT !.state = s] \in Works BY <3>0 DEF Works
    <3>2. work' = [work EXCEPT ![i] = [work[i] EXCEPT !.state = s]] BY <2>4
    <3>3. work' \in Seq(Works) BY <2>1, <3>1, <3>2
    <3>4. DOMAIN work' = DOMAIN work
          /\ \A j \in DOMAIN work : work'[j].state = IF j = i THEN s ELSE work[j].state
      BY <2>1, <2>4 DEF Works
    <3> QED BY <3>3, <3>4, <2>4 DEF SomePassed
  <2> QED BY <1>1, <2>2, <2>3, <2>4 DEF Worked
<1>4. ClTyped' BY <1>1, <1>2, <1>3 DEF ClInv, ClTyped
<1>5. ItemsGrow BY <1>1, <1>2, <1>3 DEF ItemsGrow, Exists
<1>6. IsFiniteSet(UNION {objectives'[p] : p \in ClosurePlan}) BY <1>1 DEF ClInv
<1> QED BY <1>1, <1>4, <1>5, <1>6, RowsStep

\* Figures just measured.
LEMMA Measured ==
  ASSUME ClInv, NEW p \in ClosurePlan
  PROVE  Measure(p) \in Figures /\ FiguresSound(p, Measure(p))
<1> DEFINE all == UNION {objectives[q] : q \in ClosurePlan}
<1>1. IsFiniteSet(Scope(p)) /\ Cardinality(Scope(p)) \in Nat
  <2>1. Scope(p) \subseteq all BY DEF Scope
  <2>2. IsFiniteSet(all) BY DEF ClInv
  <2> QED BY <2>1, <2>2, FS_Subset, FS_CardinalityType
<1>2. items[p] \in Seq(PlanItems(p)) BY DEF ClInv, ClTyped
<1>3. /\ IsFiniteSet(Coverage(p, Counted))
      /\ Covered(p) \in Nat /\ Covered(p) <= Len(items[p])
  BY <1>2, ItemsCount DEF Covered
<1>4. Waivers(p) \in Nat /\ Waivers(p) <= Covered(p)
  <2>1. Coverage(p, {"WAIVED"}) \subseteq Coverage(p, Counted) BY DEF Coverage, Counted
  <2> QED BY <2>1, <1>3, FS_Subset, FS_CardinalityType DEF Waivers, Covered
<1>5. Len(items[p]) \in Nat BY <1>2
<1>6. CASE ~ Exists(p)
  BY <1>5, <1>6 DEF Measure, Open, Figures, FiguresSound
<1>7. CASE Exists(p)
  <2> DEFINE total == Cardinality(Scope(p))
             closed == Covers(p, Covered(p), total) /\ gaps[p] = 0
  <2>1. Measure(p) = [covered |-> Covered(p), waivers |-> Waivers(p), total |-> total,
                      closed |-> closed]
    BY <1>7 DEF Measure
  <2>2. closed => 100 * Len(items[p]) >= 99 * total BY <1>1, <1>3, <1>5 DEF Covers
  <2>3. closed \in BOOLEAN BY DEF Covers
  <2> HIDE DEF total, closed
  <2>4. total \in Nat BY <1>1 DEF total
  <2> QED BY <2>1, <2>2, <2>3, <2>4, <1>3, <1>4, <1>7 DEF Figures, FiguresSound
<1> QED BY <1>6, <1>7

\* A reply just computed.
LEMMA Summarised ==
  ASSUME ClInv, NEW p \in ClosurePlan
  PROVE  Summary(p) \in Replies /\ ReplySound(p, Summary(p))
<1> DEFINE os == IF objectives[p] # {} \/ ~ Exists(p) THEN objectives[p]
                 ELSE UNION {objectives[q] :
                               q \in {q \in ClosurePlan : ProjectOf[q] = ProjectOf[p]}}
           tasks == {i \in DOMAIN work : ProjectOf[work[i].of] = ProjectOf[p]}
           executed == Having(os, tasks, WorkStates \ {"QUEUED"})
           validated == Having(os, tasks, Proven)
           claims == Claims(p, os, tasks)
           ready == Readiness(p, Cardinality(claims), Cardinality(os))
<1>1. Summary(p) = [executed |-> Cardinality(executed), validated |-> Cardinality(validated),
                    covered |-> Cardinality(claims), total |-> Cardinality(os), ready |-> ready]
  BY DEF Summary
<1>2. IsFiniteSet(os) /\ Cardinality(os) \in Nat
  <2> DEFINE all == UNION {objectives[q] : q \in ClosurePlan}
  <2>1. os \subseteq all OBVIOUS
  <2>2. IsFiniteSet(all) BY DEF ClInv
  <2> QED BY <2>1, <2>2, FS_Subset, FS_CardinalityType
<1>3. items[p] \in Seq(PlanItems(p)) BY DEF ClInv, ClTyped
<1>4. validated # {} => SomePassed
  <2>1. \A o, k : Matched(tasks, o, k) \subseteq DOMAIN work BY DEF Matched
  <2> HIDE DEF tasks, os
  <2> QED BY <2>1 DEF Having, SomePassed
<1> HIDE DEF os, tasks
<1>5. validated \subseteq executed /\ executed \subseteq os
  <2>1. Proven \subseteq WorkStates \ {"QUEUED"} BY DEF Proven, WorkStates
  <2> QED BY <2>1 DEF Having
<1>6. /\ IsFiniteSet(executed) /\ Cardinality(executed) \in Nat
      /\ Cardinality(executed) <= Cardinality(os)
  BY <1>2, <1>5, FS_Subset, FS_CardinalityType
<1>7. Cardinality(validated) \in Nat /\ Cardinality(validated) <= Cardinality(executed)
  BY <1>5, <1>6, FS_Subset, FS_CardinalityType
<1>8. /\ Cardinality(claims) \in Nat /\ Cardinality(claims) <= Cardinality(os)
      /\ Cardinality(claims) > 0 => items[p] # << >> \/ validated # {}
  BY <1>2, <1>3, BucketsTogether
<1> HIDE DEF executed, validated, claims
<1>9. ready => items[p] # << >> \/ SomePassed BY <1>2, <1>4, <1>8 DEF Readiness
<1>10. ready \in BOOLEAN BY DEF Readiness
<1> HIDE DEF ready
<1> QED BY <1>1, <1>2, <1>6, <1>7, <1>8, <1>9, <1>10 DEF Replies, ReplySound

\* A thread about to reply has given no reply yet.
LEMMA BegunReply ==
  /\ NoSnapshot \in Evaluations /\ NoSnapshot.reply = NoPlanReply
  /\ \A p \in ClosurePlan :
       LET e == [NoSnapshot EXCEPT !.of = p, !.at = "saved"]
       IN  e \in Evaluations /\ e.of = p /\ e.at = "saved" /\ e.reply = NoPlanReply
<1>1. NoSnapshot \in Evaluations /\ NoSnapshot.reply = NoPlanReply
  BY DEF NoSnapshot, Open, NoPlanReply, Evaluations, Figures, Replies
<1> QED BY <1>1 DEF Evaluations

LEMMA NothingReplied == NoPlanReply \in Replies /\ ~ NoPlanReply.ready
                        /\ \A p : ReplySound(p, NoPlanReply)
BY DEF NoPlanReply, Replies, ReplySound

\* Those who evaluate and reply.
LEMMA EvaluatorStep ==
  ASSUME ClInv, NEW w \in Evaluator,
         \/ \E p \in ClosurePlan : Evaluate(w, p)
         \/ SaveSnapshot(w) \/ ReplyWithoutPlan(w) \/ Reply(w) \/ EndReply(w)
  PROVE  ClInv'
<1> DEFINE Sound(e) ==
             /\ e \in Evaluations
             /\ e.at = "computed" => FiguresSound(e.of, e.value)
             /\ e.at \in {"computed", "saved"} => e.of \in ClosurePlan
             /\ ReplySound(e.of, e.reply)
             /\ e.reply.ready => e.of \in ClosurePlan
           Shown(s) == s \in [ClosurePlan -> Figures]
                       /\ \A p \in ClosurePlan : FiguresSound(p, s[p])
<1>1. Sound(evaluator[w]) /\ Shown(snapshot) BY DEF ClInv, ClTyped
<1> DEFINE Evaluated == /\ UNCHANGED <<plan, objectives, items, gaps, work>>
                   /\ Shown(snapshot')
                   /\ \E e : Sound(e) /\ evaluator' = [evaluator EXCEPT ![w] = e]
<1>2. Evaluated
  <2>0. Sound(NoSnapshot)
    BY DEF NoSnapshot, Open, NoPlanReply, Evaluations, Figures, Replies, ReplySound
  <2>1. ASSUME NEW p \in ClosurePlan, Evaluate(w, p) PROVE Evaluated
    <3> DEFINE e == [NoSnapshot EXCEPT !.of = p, !.at = "computed", !.value = Measure(p)]
    <3>1. Sound(e)
      <4>1. Measure(p) \in Figures /\ FiguresSound(p, Measure(p)) BY Measured
      <4>2. /\ e \in Evaluations /\ e.of = p /\ e.at = "computed" /\ e.value = Measure(p)
            /\ e.reply = NoPlanReply
        <5>1. NoSnapshot \in Evaluations /\ NoSnapshot.reply = NoPlanReply BY BegunReply
        <5> QED BY <4>1, <5>1 DEF Evaluations
      <4> HIDE DEF e
      <4> QED BY <4>1, <4>2, NothingReplied
    <3>2. evaluator' = [evaluator EXCEPT ![w] = e] BY <2>1 DEF Evaluate
    <3> HIDE DEF e, Sound, Shown
    <3> QED BY <1>1, <2>1, <3>1, <3>2 DEF Evaluate
  <2>2. CASE SaveSnapshot(w)
    <3> DEFINE p == evaluator[w].of
               later == [NoSnapshot EXCEPT !.of = p, !.at = "saved"]
    <3>1. p \in ClosurePlan /\ evaluator[w].value \in Figures /\ FiguresSound(p, evaluator[w].value)
      BY <1>1, <2>2 DEF SaveSnapshot, Evaluations
    <3>2. Sound(later)
      <4>1. later \in Evaluations /\ later.of = p /\ later.at = "saved" /\ later.reply = NoPlanReply
        BY <3>1, BegunReply
      <4> HIDE DEF later
      <4> QED BY <3>1, <4>1, NothingReplied
    <3>3. Shown(snapshot')
      <4>1. snapshot' = [snapshot EXCEPT ![p] = evaluator[w].value] BY <2>2 DEF SaveSnapshot
      <4>2. \A q \in ClosurePlan : FiguresSound(q, snapshot[q]) /\ snapshot[q] \in Figures BY <1>1
      <4>3. snapshot \in [ClosurePlan -> Figures] BY <1>1
      <4> HIDE DEF p
      <4>4. \A q \in ClosurePlan : snapshot'[q] = IF q = p THEN evaluator[w].value ELSE snapshot[q]
        BY <4>1, <4>3
      <4> QED BY <3>1, <4>1, <4>2, <4>3, <4>4
    <3>4. evaluator' = [evaluator EXCEPT ![w] = NoSnapshot] \/ evaluator' = [evaluator EXCEPT ![w] = later]
      BY <2>2 DEF SaveSnapshot
    <3> HIDE DEF later, Sound, Shown
    <3> QED BY <2>0, <2>2, <3>2, <3>3, <3>4 DEF SaveSnapshot
  <2>3. CASE ReplyWithoutPlan(w) \/ EndReply(w)
    <3> DEFINE bare == [NoSnapshot EXCEPT !.at = "answered"]
    <3>1. Sound(bare)
      <4>1. bare = [of |-> NoPlan, at |-> "answered", value |-> Open, reply |-> NoPlanReply]
        BY DEF NoSnapshot
      <4>2. Open \in Figures /\ NoPlanReply \in Replies /\ ReplySound(NoPlan, NoPlanReply)
            /\ ~ NoPlanReply.ready
        BY DEF NoPlanReply, Replies, ReplySound, Open, Figures
      <4> HIDE DEF bare
      <4> QED BY <4>1, <4>2 DEF Evaluations
    <3>2. evaluator' = [evaluator EXCEPT ![w] = NoSnapshot] \/ evaluator' = [evaluator EXCEPT ![w] = bare]
      BY <2>3 DEF ReplyWithoutPlan, EndReply
    <3>3. UNCHANGED <<plan, objectives, items, gaps, work, snapshot>>
      BY <2>3 DEF ReplyWithoutPlan, EndReply
    <3> HIDE DEF bare, Sound, Shown
    <3> QED BY <1>1, <2>0, <3>1, <3>2, <3>3
  <2>4. CASE Reply(w)
    <3> DEFINE p == evaluator[w].of
               e == [evaluator[w] EXCEPT !.at = "answered", !.reply = Summary(p)]
    <3>1. p \in ClosurePlan /\ evaluator[w] \in Evaluations BY <1>1, <2>4 DEF Reply
    <3>2. Summary(p) \in Replies /\ ReplySound(p, Summary(p)) BY <3>1, Summarised
    <3>3. Sound(e) BY <3>1, <3>2 DEF Evaluations
    <3>4. evaluator' = [evaluator EXCEPT ![w] = e] BY <2>4 DEF Reply
    <3> HIDE DEF e, Sound, Shown
    <3> QED BY <1>1, <2>4, <3>3, <3>4 DEF Reply
  <2> QED BY <2>1, <2>2, <2>3, <2>4
<1>3. PICK e : Sound(e) /\ evaluator' = [evaluator EXCEPT ![w] = e] BY <1>2
<1>4. \A v \in Evaluator : evaluator'[v] = IF v = w THEN e ELSE evaluator[v]
  BY <1>3 DEF ClInv, ClTyped
<1>5. \A v \in Evaluator : Sound(evaluator[v]) BY DEF ClInv, ClTyped
<1>6. \A v \in Evaluator : Sound(evaluator'[v])
  <2> HIDE DEF Sound
  <2> QED BY <1>3, <1>4, <1>5
<1>7. evaluator' \in [Evaluator -> Evaluations]
  <2>1. e \in Evaluations BY <1>3
  <2> QED BY <2>1, <1>3 DEF ClInv, ClTyped
<1>8. UNCHANGED <<plan, objectives, items, gaps, work>> /\ Shown(snapshot') BY <1>2
<1>9. ClTyped' BY <1>7, <1>8 DEF ClInv, ClTyped
<1>10. \A p \in ClosurePlan : FiguresSound(p, snapshot[p])' BY <1>8 DEF FiguresSound, Exists
<1>11. ASSUME NEW v \in Evaluator
       PROVE  /\ evaluator'[v].at = "computed" => FiguresSound(evaluator[v].of, evaluator[v].value)'
              /\ evaluator'[v].at \in {"computed", "saved"} => evaluator'[v].of \in ClosurePlan
              /\ ReplySound(evaluator[v].of, evaluator[v].reply)'
              /\ evaluator'[v].reply.ready => evaluator'[v].of \in ClosurePlan
  BY <1>6, <1>8 DEF FiguresSound, ReplySound, Exists, SomePassed
<1> QED BY <1>8, <1>9, <1>10, <1>11 DEF ClInv

THEOREM ClInvariant == ClSpec => []ClInv
<1>1. ClInv /\ [ClNext]_clVars => ClInv'
  <2> SUFFICES ASSUME ClInv, [ClNext]_clVars PROVE ClInv'
    OBVIOUS
  <2>1. CASE UNCHANGED clVars
    BY <2>1 DEF clVars, ClInv, ClTyped, FiguresSound, ReplySound, Exists, SomePassed
  <2>2. CASE \E p \in ClosurePlan :
               \/ ProposePlan(p) \/ SavePackages(p) \/ SaveObjectives(p) \/ EndProposal(p)
               \/ RejectDraft(p) \/ RecordGap(p)
    BY <2>2, PlanStep
  <2>3. CASE \/ \E p \in ClosurePlan : \E o \in Named(p) :
                  CreateWork(p, o) \/ \E b \in Bucket : RecordWaiver(p, o, b)
             \/ \E i \in DOMAIN work : RunWork(i) \/ \E b \in Bucket : CoverTask(i, b)
    BY <2>3, CoverageStep
  <2>4. CASE \E w \in Evaluator : \/ \E p \in ClosurePlan : Evaluate(w, p)
                                  \/ SaveSnapshot(w) \/ ReplyWithoutPlan(w)
                                  \/ Reply(w) \/ EndReply(w)
    BY <2>4, EvaluatorStep
  <2> QED BY <2>1, <2>2, <2>3, <2>4 DEF ClNext
<1> QED BY <1>1, ClInitially, PTL DEF ClSpec

\* "No Overclaim": however late a snapshot is saved and whatever has been recorded
\* since it was computed, it claims no more than the tables hold, and no reply,
\* which counts again by bucket, is covered, executed or validated beyond what it
\* counts, for any number of plans, objectives, items, tasks and threads
\* (closure/engine.py, get_closure_snapshot in api/routers/closure.py).
THEOREM NothingIsOverclaimed == ClSpec => [](ClTypeOK /\ NoOverclaim)
<1>1. ClInv => NoOverclaim
  <2> SUFFICES ASSUME ClInv PROVE NoOverclaim
    OBVIOUS
  <2>1. \A p \in ClosurePlan : FiguresSound(p, snapshot[p]) BY DEF ClInv
  <2>2. \A w \in Evaluator : ReplySound(evaluator[w].of, evaluator[w].reply) BY DEF ClInv
  <2> QED BY <2>1, <2>2 DEF NoOverclaim, FiguresSound, ReplySound, SomePassed
<1>2. ClInv => ClTypeOK
  <2> SUFFICES ASSUME ClInv PROVE ClTypeOK
    OBVIOUS
  <2>1. /\ plan \in [ClosurePlan -> ClosurePlanStates] /\ work \in Seq(Works)
        /\ \A p \in ClosurePlan : /\ objectives[p] \subseteq Objective[p] /\ gaps[p] \in Nat
                                  /\ items[p] \in Seq(PlanItems(p)) /\ snapshot[p] \in Figures
        /\ \A w \in Evaluator : evaluator[w] \in Evaluations
    BY DEF ClInv, ClTyped
  <2>2. \A v \in Figures : /\ v.covered \in Nat /\ v.waivers \in Nat /\ v.total \in Nat
                           /\ v.closed \in BOOLEAN
    BY DEF Figures
  <2>3. \A w \in Evaluator :
          /\ evaluator[w].of \in ClosurePlan \cup {NoPlan} /\ evaluator[w].value \in Figures
          /\ evaluator[w].at \in {"none", "computed", "saved", "answered"}
          /\ \A k \in {"executed", "validated", "covered", "total"} : evaluator[w].reply[k] \in Nat
    BY <2>1 DEF Evaluations, Replies
  <2> QED BY <2>1, <2>2, <2>3, ZenonT(60) DEF ClTypeOK, Works, PlanItems
<1> QED BY <1>1, <1>2, ClInvariant, PTL

HIDE ClosureAssumption

-----------------------------------------------------------------------------
(***************************************************************************)
(* Plans and the packages an approval releases.                            *)
(***************************************************************************)
USE PlanningAssumption

(* Ranks.                                                                  *)

\* A set with an element less is smaller.
LEMMA Fewer ==
  ASSUME NEW S, IsFiniteSet(S), NEW T \in SUBSET S, NEW x \in S, x \notin T
  PROVE  /\ Cardinality(S) \in Nat /\ Cardinality(T) \in Nat
         /\ Cardinality(T) < Cardinality(S)
<1>1. IsFiniteSet(T) /\ Cardinality(T) <= Cardinality(S) /\ (Cardinality(S) = Cardinality(T) => S = T)
  BY FS_Subset
<1>2. S # T OBVIOUS
<1>3. Cardinality(S) \in Nat /\ Cardinality(T) \in Nat BY <1>1, FS_CardinalityType
<1> QED BY <1>1, <1>2, <1>3

\* Among the members of a finite set of numbers the ranks are 0, 1, 2 and so on,
\* each taken once.
LEMMA Ranks ==
  ASSUME NEW T \in SUBSET Nat, IsFiniteSet(T)
  PROVE  /\ Cardinality(T) \in Nat
         /\ \A i \in T : Rank(i, T) \in 0 .. (Cardinality(T) - 1)
         /\ \A i, j \in T : i # j => Rank(i, T) # Rank(j, T)
         /\ \A n \in 0 .. (Cardinality(T) - 1) : \E i \in T : Rank(i, T) = n
<1> DEFINE below(i) == {j \in T : j < i}
           rank == [i \in T |-> Rank(i, T)]
           c == Cardinality(T)
<1>1. c \in Nat BY FS_CardinalityType
<1>2. \A i \in T : IsFiniteSet(below(i)) /\ Cardinality(below(i)) \in Nat
  <2> TAKE i \in T
  <2>1. below(i) \in SUBSET T OBVIOUS
  <2> QED BY <2>1, FS_Subset, FS_CardinalityType
<1>3. \A i \in T : Cardinality(below(i)) < c
  <2> TAKE i \in T
  <2>1. below(i) \in SUBSET T OBVIOUS
  <2>2. i \notin below(i) OBVIOUS
  <2> QED BY <2>1, <2>2, Fewer
<1>4. \A i, j \in T : i < j => Cardinality(below(i)) < Cardinality(below(j))
  <2> SUFFICES ASSUME NEW i \in T, NEW j \in T, i < j
               PROVE  Cardinality(below(i)) < Cardinality(below(j))
    OBVIOUS
  <2>1. \A k \in T : k \in Nat OBVIOUS
  <2>2. i \in Nat /\ j \in Nat OBVIOUS
  <2>3. \A k \in T : k < i => k < j BY <2>1, <2>2
  <2>4. below(i) \in SUBSET below(j) BY <2>3
  <2>5. i \in below(j) /\ i \notin below(i) OBVIOUS
  <2> QED BY <1>2, <2>4, <2>5, Fewer
<1>5. \A i \in T : Rank(i, T) = Cardinality(below(i)) BY DEF Rank
<1> HIDE DEF below
<1>6. \A i \in T : Rank(i, T) \in 0 .. (c - 1) BY <1>1, <1>2, <1>3, <1>5
<1>7. \A i, j \in T : i # j => Rank(i, T) # Rank(j, T)
  <2> TAKE i, j \in T
  <2>1. i < j \/ j < i \/ i = j OBVIOUS
  <2> QED BY <1>2, <1>4, <1>5, <2>1
<1>8. rank \in Injection(T, 0 .. (c - 1))
  <2>1. rank \in [T -> 0 .. (c - 1)] BY <1>6
  <2>2. \A i, j \in T : rank[i] = rank[j] => i = j BY <1>7
  <2> QED BY <2>1, <2>2 DEF Injection, IsInjective
<1>9. IsFiniteSet(0 .. (c - 1)) /\ Cardinality(0 .. (c - 1)) = c
  <2>1. c - 1 \in Int /\ (0 > c - 1 => c = 0) /\ c - 1 - 0 + 1 = c BY <1>1
  <2> QED BY <1>1, <2>1, FS_Interval
<1>10. rank \in Surjection(T, 0 .. (c - 1)) BY <1>8, <1>9, FS_Injection
<1>11. \A n \in 0 .. (c - 1) : \E i \in T : rank[i] = n BY <1>10 DEF Surjection
<1> QED BY <1>1, <1>6, <1>7, <1>11

\* The members of the first n ranks are n at most, and some if there are any.
LEMMA FirstRanks ==
  ASSUME NEW T \in SUBSET Nat, IsFiniteSet(T), NEW n \in Nat \ {0}
  PROVE  LET S == {i \in T : Rank(i, T) < n} IN
         /\ IsFiniteSet(S) /\ Cardinality(S) \in Nat /\ Cardinality(S) <= n
         /\ T # {} => S # {}
<1> DEFINE S == {i \in T : Rank(i, T) < n}
           rank == [i \in S |-> Rank(i, T)]
<1>1. S \in SUBSET T OBVIOUS
<1>2. IsFiniteSet(S) /\ Cardinality(S) \in Nat BY <1>1, FS_Subset, FS_CardinalityType
<1>3. IsFiniteSet(0 .. (n - 1)) /\ Cardinality(0 .. (n - 1)) = n BY FS_Interval
<1>4. \A i \in S : Rank(i, T) \in 0 .. (n - 1) BY Ranks
<1>5. rank \in Injection(S, 0 .. (n - 1)) BY <1>4, Ranks, ZenonT(60) DEF Injection, IsInjective
<1>6. Cardinality(S) <= n BY <1>3, <1>5, FS_Injection
<1>7. ASSUME T # {} PROVE S # {}
  <2>1. Cardinality(T) \in Nat /\ Cardinality(T) # 0 BY <1>7, FS_EmptySet, FS_CardinalityType
  <2>2. 0 \in 0 .. (Cardinality(T) - 1) BY <2>1
  <2>3. PICK i \in T : Rank(i, T) = 0 BY <2>2, Ranks
  <2> QED BY <2>3
<1> QED BY <1>2, <1>6, <1>7

\* What is listed is what the sequence has at the places of the set.
LEMMA RankedListing ==
  ASSUME NEW T \in SUBSET Nat, IsFiniteSet(T), NEW s
  PROVE  /\ DOMAIN InOrder(s, T) = 1 .. Cardinality(T)
         /\ Cardinality(T) \in Nat
         /\ \A n \in 1 .. Cardinality(T) : \E i \in T : InOrder(s, T)[n] = s[i]
<1>1. Cardinality(T) \in Nat BY FS_CardinalityType
<1>2. ASSUME NEW n \in 1 .. Cardinality(T)
      PROVE  \E i \in T : InOrder(s, T)[n] = s[i]
  <2>1. n - 1 \in 0 .. (Cardinality(T) - 1) BY <1>1
  <2>2. \E i \in T : Rank(i, T) = n - 1 BY <2>1, Ranks
  <2>3. (CHOOSE i \in T : Rank(i, T) = n - 1) \in T BY <2>2
  <2>4. InOrder(s, T)[n] = s[CHOOSE i \in T : Rank(i, T) = n - 1] BY DEF InOrder
  <2> QED BY <2>3, <2>4
<1> QED BY <1>1, <1>2 DEF InOrder

-----------------------------------------------------------------------------
(* The packages of buckets.                                                *)

Names == ToSet(Buckets) \cup ToSet(PriorityOrder)

LEMMA BucketSequences == Buckets \in Seq(Names) /\ PriorityOrder \in Seq(Names)
<1>1. Buckets = [i \in 1 .. 23 |-> Buckets[i]] BY DEF Buckets
<1>2. PriorityOrder = [i \in 1 .. 7 |-> PriorityOrder[i]] BY DEF PriorityOrder
<1>3. \A i \in 1 .. 23 : Buckets[i] \in Names BY <1>1 DEF Names, ToSet
<1>4. \A i \in 1 .. 7 : PriorityOrder[i] \in Names BY <1>2 DEF Names, ToSet
<1> QED BY <1>1, <1>2, <1>3, <1>4

\* Among the first places of wanted names is one if a wanted name is there at all.
LEMMA FirstPlaces ==
  ASSUME NEW X, NEW s \in Seq(X), NEW S
  PROVE  /\ FirstNamed(s, S) \in SUBSET Nat
         /\ IsFiniteSet(FirstNamed(s, S))
         /\ \A i \in FirstNamed(s, S) : s[i] \in S
         /\ (\E i \in DOMAIN s : s[i] \in S) => FirstNamed(s, S) # {}
<1>1. Len(s) \in Nat /\ DOMAIN s = 1 .. Len(s) OBVIOUS
<1>2. FirstNamed(s, S) \in SUBSET (1 .. Len(s)) BY <1>1 DEF FirstNamed
<1>3. IsFiniteSet(1 .. Len(s)) BY <1>1, FS_Interval
<1>4. ASSUME NEW i \in DOMAIN s, s[i] \in S PROVE FirstNamed(s, S) # {}
  <2> DEFINE T == {k \in DOMAIN s : s[k] \in S}
  <2>1. T \in SUBSET Nat /\ T # {} BY <1>1, <1>4
  <2>2. PICK k \in T : \A j \in T : k <= j BY <2>1, Least
  <2>3. \A j \in DOMAIN s : j < k => s[j] # s[k]
    <3> SUFFICES ASSUME NEW j \in DOMAIN s, j < k, s[j] = s[k] PROVE FALSE
      OBVIOUS
    <3>1. j \in T OBVIOUS
    <3>2. k <= j BY <2>2, <3>1
    <3> QED BY <1>1, <3>2
  <2> QED BY <2>3 DEF FirstNamed
<1>5. \A i \in FirstNamed(s, S) : s[i] \in S BY DEF FirstNamed
<1> QED BY <1>1, <1>2, <1>3, <1>4, <1>5, FS_Subset

\* No more buckets are selected than the limit, all of them wanted, and some if any is.
LEMMA Selection ==
  ASSUME NEW buckets \in SUBSET ToSet(Buckets), NEW limit \in Nat \ {0}
  PROVE  LET B == Bounded(buckets, limit) IN
         \E n \in 0 .. limit : /\ DOMAIN B = 1 .. n
                               /\ \A i \in 1 .. n : B[i] \in buckets
                               /\ buckets # {} => n # 0
<1> DEFINE order == IF Cardinality(buckets) > limit THEN PriorityOrder \o Buckets ELSE Buckets
           first == FirstNamed(order, buckets)
           T == {i \in first : Rank(i, first) < limit}
<1>1. order \in Seq(Names)
  <2>1. PriorityOrder \o Buckets \in Seq(Names) BY BucketSequences
  <2> QED BY <2>1, BucketSequences
<1>2. ASSUME buckets # {} PROVE \E i \in DOMAIN order : order[i] \in buckets
  <2>1. PICK b \in buckets : TRUE BY <1>2
  <2>2. PICK i \in DOMAIN Buckets : Buckets[i] = b BY <2>1 DEF ToSet
  <2>3. CASE order = Buckets BY <2>2, <2>3
  <2>4. CASE order = PriorityOrder \o Buckets
    <3>1. Len(PriorityOrder) + i \in DOMAIN order /\ order[Len(PriorityOrder) + i] = Buckets[i]
      BY <2>4, <2>2, BucketSequences
    <3> QED BY <2>1, <2>2, <3>1
  <2> QED BY <2>3, <2>4
<1>3. /\ first \in SUBSET Nat /\ IsFiniteSet(first)
      /\ \A i \in first : order[i] \in buckets
      /\ buckets # {} => first # {}
  <2> HIDE DEF order
  <2> QED BY <1>1, <1>2, FirstPlaces
<1>4. Bounded(buckets, limit) = InOrder(order, T) BY DEF Bounded
<1> HIDE DEF order, first
<1>5. /\ T \in SUBSET Nat /\ IsFiniteSet(T)
      /\ Cardinality(T) \in Nat /\ Cardinality(T) <= limit
      /\ first # {} => T # {}
  BY <1>3, FirstRanks
<1> HIDE DEF T
<1>6. T # {} => Cardinality(T) # 0 BY <1>5, FS_EmptySet
<1>7. /\ DOMAIN InOrder(order, T) = 1 .. Cardinality(T)
      /\ \A n \in 1 .. Cardinality(T) : \E i \in T : InOrder(order, T)[n] = order[i]
  BY <1>5, RankedListing
<1>8. T \subseteq first BY DEF T
<1>9. \A n \in 1 .. Cardinality(T) : InOrder(order, T)[n] \in buckets BY <1>3, <1>7, <1>8
<1>10. Cardinality(T) \in 0 .. limit BY <1>5
<1> QED BY <1>3, <1>4, <1>5, <1>6, <1>7, <1>9, <1>10

-----------------------------------------------------------------------------
(* The packages of firmware.                                               *)

\* A pattern finds finitely many lines of a file.
LEMMA Lined ==
  ASSUME NEW r \in Codebase, NEW i \in DOMAIN r.rust, NEW n \in 1 .. 11
  PROVE  IsFiniteSet(RustPatterns(r.rust[i])[n].lines)
<1> DEFINE file == r.rust[i]
<1>1. file \in ToSet(r.rust) BY DEF ToSet
<1>2. file.lines \in Seq(ToSet(file.lines)) BY <1>1 DEF PlanningAssumption
<1>3. Len(file.lines) \in Nat /\ DOMAIN file.lines = 1 .. Len(file.lines) BY <1>2
<1>4. IsFiniteSet(DOMAIN file.lines) BY <1>3, FS_Interval
<1> HIDE DEF file
<1>5. \A sign : Lines(file, sign) \subseteq DOMAIN file.lines BY DEF Lines
<1>6. \A word, L : OnPath(file, word, L) \subseteq L BY DEF OnPath
<1>7. RustPatterns(file)[n].lines \subseteq DOMAIN file.lines
  <2>1. RustPatterns(file)[n] \in
          {Pauser(file), PcrLog(file), KeyLadder(file), CdiExport(file), HkdfLength(file),
           AadLength(file), ContextLimit(file), CsrLength(file), Endianness(file),
           SanDelimiter(file), ManifestSvn(file)}
    BY DEF RustPatterns
  <2>2. /\ Pauser(file).lines \subseteq DOMAIN file.lines
        /\ PcrLog(file).lines \subseteq DOMAIN file.lines
        /\ KeyLadder(file).lines \subseteq DOMAIN file.lines
        /\ CdiExport(file).lines \subseteq DOMAIN file.lines
    BY <1>5, <1>6 DEF Pauser, PcrLog, KeyLadder, CdiExport
  <2>3. /\ HkdfLength(file).lines \subseteq DOMAIN file.lines
        /\ AadLength(file).lines \subseteq DOMAIN file.lines
        /\ ContextLimit(file).lines \subseteq DOMAIN file.lines
        /\ CsrLength(file).lines \subseteq DOMAIN file.lines
    BY <1>5 DEF HkdfLength, AadLength, ContextLimit, CsrLength
  <2>4. /\ Endianness(file).lines \subseteq DOMAIN file.lines
        /\ SanDelimiter(file).lines \subseteq DOMAIN file.lines
        /\ ManifestSvn(file).lines \subseteq DOMAIN file.lines
    BY <1>5, <1>6 DEF Endianness, SanDelimiter, ManifestSvn
  <2> QED BY <2>1, <2>2, <2>3, <2>4
<1>8. IsFiniteSet(RustPatterns(file)[n].lines) BY <1>4, <1>7, FS_Subset
<1> QED BY <1>8 DEF file

\* The scans of a codebase are numbered from one, and find finitely many lines each.
LEMMA Scanned ==
  ASSUME NEW r \in Codebase
  PROVE  \E m \in Nat : /\ DOMAIN Scans(r) = 1 .. m
                        /\ \A k \in 1 .. m : IsFiniteSet(Scans(r)[k].lines)
<1> DEFINE m == 11 * Len(r.rust)
<1>1. Len(r.rust) \in Nat /\ DOMAIN r.rust = 1 .. Len(r.rust) BY DEF PlanningAssumption
<1>2. m \in Nat BY <1>1
<1>3. DOMAIN Scans(r) = 1 .. m BY DEF Scans
<1>4. ASSUME NEW k \in 1 .. m PROVE IsFiniteSet(Scans(r)[k].lines)
  <2>1. /\ 1 + ((k - 1) \div 11) \in 1 .. Len(r.rust)
        /\ 1 + ((k - 1) % 11) \in 1 .. 11
    BY <1>1
  <2>2. Scans(r)[k] = RustPatterns(r.rust[1 + ((k - 1) \div 11)])[1 + ((k - 1) % 11)]
    BY DEF Scans
  <2> QED BY <1>1, <2>1, <2>2, Lined
<1> QED BY <1>2, <1>3, <1>4

\* The surfaces that finitely many scans have found are finitely many.
LEMMA SurfacesFinite ==
  ASSUME NEW scans, NEW K, IsFiniteSet(K), \A k \in K : IsFiniteSet(scans[k].lines)
  PROVE  IsFiniteSet(Surfaces(scans, K))
<1> DEFINE of == [k \in K |-> {k} \X scans[k].lines]
           all == {{k} \X scans[k].lines : k \in K}
<1>1. of \in Surjection(K, all)
  <2>1. of \in [K -> all] OBVIOUS
  <2>2. \A t \in all : \E k \in K : of[k] = t OBVIOUS
  <2> QED BY <2>1, <2>2 DEF Surjection
<1>2. IsFiniteSet(all) BY <1>1, FS_Surjection
<1>3. \A k \in K : IsFiniteSet({k} \X scans[k].lines) BY FS_Singleton, FS_Product
<1>4. \A S \in all : IsFiniteSet(S) BY <1>3
<1>5. IsFiniteSet(UNION all) BY <1>2, <1>4, FS_UNION
<1> QED BY <1>5 DEF Surfaces

\* Scans that found something, and fewer surfaces than n before each, are n at most.
LEMMA FewTaken ==
  ASSUME NEW scans, NEW m \in Nat, \A k \in 1 .. m : IsFiniteSet(scans[k].lines),
         DOMAIN scans = 1 .. m, NEW limit \in Nat, NEW T \in SUBSET Taken(scans, limit)
  PROVE  T \in SUBSET Nat /\ IsFiniteSet(T) /\ Cardinality(T) \in Nat /\ Cardinality(T) <= limit
<1>1. T \in SUBSET (1 .. m) BY DEF Taken
<1>2. T \in SUBSET Nat /\ IsFiniteSet(T) /\ Cardinality(T) \in Nat
  <2>1. T \in SUBSET Nat BY <1>1
  <2>2. IsFiniteSet(1 .. m) BY FS_Interval
  <2>3. IsFiniteSet(T) BY <1>1, <2>2, FS_Subset
  <2> QED BY <2>1, <2>3, FS_CardinalityType
<1>3. ASSUME Cardinality(T) > limit PROVE FALSE
  <2>1. Cardinality(T) - 1 \in 0 .. (Cardinality(T) - 1) BY <1>2, <1>3
  <2>2. PICK k \in T : Rank(k, T) = Cardinality(T) - 1 BY <1>2, <2>1, Ranks
  <2> DEFINE below == {j \in T : j < k}
             before == Surfaces(scans, 1 .. (k - 1))
             hit == [j \in below |-> <<j, CHOOSE n \in scans[j].lines : TRUE>>]
  <2>3. k \in 1 .. m /\ Cardinality(before) < limit BY <1>1 DEF Taken
  <2>4. Cardinality(below) = Cardinality(T) - 1 BY <2>2 DEF Rank
  <2>5. IsFiniteSet(before)
    <3>1. IsFiniteSet(1 .. (k - 1)) BY <2>3, FS_Interval
    <3>2. \A j \in 1 .. (k - 1) : IsFiniteSet(scans[j].lines) BY <2>3
    <3> QED BY <3>1, <3>2, SurfacesFinite
  <2>6. \A j \in below : hit[j] \in before
    <3> TAKE j \in below
    <3>1. scans[j].lines # {} /\ j \in 1 .. (k - 1) BY <1>1, <2>3 DEF Taken
    <3>2. (CHOOSE n \in scans[j].lines : TRUE) \in scans[j].lines BY <3>1
    <3>3. hit[j] \in {j} \X scans[j].lines BY <3>2
    <3> QED BY <3>1, <3>3 DEF Surfaces
  <2>7. hit \in Injection(below, before)
    <3>1. hit \in [below -> before] BY <2>6
    <3>2. \A i, j \in below : hit[i] = hit[j] => i = j OBVIOUS
    <3> QED BY <3>1, <3>2 DEF Injection, IsInjective
  <2>8. Cardinality(below) <= Cardinality(before) BY <2>5, <2>7, FS_Injection
  <2>9. Cardinality(before) \in Nat BY <2>5, FS_CardinalityType
  <2> QED BY <1>2, <1>3, <2>3, <2>4, <2>8, <2>9
<1> QED BY <1>2, <1>3

\* Firmware with surfaces has a package, and no more of them than the limit.
LEMMA Firmware ==
  ASSUME NEW r \in Codebase, NEW limit \in Nat \ {0},
         Surfaces(Scans(r), DOMAIN Scans(r)) # {}
  PROVE  LET F == FirmwarePackages(Scans(r), limit) IN
         \E n \in 1 .. limit : /\ DOMAIN F = 1 .. n
                               /\ \A i \in 1 .. n : F[i] \in [bucket : {"security", "boot"}, tokens : Nat]
<1> DEFINE scans == Scans(r)
           taken == Taken(scans, limit)
           once == {k \in taken : \A j \in taken : j < k => scans[j].title # scans[k].title}
           given == [k \in DOMAIN scans |-> FirmwarePackage(scans[k])]
<1>1. PICK m \in Nat : /\ DOMAIN scans = 1 .. m
                       /\ \A k \in 1 .. m : IsFiniteSet(scans[k].lines)
  BY Scanned
<1>2. FirmwarePackages(scans, limit) = InOrder(given, once) BY DEF FirmwarePackages
<1>3. Surfaces(scans, 1 .. m) # {} BY <1>1
<1> HIDE DEF scans
<1>4. taken # {}
  <2> DEFINE found == {k \in 1 .. m : scans[k].lines # {}}
  <2>1. found # {} BY <1>3 DEF Surfaces
  <2>2. found \in SUBSET Nat OBVIOUS
  <2>3. PICK k \in found : \A j \in found : k <= j BY <2>1, <2>2, Least
  <2>4. \A j \in 1 .. (k - 1) : scans[j].lines = {}
    <3> SUFFICES ASSUME NEW j \in 1 .. (k - 1), scans[j].lines # {} PROVE FALSE
      OBVIOUS
    <3>1. j \in found OBVIOUS
    <3> QED BY <2>3, <3>1
  <2>5. Surfaces(scans, 1 .. (k - 1)) = {} BY <2>4 DEF Surfaces
  <2>6. Cardinality(Surfaces(scans, 1 .. (k - 1))) < limit
    <3>1. Cardinality(Surfaces(scans, 1 .. (k - 1))) = 0 BY <2>5, FS_EmptySet
    <3> QED BY <3>1
  <2> QED BY <1>1, <2>6 DEF Taken
<1>5. taken \in SUBSET Nat
  <2>1. taken \subseteq DOMAIN scans BY DEF Taken
  <2> QED BY <1>1, <2>1
<1>6. once # {}
  <2>1. PICK k \in taken : \A j \in taken : k <= j BY <1>4, <1>5, Least
  <2>2. \A j \in taken : ~ (j < k)
    <3> TAKE j \in taken
    <3>1. j \in Nat /\ k \in Nat /\ k <= j BY <1>5, <2>1
    <3> QED BY <3>1
  <2> QED BY <2>2
<1>7. once \in SUBSET Nat /\ IsFiniteSet(once) /\ Cardinality(once) \in Nat /\ Cardinality(once) <= limit
  <2>1. once \in SUBSET Taken(scans, limit) OBVIOUS
  <2> HIDE DEF once, taken
  <2> QED BY <1>1, <2>1, FewTaken
<1>8. once \subseteq DOMAIN scans BY DEF Taken
<1>9. \A k \in once : given[k] \in [bucket : {"security", "boot"}, tokens : Nat]
  BY <1>8 DEF FirmwarePackage
<1> HIDE DEF once, given
<1>10. Cardinality(once) # 0 BY <1>6, <1>7, FS_EmptySet
<1>11. /\ DOMAIN InOrder(given, once) = 1 .. Cardinality(once)
       /\ \A n \in 1 .. Cardinality(once) : \E k \in once : InOrder(given, once)[n] = given[k]
  BY <1>7, RankedListing
<1>12. \A n \in 1 .. Cardinality(once) :
         InOrder(given, once)[n] \in [bucket : {"security", "boot"}, tokens : Nat]
  BY <1>9, <1>11
<1>13. Cardinality(once) \in 1 .. limit BY <1>7, <1>10
<1> QED BY <1>2, <1>11, <1>12, <1>13 DEF scans

-----------------------------------------------------------------------------
(* The plan that is synthesized.                                           *)

WellPlanned(v) ==
  /\ v \in Proposals
  /\ Len(v.packages) <= v.limit
  /\ \A i \in DOMAIN v.packages : v.firmware \/ v.packages[i].bucket \in v.buckets
  /\ DOMAIN v.packages = {} => v.buckets = {}

LEMMA NothingIsWell == WellPlanned(NothingPlanned)
BY DEF WellPlanned, NothingPlanned, Proposals

\* The tokens of a bucket are a number.
LEMMA PackageCosts ==
  ASSUME NEW b \in ToSet(Buckets), NEW tier
  PROVE  BucketTokens(b, tier) \in Nat
<1> DEFINE n == Max({1, RequiredOf[b]})
<1>1. RequiredOf[b] \in Nat BY DEF PlanningAssumption
<1>2. \E x \in {1, RequiredOf[b]} : \A y \in {1, RequiredOf[b]} : x >= y BY <1>1
<1>3. n \in {1, RequiredOf[b]} BY <1>2 DEF Max
<1>4. n \in Nat BY <1>1, <1>3
<1>5. BucketTokens(b, tier) = CASE tier = "MICRO" -> 4000 * n + 2000
                                [] tier = "SMALL" -> 6000 * n + 4000
                                [] OTHER -> 12000 * n + 8000
  BY DEF BucketTokens
<1> HIDE DEF n
<1>6. 4000 * n + 2000 \in Nat /\ 6000 * n + 4000 \in Nat /\ 12000 * n + 8000 \in Nat BY <1>4
<1> QED BY <1>5, <1>6

\* A plan has no more packages than its limit, for applicable buckets unless it is
\* one of firmware, and none only if no bucket is applicable.
LEMMA Synthesized ==
  ASSUME NEW r \in Codebase, NEW wish
  PROVE  WellPlanned(Synthesize(r, wish))
<1> DEFINE tier == TierOf(r)
           depth == DepthOf(wish, tier)
           limit == TaskLimit(tier, depth)
           buckets == Applicable(r, tier, depth)
           scans == Scans(r)
           firmware == Surfaces(scans, DOMAIN scans) # {}
           packages == IF firmware THEN FirmwarePackages(scans, limit)
                       ELSE BucketPackages(Bounded(buckets, limit), tier)
           mode == Recommendation(TotalTokens(r, tier, packages))
           questions == Questions(r, tier, scans)
<1>1. CASE Terminal(r) BY <1>1, NothingIsWell DEF Synthesize
<1>2. CASE ~ Terminal(r)
  <2>1. Synthesize(r, wish) =
          [packages |-> packages, buckets |-> buckets, limit |-> limit, mode |-> mode,
           firmware |-> firmware, questions |-> questions]
    BY <1>2 DEF Synthesize
  <2>2. limit \in Nat \ {0} BY DEF TaskLimit
  <2>3. buckets \in SUBSET ToSet(Buckets) BY DEF Applicable
  <2>4. mode \in {"AUTO_EXECUTE", "RECOMMEND_EXECUTION", "REQUIRE_REVIEW"} BY DEF Recommendation
  <2>5. questions \in SUBSET {"expand to parent", "build script"} BY DEF Questions
  <2>6. "security" \in ToSet(Buckets) /\ "boot" \in ToSet(Buckets)
    <3>1. 14 \in DOMAIN Buckets /\ 16 \in DOMAIN Buckets BY DEF Buckets
    <3>2. Buckets[14] = "security" /\ Buckets[16] = "boot" BY DEF Buckets
    <3> QED BY <3>1, <3>2 DEF ToSet
  <2> HIDE DEF tier, depth, limit, buckets, scans, mode, questions
  <2>7. \E n \in 0 .. limit :
          /\ DOMAIN packages = 1 .. n /\ packages = [i \in 1 .. n |-> packages[i]]
          /\ \A i \in 1 .. n : /\ packages[i] \in [bucket : ToSet(Buckets), tokens : Nat]
                               /\ firmware \/ packages[i].bucket \in buckets
          /\ buckets # {} => n # 0
    <3>1. CASE firmware
      <4>1. PICK n \in 1 .. limit :
              /\ DOMAIN FirmwarePackages(scans, limit) = 1 .. n
              /\ \A i \in 1 .. n : FirmwarePackages(scans, limit)[i] \in [bucket : {"security", "boot"}, tokens : Nat]
        BY <3>1, <2>2, Firmware DEF scans
      <4>2. FirmwarePackages(scans, limit) = [i \in 1 .. n |-> FirmwarePackages(scans, limit)[i]]
        BY <4>1 DEF FirmwarePackages, InOrder
      <4>3. \A i \in 1 .. n : FirmwarePackages(scans, limit)[i] \in [bucket : ToSet(Buckets), tokens : Nat]
        BY <4>1, <2>6
      <4>4. n \in 0 .. limit /\ n # 0 BY <2>2
      <4> QED BY <3>1, <4>1, <4>2, <4>3, <4>4
    <3>2. CASE ~ firmware
      <4> DEFINE B == Bounded(buckets, limit)
      <4>1. PICK n \in 0 .. limit : /\ DOMAIN B = 1 .. n
                                    /\ \A i \in 1 .. n : B[i] \in buckets
                                    /\ buckets # {} => n # 0
        BY <2>2, <2>3, Selection
      <4>2. packages = [i \in 1 .. n |-> [bucket |-> B[i], tokens |-> BucketTokens(B[i], tier)]]
        BY <3>2, <4>1 DEF BucketPackages
      <4>3. \A i \in 1 .. n : B[i] \in ToSet(Buckets) /\ BucketTokens(B[i], tier) \in Nat
        BY <2>3, <4>1, PackageCosts
      <4> HIDE DEF B, packages
      <4> QED BY <4>1, <4>2, <4>3
    <3> QED BY <3>1, <3>2
  <2> HIDE DEF packages, firmware
  <2>8. PICK n \in 0 .. limit :
          /\ DOMAIN packages = 1 .. n /\ packages = [i \in 1 .. n |-> packages[i]]
          /\ \A i \in 1 .. n : /\ packages[i] \in [bucket : ToSet(Buckets), tokens : Nat]
                               /\ firmware \/ packages[i].bucket \in buckets
          /\ buckets # {} => n # 0
    BY <2>7
  <2>9. packages \in Seq([bucket : ToSet(Buckets), tokens : Nat]) /\ Len(packages) = n
    <3> DEFINE P == [bucket : ToSet(Buckets), tokens : Nat]
    <3>1. n \in Nat BY <2>2
    <3>2. \A i \in 1 .. n : packages[i] \in P BY <2>8
    <3> HIDE DEF P
    <3>3. [i \in 1 .. n |-> packages[i]] \in Seq(P) /\ Len([i \in 1 .. n |-> packages[i]]) = n
      BY <3>1, <3>2
    <3>4. packages \in Seq(P) /\ Len(packages) = n BY <2>8, <3>3, Zenon
    <3> QED BY <3>4 DEF P
  <2>10. firmware \in BOOLEAN BY DEF firmware
  <2> HIDE DEF firmware
  <2>11. Synthesize(r, wish) \in Proposals
    <3>1. limit \in Nat BY <2>2
    <3>2. [packages |-> packages, buckets |-> buckets, limit |-> limit, mode |-> mode,
           firmware |-> firmware, questions |-> questions] \in Proposals
      BY <3>1, <2>3, <2>4, <2>5, <2>9, <2>10, Zenon DEF Proposals
    <3> QED BY <2>1, <3>2
  <2>12. DOMAIN packages = {} => buckets = {} BY <2>2, <2>8
  <2> QED BY <2>1, <2>2, <2>8, <2>9, <2>11, <2>12 DEF WellPlanned
<1> QED BY <1>1, <1>2

-----------------------------------------------------------------------------
(* What is stored of a plan, and what is released of it.                   *)

PackageStates == {"PROPOSED", "QUEUED", "HELD"}
DraftStates == {"ABSENT", "DRAFT", "ACTIVE", "REJECTED", "COMPLETED"}
Releases ==
  [times : 0 .. MaxApprovals, live : BOOLEAN, launched : BOOLEAN,
   wave : {"FULL", "RECOMMENDED"}, whole : BOOLEAN, packages : SUBSET Nat]

PlanTyped ==
  /\ proposal \in [DraftPlan -> Proposals]
  /\ planStatus \in [DraftPlan -> DraftStates]
  /\ package \in [DraftPlan -> Seq(PackageStates)]
  /\ scoped \in [DraftPlan -> BOOLEAN] /\ generating \in [DraftPlan -> BOOLEAN]
  /\ release \in [DraftPlan -> Releases]

\* A release of a whole plan that was launched is the one planned.
AsPlanned(v, rel) ==
  rel.whole /\ rel.launched =>
    /\ rel.wave = "FULL" => rel.packages = DOMAIN v.packages
    /\ Cardinality(rel.packages) <= v.limit
    /\ \A i \in rel.packages : v.firmware \/ v.packages[i].bucket \in v.buckets
    /\ rel.wave = "RECOMMENDED" /\ (\E i \in rel.packages : PackageCost(v.packages[i].tokens) = "EXPENSIVE")
         => \A i \in DOMAIN v.packages : PackageCost(v.packages[i].tokens) = "EXPENSIVE"
    /\ rel.packages = {} => v.buckets = {}

\* No more packages are stored than planned, all of them before the objectives are,
\* and nothing is before the plan is.
StoredInOrder(p) ==
  /\ WellPlanned(proposal[p])
  /\ Len(package[p]) <= Len(proposal[p].packages)
  /\ scoped[p] => Len(package[p]) = Len(proposal[p].packages)
  /\ planStatus[p] = "ABSENT" =>
       package[p] = << >> /\ ~ scoped[p] /\ ~ generating[p] /\ release[p] = NoRelease
  /\ release[p].packages \subseteq DOMAIN package[p]

PlanInv ==
  PlanTyped /\ \A p \in DraftPlan : StoredInOrder(p) /\ AsPlanned(proposal[p], release[p])

\* Nothing is lost of a wave: it takes stored packages, and some if any is stored.
LEMMA WaveIsSome ==
  ASSUME PlanTyped, NEW p \in DraftPlan, NEW wave
  PROVE  /\ Wave(p, wave) \subseteq DOMAIN package[p]
         /\ DOMAIN package[p] # {} => Wave(p, wave) # {}
<1>1. package[p] \in Seq(PackageStates) BY DEF PlanTyped
<1>2. Len(package[p]) \in Nat /\ DOMAIN package[p] = 1 .. Len(package[p]) BY <1>1
<1>3. Affordable(p) \subseteq DOMAIN package[p] BY DEF Affordable
<1>4. IsFiniteSet(DOMAIN package[p])
  <2>1. IsFiniteSet(1 .. Len(package[p])) BY <1>2, FS_Interval
  <2> QED BY <1>2, <2>1
<1>5. Affordable(p) \in SUBSET Nat /\ IsFiniteSet(Affordable(p))
  <2>1. Affordable(p) \in SUBSET Nat BY <1>2, <1>3
  <2> QED BY <1>3, <1>4, <2>1, FS_Subset
<1>6. Affordable(p) # {} => {i \in Affordable(p) : Rank(i, Affordable(p)) < 3} # {}
  <2>1. 3 \in Nat \ {0} OBVIOUS
  <2> QED BY <1>5, <2>1, FirstRanks
<1>7. DOMAIN package[p] # {} => DOMAIN package[p] \cap 1 .. 2 # {} BY <1>2
<1>8. Recommended3(p) \subseteq DOMAIN package[p] BY <1>3 DEF Recommended3
<1>9. DOMAIN package[p] # {} => Recommended3(p) # {} BY <1>6, <1>7 DEF Recommended3
<1> QED BY <1>8, <1>9 DEF Wave

\* A wave of a plan stored in full is as planned.
LEMMA WaveAsPlanned ==
  ASSUME PlanTyped, NEW p \in DraftPlan, StoredInOrder(p), scoped[p],
         NEW wave \in {"FULL", "RECOMMENDED"}, NEW rel,
         rel.wave = wave, rel.packages = Wave(p, wave)
  PROVE  AsPlanned(proposal[p], rel)
<1> DEFINE v == proposal[p]
           planned == v.packages
<1>1. /\ v \in Proposals /\ Len(planned) <= v.limit
      /\ \A i \in DOMAIN planned : v.firmware \/ planned[i].bucket \in v.buckets
      /\ DOMAIN planned = {} => v.buckets = {}
  BY DEF StoredInOrder, WellPlanned
<1>2. planned \in Seq([bucket : ToSet(Buckets), tokens : Nat]) /\ v.limit \in Nat
  BY <1>1 DEF Proposals
<1>3. package[p] \in Seq(PackageStates) BY DEF PlanTyped
<1>4. Len(package[p]) = Len(planned) BY DEF StoredInOrder
<1> HIDE DEF v
<1>5. /\ Len(planned) \in Nat /\ DOMAIN planned = 1 .. Len(planned)
      /\ DOMAIN package[p] = 1 .. Len(planned)
  BY <1>2, <1>3, <1>4
<1>6. rel.packages \subseteq DOMAIN planned /\ (DOMAIN planned # {} => rel.packages # {})
  BY <1>5, WaveIsSome
<1>7. wave = "FULL" => rel.packages = DOMAIN planned BY <1>5 DEF Wave
<1>8. Cardinality(rel.packages) <= v.limit
  <2>1. IsFiniteSet(1 .. Len(planned)) /\ Cardinality(1 .. Len(planned)) = Len(planned)
    BY <1>5, FS_Interval
  <2>2. /\ Cardinality(rel.packages) \in Nat
        /\ Cardinality(rel.packages) <= Len(planned)
    BY <1>5, <1>6, <2>1, FS_Subset, FS_CardinalityType
  <2> QED BY <1>1, <1>2, <1>5, <2>2 DEF v
<1>9. \A i \in rel.packages : v.firmware \/ planned[i].bucket \in v.buckets
  BY <1>1, <1>6 DEF v
<1>10. rel.packages = {} => v.buckets = {}
  <2>1. rel.packages = {} => DOMAIN planned = {} BY <1>6
  <2> QED BY <1>1, <2>1 DEF v
<1>11. ASSUME wave = "RECOMMENDED", NEW i \in rel.packages, PackageCost(planned[i].tokens) = "EXPENSIVE"
       PROVE  \A k \in DOMAIN planned : PackageCost(planned[k].tokens) = "EXPENSIVE"
  <2>1. rel.packages = Recommended3(p) BY <1>11 DEF Wave
  <2>2. Affordable(p) = {k \in DOMAIN planned : PackageCost(planned[k].tokens) # "EXPENSIVE"}
    BY <1>5 DEF Affordable, v
  <2>3. Affordable(p) = {} BY <1>11, <2>1, <2>2 DEF Recommended3
  <2> QED BY <2>2, <2>3
<1> QED BY <1>7, <1>8, <1>9, <1>10, <1>11 DEF AsPlanned, v

-----------------------------------------------------------------------------
(* The steps.                                                              *)

LEMMA PlanInitially == PlanningInit => PlanInv
<1> SUFFICES ASSUME PlanningInit PROVE PlanInv
  OBVIOUS
<1>1. NothingPlanned \in Proposals /\ WellPlanned(NothingPlanned) BY NothingIsWell DEF WellPlanned
<1>2. NoRelease \in Releases BY DEF NoRelease, Releases, PlanningAssumption
<1>3. << >> \in Seq(PackageStates) OBVIOUS
<1>4. PlanTyped BY <1>1, <1>2, <1>3 DEF PlanningInit, PlanTyped, DraftStates
<1>5. ASSUME NEW p \in DraftPlan PROVE StoredInOrder(p) /\ AsPlanned(proposal[p], release[p])
  <2>1. /\ proposal[p] = NothingPlanned /\ package[p] = << >> /\ ~ scoped[p] /\ ~ generating[p]
        /\ release[p] = NoRelease
    BY DEF PlanningInit
  <2>2. NoRelease.packages = {} /\ ~ NoRelease.whole BY DEF NoRelease
  <2>3. Len(NothingPlanned.packages) = 0 BY DEF NothingPlanned
  <2>4. StoredInOrder(p) BY <1>1, <2>1, <2>2, <2>3 DEF StoredInOrder
  <2> QED BY <2>1, <2>2, <2>4 DEF AsPlanned
<1> QED BY <1>4, <1>5 DEF PlanInv

\* What is said of a plan stays true if nothing of it changes.
LEMMA PlanUntouched ==
  ASSUME NEW p, StoredInOrder(p), AsPlanned(proposal[p], release[p]),
         proposal'[p] = proposal[p], planStatus'[p] = planStatus[p], package'[p] = package[p],
         scoped'[p] = scoped[p], generating'[p] = generating[p], release'[p] = release[p]
  PROVE  StoredInOrder(p)' /\ AsPlanned(proposal[p], release[p])'
BY DEF StoredInOrder, AsPlanned

LEMMA GenerateStep ==
  ASSUME PlanInv, NEW p \in DraftPlan, NEW r \in Codebase, NEW w \in Wish, Generate(p, r, w)
  PROVE  PlanInv'
<1>1. WellPlanned(Synthesize(r, w)) BY Synthesized
<1>2. PlanTyped'
  BY <1>1 DEF PlanInv, PlanTyped, Generate, DraftStates, WellPlanned
<1>3. ASSUME NEW q \in DraftPlan PROVE StoredInOrder(q)' /\ AsPlanned(proposal[q], release[q])'
  <2>1. CASE q # p BY <2>1, PlanUntouched DEF PlanInv, PlanTyped, Generate
  <2>2. CASE q = p
    <3>1. proposal'[p] = Synthesize(r, w) BY DEF PlanInv, PlanTyped, Generate
    <3>2. /\ package'[p] = << >> /\ ~ scoped'[p] /\ release'[p] = NoRelease
          /\ planStatus'[p] # "ABSENT"
      BY DEF PlanInv, PlanTyped, Generate, StoredInOrder
    <3>3. NoRelease.packages = {} /\ ~ NoRelease.whole BY DEF NoRelease
    <3>4. Synthesize(r, w).packages \in Seq([bucket : ToSet(Buckets), tokens : Nat])
      BY <1>1 DEF WellPlanned, Proposals
    <3>5. 0 <= Len(Synthesize(r, w).packages) BY <3>4
    <3> QED BY <1>1, <2>2, <3>1, <3>2, <3>3, <3>5 DEF StoredInOrder, AsPlanned
  <2> QED BY <2>1, <2>2
<1> QED BY <1>2, <1>3 DEF PlanInv

LEMMA StorageStep ==
  ASSUME PlanInv, NEW p \in DraftPlan,
         SavePackage(p) \/ StoreObjectives(p) \/ LoseGeneration(p)
  PROVE  PlanInv'
<1>1. package[p] \in Seq(PackageStates) /\ "PROPOSED" \in PackageStates
  BY DEF PlanInv, PlanTyped, PackageStates
<1>2. proposal[p].packages \in Seq([bucket : ToSet(Buckets), tokens : Nat])
  BY DEF PlanInv, StoredInOrder, WellPlanned, Proposals
<1>3. PlanTyped'
  <2>1. Append(package[p], "PROPOSED") \in Seq(PackageStates) BY <1>1
  <2>2. CASE SavePackage(p) BY <2>1, <2>2 DEF PlanInv, PlanTyped, SavePackage
  <2>3. CASE StoreObjectives(p) BY <2>3 DEF PlanInv, PlanTyped, StoreObjectives
  <2>4. CASE LoseGeneration(p) BY <2>4 DEF PlanInv, PlanTyped, LoseGeneration
  <2> QED BY <2>2, <2>3, <2>4
<1>4. ASSUME NEW q \in DraftPlan PROVE StoredInOrder(q)' /\ AsPlanned(proposal[q], release[q])'
  <2>1. CASE q # p
    BY <2>1, PlanUntouched
    DEF PlanInv, PlanTyped, SavePackage, StoreObjectives, LoseGeneration
  <2>2. CASE q = p /\ SavePackage(p)
    <3>1. /\ generating[p] /\ Len(package[p]) < Len(proposal[p].packages)
          /\ package'[p] = Append(package[p], "PROPOSED")
          /\ UNCHANGED <<proposal, planStatus, scoped, generating, release>>
      BY <2>2 DEF PlanInv, PlanTyped, SavePackage
    <3>2. /\ Len(package'[p]) = Len(package[p]) + 1
          /\ DOMAIN package[p] \subseteq DOMAIN package'[p]
      BY <1>1, <3>1
    <3>3. Len(package[p]) \in Nat /\ Len(proposal[p].packages) \in Nat BY <1>1, <1>2
    <3>4. StoredInOrder(p) /\ AsPlanned(proposal[p], release[p]) BY DEF PlanInv
    <3>5. ~ scoped[p] BY <3>1, <3>3, <3>4 DEF StoredInOrder
    <3>6. StoredInOrder(p)'
      BY <3>1, <3>2, <3>3, <3>4, <3>5 DEF StoredInOrder
    <3> QED BY <2>2, <3>1, <3>4, <3>6
  <2>3. CASE q = p /\ StoreObjectives(p)
    BY <2>3, ZenonT(60) DEF PlanInv, PlanTyped, StoreObjectives, PackagesStored, StoredInOrder, AsPlanned
  <2>4. CASE q = p /\ LoseGeneration(p)
    BY <2>4, ZenonT(60) DEF PlanInv, PlanTyped, LoseGeneration, StoredInOrder, AsPlanned
  <2> QED BY <2>1, <2>2, <2>3, <2>4
<1> QED BY <1>3, <1>4 DEF PlanInv

LEMMA ApproveStep ==
  ASSUME PlanInv, NEW p \in DraftPlan, NEW wave \in {"FULL", "RECOMMENDED"}, ApproveDraft(p, wave)
  PROVE  PlanInv'
<1> DEFINE taken == IF Readable(package[p]) THEN Wave(p, wave) ELSE {}
           status == [i \in DOMAIN package[p] |-> IF i \in taken THEN "QUEUED" ELSE "HELD"]
<1>1. /\ PlanTyped /\ StoredInOrder(p) /\ AsPlanned(proposal[p], release[p])
      /\ package[p] \in Seq(PackageStates)
  BY DEF PlanInv, PlanTyped
<1>2. Len(package[p]) \in Nat /\ DOMAIN package[p] = 1 .. Len(package[p]) BY <1>1
<1>3. status \in Seq(PackageStates) /\ Len(status) = Len(package[p])
  <2>1. status = [i \in 1 .. Len(package[p]) |-> IF i \in taken THEN "QUEUED" ELSE "HELD"]
    BY <1>2
  <2>2. \A i \in 1 .. Len(package[p]) : (IF i \in taken THEN "QUEUED" ELSE "HELD") \in PackageStates
    BY DEF PackageStates
  <2> HIDE DEF taken, status
  <2> QED BY <1>2, <2>1, <2>2
<1>4. taken \subseteq DOMAIN package[p] BY <1>1, WaveIsSome
<1>5. taken \subseteq Nat BY <1>2, <1>4
<1>6. /\ planStatus[p] # "ABSENT" /\ release[p].times < MaxApprovals
      /\ planStatus' = [planStatus EXCEPT ![p] = "ACTIVE"]
      /\ package' = [package EXCEPT ![p] = IF Readable(package[p]) THEN status ELSE package[p]]
      /\ release' = [release EXCEPT ![p] =
           [times |-> release[p].times + 1, live |-> TRUE, launched |-> Readable(package'[p]),
            wave |-> wave, whole |-> scoped[p], packages |-> taken]]
      /\ UNCHANGED <<proposal, scoped, generating>>
  BY DEF ApproveDraft
<1> DEFINE rel == [times |-> release[p].times + 1, live |-> TRUE, launched |-> Readable(package'[p]),
                   wave |-> wave, whole |-> scoped[p], packages |-> taken]
<1> HIDE DEF taken, status
<1>7. rel \in Releases
  <2>1. release[p].times \in 0 .. MaxApprovals /\ scoped[p] \in BOOLEAN BY <1>1 DEF PlanTyped, Releases
  <2>2. release[p].times + 1 \in 0 .. MaxApprovals BY <1>6, <2>1 DEF PlanningAssumption
  <2>3. Readable(package'[p]) \in BOOLEAN BY DEF Readable
  <2> QED BY <1>5, <2>1, <2>2, <2>3 DEF Releases
<1>8. package'[p] \in {status, package[p]} /\ release'[p] = rel
  BY <1>1, <1>6 DEF PlanTyped
<1>9. PlanTyped'
  <2>1. package' \in [DraftPlan -> Seq(PackageStates)] BY <1>1, <1>3, <1>6 DEF PlanTyped
  <2>2. release' \in [DraftPlan -> Releases] BY <1>1, <1>6, <1>7 DEF PlanTyped
  <2>3. planStatus' \in [DraftPlan -> DraftStates] BY <1>1, <1>6 DEF PlanTyped, DraftStates
  <2> QED BY <1>1, <1>6, <2>1, <2>2, <2>3 DEF PlanTyped
<1>10. StoredInOrder(p)'
  <2>1. planStatus'[p] = "ACTIVE" BY <1>1, <1>6 DEF PlanTyped
  <2>2. DOMAIN package'[p] = DOMAIN package[p] /\ Len(package'[p]) = Len(package[p])
    BY <1>2, <1>3, <1>8
  <2>3. rel.packages = taken OBVIOUS
  <2> QED BY <1>1, <1>4, <1>6, <1>8, <2>1, <2>2, <2>3 DEF StoredInOrder
<1>11. AsPlanned(proposal[p], release[p])'
  <2>1. CASE ~ scoped[p]
    <3>1. ~ rel.whole BY <2>1
    <3> QED BY <1>8, <3>1 DEF AsPlanned
  <2>2. CASE ~ Readable(package[p])
    <3>1. package'[p] = package[p] BY <1>1, <1>6, <2>2 DEF PlanTyped
    <3>2. ~ rel.launched BY <2>2, <3>1
    <3> QED BY <1>8, <3>2 DEF AsPlanned
  <2>3. CASE scoped[p] /\ Readable(package[p])
    <3>1. rel.wave = wave /\ rel.packages = Wave(p, wave) BY <2>3 DEF taken
    <3>2. AsPlanned(proposal[p], rel) BY <1>1, <2>3, <3>1, WaveAsPlanned
    <3> QED BY <1>6, <1>8, <3>2
  <2> QED BY <2>1, <2>2, <2>3
<1>12. ASSUME NEW q \in DraftPlan, q # p PROVE StoredInOrder(q)' /\ AsPlanned(proposal[q], release[q])'
  BY <1>6, <1>12, PlanUntouched DEF PlanInv, PlanTyped
<1> QED BY <1>9, <1>10, <1>11, <1>12 DEF PlanInv

LEMMA EndStep ==
  ASSUME PlanInv, NEW p \in DraftPlan, FinishRelease(p) \/ RejectPlan(p)
  PROVE  PlanInv'
<1>1. PlanTyped'
  <2>1. PlanTyped /\ release[p] \in Releases BY DEF PlanInv, PlanTyped
  <2>2. [release[p] EXCEPT !.live = FALSE] \in Releases BY <2>1 DEF Releases
  <2>3. release' \in [DraftPlan -> Releases] BY <2>1, <2>2 DEF PlanTyped, FinishRelease, RejectPlan
  <2> QED BY <2>1, <2>3 DEF PlanTyped, FinishRelease, RejectPlan, DraftStates
<1>2. ASSUME NEW q \in DraftPlan PROVE StoredInOrder(q)' /\ AsPlanned(proposal[q], release[q])'
  <2>1. CASE q # p BY <2>1, PlanUntouched DEF PlanInv, PlanTyped, FinishRelease, RejectPlan
  <2>2. CASE q = p
    <3>1. /\ proposal'[p] = proposal[p] /\ package'[p] = package[p] /\ scoped'[p] = scoped[p]
          /\ planStatus'[p] # "ABSENT"
      BY DEF PlanInv, PlanTyped, FinishRelease, RejectPlan
    <3>2. /\ release'[p].wave = release[p].wave /\ release'[p].packages = release[p].packages
          /\ release'[p].whole = release[p].whole /\ release'[p].launched = release[p].launched
      BY DEF PlanInv, PlanTyped, FinishRelease, RejectPlan, Releases
    <3>3. StoredInOrder(p) /\ AsPlanned(proposal[p], release[p]) BY DEF PlanInv
    <3>4. StoredInOrder(p)' BY <3>1, <3>2, <3>3 DEF StoredInOrder
    <3>5. AsPlanned(proposal[p], release[p])' BY <3>1, <3>2, <3>3 DEF AsPlanned
    <3> QED BY <2>2, <3>4, <3>5
  <2> QED BY <2>1, <2>2
<1> QED BY <1>1, <1>2 DEF PlanInv

THEOREM PlanInvariant == PlanningSpec => []PlanInv
<1>1. PlanInv /\ [PlanningNext]_planningVars => PlanInv'
  <2> SUFFICES ASSUME PlanInv, [PlanningNext]_planningVars PROVE PlanInv'
    OBVIOUS
  <2>1. CASE UNCHANGED planningVars
    BY <2>1, ZenonT(60) DEF planningVars, PlanInv, PlanTyped, StoredInOrder, AsPlanned
  <2>2. CASE PlanningNext
    BY <2>2, GenerateStep, StorageStep, ApproveStep, EndStep DEF PlanningNext
  <2> QED BY <2>1, <2>2
<1> QED BY <1>1, PlanInitially, PTL DEF PlanningSpec

\* "Released As Planned": the packages of a plan are stored one by one and can be
\* approved at any time, but once its objectives are stored an approval releases what
\* was planned: all of it in wave FULL, never more packages than the hard limit of the
\* tier, each, outside firmware, for a bucket the plan calls applicable, an expensive
\* one in wave RECOMMENDED only if all are, and nothing only if nothing is applicable;
\* for any number of plans and approvals and every codebase whose sources are files
\* of lines (supervisor.py, orchestrator.py:activate_verification_plan).
THEOREM PlansAreKept == PlanningSpec => [](PlanningTypeOK /\ ReleasedAsPlanned)
<1>1. PlanInv => ReleasedAsPlanned
  <2> SUFFICES ASSUME PlanInv, NEW p \in DraftPlan PROVE AsPlanned(proposal[p], release[p])
    BY DEF ReleasedAsPlanned, AsPlanned
  <2> QED BY DEF PlanInv
<1>2. PlanInv => PlanningTypeOK
  BY DEF PlanInv, PlanTyped, StoredInOrder, PlanningTypeOK, PackageStates, DraftStates, Releases
<1> QED BY <1>1, <1>2, PlanInvariant, PTL
=============================================================================
