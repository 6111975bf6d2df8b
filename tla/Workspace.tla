------------------------------ MODULE Workspace ------------------------------
(***************************************************************************)
(* Projects, the one that is active, and the target repository             *)
(* (history/project_repository.py, TargetRepositoryRepository,             *)
(* api/routers/projects.py, select_repository of                           *)
(* api/routers/repository.py).  The handlers run on threads, but for       *)
(* select_repository, which has the event loop to itself up to its last    *)
(* statement; an action is one transaction of a handler, with the look at  *)
(* the disk before it.                                                     *)
(***************************************************************************)
EXTENDS Integers, Sequences, FiniteSets, SequencesExt

CONSTANTS
  Project,       \* ids of projects
  DefaultProject,\* the projects of the seed, the first of them active
  Directory,     \* repository paths
  Allowed,       \* those in the configured roots, not named as build output
  Temporary,     \* those under /tmp
  Disk,          \* what the directories may hold at first
  Client,        \* threads that serve requests
  NoProject,
  NoDirectory

\* A directory: whether it is there and can be read, its files of some kinds.
Contents == [there : BOOLEAN, readable : BOOLEAN,
             rtl : Nat, rust : Nat, c : Nat, other : Nat]

ASSUME WorkspaceAssumption ==
  /\ DefaultProject \in Seq(Project) /\ DefaultProject # << >> /\ IsInjective(DefaultProject)
  /\ NoProject \notin Project /\ NoDirectory \notin Directory
  /\ Allowed \subseteq Directory /\ Temporary \subseteq Directory
  /\ Disk # {} /\ Disk \subseteq [Directory -> Contents]

VARIABLES
  project,    \* projects: id -> status, is_active, target_directory
  recent,     \* ids by updated_at, the latest first
  disk,       \* what a directory holds
  target,     \* target_repositories: path -> is_current
  client      \* a thread's handler: the id it works on, the status it read, and
              \* the directory it read or was given

wsVars == <<project, recent, disk, target, client>>

ProjectStatuses == {"INITIALIZED", "READY", "ARCHIVED"}
Stored == DOMAIN project
Idle == [at |-> "none", id |-> NoProject, status |-> "READY", dir |-> NoDirectory]
Places == {"none", "seed", "list", "activate", "archived", "write", "sync", "retarget"}

\* Every variable has its type.
WsTypeOK ==
  /\ Stored \subseteq Project
  /\ \A p \in Stored : /\ project[p].status \in ProjectStatuses
                       /\ project[p].active \in BOOLEAN
                       /\ project[p].dir \in Directory
  /\ ToSet(recent) = Stored /\ IsInjective(recent)
  /\ disk \in [Directory -> Contents]
  /\ DOMAIN target \subseteq Directory /\ \A d \in DOMAIN target : target[d] \in BOOLEAN
  /\ client \in [Client -> [at : Places, id : Project \cup {NoProject},
                          status : ProjectStatuses, dir : Directory \cup {NoDirectory}]]

WsInit ==
  /\ project = << >> /\ recent = << >> /\ target = << >>
  /\ disk \in Disk
  /\ client = [w \in Client |-> Idle]

-----------------------------------------------------------------------------
(* Statements.                                                             *)

Goto(w, at, id) == client' = [client EXCEPT ![w].at = at, ![w].id = id]
Done(w) == client' = [client EXCEPT ![w] = Idle]

\* Mutant: the old place of the project is kept.
TouchAgain(p) == recent' = <<p>> \o recent

\* A row that is written to moves to the front.
Touch(p) ==
  LET i == CHOOSE j \in DOMAIN recent : recent[j] = p IN
  recent' = [j \in DOMAIN recent |->
               IF j = 1 THEN p ELSE IF j > i THEN recent[j] ELSE recent[j - 1]]

Live == {p \in Stored : project[p].status # "ARCHIVED"}
Active == {p \in Stored : project[p].active}

\* The first of a set of projects in the order of list_projects.
First(ps) == recent[CHOOSE i \in DOMAIN recent :
                      recent[i] \in ps /\ \A j \in 1..(i - 1) : recent[j] \notin ps]
Listed == IF Live \cap Active # {} THEN First(Live \cap Active) ELSE First(Live)

\* Mutant: the other projects are not deactivated.
SetActiveToo(p) ==
  /\ project' = [q \in Stored |-> [project[q] EXCEPT !.active = @ \/ q = p]]
  /\ IF p \in Stored THEN Touch(p) ELSE UNCHANGED recent

\* set_active_project: an id that is not there leaves no project active.
SetActive(p) ==
  /\ project' = [q \in Stored |-> [project[q] EXCEPT !.active = (q = p)]]
  /\ IF p \in Stored THEN Touch(p) ELSE UNCHANGED recent

-----------------------------------------------------------------------------
(* ProjectRepository(): every handler builds one, and an empty table is    *)
(* filled.  The count is read before the transaction.                      *)

CountProjects(w) ==
  /\ client[w] = Idle /\ Stored = {}
  /\ Goto(w, "seed", NoProject)
  /\ UNCHANGED <<project, recent, disk, target>>

\* A second seed hits the keys of the first, and the handler fails.
SeedDefaults(w) ==
  /\ client[w].at = "seed"
  /\ IF ToSet(DefaultProject) \cap Stored # {} THEN UNCHANGED <<project, recent>>
     ELSE \E d \in Directory :
            /\ project' = [p \in ToSet(DefaultProject) |->
                 [status |-> IF p = DefaultProject[1] THEN "READY" ELSE "INITIALIZED",
                  active |-> p = DefaultProject[1], dir |-> d]]
            /\ recent' = DefaultProject
  /\ Done(w)
  /\ UNCHANGED <<disk, target>>

\* Handlers begin on a table that has been filled.
Ready(w) == client[w] = Idle /\ Stored # {}

-----------------------------------------------------------------------------
(* _inspect_directory_deterministic makes the directory that is not there, *)
(* and under /tmp two files in it, unless it may not.                      *)

Fresh(d) ==
  [there |-> TRUE, readable |-> TRUE, rtl |-> 0, rust |-> 0,
   c |-> IF d \in Temporary THEN 1 ELSE 0, other |-> IF d \in Temporary THEN 1 ELSE 0]
Inspect(d) ==
  \/ disk' = IF disk[d].there THEN disk ELSE [disk EXCEPT ![d] = Fresh(d)]
  \/ UNCHANGED disk

\* is_eda_soc: whatever else a directory is called, RTL makes it one.
IsSoc(k) == k.readable /\ k.rtl > 0

CreateProject(w, p, d) ==
  /\ Ready(w) /\ p \notin Stored
  /\ Inspect(d)
  /\ project' = [q \in Stored \cup {p} |->
       IF q = p THEN [status |-> IF IsSoc(disk'[d]) THEN "READY" ELSE "INITIALIZED",
                      active |-> TRUE, dir |-> d]
       ELSE [project[q] EXCEPT !.active = FALSE]]
  /\ recent' = <<p>> \o recent
  /\ UNCHANGED <<target, client>>

\* get_project_details, get_project_manifest: reading a project makes its
\* directory too.
ViewProject(w, p) ==
  /\ Ready(w) /\ p \in Stored
  /\ Inspect(project[p].dir)
  /\ UNCHANGED <<project, recent, target, client>>

\* activate_project: archived projects and ids of no project too.
ActivateProject(w, p) ==
  /\ Ready(w)
  /\ SetActive(p)
  /\ UNCHANGED <<disk, target, client>>

\* get_active_project, its SELECT; with no active project, the list it takes
\* the first of.
GetActive(w) ==
  /\ Ready(w) /\ Live \cap Active = {}
  /\ Goto(w, "list", NoProject)
  /\ UNCHANGED <<project, recent, disk, target>>

\* archive_project lists once more when the first list is empty, which is the
\* same as listing later.
ListProjects(w) ==
  /\ client[w].at = "list"
  /\ IF Live = {} THEN Done(w) ELSE Goto(w, "activate", Listed)
  /\ UNCHANGED <<project, recent, disk, target>>

ActivateListed(w) ==
  /\ client[w].at = "activate"
  /\ SetActive(client[w].id)
  /\ IF client[w].dir = NoDirectory THEN Done(w) ELSE Goto(w, "retarget", client[w].id)
  /\ UNCHANGED <<disk, target>>

\* archive_project, and its look for another active project.
ArchiveProject(w, p) ==
  /\ Ready(w) /\ p \in Stored
  /\ project' = [project EXCEPT ![p].status = "ARCHIVED", ![p].active = FALSE]
  /\ Touch(p)
  /\ Goto(w, "archived", NoProject)
  /\ UNCHANGED <<disk, target>>

AfterArchive(w) ==
  /\ client[w].at = "archived"
  /\ IF Live \cap Active # {} THEN Done(w) ELSE Goto(w, "list", NoProject)
  /\ UNCHANGED <<project, recent, disk, target>>

\* update_project writes back the status it read, and the directory it read or
\* the parent of it (manage_project_scope).
ReadProject(w, p) ==
  /\ Ready(w) /\ p \in Stored
  /\ client' = [client EXCEPT ![w] = [at |-> "write", id |-> p,
                                      status |-> project[p].status, dir |-> project[p].dir]]
  /\ UNCHANGED <<project, recent, disk, target>>

WriteProject(w) ==
  LET p == client[w].id IN
  /\ client[w].at = "write"
  /\ \E d \in {client[w].dir} \cup {e \in Directory : disk[e].there} :
       project' = [project EXCEPT ![p].status = client[w].status, ![p].dir = d]
  /\ Touch(p)
  /\ Done(w)
  /\ UNCHANGED <<disk, target>>

\* _validate_repo_path.
Selectable(d) == d \in Allowed /\ disk[d].there /\ disk[d].readable

\* TargetRepositoryRepository.save: no other repository stays current.
MakeCurrent(d) == target' = [e \in DOMAIN target \cup {d} |-> e = d]

\* select_repository: the repository becomes current, then the directory of
\* the project found active is set to it.
SelectRepository(w, d) ==
  /\ Ready(w) /\ Selectable(d)
  /\ \A v \in Client : client[v].dir = NoDirectory \/ client[v].at = "write"
  /\ MakeCurrent(d)
  /\ client' = [client EXCEPT ![w].at = "sync", ![w].dir = d]
  /\ UNCHANGED <<project, recent, disk>>

FindActive(w) ==
  /\ client[w].at = "sync"
  /\ IF Live \cap Active = {} THEN Goto(w, "list", NoProject)
     ELSE Goto(w, "retarget", First(Live \cap Active))
  /\ UNCHANGED <<project, recent, disk, target>>

Retarget(w) ==
  LET p == client[w].id IN
  /\ client[w].at = "retarget"
  /\ project' = [project EXCEPT ![p].dir = client[w].dir]
  /\ Touch(p)
  /\ Done(w)
  /\ UNCHANGED <<disk, target>>

WsNext ==
  \E w \in Client :
    \/ CountProjects(w) \/ SeedDefaults(w)
    \/ GetActive(w) \/ ListProjects(w) \/ ActivateListed(w) \/ AfterArchive(w)
    \/ WriteProject(w) \/ FindActive(w) \/ Retarget(w)
    \/ \E d \in Directory : SelectRepository(w, d)
    \/ \E p \in Project :
         \/ ActivateProject(w, p) \/ ArchiveProject(w, p) \/ ReadProject(w, p)
         \/ ViewProject(w, p)
         \/ \E d \in Directory : CreateProject(w, p, d)

WsSpec == WsInit /\ [][WsNext]_wsVars

-----------------------------------------------------------------------------
(* Properties.                                                             *)

\* At most one project is active and at most one repository current, however
\* the handlers interleave and whatever was seeded, archived or written back
\* from a stale copy meanwhile; and what was selected can be analyzed, although
\* projects, of which one may be its owner, need no directory at all.
OneChosen ==
  /\ \A p, q \in Active : p = q
  /\ \A d, e \in DOMAIN target : target[d] /\ target[e] => d = e
  /\ \A d \in DOMAIN target : Selectable(d)
=============================================================================
