----------------------------- MODULE Workbench ------------------------------
(***************************************************************************)
(* The attempts at tasks: start_analysis (api/routers/analysis.py), the    *)
(* tasks an analyst adds, instructions and re-runs (api/routers/tasks.py), *)
(* the chat of a task (api/routers/chat.py), and create_user_task and      *)
(* execute_retry_attempt of the orchestrator.                              *)
(*                                                                         *)
(* What is not in the orchestrator runs on the event loop and does not     *)
(* await between its transactions; the orchestrator's two run on threads   *)
(* of their own.  No transaction holds the database while it reads.        *)
(* Nothing executes these attempts.  Roles, agents and their policy, and   *)
(* the target a task names are left out.                                   *)
(***************************************************************************)
EXTENDS Integers, Sequences, FiniteSets

CONSTANTS
  Job,       \* tasks: of analysis units and of analysts
  Retrier,   \* threads that retry tasks
  MaxTries,  \* bound: no handler begins on a task with as many attempts or
             \* instructions
  NoJob

ASSUME WorkbenchAssumption == MaxTries \in Nat /\ NoJob \notin Job

VARIABLES
  analysis,      \* runs: the state of the run
  jobs,          \* tasks there are
  tries,         \* task_attempts of a task, in order of insertion
  current,       \* tasks.current_attempt; 0 while there is no task
  instructions,  \* number of analyst_instructions of a task
  acks,          \* chat_messages: attempt numbers that were acknowledged
  tools,         \* number of tool_executions of a task
  desk,          \* the handler on the event loop
  retrier        \* a retry between its reads and its transaction

wbVars == <<analysis, jobs, tries, current, instructions, acks, tools, desk, retrier>>

Orders == {"none", "analysis", "instruct", "rerun", "chat"}
DeskSteps == {"none", "unit", "list", "count", "insert", "chat", "tool"}
\* An attempt: number, position of its parent, instruction (0 for none), and
\* whether create_attempt made it, which derives its id from the number.
Tries == [number : Nat, parent : Nat, told : Nat, derived : BOOLEAN]
FreeDesk == [op |-> "none", at |-> "none", job |-> NoJob, told |-> 0, parent |-> 0, number |-> 0]
NoRetry == [job |-> NoJob, parent |-> 0, number |-> 0]

\* Every variable has its type.
WbTypeOK ==
  /\ analysis \in {"ABSENT", "COMPLETED", "RUNNING"}
  /\ jobs \subseteq Job
  /\ tries \in [Job -> Seq(Tries)]
  /\ current \in [Job -> Nat] /\ instructions \in [Job -> Nat] /\ tools \in [Job -> Nat]
  /\ acks \in [Job -> SUBSET Nat]
  /\ desk \in [op : Orders, at : DeskSteps, job : Job \cup {NoJob}, told : Nat,
               parent : Nat, number : Nat]
  /\ retrier \in [Retrier -> [job : Job \cup {NoJob}, parent : Nat, number : Nat]]

WbInit ==
  /\ analysis = "ABSENT" /\ jobs = {}
  /\ tries = [j \in Job |-> << >>]
  /\ current = [j \in Job |-> 0]
  /\ instructions = [j \in Job |-> 0]
  /\ acks = [j \in Job |-> {}]
  /\ tools = [j \in Job |-> 0]
  /\ desk = FreeDesk
  /\ retrier = [w \in Retrier |-> NoRetry]

\* The attempts with the greatest number: which of them a query returns first
\* is not said.
Latest(j) ==
  {i \in DOMAIN tries[j] : \A k \in DOMAIN tries[j] : tries[j][k].number <= tries[j][i].number}

-----------------------------------------------------------------------------
(* The event loop.                                                         *)

\* An empty repository: root task and run are COMPLETED at once.
StartTerminal ==
  /\ desk = FreeDesk /\ analysis = "ABSENT"
  /\ analysis' = "COMPLETED"
  /\ UNCHANGED <<jobs, tries, current, instructions, acks, tools, desk, retrier>>

StartAnalysis ==
  /\ desk = FreeDesk /\ analysis = "ABSENT"
  /\ analysis' = "RUNNING"
  /\ desk' = [FreeDesk EXCEPT !.op = "analysis", !.at = "unit"]
  /\ UNCHANGED <<jobs, tries, current, instructions, acks, tools, retrier>>

\* The column current_attempt has a default that no INSERT overrides.
InsertTask(j) == jobs' = jobs \cup {j} /\ current' = [current EXCEPT ![j] = 1]

\* The task of a unit, and then its first attempt, without a parent.
InsertUnit(j) ==
  /\ desk.at = "unit" /\ j \notin jobs
  /\ InsertTask(j)
  /\ desk' = [desk EXCEPT !.at = "count", !.job = j]
  /\ UNCHANGED <<analysis, tries, instructions, acks, tools, retrier>>

EndStart ==
  /\ desk.at = "unit" /\ jobs # {}
  /\ desk' = FreeDesk
  /\ UNCHANGED <<analysis, jobs, tries, current, instructions, acks, tools, retrier>>

\* create_task: a task without an attempt.
CreateTask(j) ==
  /\ desk = FreeDesk /\ j \notin jobs
  /\ InsertTask(j)
  /\ UNCHANGED <<analysis, tries, instructions, acks, tools, desk, retrier>>

\* AnalystInstructionRepository.save, called n times.
Instruct(j, n) == instructions' = [instructions EXCEPT ![j] = @ + n]

\* Mutant: the instruction is named and not saved.
OrderUnsaved(op, j) ==
  /\ desk = FreeDesk /\ j \in jobs /\ Len(tries[j]) < MaxTries
  /\ desk' = [FreeDesk EXCEPT !.op = op, !.at = "list", !.job = j, !.told = instructions[j] + 1]
  /\ UNCHANGED <<analysis, jobs, tries, current, instructions, acks, tools, retrier>>

\* add_task_instruction, send_task_instruction, rerun_task_with_options: the
\* instruction first, which a re-run need not have.  The status of the task is
\* not looked at.
Order(op, j) ==
  /\ desk = FreeDesk /\ j \in jobs
  /\ Len(tries[j]) < MaxTries /\ instructions[j] < MaxTries
  /\ \E n \in IF op = "rerun" THEN {0, 1} ELSE {1} :
       /\ Instruct(j, n)
       /\ desk' = [FreeDesk EXCEPT !.op = op, !.at = "list", !.job = j,
                                   !.told = IF n = 0 THEN 0 ELSE instructions[j] + 1]
  /\ UNCHANGED <<analysis, jobs, tries, current, acks, tools, retrier>>

\* list_for_task.
ListAttempts ==
  /\ desk.at = "list"
  /\ \E i \in IF tries[desk.job] = << >> THEN {0} ELSE Latest(desk.job) :
       desk' = [desk EXCEPT !.at = "count", !.parent = i]
  /\ UNCHANGED <<analysis, jobs, tries, current, instructions, acks, tools, retrier>>

\* Mutant: the analyst hears of the attempt before it is inserted.
CountAndAcknowledge ==
  LET n == Len(tries[desk.job]) + 1 IN
  /\ desk.at = "count"
  /\ desk' = [desk EXCEPT !.at = "insert", !.number = n]
  /\ acks' = IF desk.op = "chat" THEN [acks EXCEPT ![desk.job] = @ \cup {n}] ELSE acks
  /\ UNCHANGED <<analysis, jobs, tries, current, instructions, tools, retrier>>

\* create_attempt: the COUNT, ...
CountAttempts ==
  /\ desk.at = "count"
  /\ desk' = [desk EXCEPT !.at = "insert", !.number = Len(tries[desk.job]) + 1]
  /\ UNCHANGED <<analysis, jobs, tries, current, instructions, acks, tools, retrier>>

\* ... and the INSERT with the UPDATE of the task; an attempt with the same id
\* makes it fail.
NextStep == CASE desk.op = "chat" -> [desk EXCEPT !.at = "chat"]
              [] desk.op = "analysis" -> [desk EXCEPT !.at = "tool"]
              [] OTHER -> FreeDesk
InsertAttempt ==
  LET j == desk.job
      taken == \E i \in DOMAIN tries[j] : tries[j][i].derived /\ tries[j][i].number = desk.number
  IN  /\ desk.at = "insert"
      /\ tries' = IF taken THEN tries
                  ELSE [tries EXCEPT ![j] = Append(@,
                         [number |-> desk.number, parent |-> desk.parent,
                          told |-> desk.told, derived |-> TRUE])]
      /\ current' = IF taken THEN current ELSE [current EXCEPT ![j] = desk.number]
      /\ desk' = IF taken THEN FreeDesk ELSE NextStep
      /\ UNCHANGED <<analysis, jobs, instructions, acks, tools, retrier>>

\* The four messages of an instruction, of which two name the attempt.
SaveMessages ==
  /\ desk.at = "chat"
  /\ acks' = [acks EXCEPT ![desk.job] = @ \cup {desk.number}]
  /\ desk' = [desk EXCEPT !.at = "tool"]
  /\ UNCHANGED <<analysis, jobs, tries, current, instructions, tools, retrier>>

\* record_execution: of a tool that nothing runs.
RecordTool ==
  /\ desk.at = "tool"
  /\ tools' = [tools EXCEPT ![desk.job] = @ + 1]
  /\ desk' = IF desk.op = "analysis" THEN [FreeDesk EXCEPT !.op = "analysis", !.at = "unit"]
             ELSE FreeDesk
  /\ UNCHANGED <<analysis, jobs, tries, current, instructions, acks, retrier>>

-----------------------------------------------------------------------------
(* Threads, and the end of the process.                                    *)

\* create_user_task: the task and its first attempt, with a random id, together.
CreateUserTask(j) ==
  /\ j \notin jobs
  /\ InsertTask(j)
  /\ tries' = [tries EXCEPT ![j] =
       <<[number |-> 1, parent |-> 0, told |-> 0, derived |-> FALSE]>>]
  /\ UNCHANGED <<analysis, instructions, acks, tools, desk, retrier>>

ReadForRetry(w, j) ==
  /\ retrier[w] = NoRetry /\ j \in jobs /\ Len(tries[j]) < MaxTries
  /\ \E i \in IF tries[j] = << >> THEN {0} ELSE Latest(j) :
       retrier' = [retrier EXCEPT ![w] =
         [job |-> j, parent |-> i,
          number |-> IF i = 0 THEN 1 ELSE tries[j][i].number + 1]]
  /\ UNCHANGED <<analysis, jobs, tries, current, instructions, acks, tools, desk>>

WriteRetry(w) ==
  LET r == retrier[w] IN
  /\ r # NoRetry
  /\ tries' = [tries EXCEPT ![r.job] = Append(@,
       [number |-> r.number, parent |-> r.parent, told |-> 0, derived |-> FALSE])]
  /\ current' = [current EXCEPT ![r.job] = r.number]
  /\ retrier' = [retrier EXCEPT ![w] = NoRetry]
  /\ UNCHANGED <<analysis, jobs, instructions, acks, tools, desk>>

EndServer ==
  /\ desk # FreeDesk \/ \E w \in Retrier : retrier[w] # NoRetry
  /\ desk' = FreeDesk
  /\ retrier' = [w \in Retrier |-> NoRetry]
  /\ UNCHANGED <<analysis, jobs, tries, current, instructions, acks, tools>>

WbNext ==
  \/ StartTerminal \/ StartAnalysis \/ EndStart \/ ListAttempts \/ CountAttempts
  \/ InsertAttempt \/ SaveMessages \/ RecordTool \/ EndServer
  \/ \E j \in Job : \/ InsertUnit(j) \/ CreateTask(j) \/ CreateUserTask(j)
                  \/ \E op \in {"instruct", "rerun", "chat"} : Order(op, j)
  \/ \E w \in Retrier : WriteRetry(w) \/ \E j \in Job : ReadForRetry(w, j)

WbSpec == WbInit /\ [][WbNext]_wbVars

-----------------------------------------------------------------------------
(* Properties.                                                             *)

\* The lineage of a task can be followed: an attempt comes after its parent and
\* has a greater number, the instruction it names is stored, and no two that
\* create_attempt made share an id, although retries number their attempts
\* meanwhile, and two of them the same.
LineageSound ==
  \A j \in Job : \A i \in DOMAIN tries[j] :
    LET a == tries[j][i] IN
    /\ a.parent # 0 => a.parent < i /\ tries[j][a.parent].number < a.number
    /\ a.told <= instructions[j]
    /\ \A k \in DOMAIN tries[j] :
         a.derived /\ tries[j][k].derived /\ tries[j][k].number = a.number => k = i

\* What the analyst is told happened: an acknowledged attempt and the one the
\* task calls current are there, and each tool execution follows an attempt,
\* also when the process ends in the middle of a handler.
AcknowledgedExists ==
  \A j \in Job :
    LET numbers == {tries[j][i].number : i \in DOMAIN tries[j]} IN
    /\ acks[j] \subseteq numbers
    /\ tries[j] # << >> => current[j] \in numbers
    /\ tools[j] <= Len(tries[j])
=============================================================================
