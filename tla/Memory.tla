------------------------------- MODULE Memory -------------------------------
(***************************************************************************)
(* Research memory: what an investigation records of its outcome, and the  *)
(* promotion of an outcome to a global pattern (memory/promotion.py, the   *)
(* Phase 6 repositories of history/repositories.py).                       *)
(*                                                                         *)
(* Every `llmorch` command is a process of its own and may end between two *)
(* transactions.  A promotion reads all patterns, merges into its copy of  *)
(* the first one that matches, and saves the copy.                         *)
(***************************************************************************)
EXTENDS Integers, Sequences, FiniteSets

CONSTANTS
  Promoter,     \* processes that promote
  Signature,    \* structural and semantic signatures
  MaxOutcomes   \* bound: outcomes recorded in a behaviour

ASSUME MemoryAssumption == MaxOutcomes \in Nat

\* What the gates and the merge look at: `content` is the sanitized hypothesis
\* and title, `validated` whether the confidence is VALIDATED.
Outcomes == [struct : Signature, sem : Signature, general : BOOLEAN,
             content : {"clean", "REDACTED_SECRET"}, validated : BOOLEAN]
Patterns == [struct : Signature, sem : Signature, validated : BOOLEAN, count : Nat]

VARIABLES
  outcomes,    \* research_outcomes, in order
  patterns,    \* global_patterns by created_at
  promotions,  \* memory_promotions: the pattern it names, 0 for a rejection
  promoter     \* a process's outcome, and the pattern it is about to save

memVars == <<outcomes, patterns, promotions, promoter>>

NoPattern == [struct |-> 0, sem |-> 0, validated |-> FALSE, count |-> 0]
Waiting == [step |-> "none", outcome |-> 0, at |-> 0, copy |-> NoPattern]
PromoterSteps == {"none", "memory", "gates", "save", "record"}

\* Every variable has its type.
MemTypeOK ==
  /\ outcomes \in Seq(Outcomes)
  /\ patterns \in Seq(Patterns)
  /\ promotions \subseteq [outcome : 1..Len(outcomes), pattern : 0..Len(patterns)]
  /\ \A w \in Promoter :
       /\ promoter[w].step \in PromoterSteps
       /\ promoter[w].outcome \in 0..Len(outcomes)
       /\ promoter[w].at \in 0..Len(patterns)
       /\ promoter[w].copy \in Patterns \cup {NoPattern}

MemInit ==
  /\ outcomes = << >> /\ patterns = << >> /\ promotions = {}
  /\ promoter = [w \in Promoter |-> Waiting]

Mine(w) == outcomes[promoter[w].outcome]

\* record_outcome: a reproducible outcome is VALIDATED and generalizable, others
\* may be declared generalizable.
RecordOutcome(w, o) ==
  /\ promoter[w] = Waiting /\ Len(outcomes) < MaxOutcomes
  /\ o.validated => o.general
  /\ outcomes' = Append(outcomes, o)
  /\ promoter' = [promoter EXCEPT ![w].step = "memory", ![w].outcome = Len(outcomes) + 1]
  /\ UNCHANGED <<patterns, promotions>>

\* record_project_memory and MEMORY_PROMOTION_PROPOSED; neither is read here.
RecordProjectMemory(w) ==
  /\ promoter[w].step = "memory"
  /\ promoter' = [promoter EXCEPT ![w].step = "gates"]
  /\ UNCHANGED <<outcomes, patterns, promotions>>

Record(w, i) ==
  promotions' = promotions \cup {[outcome |-> promoter[w].outcome, pattern |-> i]}

\* The privacy gates.
Admitted(o) == o.general /\ o.content = "clean"

RejectOutcome(w) ==
  /\ promoter[w].step = "gates" /\ ~ Admitted(Mine(w))
  /\ Record(w, 0)
  /\ promoter' = [promoter EXCEPT ![w] = Waiting]
  /\ UNCHANGED <<outcomes, patterns>>

Matches(p, o) == p.struct = o.struct \/ p.sem = o.sem
\* Mutant: a second observation is taken for a validation.
MergedValidated(p, o) == [p EXCEPT !.count = @ + 1, !.validated = TRUE]

Merged(p, o) == [p EXCEPT !.count = @ + 1, !.validated = @ \/ o.validated]
Created(o) == [struct |-> o.struct, sem |-> o.sem, validated |-> o.validated, count |-> 1]

\* list_all, and the first pattern that matches.
FindPattern(w) ==
  LET o == Mine(w)
      found == {i \in DOMAIN patterns : Matches(patterns[i], o)}
      first == CHOOSE i \in found : \A j \in found : i <= j
  IN  /\ promoter[w].step = "gates" /\ Admitted(o)
      /\ promoter' = [promoter EXCEPT ![w].step = "save",
           ![w].at = IF found = {} THEN 0 ELSE first,
           ![w].copy = IF found = {} THEN Created(o) ELSE Merged(patterns[first], o)]
      /\ UNCHANGED <<outcomes, patterns, promotions>>

\* INSERT OR REPLACE of the whole row; a new pattern has a fresh id.
SavePattern(w) ==
  LET at == IF promoter[w].at = 0 THEN Len(patterns) + 1 ELSE promoter[w].at IN
  /\ promoter[w].step = "save"
  /\ patterns' = [i \in 1..(IF at > Len(patterns) THEN at ELSE Len(patterns)) |->
                    IF i = at THEN promoter[w].copy ELSE patterns[i]]
  /\ promoter' = [promoter EXCEPT ![w].step = "record", ![w].at = at]
  /\ UNCHANGED <<outcomes, promotions>>

RecordPromotion(w) ==
  /\ promoter[w].step = "record"
  /\ Record(w, promoter[w].at)
  /\ promoter' = [promoter EXCEPT ![w] = Waiting]
  /\ UNCHANGED <<outcomes, patterns>>

EndPromoter(w) ==
  /\ promoter[w] # Waiting
  /\ promoter' = [promoter EXCEPT ![w] = Waiting]
  /\ UNCHANGED <<outcomes, patterns, promotions>>

MemNext ==
  \E w \in Promoter :
    \/ \E o \in Outcomes : RecordOutcome(w, o)
    \/ RecordProjectMemory(w) \/ RejectOutcome(w) \/ FindPattern(w)
    \/ SavePattern(w) \/ RecordPromotion(w) \/ EndPromoter(w)

MemSpec == MemInit /\ [][MemNext]_memVars

-----------------------------------------------------------------------------
(* Properties.                                                             *)

Supporters(p) == {i \in DOMAIN outcomes : Admitted(outcomes[i]) /\ Matches(p, outcomes[i])}

\* A pattern is earned: it counts no more observations than outcomes that
\* passed the privacy gates and match it, and is VALIDATED only with one that
\* was; an accepted promotion is that of such an outcome.  So it is when copies
\* are saved over each other and processes end halfway (memory/promotion.py).
PatternsEarned ==
  /\ \A i \in DOMAIN patterns :
       LET p == patterns[i] IN
       /\ 1 <= p.count /\ p.count <= Cardinality(Supporters(p))
       /\ p.validated => \E j \in Supporters(p) : outcomes[j].validated
  /\ \A r \in promotions :
       r.pattern # 0 => /\ r.pattern \in DOMAIN patterns
                        /\ r.outcome \in Supporters(patterns[r.pattern])
=============================================================================
