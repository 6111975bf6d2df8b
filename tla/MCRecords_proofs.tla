--------------------------- MODULE MCRecords_proofs ---------------------------
(***************************************************************************)
(* The components beside the execution of runs, put together: one that     *)
(* acts does what it specifies, and the others stay as they began, so that *)
(* each keeps what holds of it alone.                                      *)
(***************************************************************************)
EXTENDS MCRecords, Agents_proofs, Findings_proofs, Workspace_proofs

-----------------------------------------------------------------------------
(* A step of the components together is one of each, or leaves it alone.   *)

LEMMA IdentifiersStepsAlone == [Next]_vars => [IdNext]_idVars
<1> SUFFICES ASSUME [Next]_vars PROVE IdNext \/ UNCHANGED idVars
  BY SMTT(40)
<1>1. CASE Next
  BY <1>1 DEF Next, Only
<1>2. CASE UNCHANGED vars
  BY <1>2, SMTT(40) DEF vars
<1> QED BY <1>1, <1>2

LEMMA FindingsStepsAlone == [Next]_vars => [FindingNext]_findingVars
<1> SUFFICES ASSUME [Next]_vars PROVE FindingNext \/ UNCHANGED findingVars
  BY SMTT(40)
<1>1. CASE Next
  BY <1>1 DEF Next, Only
<1>2. CASE UNCHANGED vars
  BY <1>2, SMTT(40) DEF vars
<1> QED BY <1>1, <1>2

LEMMA ValidationStepsAlone == [Next]_vars => [ValNext]_valVars
<1> SUFFICES ASSUME [Next]_vars PROVE ValNext \/ UNCHANGED valVars
  BY SMTT(40)
<1>1. CASE Next
  BY <1>1 DEF Next, Only
<1>2. CASE UNCHANGED vars
  BY <1>2, SMTT(40) DEF vars
<1> QED BY <1>1, <1>2

LEMMA WorkspaceStepsAlone == [Next]_vars => [WsNext]_wsVars
<1> SUFFICES ASSUME [Next]_vars PROVE WsNext \/ UNCHANGED wsVars
  BY SMTT(40)
<1>1. CASE Next
  BY <1>1 DEF Next, Only
<1>2. CASE UNCHANGED vars
  BY <1>2, SMTT(40) DEF vars
<1> QED BY <1>1, <1>2

LEMMA ClosureStepsAlone == [Next]_vars => [ClNext]_clVars
<1> SUFFICES ASSUME [Next]_vars PROVE ClNext \/ UNCHANGED clVars
  BY SMTT(40)
<1>1. CASE Next
  BY <1>1 DEF Next, Only
<1>2. CASE UNCHANGED vars
  BY <1>2, SMTT(40) DEF vars
<1> QED BY <1>1, <1>2

LEMMA InvestigationStepsAlone == [Next]_vars => [InvNext]_invVars
<1> SUFFICES ASSUME [Next]_vars PROVE InvNext \/ UNCHANGED invVars
  BY SMTT(40)
<1>1. CASE Next
  BY <1>1 DEF Next, Only
<1>2. CASE UNCHANGED vars
  BY <1>2, SMTT(40) DEF vars
<1> QED BY <1>1, <1>2

LEMMA MemoryStepsAlone == [Next]_vars => [MemNext]_memVars
<1> SUFFICES ASSUME [Next]_vars PROVE MemNext \/ UNCHANGED memVars
  BY SMTT(40)
<1>1. CASE Next
  BY <1>1 DEF Next, Only
<1>2. CASE UNCHANGED vars
  BY <1>2, SMTT(40) DEF vars
<1> QED BY <1>1, <1>2

LEMMA SchemaStepsAlone == [Next]_vars => [SchemaNext]_schemaVars
<1> SUFFICES ASSUME [Next]_vars PROVE SchemaNext \/ UNCHANGED schemaVars
  BY SMTT(40)
<1>1. CASE Next
  BY <1>1 DEF Next, Only
<1>2. CASE UNCHANGED vars
  BY <1>2, SMTT(40) DEF vars
<1> QED BY <1>1, <1>2

LEMMA WorkbenchStepsAlone == [Next]_vars => [WbNext]_wbVars
<1> SUFFICES ASSUME [Next]_vars PROVE WbNext \/ UNCHANGED wbVars
  BY SMTT(40)
<1>1. CASE Next
  BY <1>1 DEF Next, Only
<1>2. CASE UNCHANGED vars
  BY <1>2, SMTT(40) DEF vars
<1> QED BY <1>1, <1>2

LEMMA TokensStepsAlone == [Next]_vars => [TokNext]_tokVars
<1> SUFFICES ASSUME [Next]_vars PROVE TokNext \/ UNCHANGED tokVars
  BY SMTT(40)
<1>1. CASE Next
  BY <1>1 DEF Next, Only
<1>2. CASE UNCHANGED vars
  BY <1>2, SMTT(40) DEF vars
<1> QED BY <1>1, <1>2

LEMMA LogRetentionStepsAlone == [Next]_vars => [LogNext]_logVars
<1> SUFFICES ASSUME [Next]_vars PROVE LogNext \/ UNCHANGED logVars
  BY SMTT(40)
<1>1. CASE Next
  BY <1>1 DEF Next, Only
<1>2. CASE UNCHANGED vars
  BY <1>2, SMTT(40) DEF vars
<1> QED BY <1>1, <1>2

LEMMA RosterStepsAlone == [Next]_vars => [RosterNext]_rosterVars
<1> SUFFICES ASSUME [Next]_vars PROVE RosterNext \/ UNCHANGED rosterVars
  BY SMTT(40)
<1>1. CASE Next
  BY <1>1 DEF Next, Only
<1>2. CASE UNCHANGED vars
  BY <1>2, SMTT(40) DEF vars
<1> QED BY <1>1, <1>2

LEMMA IntakeStepsAlone == [Next]_vars => [IntakeNext]_intakeVars
<1> SUFFICES ASSUME [Next]_vars PROVE IntakeNext \/ UNCHANGED intakeVars
  BY SMTT(40)
<1>1. CASE Next
  BY <1>1 DEF Next, Only
<1>2. CASE UNCHANGED vars
  BY <1>2, SMTT(40) DEF vars
<1> QED BY <1>1, <1>2

LEMMA PlanningStepsAlone == [Next]_vars => [PlanningNext]_planningVars
<1> SUFFICES ASSUME [Next]_vars PROVE PlanningNext \/ UNCHANGED planningVars
  BY SMTT(40)
<1>1. CASE Next
  BY <1>1 DEF Next, Only
<1>2. CASE UNCHANGED vars
  BY <1>2, SMTT(40) DEF vars
<1> QED BY <1>1, <1>2

-----------------------------------------------------------------------------
(* The theorems.                                                           *)

\* The components together implement the specification of each.
THEOREM EachAlone ==
  Spec => /\ IdSpec /\ FindingSpec /\ ValSpec /\ WsSpec /\ ClSpec
          /\ InvSpec /\ MemSpec /\ SchemaSpec /\ WbSpec /\ TokSpec
          /\ LogSpec /\ RosterSpec /\ IntakeSpec /\ PlanningSpec
<1>1. Init => /\ IdInit /\ FindingInit /\ ValInit /\ WsInit /\ ClInit
              /\ InvInit /\ MemInit /\ SchemaInit /\ WbInit /\ TokInit
              /\ LogInit /\ RosterInit /\ IntakeInit /\ PlanningInit
  BY DEF Init
<1>2. Spec => IdSpec
  BY <1>1, IdentifiersStepsAlone, PTL DEF Spec, IdSpec
<1>3. Spec => FindingSpec
  BY <1>1, FindingsStepsAlone, PTL DEF Spec, FindingSpec
<1>4. Spec => ValSpec
  BY <1>1, ValidationStepsAlone, PTL DEF Spec, ValSpec
<1>5. Spec => WsSpec
  BY <1>1, WorkspaceStepsAlone, PTL DEF Spec, WsSpec
<1>6. Spec => ClSpec
  BY <1>1, ClosureStepsAlone, PTL DEF Spec, ClSpec
<1>7. Spec => InvSpec
  BY <1>1, InvestigationStepsAlone, PTL DEF Spec, InvSpec
<1>8. Spec => MemSpec
  BY <1>1, MemoryStepsAlone, PTL DEF Spec, MemSpec
<1>9. Spec => SchemaSpec
  BY <1>1, SchemaStepsAlone, PTL DEF Spec, SchemaSpec
<1>10. Spec => WbSpec
  BY <1>1, WorkbenchStepsAlone, PTL DEF Spec, WbSpec
<1>11. Spec => TokSpec
  BY <1>1, TokensStepsAlone, PTL DEF Spec, TokSpec
<1>12. Spec => LogSpec
  BY <1>1, LogRetentionStepsAlone, PTL DEF Spec, LogSpec
<1>13. Spec => RosterSpec
  BY <1>1, RosterStepsAlone, PTL DEF Spec, RosterSpec
<1>14. Spec => IntakeSpec
  BY <1>1, IntakeStepsAlone, PTL DEF Spec, IntakeSpec
<1>15. Spec => PlanningSpec
  BY <1>1, PlanningStepsAlone, PTL DEF Spec, PlanningSpec
<1> QED BY <1>2, <1>3, <1>4, <1>5, <1>6, <1>7, <1>8,
          <1>9, <1>10, <1>11, <1>12, <1>13, <1>14, <1>15

\* Every variable of the component that acts has its type, and so have those of
\* the others: "RecordsTypeOK".
THEOREM RecordsTyped == Spec => []RecordsTypeOK
<1>1. /\ IdTypeOK /\ FindingTypeOK /\ ValTypeOK /\ WsTypeOK /\ ClTypeOK
      /\ InvTypeOK /\ MemTypeOK /\ SchemaTypeOK /\ WbTypeOK /\ TokTypeOK
      /\ LogTypeOK /\ RosterTypeOK /\ IntakeTypeOK /\ PlanningTypeOK
      => RecordsTypeOK
  BY DEF RecordsTypeOK
<1> QED
  BY <1>1, EachAlone, PTL, IdsAreTyped, FindingsTyped, VerdictsAreJustified, WorkspaceIsTyped,
     NothingIsOverclaimed, InvestigationTyped, MemoryIsTyped, SchemaIsTyped,
     LineageIsSound, NothingIsOvercharged, CleanupsAreHonest, ChoicesAreKept,
     QuestionsAreInTurn, PlansAreKept

\* What holds of each component alone holds of them together, for every value of
\* the constants the run "records" gives values to, if display ids are allocated
\* one at a time.
THEOREM RecordsSafe ==
  ASSUME \A v, w \in Requester : v = w
  PROVE  Spec => [](/\ UniqueDisplayIds /\ DuplicatesPointBack
                    /\ VersionsContiguous /\ VerdictBeforeVersion /\ ValidatedIsConfirmed
                    /\ VerdictJustified /\ OneChosen /\ NoOverclaim /\ ResultsBeforeSuccess
                    /\ PatternsEarned /\ PassCompletes /\ LineageSound /\ AcknowledgedExists
                    /\ NoOvercharge /\ CleanupHonest /\ ChoicesKept /\ AskedInTurn
                    /\ ReleasedAsPlanned)
<1>1. IdSpec => [](UniqueDisplayIds /\ DuplicatesPointBack)
  <2>1. IdSpec => []UniqueDisplayIds
    BY IdsAreUnique
  <2>2. IdSpec => []DuplicatesPointBack
    BY DuplicatesAreOlder
  <2> QED BY <2>1, <2>2, PTL
<1>2. FindingSpec => [](VersionsContiguous /\ VerdictBeforeVersion /\ ValidatedIsConfirmed)
  BY VersionsAreContiguous, VerdictsAreThere, ValidatedAreConfirmed, PTL
<1>3. WbSpec => [](LineageSound /\ AcknowledgedExists)
  BY LineageIsSound, AcknowledgedIsThere, PTL
<1> QED
  BY <1>1, <1>2, <1>3, EachAlone, VerdictsAreJustified, OneIsChosen, NothingIsOverclaimed,
     ResultsAreThere, PatternsAreEarned, PassesComplete, NothingIsOvercharged, CleanupsAreHonest,
     ChoicesAreKept, QuestionsAreInTurn, PlansAreKept, PTL
===============================================================================
