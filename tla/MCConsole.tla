------------------------------ MODULE MCConsole ------------------------------
(* The console in the browser, and the client of its socket: they share no   *)
(* variable, and the first state picks which of the two acts.                *)
EXTENDS Realtime, Console

CONSTANTS p1, p2

VARIABLE focus

Init ==
  /\ focus \in {"socket", "console"}
  /\ RtInit /\ ConInit

Next ==
  \/ focus = "socket" /\ RtNext /\ UNCHANGED <<focus, conVars>>
  \/ focus = "console" /\ ConNext /\ UNCHANGED <<focus, rtVars>>

vars == <<focus, rtVars, conVars>>

\* The fairness of the one that acts (RtFairness asks nothing of a client that
\* has not begun to connect): of the console, the interval goes on, a request is
\* answered and its answer shown.
Fairness ==
  /\ RtFairness
  /\ WF_conVars(focus = "console" /\ Poll)
  /\ \A s \in Fetch : /\ WF_conVars(focus = "console" /\ AnswerFetch(s))
                      /\ WF_conVars(focus = "console" /\ ShowRun(s))
                      /\ WF_conVars(focus = "console" /\ ShowDetail(s))
  /\ \A s \in Load : /\ WF_conVars(focus = "console" /\ AnswerLoad(s))
                     /\ WF_conVars(focus = "console" /\ ShowProject(s))

Spec == Init /\ [][Next]_vars /\ Fairness

\* Every variable of the two has its type.
ConsoleTypeOK == (focus = "socket" => RtTypeOK) /\ (focus = "console" => ConTypeOK)
=============================================================================
