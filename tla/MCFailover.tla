----------------------------- MODULE MCFailover -----------------------------
(* Agents and capabilities for the model checker.                          *)
EXTENDS Failover

CONSTANTS a, b, c, s, t, u

\* Registration order.
InOrder == [x \in {a, b, c} |-> CASE x = a -> 1 [] x = b -> 2 [] OTHER -> 3]

\* Every agent can do s; a lacks a capability that t needs, c one that u needs.
Skills == [x \in {s, t, u} |-> CASE x = s -> {a, b, c} [] x = t -> {b, c} [] OTHER -> {a, b}]
AllSkilled == [x \in {u} |-> {a, b, c}]
=============================================================================
