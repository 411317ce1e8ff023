-------------------------- MODULE MCScatterGather ---------------------------
(* Small programs for the thread cache. *)
EXTENDS ScatterGather

CONSTANTS c1, c2, t1, t2, t3, t4

(* One caller that scatters every task. *)
FlatParent == [t \in Tasks |-> c1]

(* Two callers with one task each; each of these scatters a task of its own. *)
NestedParent ==
  [t \in Tasks |-> CASE t = t2 -> c2 [] t = t3 -> t1 [] t = t4 -> t2 [] OTHER -> c1]

=============================================================================
