---------------------------- MODULE MCHostLifecycle ----------------------------
(* TLC instance of HostLifecycle: a root and a child.                         *)
EXTENDS HostLifecycle

CONSTANTS root, child

MCParent == [t \in Threads |-> IF t = child THEN root ELSE NoThread]
MCTurns == [t \in Threads |-> IF t = root THEN 2 ELSE 1]

\* A state constraint: the child executes its turn, or the root its second one.
Focus == current[child] = 0 \/ current[root] < 2
=============================================================================
