----------------------------- MODULE MCThreadWait -----------------------------
(* TLC instance of ThreadWait: a child with two turns or runs, two processes, or *)
(* two children with a turn each; the parent's turns are retried beside one turn *)
(* of one child.                                                                *)
EXTENDS ThreadWait
CONSTANTS c1, c2
MCChildren == {c1, c2}
Alone == child[c2].turn = 0 /\ child[c1].turn + child[c1].run <= 3
Together ==
  /\ starts = 1 /\ \A c \in Children : child[c].turn <= 1 /\ child[c].run <= 1
  /\ child[c2].ids = 0 /\ \A c \in Children : child[c].kind = "ordinary"
  /\ enabled /\ pass[c1] = "todo" /\ parent.requests <= 1
Retrying ==
  /\ enabled /\ child[c2].turn = 0 /\ wait.at = "none" /\ starts = 1
  /\ child[c1].turn <= 1 /\ child[c1].run <= 1 /\ child[c1].kind = "ordinary"
Second == child[c1].turn + child[c1].run = 3 => starts = 1 /\ parent.requests <= 1
Restarted == starts = 2 => parent.requests <= 1
\* An input is queued at c1 alone, beside its first turn, in one process.
Queued ==
  \A c \in Children : view[c].queue > 0 =>
    /\ c = c1 /\ child[c].turn + child[c].run <= 2 /\ child[c2].turn = 0
    /\ enabled /\ starts = 1 /\ parent.requests <= 1
OneOrTwo ==
  /\ pass[c2] = "todo" /\ (Alone \/ Together)
  /\ Second /\ Restarted /\ Queued /\ (parent.retry \/ parent.again => Retrying)
=============================================================================
