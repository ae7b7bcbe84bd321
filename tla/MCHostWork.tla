------------------------------ MODULE MCHostWork ------------------------------
(* TLC instance of HostWork, with ThreadQueue.                                *)
EXTENDS HostWork

Symmetry == Permutations(Requests)

Involved == sent \cup {send[1] : send \in sends}

Edited == \E q \in Requests : text[q] > 0

UnderWay == Cardinality(sends) + Cardinality(handovers)

Full == \A t \in Turns : marker[t] # "none"

\* A state constraint: the process is lost where no input was edited, and serves
\* one call at a time afterwards, as does a thread with an edited input or with
\* all its turns; an edit meets one request less; where the host has work, there
\* are one request less, two wakes and one call under way, and no input was
\* edited or deleted.
OneOrOther ==
  /\ Edited \/ Full => UnderWay <= 1
  /\ Edited => Cardinality(Involved) < Cardinality(Requests)
  /\ crashes = 0 \/ (~Edited /\ UnderWay <= 1)
  /\ works # << >> =>
       /\ Cardinality(Involved) < Cardinality(Requests) /\ Cardinality(wakes) <= 2
       /\ UnderWay <= 1 /\ removed = {} /\ ~Edited
=============================================================================
