--------------------------- MODULE MCTurnJournal ---------------------------
(* TLC instance of TurnJournal with the goal and the title of its thread;   *)
(* the configuration chooses the bounds.                                    *)
EXTENDS ThreadTitles, FiniteSets, TLC

Symmetry == Permutations(Turns) \cup Permutations(Runs) \cup Permutations(Keys)

Several == Cardinality({t \in Turns : marker[t] # "none"}) > 1
Asked   == \E i \in DOMAIN ask : ask[i] # "none"
Steered == \E s \in DOMAIN steer : steer[s] # "none"
Called  == \E i \in DOMAIN call : call[i] # "none"
Worked  == (\E a \in Attempts : attempt[a] # "none") \/ compacting # {} \/ cursor # NoRun
HasGoal == version > 0 \/ review # NoReview
Unheard == \E t \in Active : kind[t] = "ordinary" /\ input # t
Callers == {i[1] : i \in {j \in DOMAIN call : call[j] # "none"}}
Titled  == title.generation > 1 \/ title.source = "host" \/ ~recovered \/ found # NoClaim

(* A turn alone in its thread, started by a user message, meets everything, *)
(* but no compaction beside both a question and an instruction.             *)
(* Once the thread has a second turn, neither has a question or an          *)
(* instruction, one of them makes calls and none of those meets a           *)
(* compaction, and they work if some user message came first; turns         *)
(* without a message of their own, and the turns of a thread with a goal,   *)
(* do one kind of work at a time.  A goal that was changed again meets      *)
(* turns that do not work, and two turns only without a review.  A thread   *)
(* whose title is more than the fallback has turns and nothing else.        *)
Bounded ==
  /\ Several => ~Asked /\ ~Steered /\ Cardinality(Callers) <= 1
  /\ Several /\ Called => compacting = {}
  /\ Asked /\ Steered => compacting = {}
  /\ Several /\ Worked => input # NoTurn
  /\ Unheard \/ HasGoal =>
       /\ ~Worked
       /\ ~(Asked /\ Steered) /\ ~(Asked /\ Called) /\ ~(Steered /\ Called)
       /\ Several => ~Called
  /\ version > 1 => ~Asked /\ ~Steered /\ ~Called
  /\ version = MaxVersion => review = NoReview
  /\ Several /\ version > 1 => review = NoReview
  /\ Titled => ~Asked /\ ~Steered /\ ~Called /\ ~Worked /\ ~HasGoal
=============================================================================
