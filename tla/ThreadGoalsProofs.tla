-------------------------- MODULE ThreadGoalsProofs --------------------------
(***************************************************************************)
(* Proofs about ThreadGoals and ThreadTitles for every value of their      *)
(* constants: the goal is written beside the journal and never changes     *)
(* what the journal does, the goal is earned, and a deletion is respected; *)
(* the title is written beside the goal and never goes back.               *)
(***************************************************************************)
EXTENDS ThreadTitles, TurnJournalProofs

-----------------------------------------------------------------------------
(* A step of a thread with a goal is a transaction of its journal, or one   *)
(* that the journal does not see; the only one that a goal looks at is the  *)
(* end of a turn by FinishTurn.                                             *)

Transaction(t) == RunTurn(t) \/ Interact(t) \/ Effect(t) \/ EndTurn(t)

Working(t) ==
  \/ RunTurn(t) \/ Interact(t) \/ Effect(t)
  \/ \E r \in Runs : FailUnknownEffectTurn(t, r) \/ RequestCancel(t, r) \/ CancelTurn(t, r)

JournalStep == \E t \in Turns : Transaction(t)

LEMMA WorkingIsTransaction ==
  ASSUME NEW t \in Turns, Working(t)
  PROVE  Transaction(t)
  BY DEF Working, Transaction, EndTurn

LEMMA UserStepWorks ==
  ASSUME NEW t \in Turns, UserStep(t)
  PROVE  Working(t) \/ UNCHANGED vars
<1>1. ASSUME NEW r \in Runs, AcceptInput(t, r) \/ SubmitGoal(t, r)
      PROVE  Working(t)
  <2>1. AcceptTurn(t, r, "ordinary") /\ "ordinary" \in Kinds
    BY <1>1 DEF AcceptInput, SubmitGoal, Kinds
  <2>2. QED
    BY <2>1 DEF Working, RunTurn
<1>2. CASE UserSetsGoal \/ UserDeletesGoal
  BY <1>2 DEF UserSetsGoal, UserDeletesGoal
<1>3. QED
  BY <1>1, <1>2 DEF UserStep

LEMMA ModelStepWorks ==
  ASSUME NEW t \in Turns, ModelStep(t)
  PROVE  Working(t) \/ UNCHANGED vars
<1>1. ASSUME NEW r \in Runs, NEW calls \in SUBSET Calls,
             NEW state \in {"set", "keep", "clear"}, ReceiveCalls(t, r, calls, state)
      PROVE  Working(t)
  <2>1. CommitProviderContext(t, r, calls, state)
    BY <1>1 DEF ReceiveCalls
  <2>2. QED
    BY <2>1 DEF Working, RunTurn
<1>2. ASSUME NEW r \in Runs,
             \/ \E newTask \in BOOLEAN : ModelSetsGoal(t, r, newTask)
             \/ ModelDeletesGoal(t, r)
             \/ \E outcome \in ReviewOutcomes : RecordGoalReview(t, r, outcome)
      PROVE  UNCHANGED vars
  BY <1>2 DEF ModelSetsGoal, ModelDeletesGoal, RecordGoalReview
<1>3. QED
  BY <1>1, <1>2 DEF ModelStep

LEMMA HostStepWorks ==
  ASSUME NEW t \in Turns, HostStep(t),
         ~\E r \in Runs, status \in FinishStatus, id \in FinishIDs, keep, named \in BOOLEAN :
            FinishGoal(t, r, status, id, keep, named)
  PROVE  Working(t)
<1>1. ASSUME NEW r \in Runs, NEW k \in Kinds, AcceptTurn(t, r, k)
      PROVE  Working(t)
  BY <1>1 DEF Working, RunTurn
<1>2. ASSUME NEW r \in Runs, AcceptGoalContinuation(t, r)
      PROVE  Working(t)
  BY <1>1, <1>2 DEF AcceptGoalContinuation, Kinds
<1>3. CASE WorkStep(t)
  BY <1>3 DEF WorkStep, Working, RunTurn, Interact, Effect
<1>4. CASE OtherStep(t)
  BY <1>4 DEF OtherStep, Working, RunTurn, Interact, Effect
<1>5. CASE EndUnknown(t)
  BY <1>5 DEF EndUnknown, Working
<1>6. QED
  BY <1>1, <1>2, <1>3, <1>4, <1>5 DEF HostStep, AcceptWithoutInput

LEMMA GoalStepCases ==
  ASSUME NEW t \in Turns, UserStep(t) \/ ModelStep(t) \/ HostStep(t)
  PROVE  \/ Working(t)
         \/ UNCHANGED vars
         \/ \E r \in Runs, status \in FinishStatus, id \in FinishIDs, keep, named \in BOOLEAN :
              FinishGoal(t, r, status, id, keep, named)
  BY UserStepWorks, ModelStepWorks, HostStepWorks

LEMMA GoalStepIsJournalStep == [GoalNext]_goalVars => [Next]_vars
<1>1. JournalStep => Next
  BY DEF JournalStep, Transaction, Next
<1>2. UNCHANGED goalVars => UNCHANGED vars
  BY DEF goalVars
<1>3. ASSUME NEW t \in Turns, NEW r \in Runs, NEW status \in FinishStatus,
             NEW id \in FinishIDs, NEW keep \in BOOLEAN, NEW named \in BOOLEAN,
             FinishGoal(t, r, status, id, keep, named)
      PROVE  Transaction(t)
  <2>1. FinishTurn(t, r, status, id, keep)
    BY <1>3 DEF FinishGoal
  <2>2. QED
    BY <2>1 DEF Transaction, EndTurn
<1>4. ASSUME NEW t \in Turns, UserStep(t) \/ ModelStep(t) \/ HostStep(t)
      PROVE  JournalStep \/ UNCHANGED vars
  BY <1>3, <1>4, GoalStepCases, WorkingIsTransaction DEF JournalStep
<1>5. QED
  BY <1>1, <1>2, <1>4 DEF GoalNext

\* Goals never make the journal do what it could not do without them: whatever
\* is proved of the journal holds in a thread with a goal.
THEOREM GoalsKeepTheJournal == GoalSpec => Spec
<1>1. GoalInit => Init
  BY DEF GoalInit
<1>2. QED
  BY <1>1, GoalStepIsJournalStep, PTL DEF GoalSpec, Spec
-----------------------------------------------------------------------------
(* Types of the goal's records.                                             *)

Written == [run : Runs, version : Nat, outcome : ReviewOutcomes, bound : BOOLEAN,
            work : Works]

GoalTypeInv == TypeInv /\ GoalTypeOK

LEMMA NoReviewNotWritten == NoReview \notin Written
<1>1. NoReview.run = NoRun
  BY DEF NoReview
<1>2. \A w \in Written : w.run \in Runs
  BY DEF Written
<1>3. QED
  BY <1>1, <1>2, RunAssumption

LEMMA ReviewCases ==
  ASSUME GoalTypeInv
  PROVE  review = NoReview \/ review \in Written
  BY DEF GoalTypeInv, GoalTypeOK, Reviews, Written

LEMMA BoundaryMoved ==
  ASSUME GoalTypeInv, MoveBoundary
  PROVE  /\ review' \in Reviews
         /\ review = NoReview => review' = NoReview
         /\ review # NoReview => review'.run = review.run /\ ~review'.bound
<1>1. CASE review = NoReview
  BY <1>1 DEF MoveBoundary, Reviews
<1>2. CASE review # NoReview
  <2>1. review \in Written /\ review' = [review EXCEPT !.bound = FALSE]
    BY <1>2, ReviewCases DEF MoveBoundary
  <2>2. review' \in Written /\ review'.run = review.run /\ review'.bound = FALSE
    BY <2>1 DEF Written
  <2>3. QED
    BY <1>2, <2>2 DEF Written, Reviews
<1>3. QED
  BY <1>1, <1>2

LEMMA WorkTyped ==
  ASSUME TypeInv, NEW t \in Turns
  PROVE  Work(t) \in Works
<1>1. [c \in Calls |-> call[<<t, c>>]] \in [Calls -> {"none", "open", "closed"}]
  BY DEF TypeInv, TypeOK
<1>2. QED
  BY <1>1 DEF Work, Works

LEMMA GoalInitType == GoalInit => GoalTypeInv
<1> SUFFICES ASSUME GoalInit PROVE GoalTypeInv
  OBVIOUS
<1>1. TypeInv
  BY InitType DEF GoalInit
<1>2. version \in Nat /\ review \in Reviews
  BY DEF GoalInit, Reviews
<1>3. unknownSinceInput \in BOOLEAN /\ declined \in BOOLEAN
  BY DEF GoalInit
<1>4. QED
  BY <1>1, <1>2, <1>3 DEF GoalInit, GoalTypeInv, GoalTypeOK, TypeInv

LEMMA SetGoalTyped ==
  ASSUME GoalTypeOK, SetGoal \/ DeleteGoal
  PROVE  goal' \in {"absent", "active", "completed"} /\ version' \in Nat
  BY DEF GoalTypeOK, SetGoal, DeleteGoal

LEMMA GoalStepType == GoalTypeInv /\ [GoalNext]_goalVars => GoalTypeInv'
<1> SUFFICES ASSUME GoalTypeInv, [GoalNext]_goalVars PROVE GoalTypeInv'
  OBVIOUS
<1>1. TypeInv /\ TypeInv'
  BY StepType, GoalStepIsJournalStep DEF GoalTypeInv
<1>2. CASE UNCHANGED goalVars
  BY <1>1, <1>2 DEF goalVars, facts, GoalTypeInv, GoalTypeOK, TypeInv
<1>3. ASSUME UNCHANGED facts
      PROVE  GoalTypeInv'
  BY <1>1, <1>3 DEF facts, GoalTypeInv, GoalTypeOK, TypeInv
<1>4. ASSUME NEW t \in Turns, UserStep(t)
      PROVE  GoalTypeInv'
  <2>1. CASE UserSetsGoal
    <3>1. /\ goal' \in {"absent", "active", "completed"} /\ version' \in Nat
          /\ suppressed' = NoTurn
      BY <2>1, SetGoalTyped DEF UserSetsGoal, SetGoal, GoalTypeInv
    <3>2. QED
      BY <1>1, <2>1, <3>1 DEF UserSetsGoal, GoalTypeInv, GoalTypeOK, TypeInv
  <2>2. CASE UserDeletesGoal
    BY <1>1, <2>2 DEF UserDeletesGoal, DeleteGoal, GoalTypeInv, GoalTypeOK, TypeInv
  <2>3. ASSUME NEW r \in Runs, AcceptInput(t, r)
        PROVE  GoalTypeInv'
    BY <1>1, <2>3, BoundaryMoved DEF AcceptInput, GoalTypeInv, GoalTypeOK, TypeInv
  <2>4. ASSUME NEW r \in Runs, SubmitGoal(t, r)
        PROVE  GoalTypeInv'
    <3>1. /\ goal' \in {"absent", "active", "completed"} /\ version' \in Nat
          /\ suppressed' = NoTurn
      BY <2>4, SetGoalTyped DEF SubmitGoal, SetGoal, GoalTypeInv
    <3>2. review' \in Reviews
      BY <2>4, BoundaryMoved DEF SubmitGoal
    <3>3. QED
      BY <1>1, <2>4, <3>1, <3>2 DEF SubmitGoal, GoalTypeInv, GoalTypeOK, TypeInv
  <2>5. QED
    BY <1>4, <2>1, <2>2, <2>3, <2>4 DEF UserStep
<1>5. ASSUME NEW t \in Turns, ModelStep(t)
      PROVE  GoalTypeInv'
  <2>1. ASSUME NEW r \in Runs, NEW newTask \in BOOLEAN, ModelSetsGoal(t, r, newTask)
        PROVE  GoalTypeInv'
    BY <1>1, <2>1 DEF ModelSetsGoal, SetGoal, GoalTypeInv, GoalTypeOK, TypeInv
  <2>2. ASSUME NEW r \in Runs, ModelDeletesGoal(t, r)
        PROVE  GoalTypeInv'
    BY <1>1, <2>2 DEF ModelDeletesGoal, DeleteGoal, GoalTypeInv, GoalTypeOK, TypeInv
  <2>3. ASSUME NEW r \in Runs, NEW outcome \in ReviewOutcomes,
               RecordGoalReview(t, r, outcome)
        PROVE  GoalTypeInv'
    <3>1. review' \in Reviews
      BY <1>1, <2>3, WorkTyped DEF RecordGoalReview, GoalTypeInv, GoalTypeOK, Reviews
    <3>2. QED
      BY <1>1, <2>3, <3>1 DEF RecordGoalReview, GoalTypeInv, GoalTypeOK, TypeInv
  <2>4. ASSUME NEW r \in Runs, NEW calls \in SUBSET Calls,
               NEW state \in {"set", "keep", "clear"}, ReceiveCalls(t, r, calls, state)
        PROVE  GoalTypeInv'
    <3>1. review' \in Reviews
      BY <2>4, BoundaryMoved DEF ReceiveCalls, GoalTypeInv, GoalTypeOK
    <3>2. issued' \subseteq Turns \X Runs \X Calls
      BY <2>4 DEF ReceiveCalls, GoalTypeInv, GoalTypeOK
    <3>3. QED
      BY <1>1, <2>4, <3>1, <3>2 DEF ReceiveCalls, GoalTypeInv, GoalTypeOK, TypeInv
  <2>5. QED
    BY <1>5, <2>1, <2>2, <2>3, <2>4 DEF ModelStep
<1>6. ASSUME NEW t \in Turns, HostStep(t)
      PROVE  GoalTypeInv'
  <2>1. CASE WorkStep(t)
    BY <1>1, <2>1, BoundaryMoved DEF WorkStep, GoalTypeInv, GoalTypeOK, TypeInv
  <2>2. ASSUME NEW r \in Runs, NEW status \in FinishStatus, NEW id \in FinishIDs,
               NEW keep \in BOOLEAN, NEW named \in BOOLEAN,
               FinishGoal(t, r, status, id, keep, named)
        PROVE  GoalTypeInv'
    BY <1>1, <2>2 DEF FinishGoal, GoalTypeInv, GoalTypeOK, TypeInv
  <2>3. CASE EndUnknown(t)
    BY <1>1, <2>3 DEF EndUnknown, GoalTypeInv, GoalTypeOK, TypeInv
  <2>4. QED
    BY <1>3, <1>6, <2>1, <2>2, <2>3 DEF HostStep, AcceptWithoutInput,
       AcceptGoalContinuation, OtherStep
<1>7. QED
  BY <1>2, <1>4, <1>5, <1>6 DEF GoalNext

\* The goal's records beside the journal keep their types.
THEOREM GoalsTyped == GoalSpec => []GoalTypeInv
  BY GoalInitType, GoalStepType, PTL DEF GoalSpec
-----------------------------------------------------------------------------
(* A deletion by the user holds: while it does, the suppression names the   *)
(* latest user message, which is what the model's own set is refused for.   *)

DeletionInv == declined /\ input # NoTurn => goal = "absent" /\ suppressed = input

LEMMA GoalInitDeletion == GoalInit => DeletionInv
  BY DEF GoalInit, DeletionInv

LEMMA StepDeletion == GoalTypeInv /\ DeletionInv /\ [GoalNext]_goalVars => DeletionInv'
<1> SUFFICES ASSUME GoalTypeInv, DeletionInv, [GoalNext]_goalVars PROVE DeletionInv'
  OBVIOUS
<1>1. ASSUME UNCHANGED facts
      PROVE  DeletionInv'
  BY <1>1 DEF facts, DeletionInv
<1>2. ASSUME UNCHANGED <<goal, suppressed, input, declined>>
      PROVE  DeletionInv'
  BY <1>2 DEF DeletionInv
<1>3. ASSUME NEW t \in Turns, UserStep(t)
      PROVE  DeletionInv'
  <2>1. CASE UserDeletesGoal
    BY <2>1 DEF UserDeletesGoal, DeleteGoal, DeletionInv
  <2>2. CASE ~UserDeletesGoal
    BY <1>3, <2>2 DEF UserStep, UserSetsGoal, AcceptInput, SubmitGoal, DeletionInv
  <2>3. QED
    BY <2>1, <2>2
<1>4. ASSUME NEW t \in Turns, ModelStep(t)
      PROVE  DeletionInv'
  <2>1. ASSUME NEW r \in Runs, NEW newTask \in BOOLEAN, ModelSetsGoal(t, r, newTask)
        PROVE  DeletionInv'
    BY <2>1 DEF ModelSetsGoal, MaySet, DeletionInv
  <2>2. ASSUME NEW r \in Runs, ModelDeletesGoal(t, r)
        PROVE  DeletionInv'
    BY <2>2 DEF ModelDeletesGoal, DeleteGoal, DeletionInv
  <2>3. CASE UNCHANGED <<goal, suppressed, input, declined>>
    BY <1>2, <2>3
  <2>4. QED
    BY <1>4, <2>1, <2>2, <2>3 DEF ModelStep, RecordGoalReview, ReceiveCalls
<1>5. ASSUME NEW t \in Turns, HostStep(t)
      PROVE  DeletionInv'
  <2>1. ASSUME NEW r \in Runs, NEW status \in FinishStatus, NEW id \in FinishIDs,
               NEW keep \in BOOLEAN, NEW named \in BOOLEAN,
               FinishGoal(t, r, status, id, keep, named)
        PROVE  DeletionInv'
    BY <2>1 DEF FinishGoal, DeletionInv
  <2>2. QED
    BY <1>1, <1>2, <1>5, <2>1 DEF HostStep, AcceptWithoutInput, AcceptGoalContinuation,
       WorkStep, OtherStep, EndUnknown
<1>6. QED
  BY <1>1, <1>3, <1>4, <1>5 DEF GoalNext, goalVars
-----------------------------------------------------------------------------
(* A review that is still bound is about the work as it is: every           *)
(* transaction that adds to the work of a live turn moves the boundary, and *)
(* a run that has reviewed is never handed out again.                       *)

Covered(t) ==
  review # NoReview /\ review.bound /\ marker[t] \in ActiveStatus /\ identity[t] = review.run
    => review.work = Work(t)

ReviewInv ==
  /\ review # NoReview => \E t \in Turns : review.run \in runs[t]
  /\ \A t \in Turns : Covered(t)

LEMMA SameWork ==
  ASSUME NEW t \in Turns,
         \A c \in Calls : call'[<<t, c>>] = call[<<t, c>>],
         \A a \in Asks : ask'[<<t, a>>] = "resolved" <=> ask[<<t, a>>] = "resolved",
         \A s \in Steers : steer'[<<t, s>>] = "applied" <=> steer[<<t, s>>] = "applied"
  PROVE  Work(t)' = Work(t)
  BY DEF Work

\* What a transaction of t that leaves the reviews alone does to t itself.
WorkKept(t) ==
  marker'[t] \in ActiveStatus =>
    /\ Work(t)' = Work(t)
    /\ \/ marker[t] \in ActiveStatus /\ identity'[t] = identity[t]
       \/ FreshRun(identity'[t])

LEMMA AdmissionKeepsWork ==
  ASSUME TypeInv, NEW t \in Turns, NEW r \in Runs,
         (\E k \in Kinds : AcceptTurn(t, r, k)) \/ ContinueRun(t, r)
  PROVE  WorkKept(t)
<1>1. identity'[t] = r /\ FreshRun(r) /\ UNCHANGED <<call, ask, steer>>
  BY DEF AcceptTurn, ContinueRun, WriteMarker, items, TypeInv, TypeOK
<1>2. Work(t)' = Work(t)
  BY <1>1 DEF Work
<1>3. QED
  BY <1>1, <1>2 DEF WorkKept

LEMMA QuietKeepsWork ==
  ASSUME NEW t \in Turns, marker[t] \in ActiveStatus, identity'[t] = identity[t],
         UNCHANGED <<call, ask, steer>>
  PROVE  WorkKept(t)
  BY DEF WorkKept, Work

LEMMA EndKeepsWork ==
  ASSUME TypeInv, NEW t \in Turns,
         \/ \E r \in Runs, status \in FinishStatus, id \in FinishIDs, keep \in BOOLEAN :
              FinishTurn(t, r, status, id, keep)
         \/ \E r \in Runs : FailUnknownEffectTurn(t, r) \/ CancelTurn(t, r)
         \/ \E r \in Runs : InstallCompaction(t, r)
  PROVE  WorkKept(t)
<1>1. ASSUME NEW r \in Runs, NEW status \in FinishStatus, NEW id \in FinishIDs,
             NEW keep \in BOOLEAN, FinishTurn(t, r, status, id, keep)
      PROVE  WorkKept(t)
  <2>1. marker'[t] = status /\ identity'[t] = r
    BY <1>1, WriteMarkerSide DEF FinishTurn
  <2>2. CASE status = "waiting"
    <3>1. UNCHANGED <<call, ask, steer>>
      BY <1>1, <2>2 DEF FinishTurn
    <3>2. marker[t] \in ActiveStatus /\ identity[t] = r
      BY <1>1 DEF FinishTurn, FinishAdmitted, HasAuthority, ActiveTurn, Active
    <3>3. QED
      BY <2>1, <3>1, <3>2, QuietKeepsWork
  <2>3. CASE status # "waiting"
    BY <2>1, <2>3 DEF WorkKept, FinishStatus, ActiveStatus
  <2>4. QED
    BY <2>2, <2>3
<1>2. ASSUME NEW r \in Runs, FailUnknown(t, r)
      PROVE  WorkKept(t)
  BY <1>2, WriteMarkerSide DEF FailUnknown, WorkKept, ActiveStatus
<1>3. ASSUME NEW r \in Runs, CancelTurn(t, r), ~Uncertain(t)
      PROVE  WorkKept(t)
  BY <1>3, WriteMarkerSide DEF CancelTurn, WorkKept, ActiveStatus
<1>4. ASSUME NEW r \in Runs, InstallCompaction(t, r)
      PROVE  WorkKept(t)
  <2>1. CASE kind[t] = "compaction"
    BY <1>4, <2>1, WriteMarkerSide DEF InstallCompaction, WorkKept, ActiveStatus
  <2>2. CASE kind[t] # "compaction"
    BY <1>4, <2>2, QuietKeepsWork DEF InstallCompaction, InstallAdmitted, HasAuthority,
       ActiveTurn, Active, journal, items
  <2>3. QED
    BY <2>1, <2>2
<1>5. QED
  BY <1>1, <1>2, <1>3, <1>4 DEF FailUnknownEffectTurn, CancelTurn

LEMMA OtherKeepsWork ==
  ASSUME TypeInv, NEW t \in Turns, OtherStep(t)
  PROVE  WorkKept(t)
<1>1. CASE SavePoint(t)
  <2>1. identity[t] \in Runs /\ marker[t] \in ActiveStatus
    BY <1>1 DEF SavePoint, Writable, ActiveStatus, TypeInv, AdmittedTurnHasRun
  <2>2. identity'[t] = identity[t]
    BY <1>1, <2>1, WriteMarkerSide DEF SavePoint
  <2>3. QED
    BY <1>1, <2>1, <2>2, QuietKeepsWork DEF SavePoint, items
<1>2. CASE StartCompaction(t) \/ EndCompaction(t)
  BY <1>2, QuietKeepsWork DEF StartCompaction, EndCompaction, Writable, journal, items
<1>3. ASSUME NEW r \in Runs, RequestCancel(t, r)
      PROVE  WorkKept(t)
  BY <1>3, QuietKeepsWork DEF RequestCancel, HasAuthority, ActiveTurn, Active, items
<1>4. ASSUME NEW r \in Runs, NEW c \in Calls,
             PrepareEffect(t, r, c) \/ RejectEffect(t, r, c) \/ BeginDispatch(t, r, c)
      PROVE  WorkKept(t)
  BY <1>4, QuietKeepsWork DEF PrepareEffect, RejectEffect, BeginDispatch, Writable,
     HasAuthority, ActiveTurn, Active, journal
<1>5. ASSUME NEW a \in Asks, AskInteraction(t, a)
      PROVE  WorkKept(t)
  <2>1. marker[t] \in ActiveStatus /\ UNCHANGED <<identity, call, steer>>
    BY <1>5 DEF AskInteraction, Writable, journal
  <2>2. \A b \in Asks : ask'[<<t, b>>] = "resolved" <=> ask[<<t, b>>] = "resolved"
    BY <1>5 DEF AskInteraction, TypeInv, TypeOK
  <2>3. QED
    BY <2>1, <2>2, SameWork DEF WorkKept
<1>6. ASSUME NEW r \in Runs, NEW s \in Steers, RequestSteering(t, r, s)
      PROVE  WorkKept(t)
  <2>1. marker[t] \in ActiveStatus /\ UNCHANGED <<identity, call, ask>>
    BY <1>6 DEF RequestSteering, HasAuthority, ActiveTurn, Active, journal
  <2>2. \A x \in Steers : steer'[<<t, x>>] = "applied" <=> steer[<<t, x>>] = "applied"
    BY <1>6 DEF RequestSteering, TypeInv, TypeOK
  <2>3. QED
    BY <2>1, <2>2, SameWork DEF WorkKept
<1>7. QED
  BY <1>1, <1>2, <1>3, <1>4, <1>5, <1>6, AdmissionKeepsWork, EndKeepsWork DEF OtherStep

LEMMA RunsGrow ==
  ASSUME TypeInv, SideInv, JournalStep
  PROVE  \A u \in Turns : runs[u] \subseteq runs'[u]
  BY RunTurnSide, InteractSide, EndTurnSide DEF JournalStep, Transaction, SideStep

LEMMA ReviewKept ==
  ASSUME TypeInv, SideInv, ReviewInv, NEW t \in Turns,
         Transaction(t),
         WorkKept(t), review' = review
  PROVE  ReviewInv'
<1>1. \A u \in Turns : runs[u] \subseteq runs'[u]
  BY RunsGrow DEF JournalStep
<1>2. review' # NoReview => \E u \in Turns : review'.run \in runs'[u]
  BY <1>1 DEF ReviewInv
<1>3. Covered(t)'
  <2>1. FreshRun(identity'[t]) /\ review # NoReview => identity'[t] # review.run
    BY DEF FreshRun, ReviewInv
  <2>2. QED
    BY <2>1 DEF Covered, WorkKept, ReviewInv
<1>4. ASSUME NEW u \in Turns, u # t
      PROVE  Covered(u)'
  <2>1. FrozenTurn(u)
    BY <1>4, OtherTurnsKept DEF Transaction
  <2>2. Work(u)' = Work(u)
    BY <2>1, SameWork DEF FrozenTurn
  <2>3. QED
    BY <2>1, <2>2 DEF FrozenTurn, Covered, ReviewInv
<1>5. QED
  BY <1>2, <1>3, <1>4 DEF ReviewInv

LEMMA ReviewMoved ==
  ASSUME GoalTypeInv, SideInv, ReviewInv, JournalStep, MoveBoundary
  PROVE  ReviewInv'
<1>1. \A u \in Turns : runs[u] \subseteq runs'[u]
  BY RunsGrow DEF GoalTypeInv
<1>2. review' # NoReview => review # NoReview /\ review'.run = review.run /\ ~review'.bound
  BY BoundaryMoved
<1>3. \A t \in Turns : Covered(t)'
  BY <1>2 DEF Covered
<1>4. QED
  BY <1>1, <1>2, <1>3 DEF ReviewInv

\* Steps that the journal does not see and that write no review.
LEMMA ReviewUntouched ==
  ASSUME ReviewInv, UNCHANGED <<vars, review>>
  PROVE  ReviewInv'
<1>1. \A t \in Turns : Work(t)' = Work(t)
  BY DEF vars, items, Work
<1>2. QED
  BY <1>1 DEF vars, journal, ReviewInv, Covered

LEMMA ReviewWritten ==
  ASSUME TypeInv, SideInv, NEW t \in Turns, NEW r \in Runs, NEW outcome \in ReviewOutcomes,
         RecordGoalReview(t, r, outcome)
  PROVE  ReviewInv'
<1>1. Active = {t} /\ identity[t] = r /\ r \in runs[t]
  BY DEF RecordGoalReview, HasAuthority, ActiveTurn, Active, ActiveStatus, SideInv,
     AuthorityIsARun
<1>2. UNCHANGED vars /\ review'.run = r /\ review'.work = Work(t)
  BY DEF RecordGoalReview
<1>3. UNCHANGED <<marker, identity, runs>> /\ Work(t)' = Work(t)
  BY <1>2 DEF vars, journal, items, Work
<1>4. \A u \in Turns : Covered(u)'
  BY <1>1, <1>2, <1>3 DEF Covered, Active
<1>5. QED
  BY <1>1, <1>2, <1>3, <1>4 DEF ReviewInv

LEMMA GoalInitReview == GoalInit => ReviewInv
  BY DEF GoalInit, ReviewInv, Covered

LEMMA StepReview ==
  GoalTypeInv /\ SideInv /\ ReviewInv /\ [GoalNext]_goalVars => ReviewInv'
<1> SUFFICES ASSUME GoalTypeInv, SideInv, ReviewInv, [GoalNext]_goalVars
             PROVE  ReviewInv'
  OBVIOUS
<1>1. TypeInv
  BY DEF GoalTypeInv
<1>2. ASSUME NEW t \in Turns, NEW r \in Runs, NEW k \in Kinds, AcceptTurn(t, r, k)
      PROVE  Transaction(t) /\ WorkKept(t)
  BY <1>1, <1>2, AdmissionKeepsWork DEF RunTurn, Transaction
<1>3. ASSUME NEW t \in Turns, UserStep(t)
      PROVE  ReviewInv'
  <2>1. CASE UserSetsGoal \/ UserDeletesGoal
    BY <2>1, ReviewUntouched DEF UserSetsGoal, UserDeletesGoal
  <2>2. ASSUME NEW r \in Runs, AcceptInput(t, r) \/ SubmitGoal(t, r)
        PROVE  ReviewInv'
    <3>1. AcceptTurn(t, r, "ordinary") /\ "ordinary" \in Kinds /\ MoveBoundary
      BY <2>2 DEF AcceptInput, SubmitGoal, Kinds
    <3>2. JournalStep
      BY <1>2, <3>1 DEF JournalStep
    <3>3. QED
      BY <3>1, <3>2, ReviewMoved
  <2>3. QED
    BY <1>3, <2>1, <2>2 DEF UserStep
<1>4. ASSUME NEW t \in Turns, ModelStep(t)
      PROVE  ReviewInv'
  <2>1. ASSUME NEW r \in Runs,
               (\E newTask \in BOOLEAN : ModelSetsGoal(t, r, newTask)) \/ ModelDeletesGoal(t, r)
        PROVE  ReviewInv'
    <3>1. UNCHANGED <<vars, review>>
      BY <2>1 DEF ModelSetsGoal, ModelDeletesGoal
    <3>2. QED
      BY <3>1, ReviewUntouched
  <2>2. ASSUME NEW r \in Runs, NEW calls \in SUBSET Calls,
               NEW state \in {"set", "keep", "clear"}, ReceiveCalls(t, r, calls, state)
        PROVE  ReviewInv'
    <3>1. CommitProviderContext(t, r, calls, state)
      BY <2>2 DEF ReceiveCalls
    <3>2. Transaction(t) /\ JournalStep
      BY <3>1 DEF RunTurn, Transaction, JournalStep
    <3>3. CASE calls = {}
      <4>1. marker[t] \in ActiveStatus /\ UNCHANGED <<identity, ask, steer>>
        BY <3>1 DEF CommitProviderContext, HasAuthority, ActiveTurn, Active, journal
      <4>2. \A c \in Calls : call'[<<t, c>>] = call[<<t, c>>]
        BY <1>1, <3>1, <3>3 DEF CommitProviderContext, TypeInv, TypeOK
      <4>3. WorkKept(t)
        BY <4>1, <4>2, SameWork DEF WorkKept
      <4>4. QED
        BY <1>1, <2>2, <3>2, <3>3, <4>3, ReviewKept DEF ReceiveCalls
    <3>4. CASE calls # {}
      BY <2>2, <3>2, <3>4, ReviewMoved DEF ReceiveCalls
    <3>5. QED
      BY <3>3, <3>4
  <2>3. QED
    BY <1>1, <1>4, <2>1, <2>2, ReviewWritten DEF ModelStep
<1>5. ASSUME NEW t \in Turns, HostStep(t)
      PROVE  ReviewInv'
  <2>1. ASSUME NEW r \in Runs, NEW k \in Kinds, AcceptTurn(t, r, k), UNCHANGED facts
        PROVE  ReviewInv'
    BY <1>1, <1>2, <2>1, ReviewKept DEF facts
  <2>2. ASSUME NEW r \in Runs, AcceptGoalContinuation(t, r)
        PROVE  ReviewInv'
    BY <2>1, <2>2 DEF AcceptGoalContinuation, Kinds
  <2>3. CASE WorkStep(t)
    <3>1. JournalStep
      BY <2>3 DEF WorkStep, JournalStep, Transaction, RunTurn, Interact, Effect
    <3>2. QED
      BY <2>3, <3>1, ReviewMoved DEF WorkStep
  <2>4. CASE OtherStep(t)
    <3>1. Transaction(t)
      BY <2>4 DEF OtherStep, Transaction, RunTurn, Interact, Effect, EndTurn
    <3>2. review' = review
      BY <2>4 DEF OtherStep, facts
    <3>3. QED
      BY <1>1, <2>4, <3>1, <3>2, OtherKeepsWork, ReviewKept
  <2>5. ASSUME NEW r \in Runs, NEW status \in FinishStatus, NEW id \in FinishIDs,
               NEW keep \in BOOLEAN, NEW named \in BOOLEAN,
               FinishGoal(t, r, status, id, keep, named)
        PROVE  ReviewInv'
    <3>1. FinishTurn(t, r, status, id, keep) /\ review' = review
      BY <2>5 DEF FinishGoal
    <3>2. Transaction(t) /\ WorkKept(t)
      BY <1>1, <3>1, EndKeepsWork DEF EndTurn, Transaction
    <3>3. QED
      BY <1>1, <3>1, <3>2, ReviewKept
  <2>6. CASE EndUnknown(t)
    <3>1. /\ \E r \in Runs : FailUnknownEffectTurn(t, r) \/ CancelTurn(t, r)
          /\ review' = review
      BY <2>6 DEF EndUnknown
    <3>2. Transaction(t) /\ WorkKept(t)
      BY <1>1, <3>1, EndKeepsWork DEF EndTurn, Transaction
    <3>3. QED
      BY <1>1, <3>1, <3>2, ReviewKept
  <2>7. QED
    BY <1>5, <2>1, <2>2, <2>3, <2>4, <2>5, <2>6 DEF HostStep, AcceptWithoutInput
<1>6. CASE UNCHANGED goalVars
  BY <1>6, ReviewUntouched DEF goalVars, facts
<1>7. QED
  BY <1>3, <1>4, <1>5, <1>6 DEF GoalNext
-----------------------------------------------------------------------------
(* The end of a turn looks at the review again, in its own transaction.     *)

LEMMA WorkingEndsNothing ==
  ASSUME TypeInv, NEW t \in Turns, Working(t), kind[t] = "ordinary"
  PROVE  marker'[t] # "completed" \/ marker'[t] = marker[t]
<1>1. CASE RunTurn(t)
  <2>1. ASSUME NEW r \in Runs, InstallCompaction(t, r)
        PROVE  marker'[t] = marker[t]
    BY <2>1 DEF InstallCompaction, journal
  <2>2. ASSUME ~\E r \in Runs : InstallCompaction(t, r)
        PROVE  marker'[t] # "completed" \/ marker'[t] = marker[t]
    BY <1>1, <2>2 DEF RunTurn, AcceptTurn, SavePoint, ContinueRun, CommitProviderContext,
       AppendToolResult, StartCompaction, EndCompaction, WriteMarker, journal, TypeInv, TypeOK
  <2>3. QED
    BY <2>1, <2>2
<1>2. CASE Interact(t) \/ Effect(t)
  BY <1>2 DEF Interact, Effect, AskInteraction, ResolveInteractions, RequestSteering,
     ApplySteering, PrepareEffect, RejectEffect, BeginDispatch, FinishDispatch, journal
<1>3. ASSUME NEW r \in Runs, FailUnknown(t, r)
      PROVE  marker'[t] # "completed"
  BY <1>3, WriteMarkerSide DEF FailUnknown
<1>4. ASSUME NEW r \in Runs, CancelTurn(t, r), ~Uncertain(t)
      PROVE  marker'[t] # "completed"
  BY <1>4, WriteMarkerSide DEF CancelTurn
<1>5. QED
  BY <1>1, <1>2, <1>3, <1>4 DEF Working, FailUnknownEffectTurn, CancelTurn, RequestCancel

LEMMA SucceedingStep ==
  ASSUME GoalTypeInv, GoalNext, NEW t \in Turns, Succeeds(t)
  PROVE  \E r \in Runs, id \in FinishIDs, keep, named \in BOOLEAN :
            FinishGoal(t, r, "completed", id, keep, named)
<1>1. TypeInv /\ marker'[t] # marker[t] /\ marker'[t] = "completed" /\ kind[t] = "ordinary"
  BY DEF GoalTypeInv, Succeeds
<1>2. PICK u \in Turns : UserStep(u) \/ ModelStep(u) \/ HostStep(u)
  BY DEF GoalNext
<1>3. ASSUME Transaction(u)
      PROVE  u = t
  BY <1>1, <1>3, OtherTurnsKept DEF Transaction, FrozenTurn
<1>4. ~Working(u)
  BY <1>1, <1>3, WorkingIsTransaction, WorkingEndsNothing
<1>5. marker' # marker
  BY <1>1
<1>6. PICK r \in Runs, status \in FinishStatus, id \in FinishIDs, keep \in BOOLEAN,
           named \in BOOLEAN : FinishGoal(u, r, status, id, keep, named)
  BY <1>2, <1>4, <1>5, GoalStepCases DEF vars, journal
<1>7. FinishTurn(u, r, status, id, keep)
  BY <1>6 DEF FinishGoal
<1>8. u = t
  BY <1>3, <1>7 DEF Transaction, EndTurn
<1>9. status = "completed"
  BY <1>1, <1>7, <1>8, WriteMarkerSide DEF FinishTurn
<1>10. QED
  BY <1>6, <1>8, <1>9

GoalInv == GoalTypeInv /\ SideInv /\ DeletionInv /\ ReviewInv

LEMMA StepEarned == GoalInv /\ [GoalNext]_goalVars => GoalEarned \/ UNCHANGED goalVars
<1> SUFFICES ASSUME GoalInv, GoalNext PROVE GoalEarned
  OBVIOUS
<1>1. GoalTypeInv /\ ReviewInv
  BY DEF GoalInv
<1>2. ASSUME NEW t \in Turns, Succeeds(t), goal = "active"
      PROVE  /\ UpToDate(t) /\ review.outcome \in {"completed", "blocked"}
             /\ goal' = "completed" <=> review.outcome = "completed"
  <2>1. PICK r \in Runs, id \in FinishIDs, keep \in BOOLEAN, named \in BOOLEAN :
               FinishGoal(t, r, "completed", id, keep, named)
    BY <1>1, <1>2, SucceedingStep
  <2>2. /\ ValidReview(r)
        /\ goal' = IF review.outcome = "completed" THEN "completed" ELSE goal
    BY <1>2, <2>1 DEF FinishGoal, Succeeds
  <2>3. marker[t] \in ActiveStatus /\ identity[t] = r
    BY <2>1 DEF FinishGoal, FinishTurn, FinishAdmitted, HasAuthority, ActiveTurn, Active
  <2>4. review # NoReview
    BY <2>2, RunAssumption DEF ValidReview, NoReview
  <2>5. UpToDate(t)
    BY <1>1, <2>2, <2>3, <2>4 DEF ValidReview, UpToDate, ReviewInv, Covered
  <2>6. QED
    BY <1>2, <2>2, <2>5 DEF ValidReview
<1>3. ASSUME goal # "completed", goal' = "completed"
      PROVE  \E t \in Turns : marker[t] \in ActiveStatus /\ marker'[t] = "completed"
  <2>1. PICK t \in Turns, r \in Runs, status \in FinishStatus, id \in FinishIDs,
             keep \in BOOLEAN, named \in BOOLEAN : FinishGoal(t, r, status, id, keep, named)
    BY <1>3 DEF GoalNext, UserStep, UserSetsGoal, UserDeletesGoal, AcceptInput, SubmitGoal,
       SetGoal, DeleteGoal, ModelStep, ModelSetsGoal, ModelDeletesGoal, RecordGoalReview,
       ReceiveCalls, HostStep, AcceptWithoutInput, AcceptGoalContinuation, WorkStep,
       OtherStep, EndUnknown, facts
  <2>2. status = "completed" /\ FinishTurn(t, r, status, id, keep)
    BY <1>3, <2>1 DEF FinishGoal
  <2>3. marker[t] \in ActiveStatus
    BY <2>2 DEF FinishTurn, FinishAdmitted, HasAuthority, ActiveTurn, Active
  <2>4. marker'[t] = "completed"
    BY <1>1, <2>2, WriteMarkerSide DEF FinishTurn, GoalTypeInv
  <2>5. QED
    BY <2>3, <2>4
<1>4. QED
  BY <1>2, <1>3 DEF GoalEarned

\* No turn succeeds over an active goal without a review of this goal and of
\* all the work on record, and nothing brings back a goal the user deleted.
THEOREM GoalsAreHonoured == GoalSpec => GoalsHonoured
<1>1. GoalInit => GoalInv
  BY GoalInitType, InitSide, GoalInitDeletion, GoalInitReview DEF GoalInv, GoalInit
<1>2. GoalInv /\ [GoalNext]_goalVars => GoalInv'
  BY GoalStepType, GoalStepIsJournalStep, StepSide, StepDeletion, StepReview
  DEF GoalInv, GoalTypeInv
<1>3. GoalInv' => DeletionRespected'
  BY DEF GoalInv, DeletionInv, DeletionRespected
<1>4. QED
  BY <1>1, <1>2, <1>3, StepEarned, PTL DEF GoalSpec, GoalsHonoured

-----------------------------------------------------------------------------
LEMMA TitleStepIsGoalStep == [TitleNext]_titleVars => [GoalNext]_goalVars
<1>1. ASSUME NEW t \in Turns, NEW r \in Runs, AcceptTitledInput(t, r)
      PROVE  GoalNext
  BY <1>1 DEF AcceptTitledInput, GoalNext, UserStep
<1>2. ASSUME NEW t \in Turns, UserSetsGoal \/ UserDeletesGoal \/ ModelStep(t) \/ HostStep(t)
      PROVE  GoalNext
  BY <1>2 DEF GoalNext, UserStep
<1>3. ASSUME NEW t \in Turns, TitleStep(t)
      PROVE  UNCHANGED goalVars
  BY <1>3 DEF TitleStep, SetTitle, BeginTitle, CompleteTitle, FailTitle, LoseTitle,
     Restart, FindPending, RecoverPending
<1>4. UNCHANGED titleVars => UNCHANGED goalVars
  BY DEF titleVars
<1>5. QED
  BY <1>1, <1>2, <1>3, <1>4 DEF TitleNext

\* A title changes nothing of the goal and of the turns: what is proved of
\* them holds in a thread whose title is generated beside them.
THEOREM TitlesKeepTheGoal == TitleSpec => GoalSpec
<1>1. TitleInit => GoalInit
  BY DEF TitleInit
<1>2. QED
  BY <1>1, TitleStepIsGoalStep, PTL DEF TitleSpec, GoalSpec

\* The journal's promises in a thread with a goal and a title.
COROLLARY TitledJournal ==
  TitleSpec => /\ []TerminalSettled /\ []UncertaintyReported /\ []StopHonoured
               /\ []SideRecordsAgree /\ TerminalFrozen /\ ImplementsContract
               /\ GoalsHonoured
  BY TitlesKeepTheGoal, GoalsKeepTheJournal, GoalsAreHonoured, JournalTerminalSettled,
     JournalUncertaintyReported, JournalStopHonoured, JournalSideRecordsAgree,
     JournalTerminalFrozen, JournalImplementsContract
-----------------------------------------------------------------------------
(* The title by itself.                                                     *)

TitleInv ==
  /\ title \in Titles
  /\ title.source = "host" => title.status = "ready"
  /\ PendingTitleOwned

LEMMA TitleInitInv == TitleInit => TitleInv
<1> SUFFICES ASSUME TitleInit PROVE TitleInv
  OBVIOUS
<1>1. title \in Titles
  BY DEF TitleInit, Titles
<1>2. QED
  BY <1>1 DEF TitleInit, TitleInv, PendingTitleOwned

\* What a step may do to the title.
TitleMoves ==
  /\ title'.generation >= title.generation
  /\ title.source = "host" => title'.source = "host"
  /\ title' # title /\ title'.generation = title.generation =>
       title.status = "pending" /\ title'.status \in {"ready", "failed"}

LEMMA SameTitle ==
  ASSUME TitleInv, title' = title,
         title.status = "pending" => Claim(title) \in workers' \cup lost' \/ ~recovered'
  PROVE  TitleInv' /\ TitleMoves
<1>1. title.generation \in Nat
  BY DEF TitleInv, Titles
<1>2. title'.generation >= title.generation
  BY <1>1
<1>3. QED
  BY <1>2 DEF TitleInv, TitleMoves, PendingTitleOwned, Claim

\* A pending title is decided, as ready or as failed.
LEMMA TitleDecided ==
  ASSUME TitleInv, title.status = "pending",
         \/ title' = [title EXCEPT !.status = "ready", !.source = "provider", !.key = NoKey]
         \/ title' = [title EXCEPT !.status = "failed", !.key = NoKey]
  PROVE  TitleInv' /\ TitleMoves
<1>1. title \in Titles /\ title.source # "host" /\ title.generation \in Nat
  BY DEF TitleInv, Titles
<1>2. /\ title' \in Titles /\ title'.status \in {"ready", "failed"}
      /\ title'.source # "host" /\ title'.generation = title.generation
  BY <1>1 DEF Titles
<1>3. title'.generation >= title.generation
  BY <1>1, <1>2
<1>4. QED
  BY <1>1, <1>2, <1>3 DEF TitleInv, TitleMoves, PendingTitleOwned

LEMMA TitleStepInv ==
  ASSUME TitleInv, NEW t \in Turns, TitleStep(t)
  PROVE  TitleInv' /\ TitleMoves
<1>0. title \in Titles /\ title.generation \in Nat /\ title.generation + 1 > title.generation
  BY DEF TitleInv, Titles
<1>1. ASSUME NEW k \in Keys, SetTitle(k)
      PROVE  TitleInv' /\ TitleMoves
  <2>1. /\ title' \in Titles /\ title'.status = "ready" /\ title'.source = "host"
        /\ title'.generation = title.generation + 1
    BY <1>0, <1>1 DEF SetTitle, Titles
  <2>2. title'.generation >= title.generation /\ title'.generation # title.generation
    BY <1>0, <2>1
  <2>3. QED
    BY <2>1, <2>2 DEF TitleInv, TitleMoves, PendingTitleOwned
<1>2. CASE BeginTitle(t)
  <2>1. title.source # "host"
    BY <1>2 DEF BeginTitle, MayBegin, TitleInv
  <2>2. /\ title' \in Titles /\ title'.source = title.source
        /\ title'.generation = title.generation + 1
    <3> DEFINE g == title.generation + 1
    <3>1. g \in Nat
      BY <1>0
    <3>2. title' = [title EXCEPT !.status = "pending", !.generation = g,
                                 !.token = t, !.key = NoKey]
      BY <1>2 DEF BeginTitle
    <3> HIDE DEF g
    <3>3. title' \in Titles /\ title'.source = title.source /\ title'.generation = g
      BY <1>0, <3>1, <3>2 DEF Titles
    <3>4. QED
      BY <3>3 DEF g
  <2>3. title'.generation >= title.generation /\ title'.generation # title.generation
    BY <1>0, <2>2
  <2>4. Claim(title)' \in workers'
    BY <1>2 DEF BeginTitle, Claim
  <2>5. QED
    BY <2>1, <2>2, <2>3, <2>4 DEF TitleInv, TitleMoves, PendingTitleOwned
<1>3. ASSUME NEW claim \in workers, CompleteTitle(claim) \/ FailTitle(claim)
      PROVE  TitleInv' /\ TitleMoves
  <2>1. CASE Holds(claim)
    BY <1>3, <2>1, TitleDecided DEF CompleteTitle, FailTitle, Holds
  <2>2. CASE ~Holds(claim)
    BY <1>3, <2>2, SameTitle DEF CompleteTitle, FailTitle, Holds, TitleInv, PendingTitleOwned
  <2>3. QED
    BY <2>1, <2>2
<1>4. ASSUME NEW claim \in workers, LoseTitle(claim)
      PROVE  TitleInv' /\ TitleMoves
  BY <1>4, SameTitle DEF LoseTitle, TitleInv, PendingTitleOwned
<1>5. CASE Restart
  BY <1>5, SameTitle DEF Restart
<1>6. CASE FindPending
  BY <1>6, SameTitle DEF FindPending, TitleInv, PendingTitleOwned
<1>7. CASE RecoverPending
  <2>1. CASE Holds(found)
    BY <1>7, <2>1, TitleDecided DEF RecoverPending, Holds
  <2>2. CASE ~Holds(found)
    BY <1>7, <2>2, SameTitle DEF RecoverPending, TitleInv, PendingTitleOwned
  <2>3. QED
    BY <2>1, <2>2
<1>8. QED
  BY <1>1, <1>2, <1>3, <1>4, <1>5, <1>6, <1>7 DEF TitleStep

LEMMA TitleNextInv ==
  TitleInv /\ [TitleNext]_titleVars => TitleInv' /\ TitleMoves
<1> SUFFICES ASSUME TitleInv, [TitleNext]_titleVars PROVE TitleInv' /\ TitleMoves
  OBVIOUS
<1>1. ASSUME NEW t \in Turns, NEW r \in Runs, AcceptTitledInput(t, r)
      PROVE  TitleInv' /\ TitleMoves
  <2>1. CASE title.status # "unset"
    BY <1>1, <2>1, SameTitle DEF AcceptTitledInput, TitleInv, PendingTitleOwned
  <2>2. CASE title.status = "unset"
    <3>1. title \in Titles /\ title.generation \in Nat /\ title.source # "host"
      BY <2>2 DEF TitleInv, Titles
    <3>2. /\ title' \in Titles /\ title'.status = "ready"
          /\ title'.generation = title.generation + 1
      <4> DEFINE g == title.generation + 1
      <4>1. g \in Nat
        BY <3>1
      <4>2. title' = [title EXCEPT !.status = "ready", !.source = "fallback", !.generation = g]
        BY <1>1, <2>2 DEF AcceptTitledInput
      <4> HIDE DEF g
      <4>3. title' \in Titles /\ title'.status = "ready" /\ title'.generation = g
        BY <3>1, <4>1, <4>2 DEF Titles
      <4>4. QED
        BY <4>3 DEF g
    <3>3. title'.generation >= title.generation /\ title'.generation # title.generation
      BY <3>1, <3>2
    <3>4. QED
      BY <3>1, <3>2, <3>3 DEF TitleInv, TitleMoves, PendingTitleOwned
  <2>3. QED
    BY <2>1, <2>2
<1>2. CASE UNCHANGED titleRecords
  BY <1>2, SameTitle DEF titleRecords, TitleInv, PendingTitleOwned
<1>3. QED
  BY <1>1, <1>2, TitleStepInv DEF TitleNext, titleVars

\* A title is decided once per generation, the host's is never replaced by a
\* late worker, and no pending title is left without somebody to decide it.
THEOREM TitlesNeverGoBack == TitleSpec => TitlesInOrder
<1>1. TitleInv' => PendingTitleOwned'
  BY DEF TitleInv
<1>2. TitleInv /\ [TitleNext]_titleVars =>
        \/ /\ PendingTitleOwned'
           /\ title'.generation >= title.generation
           /\ title.source = "host" => title'.source = "host"
           /\ title' # title /\ title'.generation = title.generation =>
                title.status = "pending" /\ title'.status \in {"ready", "failed"}
        \/ UNCHANGED titleVars
  BY <1>1, TitleNextInv DEF TitleMoves
<1>3. QED
  BY <1>2, TitleInitInv, TitleNextInv, PTL DEF TitleSpec, TitlesInOrder
=============================================================================
