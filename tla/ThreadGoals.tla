---------------------------- MODULE ThreadGoals ----------------------------
(***************************************************************************)
(* The goal of a thread, written beside its turns by the same journal      *)
(* transactions.  A user may set, submit or delete it at any time, the     *)
(* model of the running turn may set or delete it, and only the completion *)
(* of a turn can mark it completed: the run reviews the goal, and the      *)
(* completion is accepted if that review is still about the present goal   *)
(* and the present work.                                                   *)
(*                                                                         *)
(* The agent has goals enabled, so every ordinary completion is guarded    *)
(* (goal_guard); a standalone compaction turn is not.  Calls are the calls *)
(* of work tools: the goal tool's own call and result leave the work       *)
(* boundary where it is.  A mutation with an old version, a repeated       *)
(* request key and every refusal change nothing and are stuttering steps.  *)
(***************************************************************************)
EXTENDS TurnJournal

CONSTANTS NoTurn,       \* no user message, no suppression
          BeforeInput,  \* suppression by a deletion before the first message
          MaxVersion    \* bound on the goal mutations of a behaviour

ASSUME GoalAssumption ==
  /\ NoTurn \notin Turns \cup {BeforeInput} /\ BeforeInput \notin Turns
  /\ MaxVersion \in Nat

VARIABLES
  goal,        \* absent, active or completed
  version,     \* goal mutations so far
  suppressed,  \* turn whose user message was the latest when the user deleted
  input,       \* turn of the latest ordinary user message
  unknownSinceInput,  \* a turn ended with an unknown effect after that message
  issued,      \* <<t, r, c>>: run r of turn t was answered with call c
  review,      \* the latest goal review on record
  declined     \* history: the user deleted, and has not written or set since

facts == <<goal, version, suppressed, input, unknownSinceInput, issued, review,
           declined>>
goalVars == <<vars, facts>>

ReviewOutcomes == {"completed", "continue", "blocked"}

\* What the work of a turn had come to; kept with a review as history.
Work(t) == [calls |-> [c \in Calls |-> call[<<t, c>>]],
            answered |-> {a \in Asks : ask[<<t, a>>] = "resolved"},
            applied |-> {s \in Steers : steer[<<t, s>>] = "applied"}]

Works == [calls : [Calls -> {"none", "open", "closed"}],
          answered : SUBSET Asks, applied : SUBSET Steers]

\* The review of a goal version by a run; bound says that no entry since has
\* moved the work boundary.  Before the first review nothing matches.
NoReview == [run |-> NoRun]

Reviews == [run : Runs, version : Nat, outcome : ReviewOutcomes, bound : BOOLEAN,
            work : Works] \cup {NoReview}

GoalTypeOK ==
  /\ TypeOK
  /\ goal \in {"absent", "active", "completed"}
  /\ version \in Nat
  /\ suppressed \in Turns \cup {NoTurn, BeforeInput}
  /\ input \in Turns \cup {NoTurn}
  /\ unknownSinceInput \in BOOLEAN
  /\ issued \subseteq Turns \X Runs \X Calls
  /\ review \in Reviews
  /\ declined \in BOOLEAN

GoalInit ==
  /\ Init
  /\ goal = "absent"
  /\ version = 0
  /\ suppressed = NoTurn
  /\ input = NoTurn
  /\ unknownSinceInput = FALSE
  /\ issued = {}
  /\ review = NoReview
  /\ declined = FALSE
-----------------------------------------------------------------------------
(* Mutations of the goal.                                                  *)

\* Every mutation is a new version; a set makes the goal active.
SetGoal ==
  /\ version < MaxVersion
  /\ version' = version + 1
  /\ goal' = "active"
  /\ suppressed' = NoTurn

DeleteGoal ==
  /\ version < MaxVersion
  /\ version' = version + 1
  /\ goal' = "absent"

UserSetsGoal ==
  /\ SetGoal
  /\ declined' = FALSE
  /\ UNCHANGED <<vars, input, unknownSinceInput, issued, review>>

\* A user's deletion suppresses the goal for the task of the latest message.
UserDeletesGoal ==
  /\ DeleteGoal
  /\ suppressed' = IF input = NoTurn THEN BeforeInput ELSE input
  /\ declined' = TRUE
  /\ UNCHANGED <<vars, input, unknownSinceInput, issued, review>>

\* The model says whether the user has given it a new task.
MaySet(newTask) == suppressed = NoTurn \/ (newTask /\ input # suppressed)

ModelSetsGoal(t, r, newTask) ==
  /\ HasAuthority(t, r)
  /\ ~cancelled[t]
  /\ MaySet(newTask)
  /\ SetGoal
  /\ UNCHANGED <<vars, input, unknownSinceInput, issued, review, declined>>

\* Mutant: the model's own deletion lifts the user's suppression.
ModelDeletesForgetting(t, r) ==
  /\ HasAuthority(t, r)
  /\ ~cancelled[t]
  /\ DeleteGoal
  /\ suppressed' = NoTurn
  /\ UNCHANGED <<vars, input, unknownSinceInput, issued, review, declined>>

ModelDeletesGoal(t, r) ==
  /\ HasAuthority(t, r)
  /\ ~cancelled[t]
  /\ DeleteGoal
  /\ UNCHANGED <<vars, suppressed, input, unknownSinceInput, issued, review, declined>>

\* A review is refused while a call of the same run has no result, and for a
\* deleted goal when it says completed.
RecordGoalReview(t, r, outcome) ==
  /\ HasAuthority(t, r)
  /\ ~cancelled[t]
  /\ outcome = "completed" => goal # "absent"
  /\ \A c \in Calls : <<t, r, c>> \in issued => call[<<t, c>>] # "open"
  /\ review' = [run |-> r, version |-> version, outcome |-> outcome,
                bound |-> TRUE, work |-> Work(t)]
  /\ UNCHANGED <<vars, goal, version, suppressed, input, unknownSinceInput,
                 issued, declined>>

\* The work boundary moved: a call or result of a work tool, a user message,
\* applied steering or an answered interaction.
MoveBoundary ==
  review' = IF review = NoReview THEN review ELSE [review EXCEPT !.bound = FALSE]
-----------------------------------------------------------------------------
(* Admission.                                                              *)

\* A turn with a user message: Send, a promoted submission.
AcceptInput(t, r) ==
  /\ AcceptTurn(t, r, "ordinary")
  /\ input' = t
  /\ unknownSinceInput' = FALSE
  /\ declined' = FALSE
  /\ MoveBoundary
  /\ UNCHANGED <<goal, version, suppressed, issued>>

\* Retries, host-work continuations and compactions bring no user message.
AcceptWithoutInput(t, r, k) ==
  /\ AcceptTurn(t, r, k)
  /\ UNCHANGED facts

\* A goal continuation is a turn of its own while the goal is active, and a
\* plain compaction when it no longer is; it does not pursue the goal over an
\* unknown effect that the user has not reacted to.
AcceptGoalContinuation(t, r) ==
  /\ goal = "active" => ~unknownSinceInput
  /\ AcceptTurn(t, r, IF goal = "active" THEN "ordinary" ELSE "compaction")
  /\ UNCHANGED facts

\* SubmitGoal: the goal and, on an idle thread, the turn with its text as the
\* user message are one transaction; a busy thread gets only the goal, which
\* is UserSetsGoal.
SubmitGoal(t, r) ==
  /\ SetGoal
  /\ AcceptTurn(t, r, "ordinary")
  /\ input' = t
  /\ unknownSinceInput' = FALSE
  /\ declined' = FALSE
  /\ MoveBoundary
  /\ UNCHANGED issued
-----------------------------------------------------------------------------
(* The running turn and its end.                                           *)

ReceiveCalls(t, r, calls, state) ==
  /\ CommitProviderContext(t, r, calls, state)
  /\ issued' = issued \cup {<<t, r, c>> : c \in calls}
  /\ IF calls = {} THEN UNCHANGED review ELSE MoveBoundary
  /\ UNCHANGED <<goal, version, suppressed, input, unknownSinceInput, declined>>

\* Mutant: applied steering leaves a review in force.
WorkStepBesideSteering(t) ==
  /\ \/ \E c \in Calls : AppendToolResult(t, c)
     \/ \E answered \in SUBSET Asks : ResolveInteractions(t, answered)
     \/ \E r \in Runs : ApplySteering(t, r)
     \/ \E r \in Runs, c \in Calls, outcome \in Outcomes : FinishDispatch(t, r, c, outcome)
  /\ IF steer' # steer THEN UNCHANGED review ELSE MoveBoundary
  /\ UNCHANGED <<goal, version, suppressed, input, unknownSinceInput, issued, declined>>

\* The other transactions that move the work boundary.
WorkStep(t) ==
  /\ \/ \E c \in Calls : AppendToolResult(t, c)
     \/ \E answered \in SUBSET Asks : ResolveInteractions(t, answered)
     \/ \E r \in Runs : ApplySteering(t, r)
     \/ \E r \in Runs, c \in Calls, outcome \in Outcomes : FinishDispatch(t, r, c, outcome)
  /\ MoveBoundary
  /\ UNCHANGED <<goal, version, suppressed, input, unknownSinceInput, issued, declined>>

\* Those that the goal does not see.
OtherStep(t) ==
  /\ \/ SavePoint(t)
     \/ \E r \in Runs : ContinueRun(t, r)
     \/ StartCompaction(t) \/ EndCompaction(t)
     \/ \E r \in Runs : InstallCompaction(t, r)
     \/ \E a \in Asks : AskInteraction(t, a)
     \/ \E r \in Runs, s \in Steers : RequestSteering(t, r, s)
     \/ \E r \in Runs, c \in Calls :
          PrepareEffect(t, r, c) \/ RejectEffect(t, r, c) \/ BeginDispatch(t, r, c)
     \/ \E r \in Runs : RequestCancel(t, r)
  /\ UNCHANGED facts

\* Mutant: a review of an earlier version of the goal still counts.
ValidReviewOfAnyVersion(r) ==
  /\ review.run = r
  /\ review.bound
  /\ review.outcome \in {"completed", "blocked"}

ValidReview(r) ==
  /\ review.run = r
  /\ review.version = version
  /\ review.bound
  /\ review.outcome \in {"completed", "blocked"}

\* The terminal names the review its harness saw (named: it is the latest of
\* the run) before the transaction, which looks again.
FinishGoal(t, r, status, id, keep, named) ==
  /\ FinishTurn(t, r, status, id, keep)
  /\ IF status = "completed" /\ kind[t] = "ordinary" /\ goal = "active"
     THEN /\ ValidReview(r) /\ named
          /\ goal' = IF review.outcome = "completed" THEN "completed" ELSE goal
     ELSE UNCHANGED goal
  /\ UNCHANGED <<version, suppressed, input, unknownSinceInput, issued, review, declined>>

\* The closings behind these ends move the boundary of a turn whose reviews
\* are not read again.
EndUnknown(t) ==
  /\ \E r \in Runs : FailUnknownEffectTurn(t, r) \/ CancelTurn(t, r)
  /\ unknownSinceInput' = (unknownSinceInput \/ marker'[t] = "unknown")
  /\ UNCHANGED <<goal, version, suppressed, input, issued, review, declined>>
-----------------------------------------------------------------------------
UserStep(t) ==
  \/ UserSetsGoal
  \/ UserDeletesGoal
  \/ \E r \in Runs : AcceptInput(t, r) \/ SubmitGoal(t, r)

ModelStep(t) ==
  \E r \in Runs :
    \/ \E newTask \in BOOLEAN : ModelSetsGoal(t, r, newTask)
    \/ ModelDeletesGoal(t, r)
    \/ \E outcome \in ReviewOutcomes : RecordGoalReview(t, r, outcome)
    \/ \E calls \in SUBSET Calls, state \in {"set", "keep", "clear"} :
         ReceiveCalls(t, r, calls, state)

HostStep(t) ==
  \/ \E r \in Runs, k \in Kinds : AcceptWithoutInput(t, r, k)
  \/ \E r \in Runs : AcceptGoalContinuation(t, r)
  \/ WorkStep(t)
  \/ OtherStep(t)
  \/ \E r \in Runs, status \in FinishStatus, id \in FinishIDs, keep, named \in BOOLEAN :
       FinishGoal(t, r, status, id, keep, named)
  \/ EndUnknown(t)

GoalNext == \E t \in Turns : UserStep(t) \/ ModelStep(t) \/ HostStep(t)

GoalSpec == GoalInit /\ [][GoalNext]_goalVars
-----------------------------------------------------------------------------
(* Properties.                                                             *)

\* The latest review is the running one's own, about the goal as it is and
\* about all the work that is on record now.
UpToDate(t) ==
  /\ review # NoReview
  /\ review.run = identity[t]
  /\ review.version = version
  /\ review.work = Work(t)

Succeeds(t) ==
  kind[t] = "ordinary" /\ marker[t] # "completed" /\ marker'[t] = "completed"

\* A turn never succeeds over an active goal without an up-to-date verdict, and
\* the goal is marked completed only by such an end: a late edit, steering or
\* result between the review and the end fails the turn instead
\* (goals.go:274-297).
GoalEarned ==
  /\ \A t \in Turns : Succeeds(t) /\ goal = "active" =>
       /\ UpToDate(t) /\ review.outcome \in {"completed", "blocked"}
       /\ goal' = "completed" <=> review.outcome = "completed"
  /\ goal # "completed" /\ goal' = "completed" =>
       \E t \in Turns : marker[t] \in ActiveStatus /\ marker'[t] = "completed"

\* In a thread that has a user message: after the user deleted the goal, no
\* turn brings it back before the user writes again or sets a goal; not a
\* retry, a continuation, an answer, nor a deletion by the model itself.
DeletionRespected == declined /\ input # NoTurn => goal = "absent"

\* Each step that completes the goal has earned it, and no step brings back
\* what the user deleted.
GoalsHonoured == [][GoalEarned /\ DeletionRespected']_goalVars
=============================================================================
