------------------------- MODULE TurnRecoveryProofs -------------------------
(***************************************************************************)
(* What holds of the runtime thread of TurnRecovery in every state: its    *)
(* steps are transactions of the journal, its memory agrees with what the  *)
(* journal holds as long as the process lives, and two executions meet     *)
(* only after a process loss, where an instruction or a second recovery    *)
(* pass comes in between.                                                  *)
(*                                                                         *)
(* The inductive invariant RecoveryInv has a part that always holds        *)
(* (Typed, JournalFacts, KnownRuns, Down, Reasons, EndsRecorded), one for  *)
(* a turn that met neither a second pass nor, after a loss, an instruction *)
(* (Single), and one for a process that was never lost (Unbroken).  Each   *)
(* part is preserved by a lemma of its own.                                *)
(***************************************************************************)
EXTENDS TurnRecovery, TurnJournalProofs

\* Stages in which an execution is at one of its calls.
AtCall == {"called", "prepared", "asked", "cleared", "running"}

\* RecoveryTypeOK without the bounds, and the call an execution is at.
Typed ==
  /\ up \in BOOLEAN /\ active \in BOOLEAN /\ stopSeen \in BOOLEAN /\ owned \in BOOLEAN
  /\ sealed \in BOOLEAN /\ overlap \in BOOLEAN /\ crowded \in BOOLEAN
  /\ crashes \in Nat /\ due \in Nat /\ starting \in [Runs -> Nat]
  /\ holder \in Runs \cup {NoRun}
  /\ worker \in [Runs -> Stages] /\ tool \in [Runs -> Calls \cup {NoRun}]
  /\ instructions \subseteq Steers
  /\ questions \in Seq(Inputs \X Runs)
  /\ \A r \in Runs : worker[r] \in AtCall => tool[r] \in Calls

LEMMA TheTurn == Turn \in Turns /\ Turns = {Turn} /\ Calls \subseteq Asks /\ Inputs \subseteq Asks
  BY RecoveryAssumption DEF Inputs

\* Who may write for a turn is the run that the journal holds for it.
LEMMA Authority ==
  ASSUME TypeInv, NEW r, HasAuthority(Turn, r)
  PROVE  r \in Runs /\ Writable(Turn) /\ identity[Turn] = r
<1>1. Writable(Turn) /\ identity[Turn] = r
  BY TheTurn DEF HasAuthority, ActiveTurn, Active, Writable
<1>2. marker[Turn] # "none"
  BY <1>1 DEF Writable, ActiveStatus
<1>3. QED
  BY <1>1, <1>2, TheTurn DEF TypeInv, AdmittedTurnHasRun

LEMMA Minted == CanMint => NewRun \in Runs /\ FreshRun(NewRun)
  BY DEF CanMint, NewRun

-----------------------------------------------------------------------------
(* Every step of the thread is a transaction of the journal or none.        *)

LEMMA WorkIsStep ==
  ASSUME TypeInv, Typed, NEW r \in Runs, Work(r)
  PROVE  [Next]_vars
<1> USE TheTurn
<1>1. CASE ReadAccepted(r) \/ BeginFragment(r) \/ Interrupt(r) \/ Conclude(r) \/ Fail(r)
           \/ Seal(r) \/ Leave(r) \/ Suspend(r) \/ Retire(r)
  BY <1>1 DEF ReadAccepted, BeginFragment, Interrupt, Conclude, Fail, Seal, Leave, Suspend, Retire
<1>2. CASE \E c \in Calls : CloseAtBoundary(r, c)
  BY <1>2 DEF CloseAtBoundary, Next, RunTurn
<1>3. CASE ResolveAtBoundary(r)
  <2>1. Pending(Asks) \in SUBSET Asks
    BY DEF Pending
  <2>2. QED
    BY <1>3, <2>1 DEF ResolveAtBoundary, Next, Interact
<1>4. CASE ApplyAtBoundary(r)
  BY <1>4 DEF ApplyAtBoundary, Next, Interact
<1>5. CASE \E c \in Calls : Respond(r, c)
  <2>1. PICK c \in Calls : CommitProviderContext(Turn, r, {c}, "keep")
    BY <1>5 DEF Respond
  <2>2. {c} \in SUBSET Calls
    BY <2>1
  <2>3. QED
    BY <2>1, <2>2 DEF Next, RunTurn
<1>6. CASE Prepare(r) \/ Dispatch(r) \/ Return(r)
  <2>1. tool[r] \in Calls
    BY <1>6 DEF Prepare, Dispatch, Return, Step, Typed, AtCall
  <2>2. QED
    BY <1>6, <2>1 DEF Prepare, Dispatch, Return, Next, Effect, Outcomes
<1>7. CASE AskApproval(r) \/ \E q \in Inputs : AskInput(r, q)
  <2>1. PICK a \in Asks : AskInteraction(Turn, a)
    BY <1>7 DEF AskApproval, AskInput, Step, Typed, AtCall
  <2>2. QED
    BY <2>1 DEF Next, Interact
<1>8. CASE EndPaused(r) \/ EndConcluded(r)
  BY <1>8 DEF EndPaused, EndConcluded, End, Next, EndTurn, FinishStatus, FinishIDs
<1>9. CASE EndFailing(r)
  BY <1>9 DEF EndFailing, OpenCalls, Next, RunTurn, EndTurn, FinishStatus, FinishIDs
<1>10. QED
  BY <1>1, <1>2, <1>3, <1>4, <1>5, <1>6, <1>7, <1>8, <1>9 DEF Work

LEMMA ContinueIsStep ==
  ASSUME TypeInv, NEW task, ResolveForClaim(task) \/ Claim(task) \/ Drop(task)
  PROVE  [Next]_vars
<1>1. Pending(Asks) \in SUBSET Asks
  BY DEF Pending
<1>2. QED
  BY <1>1, TheTurn, Minted DEF ResolveForClaim, Claim, Drop, Next, Interact, RunTurn

LEMMA StopIsStep ==
  ASSUME TypeInv, RequestStop \/ CancelNow
  PROVE  [Next]_vars
<1>1. HasAuthority(Turn, holder)
  BY DEF RequestStop, CancelNow, RequestCancel, CancelTurn
<1>2. holder \in Runs
  BY <1>1, Authority
<1>3. QED
  BY <1>2, TheTurn DEF RequestStop, CancelNow, Next, EndTurn

LEMMA AnswerIsStep ==
  ASSUME TypeInv, NEW a \in Asks, AnswerInput(a) \/ AnswerApproval(a)
  PROVE  [Next]_vars
<1>1. {a} \in SUBSET Asks
  OBVIOUS
<1>2. QED
  BY <1>1, TheTurn DEF AnswerInput, AnswerApproval, Next, Interact

LEMMA SteerIsStep ==
  ASSUME TypeInv, NEW s \in Steers, Steer(s)
  PROVE  [Next]_vars
<1>1. holder \in Runs
  BY Authority DEF Steer, RequestSteering
<1>2. QED
  BY <1>1, TheTurn DEF Steer, Next, Interact

LEMMA RecoverIsStep ==
  ASSUME TypeInv, Recovery
  PROVE  [Next]_vars
<1>1. CASE Restart \/ RecoverFinished \/ RecoverSteering \/ RecoverQuestion \/ RecoverExecution
  BY <1>1 DEF Restart, RecoverFinished, RecoverSteering, RecoverQuestion, RecoverExecution
<1>2. CASE RecoverStop
  BY <1>2, StopIsStep DEF RecoverStop
<1>3. CASE RecoverUnknown
  <2>1. identity[Turn] \in Runs
    BY <1>3, Authority DEF RecoverUnknown, FailUnknownEffectTurn, FailUnknown, FailUnknownAdmitted
  <2>2. QED
    BY <1>3, <2>1, TheTurn DEF RecoverUnknown, Next, EndTurn
<1>4. ASSUME NEW r \in Runs, Redispatch(r) \/ RedispatchFails(r)
      PROVE  [Next]_vars
  BY <1>4, TheTurn DEF Redispatch, RedispatchFails, Next, EndTurn, FinishStatus, FinishIDs
<1>5. QED
  BY <1>1, <1>2, <1>3, <1>4 DEF Recovery

LEMMA RecoveryIsStep ==
  ASSUME TypeInv, Typed, [RecoveryNext]_recoveryVars
  PROVE  [Next]_vars
<1>1. CASE UNCHANGED recoveryVars
  BY <1>1 DEF recoveryVars
<1>2. CASE Settlement
  BY <1>2, StopIsStep DEF Settlement, OwnerSettles, OwnerLate, FinishStop
<1>3. CASE Outside
  <2>1. CASE Admit
    BY <2>1, TheTurn, Minted DEF Admit, Next, RunTurn, Kinds
  <2>2. CASE StopNow \/ RequestStop \/ Crash
    BY <2>2, StopIsStep DEF StopNow, Crash
  <2>3. QED
    BY <1>3, <2>1, <2>2, AnswerIsStep, SteerIsStep DEF Outside
<1>4. QED
  BY <1>1, <1>2, <1>3, WorkIsStep, ContinueIsStep, RecoverIsStep DEF RecoveryNext, Continue
-----------------------------------------------------------------------------
(* The types of what the thread keeps.                                      *)

LEMMA TypedWork ==
  ASSUME Typed, NEW r \in Runs, Work(r)
  PROVE  Typed'
<1> USE DEF Typed, AtCall, Stages, Step, Stage, decision, quietly, process, execution, passes,
        history
<1>1. CASE ReadAccepted(r) \/ BeginFragment(r) \/ Interrupt(r) \/ Conclude(r) \/ Fail(r)
           \/ Leave(r)
  BY <1>1 DEF ReadAccepted, BeginFragment, Interrupt, Conclude, Fail, Leave
<1>2. CASE \/ \E c \in Calls : CloseAtBoundary(r, c)
           \/ ResolveAtBoundary(r) \/ ApplyAtBoundary(r)
  BY <1>2 DEF CloseAtBoundary, ResolveAtBoundary, ApplyAtBoundary
<1>3. CASE \E c \in Calls : Respond(r, c)
  BY <1>3 DEF Respond
<1>4. CASE Prepare(r) \/ Dispatch(r) \/ Return(r) \/ AskApproval(r)
  BY <1>4 DEF Prepare, Dispatch, Return, AskApproval
<1>5. ASSUME NEW q \in Inputs, AskInput(r, q)
      PROVE  Typed'
  <2>1. <<q, r>> \in Inputs \X Runs
    OBVIOUS
  <2>2. questions' \in Seq(Inputs \X Runs)
    BY <1>5, <2>1 DEF AskInput
  <2>3. QED
    BY <1>5, <2>2 DEF AskInput
<1>6. CASE Seal(r)
  BY <1>6 DEF Seal
<1>7. CASE Suspend(r) \/ Retire(r)
  BY <1>7 DEF Suspend, Retire, FinishSend, Settle
<1>8. CASE EndPaused(r) \/ EndConcluded(r)
  BY <1>8 DEF EndPaused, EndConcluded, End
<1>9. CASE EndFailing(r)
  BY <1>9 DEF EndFailing
<1>10. QED
  BY <1>1, <1>2, <1>3, <1>4, <1>5, <1>6, <1>7, <1>8, <1>9 DEF Work

LEMMA TypedBegin ==
  ASSUME Typed, NEW r \in Runs, NEW stage \in Stages \ AtCall, BeginRun(r, stage)
  PROVE  /\ holder' \in Runs \cup {NoRun} /\ active' \in BOOLEAN /\ owned' \in BOOLEAN
         /\ sealed' \in BOOLEAN /\ overlap' \in BOOLEAN /\ crowded' \in BOOLEAN
         /\ worker' \in [Runs -> Stages] /\ tool' \in [Runs -> Calls \cup {NoRun}]
         /\ \A x \in Runs : worker'[x] \in AtCall => tool'[x] \in Calls
  BY DEF Typed, BeginRun, Stage

LEMMA TypedContinue ==
  ASSUME Typed, NEW task, ResolveForClaim(task) \/ Claim(task) \/ Drop(task)
  PROVE  Typed'
<1>1. CASE Claim(task)
  <2>1. BeginRun(NewRun, "boundary") /\ NewRun \in Runs
    BY <1>1, Minted DEF Claim
  <2>2. "boundary" \in Stages \ AtCall
    BY DEF Stages, AtCall
  <2>3. QED
    BY <1>1, <2>1, <2>2, TypedBegin DEF Claim, Typed, process
<1>2. CASE ResolveForClaim(task) \/ Drop(task)
  BY <1>2 DEF ResolveForClaim, Drop, Typed, process, decision, execution, passes, history
<1>3. QED
  BY <1>1, <1>2

LEMMA TypedStops ==
  ASSUME Typed, RequestStop \/ StopNow \/ Settlement
  PROVE  Typed'
<1> USE DEF Typed, decision, process, execution, passes, history
<1>1. CASE RequestStop
  BY <1>1 DEF RequestStop
<1>2. CASE StopNow \/ OwnerSettles
  BY <1>2 DEF StopNow, OwnerSettles, CancelNow
<1>3. CASE OwnerLate \/ FinishStop
  BY <1>3 DEF OwnerLate, FinishStop, FinishSend, Settle
<1>4. QED
  BY <1>1, <1>2, <1>3 DEF Settlement

LEMMA TypedAnswers ==
  ASSUME Typed, NEW a \in Asks, AnswerInput(a) \/ AnswerApproval(a)
  PROVE  Typed'
<1> USE DEF Typed, decision, process, execution, passes, history
<1>1. CASE AnswerInput(a)
  BY <1>1 DEF AnswerInput
<1>2. CASE AnswerApproval(a) /\ a \in local
  <2>1. worker' = [r \in Runs |->
                IF worker[r] = "asked" /\ tool[r] = a THEN "cleared" ELSE worker[r]]
    BY <1>2 DEF AnswerApproval
  <2>2. worker' \in [Runs -> Stages]
    BY <2>1 DEF Stages
  <2>3. \A r \in Runs : worker'[r] \in AtCall => worker[r] \in AtCall
    BY <2>1 DEF AtCall
  <2>4. QED
    BY <1>2, <2>2, <2>3 DEF AnswerApproval
<1>3. CASE AnswerApproval(a) /\ a \notin local
  BY <1>3 DEF AnswerApproval
<1>4. QED
  BY <1>1, <1>2, <1>3

LEMMA TypedRecovery ==
  ASSUME TypeInv, Typed, Recovery
  PROVE  Typed'
<1> USE DEF Typed, decision, process, execution, passes, history, StartEnds
<1>1. CASE Restart
  <2>1. cancelled[Turn] \in BOOLEAN /\ identity[Turn] \in Runs \cup {NoRun}
    BY TheTurn DEF TypeInv, TypeOK
  <2>2. QED
    BY <1>1, <2>1 DEF Restart, Writable, PendingSteer
<1>8. PassEnds => due' \in Nat
  BY DEF PassEnds
<1>2. CASE RecoverFinished \/ RecoverSteering \/ RecoverQuestion
  BY <1>2, <1>8 DEF RecoverFinished, RecoverSteering, RecoverQuestion
<1>3. CASE RecoverStop \/ RecoverUnknown
  BY <1>3, <1>8 DEF RecoverStop, CancelNow, RecoverUnknown, FinishSend, Settle
<1>4. CASE RecoverExecution
  <2>1. \/ starting' = starting
        \/ starting' = [starting EXCEPT ![identity[Turn]] = starting[identity[Turn]] + 1]
    BY <1>4 DEF RecoverExecution
  <2>3. starting' \in [Runs -> Nat]
    BY <2>1
  <2>2. QED
    BY <1>4, <1>8, <2>3 DEF RecoverExecution
<1>5. ASSUME NEW r \in Runs, Redispatch(r)
      PROVE  Typed'
  <2>1. starting' \in [Runs -> Nat]
    BY <1>5 DEF Redispatch
  <2>2. "reading" \in Stages \ AtCall
    BY DEF Stages, AtCall
  <2>3. QED
    BY <1>5, <2>1, <2>2, TypedBegin DEF Redispatch
<1>6. ASSUME NEW r \in Runs, RedispatchFails(r)
      PROVE  Typed'
  <2>1. starting' \in [Runs -> Nat]
    BY <1>6 DEF RedispatchFails
  <2>2. QED
    BY <1>6, <2>1 DEF RedispatchFails, FinishSend, Settle
<1>7. QED
  BY <1>1, <1>2, <1>3, <1>4, <1>5, <1>6 DEF Recovery

LEMMA TypedStep ==
  ASSUME TypeInv, Typed, [RecoveryNext]_recoveryVars
  PROVE  Typed'
<1>1. CASE UNCHANGED recoveryVars
  BY <1>1 DEF Typed, recoveryVars, decision, process, execution, passes, history
<1>2. CASE Admit
  <2>1. BeginRun(NewRun, "reading") /\ NewRun \in Runs
    BY <1>2, Minted DEF Admit
  <2>2. "reading" \in Stages \ AtCall
    BY DEF Stages, AtCall
  <2>3. QED
    BY <1>2, <2>1, <2>2, TypedBegin DEF Admit, Typed, process, passes
<1>3. CASE \E s \in Steers : Steer(s)
  BY <1>3 DEF Steer, Typed, process, execution, history
<1>4. CASE Crash
  <2>1. /\ worker' = NoWork /\ tool' = NoTool /\ starting' = NoStart
        /\ crashes' = crashes + 1 /\ due' = 0 /\ holder' = NoRun /\ instructions' = {}
        /\ up' = FALSE /\ active' = FALSE /\ stopSeen' = FALSE /\ owned' = FALSE
        /\ sealed' = FALSE /\ overlap' = overlap /\ crowded' = crowded
        /\ questions' = questions
    BY <1>4 DEF Crash, history
  <2>2. worker' \in [Runs -> Stages] /\ tool' \in [Runs -> Calls \cup {NoRun}]
    BY <2>1 DEF NoWork, NoTool, Stages
  <2>3. \A r \in Runs : worker'[r] \notin AtCall
    BY <2>1 DEF NoWork, AtCall
  <2>4. starting' \in [Runs -> Nat] /\ crashes' \in Nat /\ due' \in Nat
    BY <2>1 DEF NoStart, Typed
  <2>5. QED
    BY <2>1, <2>2, <2>3, <2>4 DEF Typed
<1>5. QED
  BY <1>1, <1>2, <1>3, <1>4, TypedWork, TypedContinue, TypedStops, TypedAnswers, TypedRecovery
     DEF RecoveryNext, Continue, Outside
-----------------------------------------------------------------------------
(* What the journal holds of the turn, and what no transaction takes back.  *)

Steered == \E s \in Steers : steer[<<Turn, s>>] # "none"

JournalFacts ==
  /\ {started[Turn], identity[Turn]} \subseteq runs[Turn] \cup {NoRun}
  /\ marker[Turn] = "none" =>
       /\ \A a \in Asks : ask[<<Turn, a>>] = "none"
       /\ \A s \in Steers : steer[<<Turn, s>>] = "none"
       /\ ~cancelled[Turn]
  /\ Writable(Turn) => \A s \in Steers : steer[<<Turn, s>>] # "cancelled"

Grows ==
  /\ runs[Turn] \subseteq runs'[Turn]
  /\ identity'[Turn] \in {identity[Turn]} \cup runs'[Turn]
  /\ started'[Turn] \in {started[Turn]} \cup runs'[Turn]
  /\ marker'[Turn] = "none" =>
       marker[Turn] = "none" /\ ask' = ask /\ steer' = steer /\ cancelled' = cancelled
  /\ \A s \in Steers : steer[<<Turn, s>>] # "none" => steer'[<<Turn, s>>] # "none"
  /\ \A s \in Steers :
       marker'[Turn] \in ActiveStatus /\ steer'[<<Turn, s>>] = "cancelled" =>
         steer[<<Turn, s>>] = "cancelled"

LEMMA Ended ==
  ASSUME TypeInv, NEW r \in Runs, NEW status \in TerminalStatus,
         WriteMarker(Turn, r, status), SettleSteers(Turn)
  PROVE  Grows
<1>1. /\ marker'[Turn] = status /\ identity'[Turn] = r /\ runs'[Turn] = runs[Turn] \cup {r}
      /\ started' = started
  BY TheTurn DEF WriteMarker, TypeInv, TypeOK
<1>2. status # "none" /\ status \notin ActiveStatus
  BY DEF TerminalStatus, ActiveStatus
<1>3. \A s \in Steers : steer[<<Turn, s>>] # "none" => steer'[<<Turn, s>>] # "none"
  BY TheTurn DEF SettleSteers, TypeInv, TypeOK
<1>4. QED
  BY <1>1, <1>2, <1>3 DEF Grows

LEMMA Continued ==
  ASSUME TypeInv, NEW r \in Runs, NEW status \in ActiveStatus,
         WriteMarker(Turn, r, status), UNCHANGED steer
  PROVE  Grows
<1>1. /\ marker'[Turn] = status /\ identity'[Turn] = r /\ runs'[Turn] = runs[Turn] \cup {r}
      /\ started' = started
  BY TheTurn DEF WriteMarker, TypeInv, TypeOK
<1>2. status # "none"
  BY DEF ActiveStatus
<1>3. QED
  BY <1>1, <1>2 DEF Grows

LEMMA Alive ==
  ASSUME TypeInv, Writable(Turn), UNCHANGED <<marker, started, identity, runs>>,
         \A s \in Steers : steer[<<Turn, s>>] # "none" => steer'[<<Turn, s>>] # "none",
         \A s \in Steers : steer'[<<Turn, s>>] = "cancelled" => steer[<<Turn, s>>] = "cancelled"
  PROVE  Grows
  BY DEF Grows, Writable, ActiveStatus

LEMMA RunTurnGrows ==
  ASSUME TypeInv, RunTurn(Turn)
  PROVE  Grows
<1>1. CASE \E r \in Runs, k \in Kinds : AcceptTurn(Turn, r, k)
  BY <1>1, TheTurn DEF AcceptTurn, Grows, items, TypeInv, TypeOK
<1>2. CASE SavePoint(Turn)
  <2>1. identity[Turn] \in Runs
    BY <1>2, TheTurn DEF SavePoint, Writable, ActiveStatus, TypeInv, AdmittedTurnHasRun
  <2>2. QED
    BY <1>2, <2>1, Continued DEF SavePoint, items, ActiveStatus
<1>3. CASE \E r \in Runs : ContinueRun(Turn, r)
  BY <1>3, Continued DEF ContinueRun, items, ActiveStatus
<1>4. CASE \/ \E r \in Runs, calls \in SUBSET Calls, state \in {"set", "keep", "clear"} :
                CommitProviderContext(Turn, r, calls, state)
           \/ \E c \in Calls : AppendToolResult(Turn, c)
           \/ StartCompaction(Turn) \/ EndCompaction(Turn)
  <2>1. Writable(Turn)
    BY <1>4, Authority DEF CommitProviderContext, AppendToolResult, StartCompaction, EndCompaction
  <2>2. UNCHANGED <<journal, steer>>
    BY <1>4 DEF CommitProviderContext, AppendToolResult, StartCompaction, EndCompaction, items
  <2>3. QED
    BY <2>1, <2>2, Alive DEF journal
<1>5. CASE \E r \in Runs : InstallCompaction(Turn, r)
  <2>1. PICK r \in Runs : InstallCompaction(Turn, r)
    BY <1>5
  <2>2. Writable(Turn)
    BY <2>1, Authority DEF InstallCompaction, InstallAdmitted
  <2>3. CASE UNCHANGED <<journal, items>>
    BY <2>2, <2>3, Alive DEF journal, items
  <2>4. CASE WriteMarker(Turn, r, "completed") /\ SettleSteers(Turn)
    BY <2>4, Ended DEF TerminalStatus
  <2>5. QED
    BY <2>1, <2>3, <2>4 DEF InstallCompaction
<1>6. QED
  BY <1>1, <1>2, <1>3, <1>4, <1>5 DEF RunTurn

LEMMA InteractGrows ==
  ASSUME TypeInv, Interact(Turn)
  PROVE  Grows
<1>1. Writable(Turn) /\ UNCHANGED journal
  BY Authority DEF Interact, AskInteraction, ResolveInteractions, RequestSteering, ApplySteering
<1>2. \A s \in Steers : /\ steer[<<Turn, s>>] # "none" => steer'[<<Turn, s>>] # "none"
                        /\ steer'[<<Turn, s>>] = "cancelled" => steer[<<Turn, s>>] = "cancelled"
  <2>1. CASE \/ \E a \in Asks : AskInteraction(Turn, a)
             \/ \E answered \in SUBSET Asks : ResolveInteractions(Turn, answered)
    BY <2>1 DEF AskInteraction, ResolveInteractions
  <2>2. CASE \E r \in Runs, s \in Steers : RequestSteering(Turn, r, s)
    BY <2>2, TheTurn DEF RequestSteering, TypeInv, TypeOK
  <2>3. CASE \E r \in Runs : ApplySteering(Turn, r)
    BY <2>3, TheTurn DEF ApplySteering, TypeInv, TypeOK
  <2>4. QED
    BY <2>1, <2>2, <2>3 DEF Interact
<1>3. QED
  BY <1>1, <1>2, Alive DEF journal

LEMMA EffectGrows ==
  ASSUME TypeInv, Effect(Turn)
  PROVE  Grows
<1>1. Writable(Turn) /\ UNCHANGED <<journal, steer>>
  BY Authority DEF Effect, PrepareEffect, RejectEffect, BeginDispatch, FinishDispatch
<1>2. QED
  BY <1>1, Alive DEF journal

LEMMA EndTurnGrows ==
  ASSUME TypeInv, EndTurn(Turn)
  PROVE  Grows
<1>1. PICK r \in Runs :
        \/ \E status \in FinishStatus, id \in FinishIDs, keep \in BOOLEAN :
             FinishTurn(Turn, r, status, id, keep)
        \/ FailUnknownEffectTurn(Turn, r)
        \/ RequestCancel(Turn, r)
        \/ CancelTurn(Turn, r)
  BY DEF EndTurn
<1>2. ASSUME NEW status \in FinishStatus, NEW id \in FinishIDs, NEW keep \in BOOLEAN,
             FinishTurn(Turn, r, status, id, keep)
      PROVE  Grows
  <2>1. CASE status = "waiting"
    BY <1>2, <2>1, Continued DEF FinishTurn, ActiveStatus
  <2>2. CASE status # "waiting"
    <3>1. status \in TerminalStatus
      BY <2>2 DEF FinishStatus, TerminalStatus
    <3>2. QED
      BY <1>2, <2>2, <3>1, Ended DEF FinishTurn
  <2>3. QED
    BY <2>1, <2>2
<1>3. CASE FailUnknownEffectTurn(Turn, r)
  BY <1>3, Ended DEF FailUnknownEffectTurn, FailUnknown, TerminalStatus
<1>4. CASE RequestCancel(Turn, r)
  <2>1. Writable(Turn)
    BY <1>4, Authority DEF RequestCancel
  <2>2. QED
    BY <1>4, <2>1, Alive DEF RequestCancel, items
<1>5. CASE CancelTurn(Turn, r)
  BY <1>5, Ended DEF CancelTurn, FailUnknown, TerminalStatus
<1>6. QED
  BY <1>1, <1>2, <1>3, <1>4, <1>5

LEMMA StepGrows ==
  ASSUME TypeInv, [Next]_vars
  PROVE  Grows
<1>1. CASE UNCHANGED vars
  BY <1>1 DEF vars, journal, items, Grows
<1>2. CASE Next
  <2>1. RunTurn(Turn) \/ Interact(Turn) \/ Effect(Turn) \/ EndTurn(Turn)
    BY <1>2, TheTurn DEF Next
  <2>2. QED
    BY <2>1, RunTurnGrows, InteractGrows, EffectGrows, EndTurnGrows
<1>3. QED
  BY <1>1, <1>2

LEMMA JournalFactsStep ==
  ASSUME TypeInv, JournalFacts, [Next]_vars
  PROVE  JournalFacts'
<1>1. Grows
  BY StepGrows
<1>2. {started[Turn], identity[Turn]}' \subseteq runs'[Turn] \cup {NoRun}
  BY <1>1 DEF Grows, JournalFacts
<1>3. marker'[Turn] = "none" =>
       /\ \A a \in Asks : ask'[<<Turn, a>>] = "none"
       /\ \A s \in Steers : steer'[<<Turn, s>>] = "none"
       /\ ~cancelled'[Turn]
  BY <1>1 DEF Grows, JournalFacts
<1>4. Terminal(Turn) => marker'[Turn] = marker[Turn]
  BY StepFrozen, TheTurn DEF FrozenTurn
<1>5. Writable(Turn)' => marker[Turn] = "none" \/ Writable(Turn)
  BY <1>4, TheTurn DEF Writable, Terminal, TypeInv, TypeOK, MarkerStatus, ActiveStatus, TerminalStatus
<1>6. Writable(Turn)' => \A s \in Steers : steer'[<<Turn, s>>] # "cancelled"
  BY <1>1, <1>5 DEF Grows, JournalFacts, Writable
<1>7. QED
  BY <1>2, <1>3, <1>6 DEF JournalFacts
-----------------------------------------------------------------------------
(* What the steps of the thread leave alone. *)

LEMMA WorkKeeps ==
  ASSUME Typed, NEW r \in Runs, Work(r)
  PROVE  /\ worker[r] # "none"
         /\ \A x \in Runs : worker'[x] # "none" => worker[x] # "none"
         /\ UNCHANGED <<up, crashes, tasks, due, starting, holder, owner, overlap, crowded>>
         /\ questions' = questions \/ \E q \in Inputs : questions' = Append(questions, <<q, r>>)
         /\ instructions' \subseteq instructions
<1> USE DEF Typed, Step, Stage, decision, quietly, process, execution, passes, history
<1>1. CASE ReadAccepted(r) \/ BeginFragment(r) \/ Interrupt(r) \/ Conclude(r) \/ Fail(r)
           \/ Leave(r)
  BY <1>1 DEF ReadAccepted, BeginFragment, Interrupt, Conclude, Fail, Leave
<1>2. CASE \/ \E c \in Calls : CloseAtBoundary(r, c)
           \/ ResolveAtBoundary(r) \/ ApplyAtBoundary(r)
  BY <1>2 DEF CloseAtBoundary, ResolveAtBoundary, ApplyAtBoundary
<1>3. CASE \E c \in Calls : Respond(r, c)
  BY <1>3 DEF Respond
<1>4. CASE Prepare(r) \/ Dispatch(r) \/ Return(r) \/ AskApproval(r)
  BY <1>4 DEF Prepare, Dispatch, Return, AskApproval
<1>5. CASE \E q \in Inputs : AskInput(r, q)
  BY <1>5 DEF AskInput
<1>6. CASE Seal(r)
  BY <1>6 DEF Seal
<1>7. CASE Suspend(r) \/ Retire(r)
  BY <1>7 DEF Suspend, Retire, FinishSend, Settle
<1>8. CASE EndPaused(r) \/ EndConcluded(r)
  BY <1>8 DEF EndPaused, EndConcluded, End
<1>9. CASE EndFailing(r)
  BY <1>9 DEF EndFailing
<1>10. QED
  BY <1>1, <1>2, <1>3, <1>4, <1>5, <1>6, <1>7, <1>8, <1>9 DEF Work

LEMMA Begun ==
  ASSUME Typed, NEW r \in Runs, NEW stage, stage # "none", BeginRun(r, stage)
  PROVE  /\ holder' = r /\ active' = TRUE /\ sealed' = FALSE /\ crowded' = crowded
         /\ worker'[r] = stage
         /\ \A x \in Runs : x # r => worker'[x] = worker[x]
  BY DEF BeginRun, Stage, Typed

\* A turn keeps its run but when it is admitted or continued.
SameRun == identity'[Turn] = identity[Turn] /\ started'[Turn] = started[Turn]

LEMMA EndKeepsRun ==
  ASSUME TypeInv, NEW r,
         \/ \E status, id, keep : FinishTurn(Turn, r, status, id, keep)
         \/ FailUnknownEffectTurn(Turn, r) \/ CancelTurn(Turn, r)
  PROVE  SameRun
<1>1. HasAuthority(Turn, r)
  BY DEF FinishTurn, FinishAdmitted, FailUnknownEffectTurn, FailUnknown, FailUnknownAdmitted, CancelTurn
<1>2. identity[Turn] = r
  BY <1>1, Authority
<1>3. \E status : WriteMarker(Turn, r, status)
  BY DEF FinishTurn, FailUnknownEffectTurn, FailUnknown, CancelTurn
<1>4. QED
  BY <1>2, <1>3, TheTurn DEF WriteMarker, SameRun, TypeInv, TypeOK

LEMMA WorkKeepsRun ==
  ASSUME TypeInv, Typed, NEW r \in Runs, Work(r)
  PROVE  SameRun
<1> USE DEF SameRun, vars, journal
<1>1. CASE ReadAccepted(r) \/ BeginFragment(r) \/ Interrupt(r) \/ Conclude(r) \/ Fail(r)
           \/ Leave(r) \/ Seal(r) \/ Suspend(r) \/ Retire(r)
  BY <1>1 DEF ReadAccepted, BeginFragment, Interrupt, Conclude, Fail, Leave, Seal, Suspend, Retire
<1>2. CASE \/ \E c \in Calls : CloseAtBoundary(r, c)
           \/ ResolveAtBoundary(r) \/ ApplyAtBoundary(r)
  BY <1>2 DEF CloseAtBoundary, ResolveAtBoundary, ApplyAtBoundary, AppendToolResult,
              ResolveInteractions, ApplySteering
<1>3. CASE \E c \in Calls : Respond(r, c)
  BY <1>3 DEF Respond, CommitProviderContext
<1>4. CASE Prepare(r) \/ Dispatch(r) \/ Return(r) \/ AskApproval(r) \/ \E q \in Inputs : AskInput(r, q)
  BY <1>4 DEF Prepare, Dispatch, Return, AskApproval, AskInput, PrepareEffect, BeginDispatch,
              FinishDispatch, AskInteraction
<1>5. CASE EndPaused(r) \/ EndConcluded(r)
  BY <1>5, EndKeepsRun DEF EndPaused, EndConcluded, End
<1>6. CASE EndFailing(r)
  BY <1>6, EndKeepsRun DEF EndFailing, AppendToolResult
<1>7. QED
  BY <1>1, <1>2, <1>3, <1>4, <1>5, <1>6 DEF Work

LEMMA RecoveryKeepsRun ==
  ASSUME TypeInv, Typed, [RecoveryNext]_recoveryVars
  PROVE  SameRun \/ Admit \/ \E task \in tasks : Claim(task)
<1>1. CASE UNCHANGED recoveryVars
  BY <1>1 DEF recoveryVars, vars, journal, SameRun
<1>2. CASE Continue
  BY <1>2 DEF Continue, ResolveForClaim, Drop, ResolveInteractions, vars, journal, SameRun
<1>3. CASE Settlement \/ StopNow \/ RequestStop \/ Crash
  BY <1>3, EndKeepsRun DEF Settlement, OwnerSettles, OwnerLate, FinishStop, StopNow, RequestStop,
        Crash, CancelNow, RequestCancel, vars, journal, SameRun
<1>4. CASE Recovery
  <2>1. CASE Restart \/ RecoverFinished \/ RecoverSteering \/ RecoverQuestion \/ RecoverExecution
             \/ \E r \in Runs : Redispatch(r)
    BY <2>1 DEF Restart, RecoverFinished, RecoverSteering, RecoverQuestion, RecoverExecution,
                Redispatch, vars, journal, SameRun
  <2>2. CASE RecoverStop \/ RecoverUnknown \/ \E r \in Runs : RedispatchFails(r)
    BY <2>2, EndKeepsRun DEF RecoverStop, CancelNow, RecoverUnknown, RedispatchFails, vars,
                journal, SameRun
  <2>3. QED
    BY <1>4, <2>1, <2>2 DEF Recovery
<1>5. CASE \/ \E a \in Asks : AnswerInput(a) \/ AnswerApproval(a)
           \/ \E s \in Steers : Steer(s)
  BY <1>5 DEF AnswerInput, AnswerApproval, Steer, ResolveInteractions, RequestSteering, journal, SameRun
<1>6. QED
  BY <1>1, <1>2, <1>3, <1>4, <1>5, WorkKeepsRun DEF RecoveryNext, Outside
-----------------------------------------------------------------------------
(* The runs that the actor's memory names have written to the journal. *)

KnownRuns ==
  /\ \A r \in Runs : worker[r] # "none" => r \in runs[Turn]
  /\ \A i \in 1..Len(questions) : questions[i][2] \in runs[Turn]
  /\ \A task \in tasks : task.run \in runs[Turn]

LEMMA KnownKept ==
  ASSUME KnownRuns, Grows,
         \A r \in Runs : worker'[r] # "none" => worker[r] # "none" \/ r \in runs'[Turn],
         questions' = questions,
         \A task \in tasks' : task \in tasks \/ task.run \in runs'[Turn]
  PROVE  KnownRuns'
  BY DEF KnownRuns, Grows

LEMMA KnownStep ==
  ASSUME TypeInv, Typed, JournalFacts, KnownRuns, [RecoveryNext]_recoveryVars
  PROVE  KnownRuns'
<1>0. Grows
  BY RecoveryIsStep, StepGrows
<1> USE <1>0
<1>1. CASE UNCHANGED recoveryVars
  BY <1>1, KnownKept DEF recoveryVars, execution, passes
<1>2. ASSUME NEW r \in Runs, Work(r)
      PROVE  KnownRuns'
  <2>1. CASE questions' = questions
    BY <1>2, <2>1, WorkKeeps, KnownKept
  <2>2. CASE \E q \in Inputs : questions' = Append(questions, <<q, r>>)
    <3>1. r \in runs'[Turn]
      BY <1>2, WorkKeeps DEF KnownRuns, Grows
    <3>2. \A i \in 1..Len(questions') : questions'[i][2] \in runs'[Turn]
      BY <2>2, <3>1 DEF KnownRuns, Grows, Typed
    <3>3. QED
      BY <1>2, <3>2, WorkKeeps DEF KnownRuns, Grows
  <2>3. QED
    BY <1>2, <2>1, <2>2, WorkKeeps
<1>3. ASSUME NEW task \in tasks, ResolveForClaim(task) \/ Drop(task)
      PROVE  KnownRuns'
  BY <1>3, KnownKept DEF ResolveForClaim, Drop, execution, passes
<1>4. ASSUME NEW task \in tasks, Claim(task)
      PROVE  KnownRuns'
  <2>1. NewRun \in Runs /\ BeginRun(NewRun, "boundary") /\ tasks' = tasks \ {task}
        /\ questions' = questions
    BY <1>4, Minted DEF Claim
  <2>2. NewRun \in runs'[Turn]
    BY <1>4, <2>1, TheTurn DEF Claim, ContinueRun, WriteMarker, TypeInv, TypeOK
  <2>3. QED
    BY <2>1, <2>2, Begun, KnownKept
<1>5. CASE Admit
  <2>1. NewRun \in Runs /\ BeginRun(NewRun, "reading") /\ tasks' = tasks
        /\ questions' = questions
    BY <1>5, Minted DEF Admit, passes
  <2>2. NewRun \in runs'[Turn]
    BY <1>5, <2>1, TheTurn DEF Admit, AcceptTurn, TypeInv, TypeOK
  <2>3. QED
    BY <2>1, <2>2, Begun, KnownKept
<1>6. CASE Settlement \/ StopNow \/ RequestStop
  BY <1>6, KnownKept DEF Settlement, OwnerSettles, OwnerLate, FinishStop, StopNow, RequestStop,
        CancelNow, execution, passes
<1>7. CASE Crash
  BY <1>7, KnownKept DEF Crash, NoWork
<1>8. CASE Restart \/ RecoverFinished \/ RecoverStop \/ RecoverUnknown \/ RecoverExecution
           \/ \E r \in Runs : RedispatchFails(r)
  BY <1>8, KnownKept DEF Restart, RecoverFinished, RecoverStop, CancelNow, RecoverUnknown,
        RecoverExecution, RedispatchFails, execution
<1>9. CASE RecoverSteering
  <2>1. identity[Turn] \in Runs
    BY <1>9, TheTurn DEF RecoverSteering, Recoverable, Writable, ActiveStatus, TypeInv, AdmittedTurnHasRun
  <2>2. identity[Turn] \in runs'[Turn]
    BY <2>1, RunAssumption DEF JournalFacts, Grows
  <2>3. \A task \in tasks' : task \in tasks \/ task.run = identity[Turn]
    BY <1>9 DEF RecoverSteering, Task
  <2>4. worker' = worker /\ questions' = questions
    BY <1>9 DEF RecoverSteering, execution
  <2>5. QED
    BY <2>2, <2>3, <2>4, KnownKept
<1>10. CASE RecoverQuestion
  <2>1. questions # << >> /\ worker' = worker /\ questions' = questions
    BY <1>10 DEF RecoverQuestion, execution
  <2>2. Head(questions)[2] \in runs[Turn]
    BY <2>1 DEF KnownRuns, Typed
  <2>3. \A task \in tasks' : task \in tasks \/ task.run = Head(questions)[2]
    BY <1>10 DEF RecoverQuestion, Task
  <2>4. QED
    BY <2>1, <2>2, <2>3, KnownKept DEF Grows
<1>11. CASE \E r \in Runs : Redispatch(r)
  <2>1. PICK r \in Runs : Redispatch(r)
    BY <1>11
  <2>2. r \in runs[Turn] /\ tasks' = tasks /\ questions' = questions
    BY <2>1, RunAssumption DEF Redispatch, JournalFacts
  <2>3. \A x \in Runs : worker'[x] # "none" => worker[x] # "none" \/ x = r
    BY <2>1, Begun DEF Redispatch, execution
  <2>4. QED
    BY <2>2, <2>3, KnownKept DEF Grows
<1>12. ASSUME NEW a \in Asks, AnswerInput(a)
       PROVE  KnownRuns'
  <2>1. worker' = worker /\ questions' = questions
    BY <1>12 DEF AnswerInput, execution
  <2>2. \A task \in tasks' : task \in tasks \/ \E i \in 1..Len(questions) : task.run = questions[i][2]
    BY <1>12 DEF AnswerInput, Task
  <2>3. QED
    BY <2>1, <2>2, KnownKept DEF KnownRuns, Grows
<1>13. ASSUME NEW a \in Asks, AnswerApproval(a)
       PROVE  KnownRuns'
  BY <1>13, KnownKept DEF AnswerApproval
<1>14. ASSUME NEW s \in Steers, Steer(s)
       PROVE  KnownRuns'
  <2>1. holder \in Runs /\ holder = identity[Turn]
    BY <1>14, Authority DEF Steer, RequestSteering
  <2>2. holder \in runs'[Turn]
    BY <2>1, RunAssumption DEF JournalFacts, Grows
  <2>3. \A task \in tasks' : task \in tasks \/ task.run = holder
    BY <1>14 DEF Steer, Task
  <2>4. worker' = worker /\ questions' = questions
    BY <1>14 DEF Steer, execution
  <2>5. QED
    BY <2>2, <2>3, <2>4, KnownKept
<1>15. QED
  BY <1>1, <1>2, <1>3, <1>4, <1>5, <1>6, <1>7, <1>8, <1>9, <1>10, <1>11, <1>12, <1>13, <1>14
     DEF RecoveryNext, Continue, Recovery, Outside
-----------------------------------------------------------------------------
(* A process that is lost has nothing at work, and it left a turn behind. *)

Down ==
  /\ ~up => /\ crashes > 0 /\ tasks = {} /\ due = 0
            /\ \A r \in Runs : worker[r] = "none" /\ starting[r] = 0
  /\ crashes > 0 => marker[Turn] # "none"

LEMMA DownStep ==
  ASSUME TypeInv, Typed, Down, [RecoveryNext]_recoveryVars
  PROVE  Down'
<1>0. marker[Turn] # "none" => marker'[Turn] # "none"
  BY RecoveryIsStep, StepGrows DEF Grows
<1>1. CASE Crash
  <2>1. crashes' > 0 /\ tasks' = {} /\ due' = 0
    BY <1>1 DEF Crash, Typed
  <2>2. \A r \in Runs : worker'[r] = "none" /\ starting'[r] = 0
    BY <1>1 DEF Crash, NoWork, NoStart
  <2>3. marker'[Turn] # "none"
    BY <1>1, <1>0 DEF Crash
  <2>4. QED
    BY <2>1, <2>2, <2>3 DEF Down
<1>2. CASE Restart
  BY <1>2, <1>0 DEF Restart, Down, vars, journal
<1>3. CASE OwnerLate \/ FinishStop
  BY <1>3, <1>0 DEF OwnerLate, FinishStop, Down, process, passes, execution
<1>4. CASE UNCHANGED recoveryVars
  BY <1>4, <1>0 DEF recoveryVars, Down, process, passes, execution
<1>5. ASSUME NEW r \in Runs, Work(r)
      PROVE  Down'
  <2>1. UNCHANGED process /\ worker[r] # "none"
    BY <1>5, WorkKeeps DEF process
  <2>2. QED
    BY <2>1, <1>0 DEF Down, process
<1>6. CASE Continue
  <2>1. UNCHANGED process /\ tasks # {}
    BY <1>6 DEF Continue, ResolveForClaim, Claim, Drop, process
  <2>2. QED
    BY <2>1, <1>0 DEF Down, process
<1>7. CASE \/ Admit \/ RequestStop \/ StopNow \/ OwnerSettles
           \/ \E a \in Asks : AnswerInput(a) \/ AnswerApproval(a)
           \/ \E s \in Steers : Steer(s)
  <2>1. UNCHANGED process /\ up
    BY <1>7 DEF Admit, RequestStop, StopNow, OwnerSettles, CancelNow, AnswerInput, AnswerApproval,
                Steer, Heard, process
  <2>2. QED
    BY <2>1, <1>0 DEF Down, process
<1>8. CASE \/ RecoverFinished \/ RecoverStop \/ RecoverUnknown
           \/ RecoverSteering \/ RecoverQuestion \/ RecoverExecution
  <2>1. UNCHANGED process /\ due > 0
    BY <1>8 DEF RecoverFinished, RecoverStop, CancelNow, RecoverUnknown, RecoverSteering,
                RecoverQuestion, RecoverExecution, PassEnds, process
  <2>2. due # 0
    BY <2>1 DEF Typed
  <2>3. QED
    BY <2>1, <2>2, <1>0 DEF Down, process
<1>9. ASSUME NEW r \in Runs, Redispatch(r) \/ RedispatchFails(r)
      PROVE  Down'
  <2>1. UNCHANGED process /\ starting[r] > 0
    BY <1>9 DEF Redispatch, RedispatchFails, StartEnds, process
  <2>2. starting[r] # 0
    BY <2>1 DEF Typed
  <2>3. QED
    BY <2>1, <2>2, <1>0 DEF Down, process
<1>10. QED
  BY <1>1, <1>2, <1>3, <1>4, <1>5, <1>6, <1>7, <1>8, <1>9
     DEF RecoveryNext, Settlement, Recovery, Outside
-----------------------------------------------------------------------------
(* Instructions, continuations and a second run of the turn have a cause:   *)
(* an instruction or a question of the turn.                                *)

Reasons ==
  /\ marker[Turn] = "none" => questions = << >>
  /\ instructions # {} => Steered
  /\ tasks # {} => questions # << >> \/ Steered
  /\ identity[Turn] # started[Turn] => questions # << >> \/ Steered

LEMMA QuestionsGrow ==
  ASSUME Typed, [RecoveryNext]_recoveryVars
  PROVE  /\ questions # << >> => questions' # << >>
         /\ questions' # questions => \E r \in Runs, q \in Inputs : AskInput(r, q)
<1>1. ASSUME NEW r \in Runs, Work(r)
      PROVE  questions' = questions \/ \E q \in Inputs : AskInput(r, q)
  BY <1>1 DEF Work, ReadAccepted, BeginFragment, CloseAtBoundary, ResolveAtBoundary, ApplyAtBoundary,
       Interrupt, Respond, Prepare, AskApproval, Dispatch, Return, Conclude, Fail, Seal, EndPaused,
       EndConcluded, End, EndFailing, Leave, Suspend, Retire, quietly
<1>2. CASE ~ \E r \in Runs : Work(r)
  <2>1. CASE UNCHANGED recoveryVars
    BY <2>1 DEF recoveryVars
  <2>2. CASE Continue \/ Settlement
    BY <2>2 DEF Continue, ResolveForClaim, Claim, Drop, Settlement, OwnerSettles, OwnerLate,
                FinishStop, CancelNow
  <2>3. CASE Recovery
    BY <2>3 DEF Recovery, Restart, RecoverFinished, RecoverStop, CancelNow, RecoverUnknown,
                RecoverSteering, RecoverQuestion, RecoverExecution, Redispatch, RedispatchFails
  <2>4. CASE Outside
    BY <2>4 DEF Outside, Admit, AnswerInput, AnswerApproval, Steer, RequestStop, StopNow,
                CancelNow, Crash
  <2>5. QED
    BY <1>2, <2>1, <2>2, <2>3, <2>4 DEF RecoveryNext
<1>3. \A r \in Runs, q \in Inputs : AskInput(r, q) => questions' # << >>
  BY DEF AskInput, Typed
<1>4. QED
  BY <1>1, <1>2, <1>3

LEMMA InstructionsHaveCause ==
  ASSUME TypeInv, Typed, Reasons, [RecoveryNext]_recoveryVars
  PROVE  instructions' # {} => Steered'
<1>1. Steered => Steered'
  BY RecoveryIsStep, StepGrows DEF Grows, Steered
<1>2. instructions' \subseteq instructions => (instructions' # {} => Steered')
  BY <1>1 DEF Reasons
<1>3. ASSUME NEW s \in Steers, Steer(s)
      PROVE  Steered'
  BY <1>3, TheTurn DEF Steer, RequestSteering, TypeInv, TypeOK, Steered
<1>4. CASE Restart
  BY <1>4, <1>1 DEF Restart, PendingSteer, Steered
<1>5. CASE \/ UNCHANGED recoveryVars \/ Continue \/ Settlement \/ Admit \/ RequestStop \/ StopNow
           \/ Crash \/ \E a \in Asks : AnswerInput(a) \/ AnswerApproval(a)
  <2>1. instructions' \subseteq instructions
    BY <1>5 DEF recoveryVars, Continue, ResolveForClaim, Claim, Drop, Settlement, OwnerSettles,
         OwnerLate, FinishStop, CancelNow, Admit, RequestStop, StopNow, Crash, AnswerInput,
         AnswerApproval, FinishSend, Settle, decision
  <2>2. QED
    BY <1>2, <2>1
<1>6. CASE \/ RecoverFinished \/ RecoverStop \/ RecoverUnknown
           \/ RecoverSteering \/ RecoverQuestion \/ RecoverExecution
           \/ \E r \in Runs : Redispatch(r) \/ RedispatchFails(r)
  <2>1. instructions' \subseteq instructions
    BY <1>6 DEF RecoverFinished, RecoverStop, CancelNow, RecoverUnknown, RecoverSteering,
         RecoverQuestion, RecoverExecution, Redispatch, RedispatchFails, FinishSend, Settle, decision
  <2>2. QED
    BY <1>2, <2>1
<1>7. QED
  BY <1>2, <1>3, <1>4, <1>5, <1>6, WorkKeeps DEF RecoveryNext, Recovery, Outside

LEMMA TasksHaveCause ==
  ASSUME TypeInv, Typed, Reasons, [RecoveryNext]_recoveryVars
  PROVE  tasks' # {} => questions' # << >> \/ Steered'
<1>1. Steered => Steered'
  BY RecoveryIsStep, StepGrows DEF Grows, Steered
<1>2. (tasks' \subseteq tasks \/ questions # << >> \/ Steered) => (tasks' # {} => questions' # << >> \/ Steered')
  BY <1>1, QuestionsGrow DEF Reasons
<1>3. ASSUME NEW s \in Steers, Steer(s)
      PROVE  Steered'
  BY <1>3, TheTurn DEF Steer, RequestSteering, TypeInv, TypeOK, Steered
<1>4. ASSUME NEW a \in Asks, AnswerInput(a)
      PROVE  questions # << >>
  BY <1>4 DEF AnswerInput, Typed
<1>5. CASE \/ UNCHANGED recoveryVars \/ Continue \/ Settlement \/ Admit \/ RequestStop \/ StopNow
           \/ Crash \/ \E a \in Asks : AnswerApproval(a)
  <2>1. tasks' \subseteq tasks
    BY <1>5 DEF recoveryVars, Continue, ResolveForClaim, Claim, Drop, Settlement, OwnerSettles,
         OwnerLate, FinishStop, CancelNow, Admit, RequestStop, StopNow, Crash, AnswerApproval, passes
  <2>2. QED
    BY <1>2, <2>1
<1>6. CASE RecoverSteering \/ RecoverQuestion
  BY <1>6, <1>2 DEF RecoverSteering, RecoverQuestion, Reasons
<1>7. CASE \/ Restart \/ RecoverFinished \/ RecoverStop \/ RecoverUnknown \/ RecoverExecution
           \/ \E r \in Runs : Redispatch(r) \/ RedispatchFails(r)
  <2>1. tasks' \subseteq tasks
    BY <1>7 DEF Restart, RecoverFinished, RecoverStop, CancelNow, RecoverUnknown,
         RecoverExecution, Redispatch, RedispatchFails
  <2>2. QED
    BY <1>2, <2>1
<1>8. QED
  BY <1>2, <1>3, <1>4, <1>5, <1>6, <1>7, WorkKeeps DEF RecoveryNext, Recovery, Outside

LEMMA ReasonsStep ==
  ASSUME TypeInv, Typed, Reasons, [RecoveryNext]_recoveryVars
  PROVE  Reasons'
<1>1. Grows
  BY RecoveryIsStep, StepGrows
<1>2. Steered => Steered'
  BY <1>1 DEF Grows, Steered
<1>3. ASSUME marker'[Turn] = "none"
      PROVE  questions' = << >>
  <2>1. marker[Turn] = "none" /\ questions = << >>
    BY <1>1, <1>3 DEF Grows, Reasons
  <2>2. ~ \E r \in Runs, q \in Inputs : AskInput(r, q)
    BY <2>1 DEF AskInput, AskInteraction, Writable, ActiveStatus
  <2>3. QED
    BY <2>1, <2>2, QuestionsGrow
<1>4. identity'[Turn] # started'[Turn] => questions' # << >> \/ Steered'
  <2>1. CASE SameRun
    BY <2>1, <1>2, QuestionsGrow DEF SameRun, Reasons
  <2>2. CASE Admit
    BY <2>2, TheTurn DEF Admit, AcceptTurn, TypeInv, TypeOK
  <2>3. CASE \E task \in tasks : Claim(task)
    BY <2>3, <1>2, QuestionsGrow DEF Reasons
  <2>4. QED
    BY <2>1, <2>2, <2>3, RecoveryKeepsRun
<1>5. QED
  BY <1>3, <1>4, InstructionsHaveCause, TasksHaveCause DEF Reasons
-----------------------------------------------------------------------------
(* An execution that is over, or the end of a stop, has its end on record.  *)

EndsRecorded ==
  /\ \A r \in Runs : worker[r] = "ended" => Terminal(Turn)
  /\ owner = "sealing" => Terminal(Turn)

LEMMA FinishedIs ==
  ASSUME TypeInv, NEW r,
         \/ \E status \in TerminalStatus : \E id, keep : FinishTurn(Turn, r, status, id, keep)
         \/ FailUnknownEffectTurn(Turn, r) \/ CancelTurn(Turn, r)
  PROVE  Terminal(Turn)'
<1>1. \E status \in TerminalStatus : WriteMarker(Turn, r, status)
  BY DEF FinishTurn, FailUnknownEffectTurn, FailUnknown, CancelTurn, TerminalStatus
<1>2. QED
  BY <1>1, TheTurn DEF WriteMarker, Terminal, TypeInv, TypeOK

LEMMA WorkEnds ==
  ASSUME TypeInv, Typed, NEW r \in Runs, Work(r), NEW x \in Runs, worker'[x] = "ended"
  PROVE  worker[x] = "ended" \/ Terminal(Turn)'
<1> USE DEF Typed, Step, Stage
<1>1. CASE ReadAccepted(r)
  BY <1>1 DEF ReadAccepted, vars, journal, Terminal
<1>2. CASE BeginFragment(r) \/ Interrupt(r) \/ Conclude(r) \/ Fail(r) \/ Leave(r) \/ Seal(r)
  BY <1>2 DEF BeginFragment, Interrupt, Conclude, Fail, Leave, Seal
<1>3. CASE \/ \E c \in Calls : CloseAtBoundary(r, c)
           \/ ResolveAtBoundary(r) \/ ApplyAtBoundary(r)
  BY <1>3 DEF CloseAtBoundary, ResolveAtBoundary, ApplyAtBoundary, execution
<1>4. CASE \/ \E c \in Calls : Respond(r, c)
           \/ Prepare(r) \/ Dispatch(r) \/ Return(r) \/ AskApproval(r)
           \/ \E q \in Inputs : AskInput(r, q)
  BY <1>4 DEF Respond, Prepare, Dispatch, Return, AskApproval, AskInput
<1>5. CASE EndPaused(r)
  BY <1>5 DEF EndPaused, End
<1>6. CASE EndConcluded(r)
  <2>1. CASE FinishTurn(Turn, r, "completed", "run", TRUE)
    BY <2>1, FinishedIs DEF TerminalStatus
  <2>2. CASE Step(r, "concluded", "failing")
    BY <2>2
  <2>3. QED
    BY <1>6, <2>1, <2>2 DEF EndConcluded, End
<1>7. CASE EndFailing(r)
  <2>1. CASE \E id, keep : FinishTurn(Turn, r, "failed", id, keep)
    BY <2>1, FinishedIs DEF TerminalStatus
  <2>2. CASE UNCHANGED execution \/ Step(r, "failing", "none")
    BY <2>2 DEF execution
  <2>3. CASE Terminal(Turn) /\ UNCHANGED vars
    BY <2>3 DEF vars, journal, Terminal
  <2>4. QED
    BY <1>7, <2>1, <2>2, <2>3 DEF EndFailing
<1>8. CASE Suspend(r) \/ Retire(r)
  BY <1>8 DEF Suspend, Retire
<1>9. QED
  BY <1>1, <1>2, <1>3, <1>4, <1>5, <1>6, <1>7, <1>8 DEF Work

LEMMA EndsStep ==
  ASSUME TypeInv, Typed, EndsRecorded, [RecoveryNext]_recoveryVars
  PROVE  EndsRecorded'
<1>0. Terminal(Turn) => Terminal(Turn)'
  BY RecoveryIsStep, StepFrozen, TheTurn DEF FrozenTurn, Terminal
<1>1. ASSUME \/ \A r \in Runs : worker'[r] = "ended" => worker[r] = "ended"
             \/ Terminal(Turn)',
             owner' = "sealing" => owner = "sealing" \/ Terminal(Turn)'
      PROVE  EndsRecorded'
  <2>1. (\A r \in Runs : worker'[r] = "ended" => Terminal(Turn)')
    BY <1>0, <1>1 DEF EndsRecorded
  <2>2. owner' = "sealing" => Terminal(Turn)'
    BY <1>0, <1>1 DEF EndsRecorded
  <2>3. QED
    BY <2>1, <2>2 DEF EndsRecorded
<1>2. CASE UNCHANGED recoveryVars
  BY <1>1, <1>2 DEF recoveryVars, execution
<1>3. ASSUME NEW r \in Runs, Work(r)
      PROVE  EndsRecorded'
  BY <1>1, <1>3, WorkEnds, WorkKeeps
<1>4. ASSUME NEW task \in tasks, ResolveForClaim(task) \/ Drop(task)
      PROVE  EndsRecorded'
  BY <1>1, <1>4 DEF ResolveForClaim, Drop, execution
<1>5. ASSUME Admit \/ \E task \in tasks : Claim(task)
      PROVE  EndsRecorded'
  <2>1. PICK stage \in {"reading", "boundary"} : BeginRun(NewRun, stage) /\ NewRun \in Runs /\ owner' = owner
    BY <1>5, Minted DEF Admit, Claim
  <2>2. \A r \in Runs : worker'[r] = "ended" => worker[r] = "ended"
    BY <2>1, Begun
  <2>3. QED
    BY <1>1, <2>1, <2>2
<1>6. CASE StopNow \/ OwnerSettles \/ RecoverStop
  <2>1. CancelNow
    BY <1>6 DEF StopNow, OwnerSettles, RecoverStop
  <2>2. Terminal(Turn)'
    BY <2>1, FinishedIs DEF CancelNow
  <2>3. QED
    BY <1>1, <2>2
<1>7. CASE OwnerLate \/ FinishStop \/ RequestStop \/ Crash
  BY <1>1, <1>7 DEF OwnerLate, FinishStop, RequestStop, Crash, NoWork, execution
<1>8. CASE \/ Restart \/ RecoverFinished \/ RecoverUnknown
           \/ RecoverSteering \/ RecoverQuestion \/ RecoverExecution
           \/ \E r \in Runs : RedispatchFails(r)
  BY <1>1, <1>8 DEF Restart, RecoverFinished, RecoverUnknown, RecoverSteering, RecoverQuestion,
       RecoverExecution, RedispatchFails, execution
<1>9. ASSUME NEW r \in Runs, Redispatch(r)
      PROVE  EndsRecorded'
  <2>1. owner' = owner /\ (UNCHANGED execution \/ BeginRun(r, "reading"))
    BY <1>9 DEF Redispatch
  <2>2. \A x \in Runs : worker'[x] = "ended" => worker[x] = "ended"
    BY <2>1, Begun DEF execution
  <2>3. QED
    BY <1>1, <2>1, <2>2
<1>10. CASE \/ \E a \in Asks : AnswerInput(a) \/ AnswerApproval(a)
            \/ \E s \in Steers : Steer(s)
  BY <1>1, <1>10 DEF AnswerInput, AnswerApproval, Steer, execution
<1>11. QED
  BY <1>2, <1>3, <1>4, <1>5, <1>6, <1>7, <1>8, <1>9, <1>10
     DEF RecoveryNext, Continue, Settlement, Recovery, Outside
-----------------------------------------------------------------------------
(* One execution at a time, for a turn that no second pass and, after a     *)
(* process loss, no instruction meets.                                      *)

Unmixed == crashes = 0 \/ (~crowded /\ ~Steered)

Idle == \A r \in Runs : worker[r] = "none"
NoneStarts == \A r \in Runs : starting[r] = 0

\* The execution at work is the actor's, and who continues it waits for it.
OneWorks ==
  /\ ~overlap
  /\ \A r \in Runs : worker[r] # "none" => r = holder
  /\ \A task \in tasks, r \in Runs : worker[r] # "none" /\ task.run = r => task.after = r

\* An open approval has its waiter, or nobody is at work after a process loss.
ApprovalsHeard ==
  \A c \in Approvals : ask[<<Turn, c>>] = "pending" =>
    c \in local \/ (crashes > 0 /\ Idle /\ NoneStarts)

\* There is one pass of the recovery, or one execution that it starts.
OnePass ==
  /\ crashes = 0 => due = 0 /\ NoneStarts
  /\ due <= 1
  /\ due > 0 => NoneStarts /\ (questions = << >> => Idle)
  /\ \A r \in Runs : starting[r] > 0 =>
       /\ questions = << >> /\ Idle /\ starting[r] = 1
       /\ \A x \in Runs \ {r} : starting[x] = 0

Single == OneWorks /\ ApprovalsHeard /\ OnePass

LEMMA HistoryKept ==
  ASSUME Typed, [RecoveryNext]_recoveryVars
  PROVE  \/ UNCHANGED <<crashes, crowded>>
         \/ Crash \/ \E a \in Asks : AnswerApproval(a)
<1> USE DEF process, history
<1>1. CASE UNCHANGED recoveryVars
  BY <1>1 DEF recoveryVars
<1>2. CASE Continue \/ Settlement
  BY <1>2 DEF Continue, ResolveForClaim, Claim, Drop, Settlement, OwnerSettles, OwnerLate,
       FinishStop, CancelNow, BeginRun
<1>3. CASE Recovery
  BY <1>3 DEF Recovery, Restart, RecoverFinished, RecoverStop, CancelNow, RecoverUnknown,
       RecoverSteering, RecoverQuestion, RecoverExecution, Redispatch, RedispatchFails, BeginRun
<1>4. CASE Outside
  BY <1>4 DEF Outside, Admit, AnswerInput, Steer, RequestStop, StopNow, CancelNow, BeginRun
<1>5. QED
  BY <1>1, <1>2, <1>3, <1>4, WorkKeeps DEF RecoveryNext

LEMMA HistoryGrows ==
  ASSUME Typed, [RecoveryNext]_recoveryVars
  PROVE  crashes' >= crashes /\ (crowded => crowded')
<1>1. crashes' >= crashes
  <2>1. crashes' = crashes \/ crashes' = crashes + 1
    BY HistoryKept DEF Crash, AnswerApproval, process
  <2>2. QED
    BY <2>1 DEF Typed
<1>2. crowded => crowded'
  BY HistoryKept DEF Crash, AnswerApproval, history
<1>3. QED
  BY <1>1, <1>2

LEMMA UnmixedBefore ==
  ASSUME TypeInv, Typed, [RecoveryNext]_recoveryVars, Unmixed'
  PROVE  Unmixed
<1>1. Steered => Steered'
  BY RecoveryIsStep, StepGrows DEF Grows, Steered
<1>2. CASE crashes' = 0
  BY <1>2, HistoryGrows DEF Unmixed, Typed
<1>3. CASE ~crowded' /\ ~Steered'
  BY <1>1, <1>3, HistoryGrows DEF Unmixed
<1>4. QED
  BY <1>2, <1>3 DEF Unmixed

\* A step that starts nothing, and gives up no waiter of an approval it leaves.
LEMMA SingleKept ==
  ASSUME Typed, Single,
         UNCHANGED <<overlap, crashes, holder, starting>>,
         \A r \in Runs : worker'[r] # "none" => worker[r] # "none",
         \A task \in tasks' :
           task \in tasks \/ \A r \in Runs : worker[r] # "none" /\ task.run = r => task.after = r,
         \A c \in Approvals : ask'[<<Turn, c>>] = "pending" =>
           c \in local' \/ (ask[<<Turn, c>>] = "pending" /\ (c \in local => c \in local')),
         due' \in Nat, due' <= due,
         questions' = questions \/ (questions' # << >> /\ NoneStarts)
  PROVE  Single'
<1>1. OneWorks'
  BY DEF Single, OneWorks
<1>2. Idle => Idle'
  BY DEF Idle
<1>3. NoneStarts <=> NoneStarts'
  BY DEF NoneStarts
<1>4. ApprovalsHeard'
  BY <1>2, <1>3 DEF Single, ApprovalsHeard
<1>5. crashes' = 0 => due' = 0 /\ NoneStarts'
  BY <1>3 DEF Single, OnePass, Typed
<1>6. due' <= 1 /\ (due' > 0 => NoneStarts')
  BY <1>3 DEF Single, OnePass, Typed
<1>7. due' > 0 => (questions' = << >> => Idle')
  BY <1>2 DEF Single, OnePass, Typed
<1>8. ASSUME NEW r \in Runs, starting'[r] > 0
      PROVE  questions' = << >> /\ Idle'
  BY <1>2, <1>8 DEF Single, OnePass, NoneStarts, Typed
<1>9. QED
  BY <1>1, <1>4, <1>5, <1>6, <1>7, <1>8 DEF Single, OnePass

LEMMA WorkAsks ==
  ASSUME TypeInv, Typed, NEW r \in Runs, Work(r), NEW c \in Approvals,
         ask'[<<Turn, c>>] = "pending"
  PROVE  c \in local' \/ (ask[<<Turn, c>>] = "pending" /\ (c \in local => c \in local'))
<1> USE DEF quietly, vars, items
<1>1. CASE ReadAccepted(r) \/ BeginFragment(r) \/ Interrupt(r) \/ Conclude(r) \/ Fail(r)
           \/ Leave(r) \/ Seal(r) \/ Suspend(r) \/ Retire(r)
  BY <1>1 DEF ReadAccepted, BeginFragment, Interrupt, Conclude, Fail, Leave, Seal, Suspend, Retire
<1>2. CASE (\E x \in Calls : CloseAtBoundary(r, x)) \/ ApplyAtBoundary(r)
  BY <1>2 DEF CloseAtBoundary, ApplyAtBoundary, AppendToolResult, ApplySteering
<1>3. CASE ResolveAtBoundary(r)
  BY <1>3, TheTurn, RecoveryAssumption
     DEF ResolveAtBoundary, ResolveInteractions, Pending, TypeInv, TypeOK
<1>4. CASE (\E x \in Calls : Respond(r, x)) \/ Prepare(r) \/ Dispatch(r) \/ Return(r)
  BY <1>4 DEF Respond, Prepare, Dispatch, Return, CommitProviderContext, PrepareEffect,
       BeginDispatch, FinishDispatch
<1>5. CASE AskApproval(r)
  <2>1. tool[r] \in Calls
    BY <1>5 DEF AskApproval, Step, Typed, AtCall
  <2>2. CASE c = tool[r]
    BY <1>5, <2>2 DEF AskApproval
  <2>3. CASE c # tool[r]
    BY <1>5, <2>1, <2>3, TheTurn, RecoveryAssumption DEF AskApproval, AskInteraction, TypeInv, TypeOK
  <2>4. QED
    BY <2>2, <2>3
<1>6. ASSUME NEW q \in Inputs, AskInput(r, q)
      PROVE  ask[<<Turn, c>>] = "pending" /\ (c \in local => c \in local')
  <2>1. q # c /\ q \in Asks
    BY DEF Inputs
  <2>2. QED
    BY <1>6, <2>1, TheTurn, RecoveryAssumption DEF AskInput, AskInteraction, TypeInv, TypeOK
<1>7. CASE EndPaused(r) \/ EndConcluded(r)
  BY <1>7 DEF EndPaused, EndConcluded, End, FinishTurn
<1>8. CASE EndFailing(r)
  BY <1>8 DEF EndFailing, FinishTurn, AppendToolResult
<1>9. QED
  BY <1>1, <1>2, <1>3, <1>4, <1>5, <1>6, <1>7, <1>8 DEF Work

LEMMA SingleWork ==
  ASSUME TypeInv, Typed, Single, NEW r \in Runs, Work(r)
  PROVE  Single'
<1>1. worker[r] # "none"
  BY WorkKeeps
<1>2. NoneStarts
  BY <1>1 DEF Single, OnePass, Idle, NoneStarts, Typed
<1>3. questions' = questions \/ questions' # << >>
  BY WorkKeeps DEF Typed
<1>4. due' = due /\ due' \in Nat
  BY WorkKeeps DEF Typed
<1>5. UNCHANGED <<overlap, crashes, holder, starting, tasks>>
  BY WorkKeeps
<1>6. \A x \in Runs : worker'[x] # "none" => worker[x] # "none"
  BY WorkKeeps
<1>7. \A c \in Approvals : ask'[<<Turn, c>>] = "pending" =>
        c \in local' \/ (ask[<<Turn, c>>] = "pending" /\ (c \in local => c \in local'))
  BY WorkAsks
<1>8. due' <= due
  BY <1>4
<1>9. QED
  BY <1>2, <1>3, <1>4, <1>5, <1>6, <1>7, <1>8, SingleKept

\* A continuation waits for the execution that is at work when it is asked for.
LEMMA TasksWait ==
  ASSUME Single, \A task \in tasks' : task \in tasks \/ task.after = Undrained
  PROVE  \A task \in tasks' :
           task \in tasks \/ \A r \in Runs : worker[r] # "none" /\ task.run = r => task.after = r
<1>1. \A r \in Runs : worker[r] # "none" => Undrained = r
  BY DEF Single, OneWorks, Undrained, Working
<1>2. QED
  BY <1>1

LEMMA SingleAnswers ==
  ASSUME TypeInv, Typed, Single, Unmixed', NEW a \in Asks,
         AnswerInput(a) \/ AnswerApproval(a)
  PROVE  Single'
<1>0. \A c \in Approvals : ask'[<<Turn, c>>] = "pending" => ask[<<Turn, c>>] = "pending" /\ c # a
  BY TheTurn, RecoveryAssumption DEF AnswerInput, AnswerApproval, ResolveInteractions, TypeInv, TypeOK
<1>1. CASE AnswerInput(a)
  <2>1. \A task \in tasks' :
          task \in tasks \/ \A r \in Runs : worker[r] # "none" /\ task.run = r => task.after = r
    <3>1. \A task \in tasks' : task \in tasks \/ task.after = Undrained
      BY <1>1 DEF AnswerInput, Task
    <3>2. QED
      BY <3>1, TasksWait
  <2>2. /\ UNCHANGED <<overlap, crashes, holder, starting, questions, worker, due, local>>
        /\ due' \in Nat /\ due' <= due
    BY <1>1 DEF AnswerInput, process, decision, execution, history, Typed
  <2>3. QED
    BY <1>0, <2>1, <2>2, SingleKept
<1>2. CASE AnswerApproval(a) /\ a \in local
  <2>1. /\ UNCHANGED <<overlap, crashes, holder, starting, questions, tasks, due>>
        /\ due' \in Nat /\ due' <= due /\ local' = local \ {a}
    BY <1>2 DEF AnswerApproval, process, decision, Typed
  <2>2. \A r \in Runs : worker'[r] # "none" => worker[r] # "none"
    BY <1>2 DEF AnswerApproval
  <2>3. QED
    BY <1>0, <2>1, <2>2, SingleKept
<1>3. CASE AnswerApproval(a) /\ a \notin local
  <2>1. a \in Approvals /\ ask[<<Turn, a>>] = "pending"
    BY <1>3 DEF AnswerApproval, ResolveInteractions
  <2>2. crashes > 0 /\ Idle /\ NoneStarts
    BY <1>3, <2>1 DEF Single, ApprovalsHeard
  <2>3. /\ UNCHANGED <<overlap, crashes, holder, starting, questions, tasks, worker>>
        /\ due' = due + 1
        /\ crowded' = (crowded \/ due > 0 \/ starting # NoStart)
    BY <1>3 DEF AnswerApproval, process, decision
  <2>4. ~crowded'
    BY <2>2, <2>3 DEF Unmixed, Typed
  <2>5. ~(due > 0)
    BY <2>3, <2>4
  <2>6. due' = 1
    BY <2>3, <2>5 DEF Typed
  <2>7. Idle' /\ NoneStarts' /\ crashes' > 0
    BY <2>2, <2>3 DEF Idle, NoneStarts
  <2>8. OneWorks'
    BY <2>3 DEF Single, OneWorks
  <2>9. OnePass'
    <3>1. \A r \in Runs : ~(starting'[r] > 0)
      BY <2>7 DEF NoneStarts
    <3>2. crashes' # 0 /\ due' <= 1
      BY <2>6, <2>7
    <3>3. QED
      BY <2>7, <3>1, <3>2 DEF OnePass
  <2>10. QED
    BY <2>7, <2>8, <2>9 DEF Single, ApprovalsHeard
<1>4. QED
  BY <1>1, <1>2, <1>3

LEMMA SingleSteer ==
  ASSUME Typed, Single, NEW s \in Steers, Steer(s)
  PROVE  Single'
<1>1. \A task \in tasks' :
        task \in tasks \/ \A r \in Runs : worker[r] # "none" /\ task.run = r => task.after = r
  <2>1. \A task \in tasks' : task \in tasks \/ task.after = Undrained
    BY DEF Steer, Task
  <2>2. QED
    BY <2>1, TasksWait
<1>2. /\ UNCHANGED <<overlap, crashes, holder, starting, questions, worker, due, local, ask>>
      /\ due' \in Nat /\ due' <= due
  BY DEF Steer, RequestSteering, process, execution, history, Typed
<1>3. QED
  BY <1>1, <1>2, SingleKept

LEMMA SingleStops ==
  ASSUME TypeInv, Typed, Single, RequestStop \/ StopNow \/ Settlement
  PROVE  Single'
<1> USE DEF process, decision, execution, passes, history
<1>1. /\ UNCHANGED <<overlap, crashes, holder, starting, questions, worker, due, tasks>>
      /\ due' \in Nat /\ due' <= due
  BY DEF RequestStop, StopNow, Settlement, OwnerSettles, OwnerLate, FinishStop, CancelNow,
         FinishSend, Settle, Typed
<1>2. \A c \in Approvals : ask'[<<Turn, c>>] = "pending" =>
        c \in local' \/ (ask[<<Turn, c>>] = "pending" /\ (c \in local => c \in local'))
  <2>1. CASE RequestStop \/ OwnerLate \/ FinishStop
    BY <2>1 DEF RequestStop, OwnerLate, FinishStop, RequestCancel, vars, items
  <2>2. CASE CancelNow
    BY <2>2, TheTurn, RecoveryAssumption
       DEF CancelNow, CancelTurn, FailUnknown, SettleAsks, TypeInv, TypeOK
  <2>3. QED
    BY <2>1, <2>2 DEF StopNow, Settlement, OwnerSettles
<1>3. QED
  BY <1>1, <1>2, SingleKept

LEMMA SingleContinue ==
  ASSUME TypeInv, Typed, KnownRuns, Reasons, Single, Unmixed,
         NEW task \in tasks, ResolveForClaim(task) \/ Claim(task) \/ Drop(task)
  PROVE  Single'
<1>1. CASE ResolveForClaim(task) \/ Drop(task)
  <2>1. /\ UNCHANGED <<overlap, crashes, holder, starting, questions, worker, due>>
        /\ due' \in Nat /\ due' <= due /\ tasks' \subseteq tasks
    BY <1>1 DEF ResolveForClaim, Drop, process, decision, execution, passes, history, Typed
  <2>2. \A c \in Approvals : ask'[<<Turn, c>>] = "pending" =>
          ask[<<Turn, c>>] = "pending" /\ (c \in local => c \in local')
    <3>1. CASE ResolveForClaim(task)
      BY <3>1, TheTurn, RecoveryAssumption
         DEF ResolveForClaim, ResolveInteractions, Pending, TypeInv, TypeOK
    <3>2. CASE Drop(task)
      BY <3>2 DEF Drop, vars, items
    <3>3. QED
      BY <1>1, <3>1, <3>2
  <2>3. QED
    BY <2>1, <2>2, SingleKept
<1>2. CASE Claim(task)
  <2>1. /\ NewRun \in Runs /\ FreshRun(NewRun) /\ BeginRun(NewRun, "boundary")
        /\ tasks' = tasks \ {task}
        /\ UNCHANGED <<crashes, starting, questions, due>>
        /\ ContinueRun(Turn, NewRun) /\ holder = task.run /\ task.after \notin Working
    BY <1>2, Minted DEF Claim, Claimable, Drained, process
  <2>2. Idle
    BY <2>1 DEF Single, OneWorks, Idle, Working
  <2>3. Working = {}
    BY <2>2 DEF Idle, Working
  <2>4. identity'[Turn] = NewRun
    BY <2>1, TheTurn DEF ContinueRun, WriteMarker, TypeInv, TypeOK
  <2>5. ~overlap'
    BY <2>1, <2>3, <2>4 DEF BeginRun, Single, OneWorks
  <2>6. holder' = NewRun /\ \A r \in Runs : worker'[r] # "none" => r = NewRun
    BY <2>1, <2>2, Begun DEF Idle
  <2>7. \A k \in tasks : k.run # NewRun
    BY <2>1, TheTurn DEF KnownRuns, FreshRun
  <2>8. OneWorks'
    BY <2>1, <2>5, <2>6, <2>7 DEF OneWorks
  <2>9. ApprovalsHeard'
    BY <2>1, RecoveryAssumption DEF ContinueRun, PendingAsk, ApprovalsHeard, items
  <2>10. questions # << >> \/ crashes = 0
    BY DEF Reasons, Unmixed
  <2>11. NoneStarts /\ (questions = << >> => due = 0)
    BY <2>10 DEF Single, OnePass, NoneStarts, Typed
  <2>12. NoneStarts' /\ (questions' = << >> => ~(due' > 0))
    BY <2>1, <2>11 DEF NoneStarts
  <2>13. \A r \in Runs : ~(starting'[r] > 0)
    BY <2>12 DEF NoneStarts
  <2>14. (crashes' = 0 => due' = 0) /\ due' <= 1
    BY <2>1 DEF Single, OnePass
  <2>15. OnePass'
    BY <2>12, <2>13, <2>14 DEF OnePass
  <2>16. QED
    BY <2>8, <2>9, <2>15 DEF Single
<1>3. QED
  BY <1>1, <1>2

LEMMA SingleAdmit ==
  ASSUME TypeInv, Typed, JournalFacts, Down, Reasons, Single, Admit
  PROVE  Single'
<1>1. /\ NewRun \in Runs /\ BeginRun(NewRun, "reading") /\ Working = {}
      /\ UNCHANGED <<crashes, starting, questions, due, tasks>>
      /\ AcceptTurn(Turn, NewRun, "ordinary")
  BY Minted DEF Admit, process, passes
<1>2. marker[Turn] = "none" /\ UNCHANGED ask
  BY <1>1 DEF AcceptTurn, items
<1>3. crashes = 0 /\ tasks = {} /\ \A c \in Approvals : ask[<<Turn, c>>] # "pending"
  <2>1. ~Steered /\ \A a \in Asks : ask[<<Turn, a>>] = "none"
    BY <1>2 DEF JournalFacts, Steered
  <2>2. tasks = {}
    BY <1>2, <2>1 DEF Reasons
  <2>3. crashes = 0
    BY <1>2 DEF Down, Typed
  <2>4. \A c \in Approvals : ask[<<Turn, c>>] # "pending"
    BY <2>1, RecoveryAssumption
  <2>5. QED
    BY <2>2, <2>3, <2>4
<1>4. identity'[Turn] = NewRun
  BY <1>1, TheTurn DEF AcceptTurn, TypeInv, TypeOK
<1>5. ~overlap' /\ holder' = NewRun
  BY <1>1, <1>4 DEF BeginRun, Single, OneWorks
<1>6. \A r \in Runs : worker'[r] # "none" => r = NewRun
  BY <1>1, Begun DEF Working
<1>7. OneWorks' /\ ApprovalsHeard'
  BY <1>1, <1>2, <1>3, <1>5, <1>6 DEF OneWorks, ApprovalsHeard
<1>8. due = 0 /\ NoneStarts
  BY <1>3 DEF Single, OnePass
<1>9. due' = 0 /\ NoneStarts'
  BY <1>1, <1>8 DEF NoneStarts
<1>10. OnePass'
  BY <1>9 DEF OnePass, NoneStarts
<1>11. QED
  BY <1>7, <1>10 DEF Single

LEMMA SingleLoss ==
  ASSUME Typed, Down, Single, Crash \/ Restart
  PROVE  Single'
<1>1. crashes' > 0 /\ due' \in {0, 1} /\ tasks' = {}
  <2>1. CASE Crash
    BY <2>1 DEF Crash, Typed
  <2>2. CASE Restart
    BY <2>2 DEF Restart, Down
  <2>3. QED
    BY <2>1, <2>2
<1>2. \A r \in Runs : worker'[r] = "none" /\ starting'[r] = 0
  BY DEF Crash, Restart, Down, NoWork, NoStart, execution
<1>3. ~overlap'
  BY DEF Crash, Restart, Single, OneWorks, history
<1>4. OneWorks'
  BY <1>1, <1>2, <1>3 DEF OneWorks
<1>5. Idle' /\ NoneStarts'
  BY <1>2 DEF Idle, NoneStarts
<1>6. crashes' # 0 /\ due' <= 1 /\ \A r \in Runs : ~(starting'[r] > 0)
  BY <1>1, <1>2
<1>7. QED
  BY <1>1, <1>4, <1>5, <1>6 DEF Single, ApprovalsHeard, OnePass

LEMMA SinglePasses ==
  ASSUME TypeInv, Typed, Single,
         \/ RecoverFinished \/ RecoverStop \/ RecoverUnknown
         \/ RecoverSteering \/ RecoverQuestion
  PROVE  Single'
<1>1. due' \in Nat /\ due' <= due
  <2>1. due > 0 /\ due' = due - 1
    BY DEF RecoverFinished, RecoverStop, RecoverUnknown, RecoverSteering, RecoverQuestion, PassEnds
  <2>2. QED
    BY <2>1 DEF Typed
<1>2. UNCHANGED <<overlap, crashes, holder, starting, questions, worker>>
  BY DEF RecoverFinished, RecoverStop, RecoverUnknown, RecoverSteering, RecoverQuestion,
         CancelNow, FinishSend, Settle, process, decision, execution, history
<1>3. \A task \in tasks' : task \in tasks \/ task.after = Undrained
  BY DEF RecoverFinished, RecoverStop, RecoverUnknown, RecoverSteering, RecoverQuestion,
         CancelNow, Task
<1>4. \A c \in Approvals : ask'[<<Turn, c>>] = "pending" =>
        ask[<<Turn, c>>] = "pending" /\ (c \in local => c \in local')
  <2>1. CASE RecoverFinished \/ RecoverSteering \/ RecoverQuestion
    BY <2>1 DEF RecoverFinished, RecoverSteering, RecoverQuestion, vars, items
  <2>2. CASE RecoverStop
    BY <2>2, TheTurn, RecoveryAssumption
       DEF RecoverStop, CancelNow, CancelTurn, FailUnknown, SettleAsks, TypeInv, TypeOK
  <2>3. CASE RecoverUnknown
    BY <2>3, TheTurn, RecoveryAssumption
       DEF RecoverUnknown, FailUnknownEffectTurn, FailUnknown, SettleAsks, TypeInv, TypeOK
  <2>4. QED
    BY <2>1, <2>2, <2>3
<1>5. QED
  BY <1>1, <1>2, <1>3, <1>4, TasksWait, SingleKept

LEMMA SingleDecision ==
  ASSUME TypeInv, Typed, Single, RecoverExecution
  PROVE  Single'
<1>1. due = 1 /\ due' = 0
  <2>1. due > 0 /\ due' = due - 1
    BY DEF RecoverExecution, PassEnds
  <2>2. QED
    BY <2>1 DEF Typed, Single, OnePass
<1>2. /\ UNCHANGED <<overlap, crashes, holder, worker, questions, tasks, local, ask>>
      /\ questions = << >>
  BY DEF RecoverExecution, process, decision, execution, history, vars, items
<1>3. Idle /\ NoneStarts /\ crashes # 0 /\ crashes > 0
  BY <1>1, <1>2 DEF Single, OnePass, Typed
<1>4. OneWorks' /\ Idle'
  BY <1>2, <1>3 DEF Single, OneWorks, Idle
<1>5. CASE starting' = starting
  <2>1. NoneStarts'
    BY <1>3, <1>5 DEF NoneStarts
  <2>2. OnePass'
    BY <1>1, <1>2, <1>3, <2>1 DEF OnePass, NoneStarts
  <2>3. ApprovalsHeard'
    BY <1>2, <1>3, <1>4, <2>1 DEF ApprovalsHeard
  <2>4. QED
    BY <1>4, <2>2, <2>3 DEF Single
<1>6. CASE /\ ~PendingAsk(Turn)
           /\ starting' = [starting EXCEPT ![identity[Turn]] = starting[identity[Turn]] + 1]
  <2>1. \A r \in Runs : /\ r = identity[Turn] => starting'[r] = 1
                        /\ r # identity[Turn] => starting'[r] = 0
    BY <1>3, <1>6 DEF NoneStarts, Typed
  <2>2. \A r \in Runs : starting'[r] > 0 =>
          r = identity[Turn] /\ starting'[r] = 1 /\ \A x \in Runs \ {r} : starting'[x] = 0
    BY <2>1
  <2>3. OnePass'
    BY <1>1, <1>2, <1>3, <1>4, <2>2 DEF OnePass
  <2>4. ApprovalsHeard'
    BY <1>2, <1>6, RecoveryAssumption DEF ApprovalsHeard, PendingAsk
  <2>5. QED
    BY <1>4, <2>3, <2>4 DEF Single
<1>7. QED
  BY <1>5, <1>6 DEF RecoverExecution

LEMMA SingleStarts ==
  ASSUME TypeInv, Typed, Reasons, Single, Unmixed,
         NEW r \in Runs, Redispatch(r) \/ RedispatchFails(r)
  PROVE  Single'
<1>1. starting[r] > 0 /\ starting' = [starting EXCEPT ![r] = starting[r] - 1]
  BY DEF Redispatch, RedispatchFails, StartEnds
<1>2. questions = << >> /\ Idle /\ starting[r] = 1 /\ \A x \in Runs \ {r} : starting[x] = 0
  BY <1>1 DEF Single, OnePass
<1>3. NoneStarts'
  BY <1>1, <1>2 DEF NoneStarts, Typed
<1>4. due = 0 /\ crashes # 0
  BY <1>1 DEF Single, OnePass, NoneStarts, Typed
<1>5. ~Steered
  BY <1>4 DEF Unmixed
<1>6. tasks = {} /\ identity[Turn] = started[Turn]
  BY <1>2, <1>5 DEF Reasons
<1>7. UNCHANGED <<crashes, due, questions, tasks, local, ask>>
  BY DEF Redispatch, RedispatchFails, FinishTurn, process, vars, items
<1>8. OnePass'
  BY <1>3, <1>4, <1>7 DEF OnePass, NoneStarts
<1>9. ApprovalsHeard'
  BY <1>1, <1>7 DEF Single, ApprovalsHeard, NoneStarts, Typed
<1>10. OneWorks'
  <2>1. CASE UNCHANGED <<worker, overlap>>
    BY <1>2, <1>6, <1>7, <2>1 DEF OneWorks, Single, Idle
  <2>2. CASE BeginRun(r, "reading") /\ identity'[Turn] = r
    <3>1. Working = {}
      BY <1>2 DEF Idle, Working
    <3>2. ~overlap' /\ holder' = r
      BY <2>2, <3>1 DEF BeginRun, Single, OneWorks
    <3>3. \A x \in Runs : worker'[x] # "none" => x = r
      BY <1>2, <2>2, Begun DEF Idle
    <3>4. QED
      BY <1>6, <1>7, <3>2, <3>3 DEF OneWorks
  <2>3. QED
    BY <1>6, <2>1, <2>2 DEF Redispatch, RedispatchFails, execution, history, vars, journal
<1>11. QED
  BY <1>8, <1>9, <1>10 DEF Single

LEMMA SingleStep ==
  ASSUME TypeInv, Typed, JournalFacts, KnownRuns, Down, Reasons, Single,
         [RecoveryNext]_recoveryVars, Unmixed'
  PROVE  Single'
<1>1. Unmixed
  BY UnmixedBefore
<1>2. CASE UNCHANGED recoveryVars
  BY <1>2 DEF recoveryVars, process, decision, execution, passes, history, vars, items,
       Single, OneWorks, ApprovalsHeard, OnePass, Idle, NoneStarts
<1>3. CASE Continue
  BY <1>1, <1>3, SingleContinue DEF Continue
<1>4. CASE Recovery
  BY <1>1, <1>4, SingleLoss, SinglePasses, SingleDecision, SingleStarts DEF Recovery
<1>5. CASE Outside
  BY <1>5, SingleAdmit, SingleAnswers, SingleSteer, SingleStops, SingleLoss DEF Outside
<1>6. QED
  BY <1>2, <1>3, <1>4, <1>5, SingleWork, SingleStops DEF RecoveryNext
-----------------------------------------------------------------------------
(* What the actor of an unbroken process knows of its turn.                 *)

Unbroken ==
  /\ Writable(Turn) =>
       /\ active /\ holder = identity[Turn] /\ stopSeen = cancelled[Turn]
       /\ instructions = PendingSteer(Turn)
       /\ \A r \in Runs : worker[r] = "concluded" => stopSeen \/ (sealed /\ instructions = {})
  /\ marker[Turn] = "completed" => \A s \in Steers : steer[<<Turn, s>>] # "cancelled"

\* Neither the turn nor what is known of it changes, and no loop ends.
LEMMA UnbrokenKept ==
  ASSUME Unbroken, UNCHANGED <<marker, identity, cancelled, steer>>,
         Writable(Turn) => UNCHANGED <<active, holder, stopSeen, instructions>>,
         Writable(Turn) => \A r \in Runs :
           worker'[r] = "concluded" => worker[r] = "concluded" /\ sealed' = sealed
  PROVE  Unbroken'
<1>1. Writable(Turn)' <=> Writable(Turn)
  BY DEF Writable
<1>2. PendingSteer(Turn)' = PendingSteer(Turn)
  BY DEF PendingSteer
<1>3. QED
  BY <1>1, <1>2 DEF Unbroken

LEMMA UnbrokenOver ==
  ASSUME TypeInv, NEW r,
         \/ \E status \in TerminalStatus \ {"completed"} : \E id, keep :
              FinishTurn(Turn, r, status, id, keep)
         \/ FailUnknownEffectTurn(Turn, r) \/ CancelTurn(Turn, r)
  PROVE  Unbroken'
<1>1. \E status \in TerminalStatus \ {"completed"} : WriteMarker(Turn, r, status)
  BY DEF FinishTurn, FailUnknownEffectTurn, FailUnknown, CancelTurn, TerminalStatus
<1>2. marker'[Turn] \in TerminalStatus \ {"completed"}
  BY <1>1, TheTurn DEF WriteMarker, TypeInv, TypeOK
<1>3. QED
  BY <1>2 DEF Unbroken, Writable, ActiveStatus, TerminalStatus

LEMMA UnbrokenWork ==
  ASSUME TypeInv, Typed, JournalFacts, OneWorks, EndsRecorded, Unbroken, NEW r \in Runs, Work(r)
  PROVE  Unbroken'
<1> USE DEF Step, Stage, decision, execution
<1>0. r = holder /\ \A x \in Runs : x # r => worker[x] = "none"
  BY WorkKeeps DEF OneWorks
<1>1. CASE ReadAccepted(r) \/ BeginFragment(r) \/ Interrupt(r) \/ Conclude(r) \/ Fail(r)
           \/ Leave(r)
  BY <1>1, UnbrokenKept DEF ReadAccepted, BeginFragment, Interrupt, Conclude, Fail, Leave, Typed,
       vars, journal, items
<1>2. CASE (\E c \in Calls : CloseAtBoundary(r, c)) \/ ResolveAtBoundary(r)
  BY <1>2, UnbrokenKept DEF CloseAtBoundary, ResolveAtBoundary, AppendToolResult,
       ResolveInteractions, journal
<1>3. CASE ApplyAtBoundary(r)
  <2>1. /\ UNCHANGED <<journal, active, holder, stopSeen, sealed>> /\ instructions' = {}
        /\ \A x \in Runs : worker'[x] # "concluded"
    BY <1>0, <1>3 DEF ApplyAtBoundary, ApplySteering, Typed
  <2>2. \A s \in Steers : steer'[<<Turn, s>>] # "pending"
    BY <1>3, TheTurn DEF ApplyAtBoundary, ApplySteering, TypeInv, TypeOK
  <2>3. PendingSteer(Turn)' = {}
    BY <2>2 DEF PendingSteer
  <2>4. marker[Turn] # "completed"
    BY <1>3, Authority DEF ApplyAtBoundary, ApplySteering, Writable, ActiveStatus
  <2>5. QED
    BY <2>1, <2>3, <2>4 DEF Unbroken, Writable, journal
<1>4. CASE (\E c \in Calls : Respond(r, c)) \/ Prepare(r) \/ Dispatch(r) \/ Return(r)
           \/ AskApproval(r) \/ (\E q \in Inputs : AskInput(r, q))
  BY <1>4, UnbrokenKept DEF Respond, Prepare, Dispatch, Return, AskApproval, AskInput,
       CommitProviderContext, PrepareEffect, BeginDispatch, FinishDispatch, AskInteraction,
       journal, quietly, Typed
<1>5. CASE Seal(r)
  <2>1. /\ UNCHANGED <<marker, identity, cancelled, steer, active, holder, stopSeen, instructions>>
    BY <1>5 DEF Seal, vars, journal, items
  <2>2. \A x \in Runs : worker'[x] = "concluded" =>
          /\ x = r /\ ~(holder = r /\ stopSeen) /\ ~(holder = r /\ instructions # {})
    BY <1>0, <1>5 DEF Seal, Typed
  <2>3. sealed' = (sealed \/ (holder = r /\ ~stopSeen /\ instructions = {}))
    BY <1>5 DEF Seal
  <2>4. \A x \in Runs : worker'[x] = "concluded" => sealed' /\ instructions' = {}
    BY <1>0, <2>1, <2>2, <2>3
  <2>5. PendingSteer(Turn)' = PendingSteer(Turn)
    BY <2>1 DEF PendingSteer
  <2>6. QED
    BY <2>1, <2>4, <2>5 DEF Unbroken, Writable
<1>6. CASE EndPaused(r)
  <2>1. CASE UNCHANGED vars
    BY <1>6, <2>1, UnbrokenKept DEF EndPaused, End, Typed, vars, journal, items
  <2>2. CASE FinishTurn(Turn, r, "waiting", "run", TRUE) /\ Step(r, "paused", "suspended")
    <3>1. UNCHANGED <<cancelled, steer, active, holder, stopSeen, sealed, instructions>>
      BY <1>6, <2>2 DEF EndPaused, End, FinishTurn
    <3>2. Writable(Turn) /\ identity[Turn] = r
      BY <2>2, Authority DEF FinishTurn, FinishAdmitted
    <3>3. identity'[Turn] = r /\ marker'[Turn] = "waiting"
      BY <2>2, TheTurn DEF FinishTurn, WriteMarker, TypeInv, TypeOK
    <3>4. \A x \in Runs : worker'[x] # "concluded"
      BY <1>0, <2>2 DEF Typed
    <3>5. PendingSteer(Turn)' = PendingSteer(Turn)
      BY <3>1 DEF PendingSteer
    <3>6. QED
      BY <3>1, <3>2, <3>3, <3>4, <3>5 DEF Unbroken
  <2>3. QED
    BY <1>6, <2>1, <2>2 DEF EndPaused, End
<1>7. CASE EndConcluded(r)
  <2>1. CASE UNCHANGED vars
    BY <1>7, <2>1, UnbrokenKept DEF EndConcluded, End, Typed, vars, journal, items
  <2>2. CASE FinishTurn(Turn, r, "completed", "run", TRUE) /\ Step(r, "concluded", "ended")
    <3>1. Writable(Turn) /\ ~cancelled[Turn]
      BY <2>2, Authority DEF FinishTurn, FinishAdmitted
    <3>2. ~stopSeen /\ worker[r] = "concluded"
      BY <2>2, <3>1 DEF Unbroken
    <3>3. PendingSteer(Turn) = {}
      BY <3>1, <3>2 DEF Unbroken
    <3>4. \A s \in Steers : steer[<<Turn, s>>] # "cancelled" /\ steer[<<Turn, s>>] # "pending"
      BY <3>1, <3>3 DEF JournalFacts, PendingSteer
    <3>5. \A s \in Steers : steer'[<<Turn, s>>] # "cancelled"
      BY <2>2, <3>4, TheTurn DEF FinishTurn, SettleSteers, TypeInv, TypeOK
    <3>6. marker'[Turn] = "completed"
      BY <2>2, TheTurn DEF FinishTurn, WriteMarker, TypeInv, TypeOK
    <3>7. QED
      BY <3>5, <3>6 DEF Unbroken, Writable, ActiveStatus
  <2>3. QED
    BY <1>7, <2>1, <2>2 DEF EndConcluded, End
<1>8. CASE EndFailing(r)
  <2>1. CASE \E id, keep : FinishTurn(Turn, r, "failed", id, keep)
    BY <2>1, UnbrokenOver DEF TerminalStatus
  <2>2. CASE UNCHANGED <<journal, steer, decision>> /\ ~(\E x \in Runs : worker'[x] = "concluded" /\ worker[x] # "concluded")
    BY <2>2, UnbrokenKept DEF journal
  <2>3. QED
    BY <1>8, <2>1, <2>2 DEF EndFailing, AppendToolResult, Typed, vars, items
<1>9. CASE Suspend(r)
  BY <1>0, <1>9, UnbrokenKept DEF Suspend, Typed, vars, journal, items
<1>10. CASE Retire(r)
  <2>1. ~Writable(Turn)
    BY <1>10 DEF Retire, EndsRecorded, Terminal, Writable, ActiveStatus, TerminalStatus
  <2>2. QED
    BY <1>10, <2>1, UnbrokenKept DEF Retire, vars, journal, items
<1>11. QED
  BY <1>1, <1>2, <1>3, <1>4, <1>5, <1>6, <1>7, <1>8, <1>9, <1>10 DEF Work

LEMMA UnbrokenContinue ==
  ASSUME TypeInv, Typed, Unbroken, OneWorks, NEW task \in tasks,
         ResolveForClaim(task) \/ Claim(task) \/ Drop(task)
  PROVE  Unbroken'
<1>1. CASE ResolveForClaim(task) \/ Drop(task)
  BY <1>1, UnbrokenKept DEF ResolveForClaim, Drop, ResolveInteractions, vars, journal, items,
       decision, execution
<1>2. CASE Claim(task)
  <2>1. /\ NewRun \in Runs /\ BeginRun(NewRun, "boundary") /\ ContinueRun(Turn, NewRun)
        /\ holder = task.run /\ task.after \notin Working
        /\ UNCHANGED <<instructions, stopSeen>> /\ ~stopSeen
    BY <1>2, Minted DEF Claim, Claimable, Drained
  <2>2. Writable(Turn) /\ ~cancelled[Turn] /\ UNCHANGED <<cancelled, steer>>
    BY <2>1 DEF ContinueRun, items
  <2>3. identity'[Turn] = NewRun /\ marker'[Turn] = "savepoint"
    BY <2>1, TheTurn DEF ContinueRun, WriteMarker, TypeInv, TypeOK
  <2>4. holder' = NewRun /\ active'
    BY <2>1, Begun
  <2>5. \A r \in Runs : worker[r] = "none"
    BY <2>1 DEF OneWorks, Working
  <2>6. \A r \in Runs : worker'[r] # "concluded"
    BY <2>1, <2>5, Begun
  <2>7. PendingSteer(Turn)' = PendingSteer(Turn)
    BY <2>2 DEF PendingSteer
  <2>8. QED
    BY <2>1, <2>2, <2>3, <2>4, <2>6, <2>7 DEF Unbroken
<1>3. QED
  BY <1>1, <1>2

LEMMA UnbrokenAdmit ==
  ASSUME TypeInv, Typed, JournalFacts, Admit
  PROVE  Unbroken'
<1>1. /\ NewRun \in Runs /\ BeginRun(NewRun, "reading") /\ AcceptTurn(Turn, NewRun, "ordinary")
      /\ Working = {} /\ instructions' = {} /\ stopSeen' = FALSE
  BY Minted DEF Admit
<1>2. /\ marker'[Turn] = "started" /\ identity'[Turn] = NewRun
      /\ marker[Turn] = "none" /\ UNCHANGED <<cancelled, steer>>
  BY <1>1, TheTurn DEF AcceptTurn, TypeInv, TypeOK, items
<1>3. ~cancelled'[Turn] /\ cancelled'[Turn] \in BOOLEAN
  BY <1>2, TheTurn DEF JournalFacts, TypeInv, TypeOK
<1>4. PendingSteer(Turn)' = {}
  BY <1>2 DEF JournalFacts, PendingSteer
<1>5. \A r \in Runs : worker'[r] # "concluded"
  BY <1>1, Begun DEF Working
<1>6. holder' = NewRun /\ active'
  BY <1>1, Begun
<1>7. stopSeen' = cancelled'[Turn]
  BY <1>1, <1>3
<1>8. QED
  BY <1>1, <1>2, <1>4, <1>5, <1>6, <1>7 DEF Unbroken

LEMMA UnbrokenSteer ==
  ASSUME TypeInv, Typed, Unbroken, NEW s \in Steers, Steer(s)
  PROVE  Unbroken'
<1>1. /\ HasAuthority(Turn, holder) /\ ~stopSeen /\ ~sealed
      /\ UNCHANGED <<marker, identity, cancelled, active, holder, stopSeen, sealed, worker>>
      /\ instructions' = instructions \cup {s}
  BY DEF Steer, Heard, RequestSteering, journal, execution
<1>2. Writable(Turn)
  BY <1>1, Authority
<1>3. \A r \in Runs : worker'[r] # "concluded"
  BY <1>1, <1>2 DEF Unbroken
<1>4. \A x \in Steers : steer'[<<Turn, x>>] = "pending" <=> steer[<<Turn, x>>] = "pending" \/ x = s
  BY TheTurn DEF Steer, RequestSteering, TypeInv, TypeOK
<1>5. PendingSteer(Turn)' = PendingSteer(Turn) \cup {s}
  BY <1>4 DEF PendingSteer
<1>6. QED
  BY <1>1, <1>2, <1>3, <1>5 DEF Unbroken, Writable, ActiveStatus

LEMMA UnbrokenStops ==
  ASSUME TypeInv, Typed, EndsRecorded, Unbroken, RequestStop \/ StopNow \/ Settlement
  PROVE  Unbroken'
<1>1. CASE CancelNow
  BY <1>1, UnbrokenOver DEF CancelNow
<1>2. CASE OwnerLate \/ FinishStop
  <2>1. ~Writable(Turn) \/ UNCHANGED decision
    BY <1>2 DEF OwnerLate, FinishStop, EndsRecorded, Terminal, Writable, ActiveStatus, TerminalStatus
  <2>2. UNCHANGED <<vars, worker>>
    BY <1>2 DEF OwnerLate, FinishStop, execution
  <2>3. QED
    BY <2>1, <2>2, UnbrokenKept DEF vars, journal, items, decision
<1>3. CASE RequestStop
  <2>1. /\ HasAuthority(Turn, holder) /\ stopSeen' = TRUE
        /\ UNCHANGED <<marker, identity, steer, active, holder, instructions>>
    BY <1>3 DEF RequestStop, RequestCancel, items
  <2>2. cancelled'[Turn] = TRUE
    BY <1>3, TheTurn DEF RequestStop, RequestCancel, TypeInv, TypeOK
  <2>3. PendingSteer(Turn)' = PendingSteer(Turn)
    BY <2>1 DEF PendingSteer
  <2>4. QED
    BY <2>1, <2>2, <2>3 DEF Unbroken, Writable
<1>4. QED
  BY <1>1, <1>2, <1>3 DEF StopNow, Settlement, OwnerSettles

LEMMA UnbrokenAnswers ==
  ASSUME Typed, Unbroken, NEW a \in Asks, AnswerInput(a) \/ AnswerApproval(a)
  PROVE  Unbroken'
<1>1. UNCHANGED <<marker, identity, cancelled, steer, decision>>
  BY DEF AnswerInput, AnswerApproval, ResolveInteractions, journal
<1>2. \A r \in Runs : worker'[r] = "concluded" => worker[r] = "concluded"
  BY DEF AnswerInput, AnswerApproval, execution
<1>3. QED
  BY <1>1, <1>2, UnbrokenKept DEF decision

LEMMA UnbrokenStep ==
  ASSUME TypeInv, Typed, JournalFacts, Down, Single, EndsRecorded, Unbroken,
         [RecoveryNext]_recoveryVars, crashes = 0, crashes' = 0
  PROVE  Unbroken'
<1>1. OneWorks /\ due = 0 /\ NoneStarts /\ up
  BY DEF Single, OnePass, Down, Typed
<1>2. CASE UNCHANGED recoveryVars
  BY <1>2, UnbrokenKept DEF recoveryVars, vars, journal, items, decision, execution
<1>3. ~Recovery
  <2>1. ~(due > 0) /\ \A r \in Runs : ~(starting[r] > 0)
    BY <1>1 DEF NoneStarts
  <2>2. QED
    BY <1>1, <2>1 DEF Recovery, Restart, RecoverFinished, RecoverStop, RecoverUnknown, RecoverSteering,
         RecoverQuestion, RecoverExecution, PassEnds, Redispatch, RedispatchFails, StartEnds
<1>4. ~Crash
  BY DEF Crash
<1>5. CASE Continue
  BY <1>1, <1>5, UnbrokenContinue DEF Continue
<1>6. CASE Outside
  BY <1>4, <1>6, UnbrokenAdmit, UnbrokenAnswers, UnbrokenSteer, UnbrokenStops DEF Outside
<1>7. QED
  BY <1>1, <1>2, <1>3, <1>5, <1>6, UnbrokenWork, UnbrokenStops DEF RecoveryNext
-----------------------------------------------------------------------------
(* The inductive invariant and what follows from it.                        *)

RecoveryInv ==
  /\ TypeInv /\ Typed /\ JournalFacts /\ KnownRuns /\ Down /\ Reasons /\ EndsRecorded
  /\ Unmixed => Single
  /\ crashes = 0 => Unbroken

LEMMA RecoveryStarts == RecoveryInit => RecoveryInv
<1> SUFFICES ASSUME RecoveryInit PROVE RecoveryInv
  OBVIOUS
<1>1. TypeInv
  BY InitType DEF RecoveryInit
<1>2. Typed
  <2>1. worker \in [Runs -> Stages] /\ tool \in [Runs -> Calls \cup {NoRun}]
        /\ \A r \in Runs : worker[r] \notin AtCall
    BY DEF RecoveryInit, NoWork, NoTool, Stages, AtCall
  <2>2. crashes \in Nat /\ due \in Nat /\ starting \in [Runs -> Nat]
    BY DEF RecoveryInit, NoStart
  <2>3. questions \in Seq(Inputs \X Runs)
    BY DEF RecoveryInit
  <2>4. QED
    BY <2>1, <2>2, <2>3 DEF RecoveryInit, Typed
<1>3. /\ marker[Turn] = "none" /\ identity[Turn] = NoRun /\ started[Turn] = NoRun
      /\ \A a \in Asks : ask[<<Turn, a>>] = "none"
      /\ \A s \in Steers : steer[<<Turn, s>>] = "none"
      /\ ~cancelled[Turn]
  BY TheTurn DEF RecoveryInit, Init
<1>4. JournalFacts
  BY <1>3 DEF JournalFacts, Writable, ActiveStatus
<1>5. KnownRuns /\ Reasons
  BY <1>3 DEF RecoveryInit, KnownRuns, Reasons, NoWork
<1>6. Down /\ EndsRecorded /\ (crashes = 0 => Unbroken)
  BY <1>3 DEF RecoveryInit, Down, EndsRecorded, Unbroken, Writable, ActiveStatus, NoWork
<1>7. Single
  <2>1. Idle /\ NoneStarts /\ due = 0 /\ tasks = {} /\ ~overlap
    BY DEF RecoveryInit, Idle, NoneStarts, NoWork, NoStart
  <2>2. OneWorks
    BY <2>1 DEF OneWorks, Idle
  <2>3. ApprovalsHeard
    BY <1>3, RecoveryAssumption DEF ApprovalsHeard
  <2>4. OnePass
    BY <2>1 DEF OnePass, NoneStarts
  <2>5. QED
    BY <2>2, <2>3, <2>4 DEF Single
<1>8. QED
  BY <1>1, <1>2, <1>4, <1>5, <1>6, <1>7 DEF RecoveryInv

LEMMA RecoveryStep == RecoveryInv /\ [RecoveryNext]_recoveryVars => RecoveryInv'
<1> SUFFICES ASSUME RecoveryInv, [RecoveryNext]_recoveryVars PROVE RecoveryInv'
  OBVIOUS
<1>1. /\ TypeInv /\ Typed /\ JournalFacts /\ KnownRuns /\ Down /\ Reasons /\ EndsRecorded
  BY DEF RecoveryInv
<1>2. [Next]_vars
  BY <1>1, RecoveryIsStep
<1>3. TypeInv' /\ JournalFacts'
  BY <1>1, <1>2, StepType, JournalFactsStep
<1>4. Typed' /\ KnownRuns' /\ Down' /\ Reasons' /\ EndsRecorded'
  BY <1>1, TypedStep, KnownStep, DownStep, ReasonsStep, EndsStep
<1>5. Unmixed' => Single'
  BY <1>1, UnmixedBefore, SingleStep DEF RecoveryInv
<1>6. ASSUME crashes' = 0
      PROVE  Unbroken'
  <2>1. crashes = 0
    BY <1>1, <1>6, HistoryGrows DEF Typed
  <2>2. QED
    BY <1>1, <1>6, <2>1, UnbrokenStep DEF RecoveryInv, Unmixed
<1>7. QED
  BY <1>3, <1>4, <1>5, <1>6 DEF RecoveryInv

\* Whatever executions, continuations, stops and recovery passes do, they move
\* the journal only by its own transactions.
THEOREM RecoveryKeepsTheJournal == RecoverySpec => Spec
<1>1. RecoveryInit => RecoveryInv /\ Init
  BY RecoveryStarts DEF RecoveryInit
<1>2. RecoveryInv /\ [RecoveryNext]_recoveryVars => [Next]_vars
  BY RecoveryIsStep DEF RecoveryInv
<1>3. QED
  BY <1>1, <1>2, RecoveryStep, PTL DEF RecoverySpec, Spec

\* The inductive invariant holds in every state of the thread.
THEOREM RecoveryHolds == RecoverySpec => []RecoveryInv
  BY RecoveryStarts, RecoveryStep, PTL DEF RecoverySpec

\* Two goroutines never execute a turn at once, but after a process loss and
\* then only where an instruction or a second recovery pass came in between.
THEOREM RecoveryOverlap == RecoverySpec => []OnlyRecoveryOverlaps
<1>1. RecoveryInv => OnlyRecoveryOverlaps
  <2> SUFFICES ASSUME RecoveryInv, overlap
               PROVE  crashes > 0 /\ (crowded \/ Steered)
    BY DEF OnlyRecoveryOverlaps, Steered
  <2>1. ~Unmixed
    BY DEF RecoveryInv, Single, OneWorks
  <2>2. QED
    BY <2>1 DEF Unmixed, RecoveryInv, Typed
<1>2. QED
  BY <1>1, RecoveryHolds, PTL

\* The actor of an unbroken process decides from a memory that agrees with the
\* journal: its run, the stop and the instructions that wait.
THEOREM RecoveryTracksJournal == RecoverySpec => []ActorTracksJournal
<1>1. RecoveryInv => ActorTracksJournal
  BY DEF RecoveryInv, Unbroken, ActorTracksJournal
<1>2. QED
  BY <1>1, RecoveryHolds, PTL

\* No turn of an unbroken process succeeds with an accepted instruction dropped.
THEOREM RecoveryAppliesInstructions == RecoverySpec => []SuccessAppliesInstructions
<1>1. RecoveryInv => SuccessAppliesInstructions
  BY DEF RecoveryInv, Unbroken, SuccessAppliesInstructions
<1>2. QED
  BY <1>1, RecoveryHolds, PTL
=============================================================================
