------------------------ MODULE EffectDispatchProofs ------------------------
(***************************************************************************)
(* Proofs about EffectDispatch for any number of calls and process losses: *)
(* the execution and its goroutines only do what the journal allows, a     *)
(* handler runs at most once and with consent, none is at work behind an   *)
(* end that does not say so, and an unfinished turn is left to somebody.   *)
(***************************************************************************)
EXTENDS EffectDispatch, TurnJournalProofs

LEMMA TheTurn == Turn \in Turns /\ Run \in Runs
  BY DispatchAssumption

-----------------------------------------------------------------------------
(* Every action is a transaction of the journal or none.  Quiet are those   *)
(* that finish no dispatch; only Finalize does.                             *)

Quiet ==
  \/ RunTurn(Turn) \/ Interact(Turn) \/ EndTurn(Turn)
  \/ \E c \in Calls : \/ PrepareEffect(Turn, Run, c) \/ RejectEffect(Turn, Run, c)
                      \/ BeginDispatch(Turn, Run, c)
  \/ UNCHANGED vars

LEMMA SettlingIsQuiet ==
  /\ SettleUnknown => Quiet
  /\ CommitStop => Quiet
  /\ \A graceful : Converge(graceful) => Quiet
  /\ \A c \in Calls : RejectPrepared(c) => Quiet
<1>1. SettleUnknown => Quiet
  BY TheTurn DEF SettleUnknown, Quiet, EndTurn
<1>2. CommitStop => Quiet
  BY TheTurn DEF CommitStop, Quiet, EndTurn
<1>3. \A graceful : Converge(graceful) => Quiet
  BY <1>1 DEF Converge, Quiet
<1>4. \A c \in Calls : RejectPrepared(c) => Quiet
  BY DEF RejectPrepared, Quiet
<1>5. QED
  BY <1>1, <1>2, <1>3, <1>4

LEMMA EndingIsQuiet ==
  /\ \A status \in FinishStatus, id \in FinishIDs, keep \in BOOLEAN :
       FinishTurn(Turn, Run, status, id, keep) => Quiet
  /\ \A c \in Calls : AppendToolResult(Turn, c) => Quiet
  /\ SavePoint(Turn) => Quiet
  BY TheTurn DEF Quiet, EndTurn, RunTurn

LEMMA BatchStep ==
  ASSUME NEW c \in Calls, Batch(c), ~\E outcome \in Outcomes : Finalize(c, outcome)
  PROVE  Quiet
<1>1. CASE Prepare(c) \/ PrepareFails(c) \/ TakeResult(c)
  BY <1>1 DEF Prepare, PrepareFails, TakeResult, Quiet
<1>2. CASE TakeDenial(c) \/ TakeFailure(c) \/ AbandonCall(c)
  <2>1. UNCHANGED vars => Quiet
    BY DEF Quiet
  <2>2. QED
    BY <1>2, <2>1, SettlingIsQuiet DEF TakeDenial, TakeFailure, AbandonCall
<1>3. CASE FinalizeFails(c)
  BY <1>3, SettlingIsQuiet DEF FinalizeFails
<1>4. CASE FinalizeDrained(c)
  BY <1>4 DEF FinalizeDrained, Quiet
<1>5. CASE RecordDecline(c)
  <2>1. AppendToolResult(Turn, c) \/ UNCHANGED vars
    BY <1>5 DEF RecordDecline
  <2>2. QED
    BY <2>1, EndingIsQuiet DEF Quiet
<1>6. QED
  BY <1>1, <1>2, <1>3, <1>4, <1>5 DEF Batch

LEMMA GateStep ==
  ASSUME NEW c \in Calls, Gate(c) \/ Handler(c)
  PROVE  Quiet
<1>1. CASE Ask(c)
  BY <1>1, TheTurn, DispatchAssumption DEF Ask, Quiet, Interact
<1>2. CASE Begin(c)
  BY <1>2 DEF Begin, Quiet
<1>3. CASE Drain(c) \/ HandlerFails(c)
  BY <1>3, SettlingIsQuiet DEF Drain, HandlerFails
<1>4. QED
  BY <1>1, <1>2, <1>3 DEF Gate, Handler, AskFails, AbortWait, Enter, BeginFails, Invoke,
     HandlerReturns, Quiet

LEMMA EndOfRunStep == EndOfRun => Quiet
<1> SUFFICES ASSUME EndOfRun PROVE Quiet
  OBVIOUS
<1>0. UNCHANGED vars => Quiet
  BY DEF Quiet
<1>1. CASE EndUnknown
  BY <1>1, SettlingIsQuiet DEF EndUnknown
<1>2. CASE LeaveToOwner \/ EndReplayed \/ EndRefused
  BY <1>0, <1>2 DEF LeaveToOwner, EndReplayed, EndRefused
<1>3. ASSUME NEW c \in Calls, CloseCall(c)
      PROVE  Quiet
  BY <1>3, EndingIsQuiet DEF CloseCall
<1>4. CASE SaveResult
  BY <1>4, EndingIsQuiet DEF SaveResult
<1>5. CASE EndRun
  <2>1. EndStatus \in FinishStatus
    BY DEF EndStatus, FinishStatus
  <2>2. QED
    BY <1>5, <2>1, EndingIsQuiet DEF EndRun, FinishIDs
<1>6. CASE EndFailed
  BY <1>0, <1>6, EndingIsQuiet DEF EndFailed, FinishStatus, FinishIDs
<1>7. CASE EndFallback
  BY <1>0, <1>7, EndingIsQuiet DEF EndFallback, FinishStatus, FinishIDs
<1>8. QED
  BY <1>1, <1>2, <1>3, <1>4, <1>5, <1>6, <1>7 DEF EndOfRun

LEMMA OtherDispatchStep ==
  ASSUME \/ Admit \/ Engine \/ BatchEnds
         \/ \E c \in Calls, yes \in BOOLEAN : Answer(c, yes)
         \/ Stop \/ Owner \/ Expire \/ Crash \/ Restarting
  PROVE  Quiet
<1>0. UNCHANGED vars => Quiet
  BY DEF Quiet
<1>1. CASE Admit
  BY <1>1, TheTurn DEF Admit, Quiet, RunTurn, Kinds
<1>2. CASE Engine
  <2>1. ASSUME NEW calls \in SUBSET Calls, Respond(calls)
        PROVE  Quiet
    <3>1. CommitProviderContext(Turn, Run, calls, "keep")
      BY <2>1 DEF Respond
    <3>2. RunTurn(Turn)
      BY <3>1, TheTurn DEF RunTurn
    <3>3. QED
      BY <3>2 DEF Quiet
  <2>2. QED
    BY <1>0, <1>2, <2>1 DEF Engine, Conclude, ProviderFails
<1>3. CASE BatchEnds \/ Expire \/ Crash
  BY <1>0, <1>3 DEF BatchEnds, Expire, Crash
<1>4. ASSUME NEW c \in Calls, NEW yes \in BOOLEAN, Answer(c, yes)
      PROVE  Quiet
  <2>1. ResolveInteractions(Turn, {c}) /\ {c} \in SUBSET Asks
    BY <1>4, DispatchAssumption DEF Answer
  <2>2. QED
    BY <2>1 DEF Quiet, Interact
<1>5. CASE Stop \/ Owner
  <2>1. RequestCancel(Turn, Run) => Quiet
    BY TheTurn DEF Quiet, EndTurn
  <2>2. QED
    BY <1>0, <1>5, <2>1, SettlingIsQuiet
    DEF Stop, Owner, StopNow, RequestStop, CancelExecution, WindowEnds, OwnerSettles
<1>6. CASE Restarting
  BY <1>0, <1>6, SettlingIsQuiet DEF Restarting, Restart, Recover, Redispatch
<1>7. QED
  BY <1>1, <1>2, <1>3, <1>4, <1>5, <1>6

LEMMA DispatchStepCases ==
  ASSUME DispatchNext
  PROVE  Quiet \/ \E c \in Calls, outcome \in Outcomes : Finalize(c, outcome)
  BY BatchStep, GateStep, EndOfRunStep, OtherDispatchStep DEF DispatchNext

LEMMA DispatchStepIsJournalStep == [DispatchNext]_dispatchVars => [Next]_vars
<1>1. Quiet => [Next]_vars
  BY TheTurn DEF Quiet, Next, Effect
<1>2. ASSUME NEW c \in Calls, NEW outcome \in Outcomes, Finalize(c, outcome)
      PROVE  Next
  <2>1. FinishDispatch(Turn, Run, c, outcome)
    BY <1>2 DEF Finalize
  <2>2. Effect(Turn)
    BY <2>1, TheTurn DEF Effect
  <2>3. QED
    BY <2>2, TheTurn DEF Next
<1>3. QED
  BY <1>1, <1>2, DispatchStepCases DEF dispatchVars

\* Whatever the execution, its goroutines, a stop, the clock and a recovery do
\* is something the journal allows: its theorems hold of every execution.
THEOREM DispatchKeepsTheJournal == DispatchSpec => Spec
<1>1. DispatchInit => Init
  BY DEF DispatchInit
<1>2. QED
  BY <1>1, DispatchStepIsJournalStep, PTL DEF DispatchSpec, Spec
-----------------------------------------------------------------------------
(* One call: its gate, its attempt in the journal, what its handler did and *)
(* what the user said, tied together.  Crossed are the attempts that have   *)
(* been through the dispatch boundary; they never come back from there.     *)

Crossed == {"dispatching", "unknown"} \cup Outcomes
AtWork == {"begun", "running", "returned"}

CallSafe(c) ==
  /\ ran[c] > 0 => ran[c] = 1 /\ AttemptOf(c) \in Crossed
  /\ gate[c] = "begun" => ran[c] = 0
  /\ gate[c] \in AtWork => /\ AttemptOf(c) \in {"dispatching", "unknown"}
                           /\ marker[Turn] # "none"
  /\ c \notin Automatic /\ (ran[c] > 0 \/ gate[c] \in {"cleared", "entering", "begun"}) =>
       c \in approved

DispatchInv ==
  /\ gate \in [Calls -> GateStates] /\ ran \in [Calls -> Nat]
  /\ \A c \in Calls : CallSafe(c)

LEMMA DispatchInitInv == DispatchInit => DispatchInv
  BY DEF DispatchInit, DispatchInv, CallSafe, GateStates, GateDone, AtWork

\* A transaction other than the end of a dispatch keeps an attempt behind the
\* boundary where it is, or makes it uncertain.
LEMMA QuietKeepsCrossed ==
  ASSUME TypeInv, Quiet, NEW c \in Calls
  PROVE  /\ AttemptOf(c) \in {"dispatching", "unknown"} =>
              AttemptOf(c)' \in {"dispatching", "unknown"}
         /\ AttemptOf(c) \in Outcomes => AttemptOf(c)' \in Outcomes
         /\ marker[Turn] # "none" => marker'[Turn] # "none"
<1> DEFINE a == <<Turn, Run, c>>
<1>0. a \in Attempts /\ a[1] = Turn
  BY TheTurn DEF Attempts
<1>1. CASE UNCHANGED vars
  BY <1>1 DEF vars, journal, items, AttemptOf
<1>2. ASSUME marker[Turn] # "none" => marker'[Turn] # "none",
             \/ attempt'[a] = attempt[a]
             \/ attempt[a] = "prepared"
             \/ attempt[a] = "none"
             \/ attempt[a] = "dispatching" /\ attempt'[a] = "unknown"
      PROVE  /\ AttemptOf(c) \in {"dispatching", "unknown"} =>
                  AttemptOf(c)' \in {"dispatching", "unknown"}
             /\ AttemptOf(c) \in Outcomes => AttemptOf(c)' \in Outcomes
             /\ marker[Turn] # "none" => marker'[Turn] # "none"
  BY <1>2 DEF AttemptOf, Outcomes
<1>3. WithdrawPrepared(Turn) => attempt'[a] = attempt[a] \/ attempt[a] = "prepared"
  BY <1>0 DEF WithdrawPrepared
<1>4. ASSUME NEW r \in Runs, NEW status \in MarkerStatus \ {"none"}, WriteMarker(Turn, r, status)
      PROVE  marker'[Turn] # "none"
  BY <1>4, TheTurn, WriteMarkerSide
<1>5. CASE RunTurn(Turn)
  <2>1. ASSUME NEW r \in Runs, InstallCompaction(Turn, r), kind[Turn] = "compaction"
        PROVE  WithdrawPrepared(Turn) /\ marker'[Turn] # "none"
    BY <1>4, <2>1 DEF InstallCompaction, MarkerStatus, TerminalStatus
  <2>2. ASSUME ~\E r \in Runs : InstallCompaction(Turn, r) /\ kind[Turn] = "compaction"
        PROVE  attempt' = attempt
    BY <1>5, <2>2 DEF RunTurn, AcceptTurn, SavePoint, ContinueRun, CommitProviderContext,
       AppendToolResult, StartCompaction, EndCompaction, InstallCompaction, items
  <2>3. ASSUME ~\E r \in Runs : InstallCompaction(Turn, r) /\ kind[Turn] = "compaction"
        PROVE  marker[Turn] # "none" => marker'[Turn] # "none"
    BY <1>5, <2>3, TheTurn DEF RunTurn, AcceptTurn, SavePoint, ContinueRun,
       CommitProviderContext, AppendToolResult, StartCompaction, EndCompaction,
       InstallCompaction, WriteMarker, journal, TypeInv, TypeOK
  <2>4. QED
    BY <1>2, <1>3, <2>1, <2>2, <2>3
<1>6. CASE Interact(Turn)
  BY <1>2, <1>6 DEF Interact, AskInteraction, ResolveInteractions, RequestSteering,
     ApplySteering, journal
<1>7. ASSUME NEW d \in Calls, \/ PrepareEffect(Turn, Run, d) \/ RejectEffect(Turn, Run, d)
                              \/ BeginDispatch(Turn, Run, d)
      PROVE  /\ marker' = marker
             /\ attempt'[a] = attempt[a] \/ attempt[a] \in {"none", "prepared"}
  BY <1>0, <1>7 DEF PrepareEffect, RejectEffect, BeginDispatch, journal, TypeInv, TypeOK
<1>8. ASSUME NEW r \in Runs, FailUnknown(Turn, r)
      PROVE  /\ marker'[Turn] # "none"
             /\ \/ attempt'[a] = attempt[a] \/ attempt[a] = "prepared"
                \/ attempt[a] = "dispatching" /\ attempt'[a] = "unknown"
  <2>1. marker'[Turn] # "none"
    BY <1>4, <1>8 DEF FailUnknown, MarkerStatus, TerminalStatus
  <2>2. attempt'[a] = CASE attempt[a] = "prepared" -> "withdrawn"
                        [] attempt[a] = "dispatching" -> "unknown"
                        [] OTHER -> attempt[a]
    BY <1>0, <1>8 DEF FailUnknown
  <2>3. QED
    BY <2>1, <2>2
<1>9. CASE EndTurn(Turn)
  <2>1. ASSUME NEW r \in Runs, NEW status \in FinishStatus, NEW id \in FinishIDs,
               NEW keep \in BOOLEAN, FinishTurn(Turn, r, status, id, keep)
        PROVE  WithdrawPrepared(Turn) /\ marker'[Turn] # "none"
    BY <1>4, <2>1 DEF FinishTurn, FinishStatus, MarkerStatus, ActiveStatus, TerminalStatus
  <2>2. ASSUME NEW r \in Runs, CancelTurn(Turn, r), ~Uncertain(Turn)
        PROVE  WithdrawPrepared(Turn) /\ marker'[Turn] # "none"
    BY <1>4, <2>2 DEF CancelTurn, MarkerStatus, TerminalStatus
  <2>3. ASSUME NEW r \in Runs, RequestCancel(Turn, r)
        PROVE  UNCHANGED <<marker, attempt>>
    BY <2>3 DEF RequestCancel, items
  <2>4. QED
    BY <1>2, <1>3, <1>8, <1>9, <2>1, <2>2, <2>3 DEF EndTurn, FailUnknownEffectTurn, CancelTurn
<1>10. QED
  BY <1>1, <1>2, <1>5, <1>6, <1>7, <1>9 DEF Quiet

\* States of a gate that neither work nor are about to.
Idle == GateStates \ (AtWork \cup {"cleared", "entering"})

LEMMA CallKept ==
  ASSUME TypeInv, Quiet, NEW c \in Calls, CallSafe(c),
         gate'[c] = gate[c] \/ gate'[c] \in Idle,
         ran'[c] = ran[c], approved \subseteq approved'
  PROVE  CallSafe(c)'
  BY QuietKeepsCrossed DEF CallSafe, Crossed, Idle, AtWork

LEMMA BatchInv ==
  ASSUME TypeInv, DispatchInv, NEW c \in Calls, Batch(c)
  PROVE  DispatchInv'
<1> USE DEF DispatchInv
<1>1. UNCHANGED history
  BY DEF Batch, Prepare, PrepareFails, TakeResult, TakeDenial, TakeFailure, AbandonCall,
     Finalize, FinalizeFails, FinalizeDrained, RecordDecline
<1>2. CASE \E outcome \in Outcomes : Finalize(c, outcome)
  <2>1. PICK outcome \in Outcomes : Finalize(c, outcome)
    BY <1>2
  <2>2. /\ FinishDispatch(Turn, Run, c, outcome)
        /\ gate' = [gate EXCEPT ![c] = "over"]
    BY <2>1 DEF Finalize, SetGate
  <2>3. /\ AttemptOf(c)' = outcome /\ marker' = marker
        /\ \A d \in Calls \ {c} : AttemptOf(d)' = AttemptOf(d)
    BY <2>2, TheTurn DEF FinishDispatch, AttemptOf, Attempts, TypeInv, TypeOK, journal
  <2>4. CallSafe(c)'
    BY <1>1, <2>2, <2>3 DEF CallSafe, Crossed, AtWork, history
  <2>5. \A d \in Calls \ {c} : CallSafe(d)'
    BY <1>1, <2>2, <2>3 DEF CallSafe, history
  <2>6. QED
    BY <1>1, <2>2, <2>4, <2>5 DEF history, GateStates, GateDone
<1>3. CASE Prepare(c)
  <2>1. /\ PrepareEffect(Turn, Run, c)
        /\ gate' = [gate EXCEPT ![c] = IF c \in Automatic THEN "cleared" ELSE "asking"]
    BY <1>3 DEF Prepare, SetGate
  <2>2. Quiet
    BY <2>1 DEF Quiet
  <2>3. \A d \in Calls \ {c} : CallSafe(d)'
    BY <1>1, <2>1, <2>2, CallKept DEF history
  <2>4. CallSafe(c)'
    <3>1. ran'[c] = ran[c] /\ approved' = approved
      BY <1>1 DEF history
    <3>2. CASE c \in Automatic
      BY <2>1, <2>2, <3>1, <3>2, QuietKeepsCrossed DEF CallSafe, Crossed, AtWork
    <3>3. CASE c \notin Automatic
      BY <2>1, <2>2, <3>1, <3>3, CallKept DEF Idle, AtWork, GateStates, GateDone
    <3>4. QED
      BY <3>2, <3>3
  <2>5. QED
    BY <1>1, <2>1, <2>3, <2>4 DEF history, GateStates, GateDone
<1>4. CASE ~Prepare(c) /\ ~\E outcome \in Outcomes : Finalize(c, outcome)
  <2>1. gate' = gate \/ gate' = [gate EXCEPT ![c] = "over"]
    BY <1>4 DEF Batch, PrepareFails, TakeResult, TakeDenial, TakeFailure, AbandonCall,
       FinalizeFails, FinalizeDrained, RecordDecline, SetGate
  <2>2. Quiet
    BY <1>4, BatchStep
  <2>3. \A d \in Calls : gate'[d] = gate[d] \/ gate'[d] \in Idle
    BY <2>1 DEF Idle, AtWork, GateStates, GateDone
  <2>4. \A d \in Calls : CallSafe(d)'
    BY <1>1, <2>2, <2>3, CallKept DEF history
  <2>5. QED
    BY <1>1, <2>1, <2>4 DEF history, GateStates, GateDone
<1>5. QED
  BY <1>2, <1>3, <1>4

LEMMA GateInv ==
  ASSUME TypeInv, DispatchInv, NEW c \in Calls, Gate(c) \/ Handler(c)
  PROVE  DispatchInv'
<1> USE DEF DispatchInv
<1>0. Quiet
  BY GateStep
<1>1. approved' = approved /\ \A d \in Calls \ {c} : ran'[d] = ran[d] /\ gate'[d] = gate[d]
  BY DEF Gate, Handler, Ask, AskFails, AbortWait, Enter, Begin, BeginFails, Invoke, Drain,
     HandlerReturns, HandlerFails, SetGate, history
<1>2. \A d \in Calls \ {c} : CallSafe(d)'
  BY <1>0, <1>1, CallKept
<1>3. ASSUME gate' = [gate EXCEPT ![c] = gate'[c]], gate'[c] \in GateStates, ran' = ran,
             CallSafe(c)'
      PROVE  DispatchInv'
  BY <1>2, <1>3
<1>4. ASSUME gate' = [gate EXCEPT ![c] = gate'[c]], gate'[c] \in Idle, ran' = ran
      PROVE  DispatchInv'
  BY <1>0, <1>1, <1>3, <1>4, CallKept DEF Idle
<1>5. CASE Ask(c) \/ AskFails(c) \/ AbortWait(c) \/ BeginFails(c) \/ Drain(c) \/ HandlerFails(c)
  <2>1. ran' = ran /\ \E state \in Idle : gate' = [gate EXCEPT ![c] = state]
    BY <1>5 DEF Ask, AskFails, AbortWait, BeginFails, Drain, HandlerFails, SetGate, history,
       Idle, AtWork, GateStates, GateDone
  <2>2. QED
    BY <1>4, <2>1
<1>6. CASE Enter(c)
  <2>1. /\ gate[c] = "cleared" /\ ran' = ran
        /\ gate' = [gate EXCEPT ![c] = IF Dead THEN "aborted" ELSE "entering"]
    BY <1>6 DEF Enter, SetGate, history
  <2>2. CallSafe(c)'
    BY <1>0, <1>1, <2>1, QuietKeepsCrossed DEF CallSafe, Crossed, AtWork
  <2>3. QED
    BY <1>3, <2>1, <2>2 DEF GateStates, GateDone
<1>7. CASE Begin(c)
  <2>1. /\ gate[c] = "entering" /\ ran' = ran /\ BeginDispatch(Turn, Run, c)
        /\ gate' = [gate EXCEPT ![c] = "begun"]
    BY <1>7 DEF Begin, SetGate, history
  <2>2. /\ AttemptOf(c) = "prepared" /\ AttemptOf(c)' = "dispatching"
        /\ marker'[Turn] # "none"
    BY <2>1, TheTurn DEF BeginDispatch, AttemptOf, Attempts, TypeInv, TypeOK, HasAuthority,
       ActiveTurn, Active, ActiveStatus, journal
  <2>3. ran[c] = 0
    BY <2>2 DEF CallSafe, Crossed, Outcomes
  <2>4. CallSafe(c)'
    BY <1>1, <2>1, <2>2, <2>3 DEF CallSafe, Crossed, AtWork
  <2>5. QED
    BY <1>3, <2>1, <2>4 DEF GateStates
<1>8. CASE Invoke(c)
  <2>1. /\ gate[c] = "begun" /\ ran' = [ran EXCEPT ![c] = @ + 1]
        /\ gate' = [gate EXCEPT ![c] = "running"]
    BY <1>8 DEF Invoke, SetGate
  <2>2. ran[c] = 0 /\ ran'[c] = 1
    BY <2>1 DEF CallSafe
  <2>3. CallSafe(c)'
    BY <1>0, <1>1, <2>1, <2>2, QuietKeepsCrossed DEF CallSafe, Crossed, AtWork
  <2>4. gate' \in [Calls -> GateStates] /\ ran' \in [Calls -> Nat]
    BY <2>1 DEF GateStates
  <2>5. QED
    BY <1>2, <2>3, <2>4
<1>9. CASE HandlerReturns(c)
  <2>1. /\ gate[c] = "running" /\ ran' = ran
        /\ gate' = [gate EXCEPT ![c] = "returned"]
    BY <1>9 DEF HandlerReturns, SetGate, history
  <2>2. CallSafe(c)'
    BY <1>0, <1>1, <2>1, QuietKeepsCrossed DEF CallSafe, Crossed, AtWork
  <2>3. QED
    BY <1>3, <2>1, <2>2 DEF GateStates
<1>10. QED
  BY <1>5, <1>6, <1>7, <1>8, <1>9 DEF Gate, Handler

LEMMA AnswerInv ==
  ASSUME TypeInv, DispatchInv, NEW c \in Calls, NEW yes \in BOOLEAN, Answer(c, yes)
  PROVE  DispatchInv'
<1> USE DEF DispatchInv
<1>1. Quiet
  BY OtherDispatchStep
<1>2. ran' = ran /\ approved \subseteq approved'
  BY DEF Answer
<1>3. gate' = gate \/ \E state \in {"cleared", "denied"} :
         gate' = [gate EXCEPT ![c] = IF @ # "pending" THEN @ ELSE state]
  BY DEF Answer
<1>4. gate'[c] = "cleared" /\ gate[c] # "cleared" => c \in approved'
  BY DEF Answer
<1>5. \A d \in Calls \ {c} : CallSafe(d)'
  BY <1>1, <1>2, <1>3, CallKept
<1>6. CallSafe(c)'
  <2>1. CASE gate'[c] = gate[c] \/ gate'[c] \in Idle
    BY <1>1, <1>2, <2>1, CallKept
  <2>2. CASE gate'[c] = "cleared" /\ gate[c] # "cleared"
    BY <1>1, <1>2, <1>4, <2>2, QuietKeepsCrossed DEF CallSafe, Crossed, AtWork
  <2>3. QED
    BY <1>3, <2>1, <2>2 DEF Idle, AtWork, GateStates, GateDone
<1>7. gate' \in [Calls -> GateStates]
  BY <1>3 DEF GateStates, GateDone
<1>8. QED
  BY <1>2, <1>5, <1>6, <1>7

LEMMA DispatchStepInv ==
  TypeInv /\ DispatchInv /\ [DispatchNext]_dispatchVars => DispatchInv'
<1> SUFFICES ASSUME TypeInv, DispatchInv, [DispatchNext]_dispatchVars PROVE DispatchInv'
  OBVIOUS
<1>1. ASSUME Quiet, gate' = gate \/ gate' \in [Calls -> GateStates],
             \A d \in Calls : gate'[d] = gate[d] \/ gate'[d] \in Idle, UNCHANGED history
      PROVE  DispatchInv'
  BY <1>1, CallKept DEF DispatchInv, history
<1>2. CASE UNCHANGED dispatchVars
  BY <1>1, <1>2 DEF dispatchVars, dispatch, Quiet
<1>3. CASE Admit \/ Engine \/ BatchEnds \/ EndOfRun \/ Stop \/ Owner \/ Expire \/ Crash \/ Restarting
  <2>1. Quiet
    BY <1>3, EndOfRunStep, OtherDispatchStep
  <2>2. UNCHANGED history
    BY <1>3 DEF Admit, Engine, Respond, Conclude, ProviderFails, BatchEnds, EndOfRun, EndUnknown,
       LeaveToOwner, CloseCall, SaveResult, EndRun, EndReplayed, EndRefused, EndFailed,
       EndFallback, Stop, StopNow, RequestStop, Owner, CancelExecution, WindowEnds,
       OwnerSettles, Expire, Crash, Restarting, Restart, Recover, Redispatch
  <2>3. gate' = gate \/ \E calls \in SUBSET Calls :
          gate' = [c \in Calls |-> IF c \in calls THEN "none" ELSE gate[c]]
    <3>1. CASE Crash
      <4>1. gate' = [c \in Calls |-> IF c \in Calls THEN "none" ELSE gate[c]]
        BY <3>1 DEF Crash
      <4>2. QED
        BY <4>1
    <3>2. CASE ~Crash
      BY <1>3, <3>2 DEF Admit, Engine, Respond, Conclude, ProviderFails, BatchEnds, EndOfRun,
         EndUnknown, LeaveToOwner, CloseCall, SaveResult, EndRun, EndReplayed, EndRefused,
         EndFailed, EndFallback, Stop, StopNow, RequestStop, Owner, CancelExecution,
         WindowEnds, OwnerSettles, Expire, Restarting, Restart, Recover, Redispatch, dispatch
    <3>3. QED
      BY <3>1, <3>2
  <2>4. QED
    BY <1>1, <2>1, <2>2, <2>3 DEF DispatchInv, Idle, AtWork, GateStates, GateDone
<1>4. QED
  BY <1>2, <1>3, BatchInv, GateInv, AnswerInv DEF DispatchNext

LEMMA DispatchInvariant == DispatchSpec => [](TypeInv /\ JournalSafe /\ DispatchInv)
<1>1. DispatchInit => Init
  BY DEF DispatchInit
<1>2. QED
  BY <1>1, InitType, InitSafe, StepType, StepSafe, DispatchInitInv, DispatchStepInv,
     DispatchStepIsJournalStep, PTL DEF DispatchSpec

\* A handler runs at most once, through stops, losses of the process and
\* recoveries, and what it did is never recorded as undone.
THEOREM DispatchOnce == DispatchSpec => []EffectsAccounted
<1>1. DispatchInv => EffectsAccounted
  BY DEF DispatchInv, CallSafe, Crossed, EffectsAccounted
<1>2. QED
  BY <1>1, DispatchInvariant, PTL

\* A tool that asks for permission runs only after the user gave it.
THEOREM DispatchWithConsent == DispatchSpec => []ConsentRequired
<1>1. DispatchInv => ConsentRequired
  BY DEF DispatchInv, CallSafe, ConsentRequired
<1>2. QED
  BY <1>1, DispatchInvariant, PTL

\* No end of a turn but the uncertain one leaves a handler at work.
THEOREM DispatchBehindEnd == DispatchSpec => []NoHandlerBehindEnd
<1>1. TypeInv /\ JournalSafe /\ DispatchInv => NoHandlerBehindEnd
  <2> SUFFICES ASSUME TypeInv, JournalSafe, DispatchInv, NEW c \in Calls, gate[c] \in AtWork
               PROVE  Writable(Turn) \/ marker[Turn] = "unknown"
    BY DEF NoHandlerBehindEnd, AtWork
  <2>1. /\ AttemptOf(c) \in {"dispatching", "unknown"} /\ marker[Turn] # "none"
        /\ <<Turn, Run, c>> \in AttemptsOf(Turn)
    BY TheTurn DEF DispatchInv, CallSafe, AttemptsOf, Attempts
  <2>2. marker[Turn] \in ActiveStatus \cup TerminalStatus
    BY <2>1, TheTurn DEF TypeInv, TypeOK, MarkerStatus
  <2>3. QED
    BY <2>1, <2>2, TheTurn DEF JournalSafe, TurnSafe, AttemptOf, Terminal, Writable
<1>2. QED
  BY <1>1, DispatchInvariant, PTL
-----------------------------------------------------------------------------
(* Nobody is left behind.  Down and Batched tie the goroutines of one        *)
(* process to each other, the conjuncts of Course tie them to the journal:   *)
(* who asked and who waits, what a pass of recovery may find, which effect   *)
(* in flight somebody still settles (Converges), and why a turn without an   *)
(* execution will be taken up again (Awake).                                 *)

AskOf(c) == ask[<<Turn, c>>]
Unowned(c) == AskOf(c) = "pending" /\ c \notin waiters
AnyAsk == \E c \in Calls : AskOf(c) # "none"
GatesDone == \A c \in Calls : gate[c] \in GateDone

Down ==
  ~up => exec = "none" /\ GatesDone /\ owner = "none" /\ recover = "none" /\ ctx = "live"

Batched ==
  /\ main \in [Calls -> MainStates]
  /\ exec # "batch" => \A c \in Calls : main[c] = "idle"
  /\ \A c \in Calls : gate[c] \notin GateDone => main[c] \in {"waiting", "ready"} \/ Dead

Admitted ==
  /\ marker[Turn] = "none" =>
       /\ exec = "none" /\ ctx = "live" /\ owner = "none" /\ recover = "none"
       /\ \A c \in Calls : call[<<Turn, c>>] = "none"
  /\ marker[Turn] # "none" => identity[Turn] = Run
  /\ \A a \in Attempts : a[2] # Run => attempt[a] = "none"
  /\ waited = {}

Dealt ==
  \A c \in Calls :
    /\ call[<<Turn, c>>] = "none" => AttemptOf(c) = "none"
    /\ AttemptOf(c) = "none" => AskOf(c) = "none" /\ gate[c] = "none"

Stops ==
  /\ Writable(Turn) /\ ctx # "live" => ctx = "graceful" /\ owner = "graceful"
  /\ owner = "cancelling" => ~Writable(Turn)

Waits ==
  \A c \in Calls : AskOf(c) = "pending" /\ c \in waiters => gate[c] = "pending" \/ Dead

Recovers ==
  /\ Writable(Turn) /\ (recover # "none" \/ \E c \in Calls : Unowned(c)) =>
       exec = "none" /\ GatesDone
  /\ Writable(Turn) /\ recover = "redispatch" => ~PendingAsk(Turn) /\ ~Uncertain(Turn)

Converges ==
  \A c \in Calls : Writable(Turn) /\ AttemptOf(c) = "dispatching" =>
    gate[c] \in AtWork \/ ctx = "graceful" \/ ~up \/ recover = "due"

Awake ==
  Writable(Turn) /\ up /\ exec = "none" =>
    \/ owner # "none" \/ recover # "none" \/ (late /\ AnyAsk)
    \/ \E c \in Calls : Unowned(c) \/ AttemptOf(c) = "dispatching"

Course == Admitted /\ Dealt /\ Stops /\ Waits /\ Recovers /\ Converges /\ Awake
StrandInv == Down /\ Batched /\ Course

LEMMA StrandStarts == DispatchInit => StrandInv
<1> SUFFICES ASSUME DispatchInit PROVE StrandInv
  OBVIOUS
<1> USE TheTurn DEF DispatchInit, Init
<1>1. Down /\ Batched
  BY DEF Down, Batched, GatesDone, GateDone, MainStates
<1>2. \A c \in Calls : /\ AskOf(c) = "none" /\ AttemptOf(c) = "none"
                       /\ call[<<Turn, c>>] = "none" /\ gate[c] = "none"
  BY DispatchAssumption DEF AskOf, AttemptOf, Attempts
<1>3. marker[Turn] = "none" /\ ~Writable(Turn)
  BY DEF Writable, ActiveStatus
<1>4. Admitted
  BY <1>2, <1>3 DEF Admitted, Attempts
<1>5. Dealt /\ Stops /\ Waits /\ Recovers /\ Converges /\ Awake
  BY <1>2, <1>3 DEF Dealt, Stops, Waits, Recovers, Converges, Awake
<1>6. QED
  BY <1>1, <1>4, <1>5 DEF Course, StrandInv

\* A dead context stays dead while the process lives.
LEMMA DownBatch ==
  ASSUME Down, Batched, NEW c \in Calls, Batch(c), gate \in [Calls -> GateStates]
  PROVE  Down' /\ Batched'
<1>1. /\ UNCHANGED <<engine, process, stopping, recover>>
      /\ main' = [main EXCEPT ![c] = main'[c]] /\ main'[c] \in MainStates
      /\ \A d \in Calls \ {c} : gate'[d] = gate[d]
      /\ exec = "batch" \/ main[c] \in MainStates \ {"idle"}
  BY DEF Batch, Prepare, PrepareFails, TakeResult, TakeDenial, TakeFailure, AbandonCall, Finalize,
     FinalizeFails, FinalizeDrained, RecordDecline, SetMain, SetGate, MainStates, Batched
<1>2. exec = "batch"
  BY <1>1 DEF Batched
<1>3. gate'[c] \in GateDone \/ main'[c] \in {"waiting", "ready"} \/ Dead
  BY DEF Batch, Prepare, PrepareFails, TakeResult, TakeDenial, TakeFailure, AbandonCall, Finalize,
     FinalizeFails, FinalizeDrained, RecordDecline, SetMain, SetGate, Batched, GateDone, GiveUp
<1>4. Dead' = Dead
  BY <1>1 DEF Dead, stopping
<1>5. Down'
  BY <1>1, <1>2 DEF Down, engine, process
<1>6. Batched'
  <2>1. main' \in [Calls -> MainStates] /\ exec' = "batch"
    BY <1>1, <1>2 DEF Batched, engine
  <2>2. \A d \in Calls : gate'[d] \notin GateDone => main'[d] \in {"waiting", "ready"} \/ Dead'
    BY <1>1, <1>3, <1>4 DEF Batched
  <2>3. QED
    BY <2>1, <2>2 DEF Batched
<1>7. QED
  BY <1>5, <1>6

LEMMA DownGate ==
  ASSUME Down, Batched, NEW c \in Calls, Gate(c) \/ Handler(c), gate \in [Calls -> GateStates]
  PROVE  Down' /\ Batched'
<1>1. /\ UNCHANGED <<main, engine, process, stopping, recover>>
      /\ \A d \in Calls \ {c} : gate'[d] = gate[d]
      /\ gate[c] \notin GateDone
  BY DEF Gate, Handler, Ask, AskFails, AbortWait, Enter, Begin, BeginFails, Invoke, Drain,
     HandlerReturns, HandlerFails, SetGate, GateDone
<1>2. Dead' = Dead /\ up
  BY <1>1 DEF Dead, stopping, Down, GatesDone
<1>3. Down'
  BY <1>1, <1>2 DEF Down, process
<1>4. Batched'
  BY <1>1, <1>2 DEF Batched, engine
<1>5. QED
  BY <1>3, <1>4

LEMMA DownAnswer ==
  ASSUME Down, Batched, NEW c \in Calls, NEW yes \in BOOLEAN, Answer(c, yes),
         gate \in [Calls -> GateStates]
  PROVE  Down' /\ Batched'
<1>1. /\ UNCHANGED <<main, engine, process, stopping>> /\ up
      /\ \A d \in Calls : gate'[d] = gate[d] \/ gate[d] = "pending"
  BY DEF Answer
<1>2. Dead' = Dead
  BY <1>1 DEF Dead, stopping
<1>3. Down'
  BY <1>1 DEF Down, process
<1>4. Batched'
  BY <1>1, <1>2 DEF Batched, engine, GateDone
<1>5. QED
  BY <1>3, <1>4

LEMMA DownEnd ==
  ASSUME Down, Batched, EndOfRun
  PROVE  Down' /\ Batched'
<1>1. /\ UNCHANGED <<process, stopping, dispatch, recover>> /\ exec # "none"
      /\ exec # "batch" /\ exec' # "batch"
  BY DEF EndOfRun, EndUnknown, LeaveToOwner, CloseCall, SaveResult, EndRun, EndReplayed,
     EndRefused, EndFailed, EndFallback, engine
<1>2. up /\ Dead' = Dead
  BY <1>1 DEF Down, Dead, stopping
<1>3. QED
  BY <1>1, <1>2 DEF Down, Batched, process, dispatch

LEMMA DownOther ==
  ASSUME TypeInv, Down, Batched, Admitted, Recovers, gate \in [Calls -> GateStates],
         Admit \/ Engine \/ BatchEnds \/ Stop \/ Owner \/ Expire \/ Crash \/ Restarting
  PROVE  Down' /\ Batched'
<1>1. CASE Admit
  <2>1. UNCHANGED <<process, stopping, dispatch>> /\ up /\ exec = "none" /\ exec' = "model"
    BY <1>1 DEF Admit
  <2>2. QED
    BY <2>1 DEF Down, Batched, process, stopping, dispatch, Dead
<1>2. CASE Redispatch
  <2>1. /\ UNCHANGED <<process, stopping, dispatch>> /\ up /\ recover' = "none"
        /\ exec' = IF Terminal(Turn) THEN exec ELSE "model"
    BY <1>2 DEF Redispatch, Down
  <2>2. CASE Terminal(Turn)
    BY <2>1, <2>2 DEF Down, Batched, process, stopping, dispatch, Dead
  <2>3. CASE ~Terminal(Turn)
    <3>1. Writable(Turn)
      BY <1>2, <2>3, TheTurn DEF Redispatch, Admitted, Terminal, Writable, TypeInv, TypeOK,
         MarkerStatus
    <3>2. exec = "none"
      BY <1>2, <3>1 DEF Redispatch, Recovers
    <3>3. QED
      BY <2>1, <2>3, <3>2 DEF Down, Batched, process, stopping, dispatch, Dead
  <2>4. QED
    BY <2>2, <2>3
<1>3. ASSUME NEW calls \in SUBSET Calls, Respond(calls)
      PROVE  Down' /\ Batched'
  <2>1. /\ UNCHANGED <<process, stopping, recover>> /\ exec = "model" /\ exec' = "batch"
        /\ main' = [c \in Calls |-> IF c \in calls THEN "entering" ELSE "idle"]
        /\ gate' = [c \in Calls |-> IF c \in calls THEN "none" ELSE gate[c]]
    BY <1>3 DEF Respond
  <2>2. QED
    BY <2>1 DEF Down, Batched, process, stopping, Dead, GateDone, MainStates
<1>4. CASE Conclude \/ ProviderFails \/ Expire
  <2>1. /\ UNCHANGED <<process, dispatch, recover, ctx, owner>> /\ (exec = "batch" <=> exec' = "batch")
        /\ exec # "none" /\ (Dead => Dead')
    BY <1>4 DEF Conclude, ProviderFails, Expire, stopping, engine, Dead
  <2>2. QED
    BY <2>1 DEF Down, Batched, process, dispatch
<1>5. CASE BatchEnds
  <2>1. /\ UNCHANGED <<process, stopping, recover, gate>> /\ exec = "batch"
        /\ exec' \in {"model", "ending"} /\ main' = [c \in Calls |-> "idle"]
        /\ \A c \in Calls : main[c] \notin {"waiting", "ready"}
    BY <1>5 DEF BatchEnds
  <2>2. QED
    BY <2>1 DEF Down, Batched, process, stopping, Dead, MainStates
<1>6. CASE Stop \/ Owner
  <2>1. /\ UNCHANGED <<process, engine, recover, main, gate>> /\ up
        /\ Dead => Dead'
    BY <1>6 DEF Stop, Owner, StopNow, RequestStop, CancelExecution, WindowEnds, OwnerSettles,
       Down, Dead, dispatch
  <2>2. QED
    BY <2>1 DEF Down, Batched, process, engine
<1>7. CASE Crash
  BY <1>7 DEF Crash, Down, Batched, GatesDone, GateDone, MainStates
<1>8. CASE Restart
  <2>1. up' /\ UNCHANGED <<engine, stopping, dispatch>>
    BY <1>8 DEF Restart
  <2>2. QED
    BY <2>1 DEF Down, Batched, engine, stopping, dispatch, Dead
<1>9. CASE Recover
  <2>1. up /\ UNCHANGED <<process, engine, stopping, dispatch>>
    BY <1>9 DEF Recover, Down
  <2>2. QED
    BY <2>1 DEF Down, Batched, process, engine, stopping, dispatch, Dead
<1>10. QED
  BY <1>1, <1>2, <1>3, <1>4, <1>5, <1>6, <1>7, <1>8, <1>9 DEF Engine, Restarting

LEMMA DownStep ==
  ASSUME TypeInv, StrandInv, gate \in [Calls -> GateStates], [DispatchNext]_dispatchVars
  PROVE  Down' /\ Batched'
<1>1. CASE UNCHANGED dispatchVars
  BY <1>1 DEF dispatchVars, engine, process, stopping, dispatch, StrandInv, Down, Batched, Dead,
     GatesDone
<1>2. CASE DispatchNext
  BY <1>2, DownBatch, DownGate, DownAnswer, DownEnd, DownOther
  DEF DispatchNext, StrandInv, Course
<1>3. QED
  BY <1>1, <1>2
-----------------------------------------------------------------------------
(* What the journal's transactions do to the turn, its calls and its run.    *)

LEMMA OnlyTurn ==
  ASSUME TypeInv, JournalSafe, Admitted
  PROVE  /\ Writable(Turn) <=> Owned
         /\ PendingAsk(Turn) <=> \E c \in Calls : AskOf(c) = "pending"
         /\ Writable(Turn) =>
              (Uncertain(Turn) <=> \E c \in Calls : AttemptOf(c) = "dispatching")
         /\ FailUnknownAdmitted(Turn, Run) <=> Writable(Turn) /\ Uncertain(Turn)
         /\ ~Writable(Turn) /\ marker[Turn] # "none" =>
              \A c \in Calls : AskOf(c) # "pending"
<1>1. Writable(Turn) <=> Owned
  <2>1. Active = {t \in {Turn} : marker[t] \in ActiveStatus}
    BY DispatchAssumption DEF Active
  <2>2. Writable(Turn) => identity[Turn] = Run
    BY DEF Writable, Admitted, ActiveStatus
  <2>3. QED
    BY <2>1, <2>2 DEF Writable, HasAuthority, ActiveTurn, Owned
<1>2. PendingAsk(Turn) <=> \E c \in Calls : AskOf(c) = "pending"
  BY DispatchAssumption DEF PendingAsk, AskOf
<1>3. Writable(Turn) => (Uncertain(Turn) <=> \E c \in Calls : AttemptOf(c) = "dispatching")
  <2>1. ASSUME NEW a \in AttemptsOf(Turn), attempt[a] # "none"
        PROVE  \E c \in Calls : a = <<Turn, Run, c>>
    <3>1. a \in Turns \X Runs \X Calls /\ a[1] = Turn /\ a[2] = Run
      BY <2>1 DEF AttemptsOf, Attempts, Admitted
    <3>2. a = <<a[1], a[2], a[3]>> /\ a[3] \in Calls
      BY <3>1
    <3>3. QED
      BY <3>1, <3>2
  <2>2. \A c \in Calls : <<Turn, Run, c>> \in AttemptsOf(Turn)
    BY TheTurn DEF AttemptsOf, Attempts
  <2>3. Writable(Turn) => \A a \in AttemptsOf(Turn) : attempt[a] # "unknown"
    BY TheTurn DEF JournalSafe, TurnSafe, Writable, ActiveStatus
  <2>4. ASSUME Writable(Turn), Uncertain(Turn)
        PROVE  \E c \in Calls : AttemptOf(c) = "dispatching"
    <3>1. PICK a \in AttemptsOf(Turn) : attempt[a] = "dispatching"
      BY <2>3, <2>4 DEF Uncertain
    <3>2. PICK c \in Calls : a = <<Turn, Run, c>>
      BY <2>1, <3>1
    <3>3. QED
      BY <3>1, <3>2 DEF AttemptOf
  <2>5. (\E c \in Calls : AttemptOf(c) = "dispatching") => Uncertain(Turn)
    BY <2>2 DEF Uncertain, AttemptOf
  <2>6. QED
    BY <2>4, <2>5
<1>4. FailUnknownAdmitted(Turn, Run) <=> Writable(Turn) /\ Uncertain(Turn)
  BY <1>1 DEF FailUnknownAdmitted, Admitted, Owned
<1>5. ~Writable(Turn) /\ marker[Turn] # "none" => \A c \in Calls : AskOf(c) # "pending"
  <2>1. ~Writable(Turn) /\ marker[Turn] # "none" => Terminal(Turn)
    BY TheTurn DEF Terminal, Writable, TypeInv, TypeOK, MarkerStatus
  <2>2. TurnSafe(Turn)
    BY TheTurn DEF JournalSafe
  <2>3. QED
    BY <2>1, <2>2, DispatchAssumption DEF TurnSafe, AskOf
<1>6. QED
  BY <1>1, <1>2, <1>3, <1>4, <1>5

\* The turn is over, and nothing came into being or vanished with its end.
Ends ==
  /\ marker'[Turn] \in TerminalStatus /\ identity'[Turn] = Run /\ waited' = waited
  /\ \A a \in Attempts : attempt'[a] = "none" <=> attempt[a] = "none"
  /\ \A c \in Calls : AskOf(c)' = "none" <=> AskOf(c) = "none"
  /\ \A c \in Calls : call'[<<Turn, c>>] = "none" <=> call[<<Turn, c>>] = "none"

LEMMA EndingEnds ==
  ASSUME TypeInv
  PROVE  /\ \A status \in {"completed", "failed", "aborted"}, id \in FinishIDs, keep \in BOOLEAN :
                FinishTurn(Turn, Run, status, id, keep) => Ends
         /\ FailUnknown(Turn, Run) => Ends
         /\ CancelTurn(Turn, Run) => Ends
<1> USE TheTurn
<1>1. ASSUME NEW status \in TerminalStatus, WriteMarker(Turn, Run, status)
      PROVE  marker'[Turn] \in TerminalStatus /\ identity'[Turn] = Run
  BY <1>1 DEF WriteMarker, TypeInv, TypeOK
<1>2. WithdrawPrepared(Turn) => \A a \in Attempts : attempt'[a] = "none" <=> attempt[a] = "none"
  BY DEF WithdrawPrepared
<1>3. SettleAsks(Turn) => \A c \in Calls : AskOf(c)' = "none" <=> AskOf(c) = "none"
  BY DispatchAssumption DEF SettleAsks, AskOf, TypeInv, TypeOK
<1>4. CloseCalls(Turn) =>
        \A c \in Calls : call'[<<Turn, c>>] = "none" <=> call[<<Turn, c>>] = "none"
  BY DEF CloseCalls, TypeInv, TypeOK
<1>5. ASSUME NEW status \in {"completed", "failed", "aborted"}, NEW id \in FinishIDs, NEW keep \in BOOLEAN,
             FinishTurn(Turn, Run, status, id, keep)
      PROVE  Ends
  <2>1. /\ WriteMarker(Turn, Run, status) /\ WithdrawPrepared(Turn) /\ waited' = waited
        /\ UNCHANGED <<call, ask>>
    BY <1>5 DEF FinishTurn
  <2>2. QED
    BY <1>1, <1>2, <2>1 DEF Ends, AskOf, TerminalStatus
<1>6. FailUnknown(Turn, Run) => Ends
  <2>1. FailUnknown(Turn, Run) =>
          \A a \in Attempts : attempt'[a] = "none" <=> attempt[a] = "none"
    BY DEF FailUnknown
  <2>2. QED
    BY <1>1, <1>3, <1>4, <2>1 DEF Ends, FailUnknown, TerminalStatus
<1>7. CancelTurn(Turn, Run) => Ends
  BY <1>1, <1>2, <1>3, <1>4, <1>6 DEF Ends, CancelTurn, TerminalStatus
<1>8. QED
  BY <1>5, <1>6, <1>7

\* Behind the end of the turn only the shape of the record is left to keep.
LEMMA EndedCourse ==
  ASSUME TypeInv, JournalSafe', Admitted, Dealt, Ends,
         \A c \in Calls : gate[c] = "none" => gate'[c] = "none"
  PROVE  Course'
<1>1. ~Writable(Turn)' /\ marker'[Turn] # "none" /\ Terminal(Turn)'
  BY DEF Ends, Writable, Terminal, TerminalStatus, ActiveStatus
<1>2. Admitted'
  <2>1. \A a \in Attempts : a[2] # Run => attempt'[a] = "none"
    BY DEF Ends, Admitted
  <2>2. waited' = {} /\ identity'[Turn] = Run
    BY DEF Ends, Admitted
  <2>3. QED
    BY <1>1, <2>1, <2>2 DEF Admitted, Attempts
<1>3. Dealt'
  <2>1. \A c \in Calls : AttemptOf(c)' = "none" <=> AttemptOf(c) = "none"
    BY TheTurn DEF Ends, AttemptOf, Attempts
  <2>2. QED
    BY <2>1 DEF Dealt, Ends
<1>4. Waits'
  BY <1>1, TheTurn, DispatchAssumption DEF Waits, JournalSafe, TurnSafe, AskOf
<1>5. Stops' /\ Recovers' /\ Converges' /\ Awake'
  BY <1>1 DEF Stops, Recovers, Converges, Awake
<1>6. QED
  BY <1>2, <1>3, <1>4, <1>5 DEF Course

LEMMA SettlingEnds ==
  ASSUME TypeInv, JournalSafe, Admitted
  PROVE  /\ SettleUnknown => Ends \/ (UNCHANGED vars /\ ~(Writable(Turn) /\ Uncertain(Turn)))
         /\ CommitStop => Ends \/ (UNCHANGED vars /\ ~Writable(Turn))
<1>1. SettleUnknown => Ends \/ (UNCHANGED vars /\ ~(Writable(Turn) /\ Uncertain(Turn)))
  BY OnlyTurn, EndingEnds DEF SettleUnknown, FailUnknownEffectTurn
<1>2. CommitStop => Ends \/ (UNCHANGED vars /\ ~Writable(Turn))
  BY OnlyTurn, EndingEnds DEF CommitStop
<1>3. QED
  BY <1>1, <1>2

\* The journal keeps still behind the end of the turn.
LEMMA OverCourse ==
  ASSUME TypeInv, JournalSafe, Admitted, Dealt, UNCHANGED vars, Terminal(Turn),
         \A c \in Calls : gate[c] = "none" => gate'[c] = "none"
  PROVE  Course'
<1> USE DEF vars, journal, items
<1>1. marker[Turn] # "none" /\ ~Writable(Turn)
  BY DEF Terminal, TerminalStatus, Writable, ActiveStatus
<1>2. Admitted'
  BY <1>1 DEF Admitted, Attempts
<1>3. Dealt'
  BY DEF Dealt, AttemptOf, AskOf
<1>4. ~Writable(Turn)'
  BY <1>1 DEF Writable
<1>5. Stops' /\ Recovers' /\ Converges' /\ Awake'
  BY <1>4 DEF Stops, Recovers, Converges, Awake
<1>6. Waits'
  BY <1>1, OnlyTurn DEF Waits, AskOf
<1>7. QED
  BY <1>2, <1>3, <1>5, <1>6 DEF Course

\* The turn goes on, and the execution and the stop stay what they are.
LEMMA LiveCourse ==
  ASSUME Course, Writable(Turn)', Writable(Turn), identity'[Turn] = identity[Turn],
         UNCHANGED <<waited, ctx, owner, up>>, Dead => Dead',
         \A a \in Attempts : a[2] # Run => attempt'[a] = attempt[a],
         Dealt', Recovers', exec' # "none" \/ Awake',
         \A c \in Calls : AskOf(c)' = "pending" /\ c \in waiters' => gate'[c] = "pending" \/ Dead,
         \A c \in Calls : AttemptOf(c)' = "dispatching" =>
           \/ gate'[c] \in AtWork \/ ctx = "graceful"
           \/ AttemptOf(c) = "dispatching" /\ gate'[c] = gate[c] /\ recover' = recover
  PROVE  Course'
<1>1. marker'[Turn] # "none" /\ marker[Turn] # "none"
  BY DEF Writable, ActiveStatus
<1>2. Admitted'
  <2>1. \A a \in Attempts : a[2] # Run => attempt'[a] = "none"
    BY DEF Course, Admitted
  <2>2. waited' = {} /\ identity'[Turn] = Run
    BY <1>1 DEF Course, Admitted
  <2>3. QED
    BY <1>1, <2>1, <2>2 DEF Admitted, Attempts
<1>3. Stops'
  <2>1. owner # "cancelling" /\ (ctx # "live" => ctx = "graceful" /\ owner = "graceful")
    BY DEF Course, Stops
  <2>2. QED
    BY <2>1 DEF Stops
<1>4. Waits'
  BY DEF Waits
<1>5. Converges'
  BY DEF Converges, Course
<1>6. Awake'
  BY DEF Awake
<1>7. QED
  BY <1>2, <1>3, <1>4, <1>5, <1>6 DEF Course

\* While somebody is at work in the turn nothing is unowned.
LEMMA Busy ==
  ASSUME Course, Writable(Turn), exec # "none" \/ ~GatesDone
  PROVE  recover = "none" /\ \A c \in Calls : ~Unowned(c)
  BY DEF Course, Recovers

LEMMA BusyCourse ==
  ASSUME Course, Writable(Turn)', Writable(Turn), identity'[Turn] = identity[Turn],
         UNCHANGED <<waited, ask, ctx, owner, up, waiters, recover>>, Dead => Dead',
         \A a \in Attempts : a[2] # Run => attempt'[a] = attempt[a], Dealt',
         exec # "none", exec' # "none",
         \A c \in Calls : gate'[c] = gate[c] \/ gate[c] # "pending",
         \A c \in Calls : AttemptOf(c)' = "dispatching" =>
           \/ gate'[c] \in AtWork \/ ctx = "graceful"
           \/ AttemptOf(c) = "dispatching" /\ gate'[c] = gate[c]
  PROVE  Course'
<1>1. Recovers'
  <2>1. recover' = "none"
    BY Busy
  <2>2. \A c \in Calls : ~Unowned(c)'
    BY Busy DEF Unowned, AskOf
  <2>3. QED
    BY <2>1, <2>2 DEF Recovers
<1>2. \A c \in Calls : AskOf(c)' = "pending" /\ c \in waiters' => gate'[c] = "pending" \/ Dead
  BY DEF AskOf, Waits, Course
<1>3. QED
  BY <1>1, <1>2, LiveCourse

\* The journal keeps still while the execution is at work.
LEMMA StillCourse ==
  ASSUME TypeInv, JournalSafe, Course, UNCHANGED vars,
         UNCHANGED <<ctx, owner, up, waiters, recover>>, Dead => Dead',
         exec # "none", exec' # "none" \/ Terminal(Turn),
         \A c \in Calls : gate'[c] = gate[c] \/ gate[c] \notin {"none", "pending"},
         \A c \in Calls : \/ gate'[c] = gate[c] \/ gate'[c] \in AtWork \/ ctx = "graceful"
                          \/ AttemptOf(c) # "dispatching" \/ Terminal(Turn)
  PROVE  Course'
<1>1. marker[Turn] # "none"
  BY DEF Course, Admitted
<1>2. CASE Terminal(Turn)
  BY <1>2, OverCourse DEF Course
<1>3. CASE ~Terminal(Turn)
  <2>1. Writable(Turn) /\ Writable(Turn)'
    BY <1>1, <1>3, TheTurn DEF Terminal, Writable, TypeInv, TypeOK, MarkerStatus, vars, journal
  <2>2. Dealt'
    BY DEF Course, Dealt, AttemptOf, AskOf, vars, journal, items
  <2>3. QED
    BY <1>3, <2>1, <2>2, BusyCourse DEF vars, journal, items, AttemptOf
<1>4. QED
  BY <1>2, <1>3
-----------------------------------------------------------------------------
(* The actions.                                                             *)

LEMMA BatchCourse ==
  ASSUME TypeInv, JournalSafe, JournalSafe', StrandInv, DispatchInv, NEW c \in Calls, Batch(c)
  PROVE  Course'
<1> USE DEF StrandInv
<1>1. /\ UNCHANGED <<engine, process, stopping, recover, waiters>> /\ exec = "batch"
      /\ \A d \in Calls \ {c} : gate'[d] = gate[d]
  <2>1. /\ UNCHANGED <<engine, process, stopping, recover, waiters>>
        /\ \A d \in Calls \ {c} : gate'[d] = gate[d]
        /\ main[c] # "idle"
    BY DEF Batch, Prepare, PrepareFails, TakeResult, TakeDenial, TakeFailure, AbandonCall,
       Finalize, FinalizeFails, FinalizeDrained, RecordDecline, SetGate, DispatchInv
  <2>2. QED
    BY <2>1 DEF Batched
<1>2. /\ UNCHANGED <<ctx, owner, up, exec>> /\ exec' # "none" /\ marker[Turn] # "none"
      /\ Course /\ Dead' = Dead
  BY <1>1 DEF engine, process, stopping, Course, Admitted, Dead
<1>3. ASSUME UNCHANGED vars, gate' = gate
      PROVE  Course'
  BY <1>1, <1>2, <1>3, StillCourse
<1>4. ASSUME Ends, gate' = gate \/ gate[c] = "returned"
      PROVE  Course'
  BY <1>1, <1>4, EndedCourse DEF Course
<1>5. CASE Prepare(c)
  <2>1. PrepareEffect(Turn, Run, c) /\ gate'[c] # "none"
    BY <1>5 DEF Prepare, SetGate, DispatchInv
  <2>2. /\ Writable(Turn) /\ Writable(Turn)' /\ UNCHANGED <<identity, waited, ask, call>>
        /\ call[<<Turn, c>>] = "open" /\ AttemptOf(c) = "none" /\ AttemptOf(c)' = "prepared"
        /\ \A a \in Attempts : a # <<Turn, Run, c>> => attempt'[a] = attempt[a]
    BY <2>1, TheTurn, OnlyTurn DEF PrepareEffect, journal, AttemptOf, Attempts, TypeInv, TypeOK,
       Writable, Owned, Course
  <2>3. \A d \in Calls \ {c} : AttemptOf(d)' = AttemptOf(d)
    BY <2>2, TheTurn DEF AttemptOf, Attempts
  <2>4. Dealt'
    BY <1>1, <2>2, <2>3 DEF Dealt, Course, AskOf
  <2>5. gate[c] = "none"
    BY <2>2 DEF Dealt, Course
  <2>6. QED
    BY <1>1, <1>2, <2>2, <2>3, <2>4, <2>5, BusyCourse
<1>6. CASE PrepareFails(c) \/ TakeResult(c) \/ TakeFailure(c) \/ FinalizeDrained(c)
  BY <1>3, <1>6 DEF PrepareFails, TakeResult, TakeFailure, FinalizeDrained
<1>7. CASE TakeDenial(c)
  <2>1. RejectPrepared(c) /\ gate' = gate
    BY <1>7 DEF TakeDenial
  <2>2. CASE RejectEffect(Turn, Run, c)
    <3>1. /\ Writable(Turn) /\ Writable(Turn)' /\ UNCHANGED <<identity, waited, ask, call>>
          /\ AttemptOf(c) = "prepared" /\ AttemptOf(c)' = "rejected"
          /\ \A a \in Attempts : a # <<Turn, Run, c>> => attempt'[a] = attempt[a]
      BY <2>2, TheTurn DEF RejectEffect, journal, AttemptOf, Attempts, TypeInv, TypeOK, Writable
    <3>2. \A d \in Calls \ {c} : AttemptOf(d)' = AttemptOf(d)
      BY <3>1, TheTurn DEF AttemptOf, Attempts
    <3>3. Dealt'
      BY <2>1, <3>1, <3>2 DEF Dealt, Course, AskOf
    <3>4. QED
      BY <1>1, <1>2, <2>1, <3>1, <3>2, <3>3, BusyCourse
  <2>3. CASE UNCHANGED vars
    BY <1>3, <2>1, <2>3
  <2>4. QED
    BY <2>1, <2>2, <2>3 DEF RejectPrepared
<1>8. CASE AbandonCall(c)
  BY <1>3, <1>4, <1>8, SettlingEnds DEF AbandonCall, Course
<1>9. CASE FinalizeFails(c)
  <2>1. Converge(GracefulDead) /\ gate[c] = "returned" /\ gate'[c] = "over"
    BY <1>9 DEF FinalizeFails, SetGate, DispatchInv
  <2>2. Ends \/ (UNCHANGED vars /\ (ctx = "graceful" \/ ~(Writable(Turn) /\ Uncertain(Turn))))
    BY <2>1, SettlingEnds DEF Converge, GracefulDead, Course
  <2>3. ASSUME UNCHANGED vars, ctx = "graceful" \/ ~(Writable(Turn) /\ Uncertain(Turn))
        PROVE  Course'
    <3>1. ctx = "graceful" \/ AttemptOf(c) # "dispatching" \/ Terminal(Turn)
      <4>1. CASE Writable(Turn)
        BY <2>3, <4>1, OnlyTurn DEF Course
      <4>2. CASE ~Writable(Turn)
        BY <1>2, <4>2, TheTurn DEF Terminal, Writable, TypeInv, TypeOK, MarkerStatus
      <4>3. QED
        BY <4>1, <4>2
    <3>2. QED
      BY <1>1, <1>2, <2>1, <2>3, <3>1, StillCourse
  <2>4. QED
    BY <1>4, <2>1, <2>2, <2>3
<1>10. CASE \E outcome \in Outcomes : Finalize(c, outcome)
  <2>1. PICK outcome \in Outcomes : Finalize(c, outcome)
    BY <1>10
  <2>2. FinishDispatch(Turn, Run, c, outcome) /\ gate[c] = "returned" /\ gate'[c] = "over"
    BY <2>1 DEF Finalize, SetGate, DispatchInv
  <2>3. /\ Writable(Turn) /\ Writable(Turn)' /\ UNCHANGED <<identity, waited, ask>>
        /\ AttemptOf(c) = "dispatching" /\ AttemptOf(c)' = outcome
        /\ \A a \in Attempts : a # <<Turn, Run, c>> => attempt'[a] = attempt[a]
        /\ \A d \in Calls : call'[<<Turn, d>>] = "none" => call[<<Turn, d>>] = "none"
    BY <2>2, TheTurn, OnlyTurn DEF FinishDispatch, journal, AttemptOf, Attempts, TypeInv, TypeOK,
       Writable, Owned, Course
  <2>4. \A d \in Calls \ {c} : AttemptOf(d)' = AttemptOf(d)
    BY <2>3, TheTurn DEF AttemptOf, Attempts
  <2>5. AttemptOf(c)' \notin {"none", "dispatching"} /\ call[<<Turn, c>>] # "none"
    BY <2>3 DEF Outcomes, Dealt, Course
  <2>6. call'[<<Turn, c>>] = "closed"
    BY <2>2, TheTurn DEF FinishDispatch, TypeInv, TypeOK
  <2>7. Dealt'
    BY <1>1, <2>3, <2>4, <2>5, <2>6 DEF Dealt, Course, AskOf
  <2>8. QED
    BY <1>1, <1>2, <2>2, <2>3, <2>4, <2>5, <2>7, BusyCourse
<1>11. CASE RecordDecline(c)
  <2>1. gate' = gate /\ (AppendToolResult(Turn, c) \/ UNCHANGED vars)
    BY <1>11 DEF RecordDecline
  <2>2. CASE AppendToolResult(Turn, c)
    <3>1. /\ Writable(Turn) /\ Writable(Turn)' /\ UNCHANGED <<identity, waited, ask, attempt>>
          /\ \A d \in Calls : call'[<<Turn, d>>] = "none" => call[<<Turn, d>>] = "none"
      BY <2>2, TheTurn DEF AppendToolResult, journal, TypeInv, TypeOK, Writable
    <3>2. Dealt'
      BY <2>1, <3>1 DEF Dealt, Course, AskOf, AttemptOf
    <3>3. QED
      BY <1>1, <1>2, <2>1, <3>1, <3>2, BusyCourse DEF AttemptOf
  <2>3. QED
    BY <1>3, <2>1, <2>2
<1>12. QED
  BY <1>5, <1>6, <1>7, <1>8, <1>9, <1>10, <1>11 DEF Batch

LEMMA GateCourse ==
  ASSUME TypeInv, JournalSafe, JournalSafe', StrandInv, DispatchInv, NEW c \in Calls,
         Gate(c) \/ Handler(c)
  PROVE  Course'
<1> USE DEF StrandInv
<1>1. /\ UNCHANGED <<main, engine, process, stopping, recover>>
      /\ \A d \in Calls \ {c} : gate'[d] = gate[d]
      /\ gate[c] \notin GateDone /\ gate'[c] # "none"
  BY DEF Gate, Handler, Ask, AskFails, AbortWait, Enter, Begin, BeginFails, Invoke, Drain,
     HandlerReturns, HandlerFails, SetGate, GateDone, DispatchInv
<1>2. /\ UNCHANGED <<ctx, owner, up, late, exec>> /\ Course /\ ~GatesDone
      /\ AttemptOf(c) # "none" /\ marker[Turn] # "none" /\ Dead' = Dead
  <2>1. AttemptOf(c) # "none" /\ ~GatesDone
    BY <1>1 DEF Course, Dealt, GateDone, GatesDone
  <2>2. call[<<Turn, c>>] # "none"
    BY <2>1 DEF Course, Dealt
  <2>3. QED
    BY <1>1, <2>1, <2>2 DEF engine, process, stopping, Course, Admitted, Dead
<1>3. \A d \in Calls \ {c} : AskOf(d) = "pending" /\ d \in waiters => gate'[d] = "pending" \/ Dead
  BY <1>1 DEF Course, Waits
<1>4. CASE Terminal(Turn) /\ UNCHANGED vars
  BY <1>1, <1>4, OverCourse DEF Course, GateDone
<1>5. ASSUME ~Terminal(Turn)
      PROVE  Writable(Turn) /\ recover = "none" /\ \A d \in Calls : ~Unowned(d)
  <2>1. Writable(Turn)
    BY <1>2, <1>5, TheTurn DEF Terminal, Writable, TypeInv, TypeOK, MarkerStatus
  <2>2. QED
    BY <1>2, <2>1, Busy
<1>6. ASSUME Writable(Turn), UNCHANGED vars, waiters' = waiters,
             gate[c] # "pending" \/ Dead,
             \/ gate'[c] \in AtWork \/ ctx = "graceful" \/ AttemptOf(c) # "dispatching"
      PROVE  Course'
  <2> USE DEF vars, journal, items
  <2>1. Writable(Turn)' /\ ~Terminal(Turn)
    BY <1>6 DEF Writable, Terminal, TerminalStatus, ActiveStatus
  <2>2. Dealt'
    <3>1. call' = call /\ \A d \in Calls : AttemptOf(d)' = AttemptOf(d) /\ AskOf(d)' = AskOf(d)
      BY <1>6 DEF AttemptOf, AskOf
    <3>2. QED
      BY <1>1, <1>2, <3>1 DEF Course, Dealt
  <2>3. recover' = "none" /\ \A d \in Calls : ~Unowned(d)'
    BY <1>1, <1>5, <1>6, <2>1 DEF Unowned, AskOf
  <2>4. Recovers'
    BY <2>3 DEF Recovers
  <2>5. Awake'
    <3>1. up /\ exec = "none" =>
            owner # "none" \/ (late /\ AnyAsk) \/ \E d \in Calls : AttemptOf(d) = "dispatching"
      BY <1>2, <1>5, <1>6, <2>1 DEF Course, Awake
    <3>2. AnyAsk' = AnyAsk /\ \A d \in Calls : AttemptOf(d)' = AttemptOf(d)
      BY <1>6 DEF AnyAsk, AskOf, AttemptOf
    <3>3. QED
      BY <1>2, <3>1, <3>2 DEF Awake
  <2>6. \A d \in Calls : AskOf(d)' = "pending" /\ d \in waiters' => gate'[d] = "pending" \/ Dead
    BY <1>3, <1>6 DEF AskOf, Course, Waits
  <2>7. QED
    BY <1>1, <1>2, <1>6, <2>1, <2>2, <2>4, <2>5, <2>6, LiveCourse DEF AttemptOf
<1>7. CASE Ends
  BY <1>1, <1>2, <1>7, EndedCourse DEF Course, GateDone
<1>8. ASSUME ~Terminal(Turn), AttemptOf(c) = "dispatching"
      PROVE  gate[c] \in AtWork \/ ctx = "graceful"
  <2>1. up
    BY <1>2 DEF Down
  <2>2. QED
    BY <1>2, <1>5, <1>8, <2>1 DEF Course, Converges
<1>9. CASE Ask(c)
  <2>1. /\ AskInteraction(Turn, c) /\ waiters' = waiters \cup {c} /\ gate'[c] = "pending"
        /\ gate[c] = "asking"
    BY <1>9 DEF Ask, SetGate, DispatchInv
  <2>2. /\ Writable(Turn) /\ Writable(Turn)' /\ ~Terminal(Turn)
        /\ UNCHANGED <<identity, waited, attempt, call>> /\ AskOf(c) = "none"
        /\ \A d \in Calls \ {c} : AskOf(d)' = AskOf(d)
    BY <2>1, TheTurn, DispatchAssumption DEF AskInteraction, journal, TypeInv, TypeOK, Writable,
       AskOf, Terminal, ActiveStatus, TerminalStatus
  <2>3. Dealt'
    BY <1>1, <1>2, <2>2 DEF Course, Dealt, AttemptOf
  <2>4. \A d \in Calls : ~Unowned(d)' /\ recover' = "none"
    BY <1>1, <1>5, <2>1, <2>2 DEF Unowned
  <2>5. Awake'
    <3>1. up /\ exec = "none" =>
            owner # "none" \/ (late /\ AnyAsk) \/ \E d \in Calls : AttemptOf(d) = "dispatching"
      BY <1>2, <1>5, <2>2 DEF Course, Awake
    <3>2. (AnyAsk => AnyAsk') /\ \A d \in Calls : AttemptOf(d)' = AttemptOf(d)
      BY <2>2 DEF AnyAsk, AttemptOf
    <3>3. QED
      BY <1>2, <3>1, <3>2 DEF Awake
  <2>6. \A d \in Calls : AskOf(d)' = "pending" /\ d \in waiters' => gate'[d] = "pending" \/ Dead
    BY <1>3, <2>1, <2>2
  <2>7. \A d \in Calls : AttemptOf(d)' = "dispatching" =>
          ctx = "graceful" \/ (AttemptOf(d) = "dispatching" /\ gate'[d] = gate[d] /\ recover' = recover)
    BY <1>1, <1>8, <2>1, <2>2 DEF AttemptOf, AtWork
  <2>8. Recovers'
    BY <2>4, <1>5, <2>2 DEF Recovers
  <2>9. QED
    BY <1>2, <2>2, <2>3, <2>5, <2>6, <2>7, <2>8, LiveCourse
<1>10. CASE AskFails(c) \/ AbortWait(c) \/ Enter(c) \/ BeginFails(c) \/ Invoke(c) \/ HandlerReturns(c)
  <2>1. UNCHANGED vars /\ waiters' = waiters /\ (gate[c] # "pending" \/ Dead)
    BY <1>10 DEF AskFails, AbortWait, Enter, BeginFails, Invoke, HandlerReturns
  <2>2. gate[c] \notin AtWork \/ gate'[c] \in AtWork
    BY <1>10 DEF AskFails, AbortWait, Enter, BeginFails, Invoke, HandlerReturns, SetGate, AtWork,
       DispatchInv
  <2>3. QED
    BY <1>4, <1>5, <1>6, <1>8, <2>1, <2>2
<1>11. CASE HandlerFails(c) \/ Drain(c)
  <2>1. Converge(GracefulDead) /\ waiters' = waiters /\ gate[c] # "pending"
    BY <1>11 DEF HandlerFails, Drain
  <2>2. Ends \/ (UNCHANGED vars /\ (ctx = "graceful" \/ ~(Writable(Turn) /\ Uncertain(Turn))))
    BY <1>2, <2>1, SettlingEnds DEF Converge, GracefulDead, Course
  <2>3. Writable(Turn) /\ ~Uncertain(Turn) => AttemptOf(c) # "dispatching"
    BY <1>2, OnlyTurn DEF Course
  <2>4. QED
    BY <1>4, <1>5, <1>6, <1>7, <2>1, <2>2, <2>3
<1>12. CASE Begin(c)
  <2>1. BeginDispatch(Turn, Run, c) /\ waiters' = waiters /\ gate'[c] = "begun" /\ gate[c] = "entering"
    BY <1>12 DEF Begin, SetGate, DispatchInv
  <2>2. /\ Writable(Turn) /\ Writable(Turn)' /\ UNCHANGED <<identity, waited, ask, call>>
        /\ AttemptOf(c)' = "dispatching"
        /\ \A a \in Attempts : a # <<Turn, Run, c>> => attempt'[a] = attempt[a]
    BY <1>2, <2>1, TheTurn, OnlyTurn DEF BeginDispatch, journal, AttemptOf, Attempts, TypeInv,
       TypeOK, Writable, Owned, Course
  <2>3. \A d \in Calls \ {c} : AttemptOf(d)' = AttemptOf(d)
    BY <2>2, TheTurn DEF AttemptOf, Attempts
  <2>4. Dealt'
    BY <1>1, <1>2, <2>2, <2>3 DEF Course, Dealt, AskOf
  <2>5. recover' = "none" /\ \A d \in Calls : ~Unowned(d)'
    BY <1>1, <1>5, <2>1, <2>2 DEF Unowned, AskOf, Terminal, Writable, ActiveStatus, TerminalStatus
  <2>6. Recovers' /\ Awake'
    BY <2>2, <2>5 DEF Recovers, Awake
  <2>7. \A d \in Calls : AskOf(d)' = "pending" /\ d \in waiters' => gate'[d] = "pending" \/ Dead
    BY <1>2, <1>3, <2>1, <2>2 DEF AskOf, Course, Waits
  <2>8. \A d \in Calls : AttemptOf(d)' = "dispatching" =>
          gate'[d] \in AtWork \/ (AttemptOf(d) = "dispatching" /\ gate'[d] = gate[d] /\ recover' = recover)
    BY <1>1, <2>1, <2>2, <2>3 DEF AtWork
  <2>9. QED
    BY <1>2, <2>2, <2>4, <2>6, <2>7, <2>8, LiveCourse
<1>13. QED
  BY <1>9, <1>10, <1>11, <1>12 DEF Gate, Handler

LEMMA AnswerCourse ==
  ASSUME TypeInv, JournalSafe, StrandInv, DispatchInv,
         NEW c \in Calls, NEW yes \in BOOLEAN, Answer(c, yes)
  PROVE  Course'
<1> USE DEF StrandInv
<1>1. /\ up /\ Course /\ UNCHANGED <<ctx, owner, up, late, exec>> /\ Dead' = Dead
      /\ \A d \in Calls : gate'[d] = gate[d] \/ (gate[d] = "pending" /\ gate'[d] \notin {"none", "pending"})
      /\ \A d \in Calls \ {c} : gate'[d] = gate[d]
  BY DEF Answer, engine, process, stopping, DispatchInv, Dead
<1>2. /\ Writable(Turn) /\ Writable(Turn)' /\ UNCHANGED <<identity, waited, attempt, call>>
      /\ AskOf(c) = "pending" /\ AskOf(c)' = "resolved"
      /\ \A d \in Calls \ {c} : AskOf(d)' = AskOf(d)
  <2>1. ResolveInteractions(Turn, {c})
    BY DEF Answer
  <2>2. QED
    BY <2>1, TheTurn, DispatchAssumption DEF ResolveInteractions, journal, TypeInv, TypeOK, Writable,
       AskOf
<1>3. \A d \in Calls : AttemptOf(d)' = AttemptOf(d)
  BY <1>2 DEF AttemptOf
<1>4. Dealt'
  BY <1>1, <1>2, <1>3 DEF Course, Dealt
<1>5. AnyAsk'
  BY <1>2 DEF AnyAsk
<1>6. \A a \in Attempts : a[2] # Run => attempt'[a] = attempt[a]
  BY <1>2
<1>7. CASE c \in waiters
  <2>1. waiters' = waiters \ {c} /\ recover' = recover
    BY <1>7 DEF Answer
  <2>2. \A d \in Calls : Unowned(d)' <=> Unowned(d)
    BY <1>2, <1>7, <2>1 DEF Unowned
  <2>3. \A d \in Calls : AskOf(d)' = "pending" /\ d \in waiters' => gate'[d] = "pending" \/ Dead
    BY <1>1, <1>2, <2>1 DEF Course, Waits
  <2>4. recover # "none" \/ (\E d \in Calls : Unowned(d)) => GatesDone /\ exec = "none" /\ gate' = gate
    BY <1>1, <1>2 DEF Course, Recovers, GatesDone, GateDone, DispatchInv, Answer
  <2>5. Recovers'
    <3>1. recover # "none" \/ (\E d \in Calls : Unowned(d)) => GatesDone'
      BY <2>4 DEF GatesDone
    <3>2. recover = "redispatch" => ~PendingAsk(Turn)' /\ ~Uncertain(Turn)'
      <4>1. Course /\ Writable(Turn)
        BY <1>1, <1>2
      <4>2. recover = "redispatch" => ~PendingAsk(Turn)
        BY <4>1 DEF Course, Recovers
      <4>3. QED
        BY <1>2, <4>1, <4>2, OnlyTurn DEF Course
    <3>3. QED
      BY <1>1, <2>1, <2>2, <2>4, <3>1, <3>2 DEF Recovers
  <2>6. Awake'
    BY <1>1, <1>2, <1>3, <1>5, <2>1, <2>2 DEF Course, Awake
  <2>7. \A d \in Calls : AttemptOf(d)' = "dispatching" =>
          \/ gate'[d] \in AtWork \/ ctx = "graceful"
          \/ AttemptOf(d) = "dispatching" /\ gate'[d] = gate[d] /\ recover' = recover
    <3>1. ASSUME NEW d \in Calls, AttemptOf(d) = "dispatching", gate'[d] # gate[d]
          PROVE  ctx = "graceful"
      <4>1. gate[d] = "pending"
        BY <1>1, <3>1
      <4>2. recover = "none"
        BY <1>2, <4>1 DEF Course, Recovers, GatesDone, GateDone
      <4>3. QED
        BY <1>1, <1>2, <3>1, <4>1, <4>2 DEF Course, Converges, AtWork
    <3>2. QED
      BY <1>3, <2>1, <3>1
  <2>8. QED
    BY <1>1, <1>2, <1>4, <1>6, <2>3, <2>5, <2>6, <2>7, LiveCourse
<1>8. CASE c \notin waiters
  <2>1. waiters' = waiters /\ gate' = gate /\ recover' = "due"
    BY <1>8 DEF Answer
  <2>2. exec = "none" /\ GatesDone
    BY <1>1, <1>2, <1>8 DEF Course, Recovers, Unowned
  <2>3. Recovers'
    BY <1>1, <2>1, <2>2 DEF Recovers, GatesDone
  <2>4. Awake' /\ Converges'
    BY <2>1 DEF Awake, Converges
  <2>5. Waits'
    BY <1>1, <1>2, <2>1 DEF Course, Waits, Dead
  <2>6. Stops'
    BY <1>1, <1>2 DEF Course, Stops
  <2>7. Admitted'
    <3>1. marker[Turn] # "none" /\ marker'[Turn] # "none"
      BY <1>2 DEF Writable, ActiveStatus
    <3>2. \A a \in Attempts : a[2] # Run => attempt'[a] = "none"
      BY <1>1, <1>6 DEF Course, Admitted
    <3>3. QED
      BY <1>1, <1>2, <3>1, <3>2 DEF Course, Admitted, Attempts
  <2>8. QED
    BY <1>4, <2>3, <2>4, <2>5, <2>6, <2>7 DEF Course
<1>9. QED
  BY <1>7, <1>8

LEMMA EngineCourse ==
  ASSUME TypeInv, JournalSafe, StrandInv, DispatchInv, Engine \/ BatchEnds \/ Expire
  PROVE  Course'
<1> USE DEF StrandInv
<1>1. /\ Course /\ UNCHANGED <<ctx, owner, up, waiters, recover>> /\ (Dead => Dead')
      /\ exec # "none" /\ exec' # "none"
  BY DEF Engine, Respond, Conclude, ProviderFails, BatchEnds, Expire, process, stopping, dispatch,
     engine, Dead
<1>2. CASE ~\E calls \in SUBSET Calls : Respond(calls)
  <2>1. UNCHANGED vars /\ gate' = gate
    BY <1>2 DEF Engine, Conclude, ProviderFails, BatchEnds, Expire, dispatch
  <2>2. QED
    BY <1>1, <2>1, StillCourse
<1>3. ASSUME NEW calls \in SUBSET Calls, Respond(calls)
      PROVE  Course'
  <2>1. /\ CommitProviderContext(Turn, Run, calls, "keep")
        /\ gate' = [c \in Calls |-> IF c \in calls THEN "none" ELSE gate[c]]
    BY <1>3 DEF Respond
  <2>2. /\ Writable(Turn) /\ Writable(Turn)' /\ UNCHANGED <<identity, waited, ask, attempt>>
        /\ \A c \in calls : call[<<Turn, c>>] = "none" /\ call'[<<Turn, c>>] = "open"
        /\ \A c \in Calls : call'[<<Turn, c>>] = "none" => call[<<Turn, c>>] = "none" /\ c \notin calls
    BY <1>1, <2>1, TheTurn, OnlyTurn DEF CommitProviderContext, journal, TypeInv, TypeOK, Writable,
       Owned, Course
  <2>3. \A c \in Calls : AttemptOf(c)' = AttemptOf(c) /\ AskOf(c)' = AskOf(c)
    BY <2>2 DEF AttemptOf, AskOf
  <2>4. \A c \in calls : AttemptOf(c) = "none" /\ AskOf(c) = "none" /\ gate[c] = "none"
    BY <1>1, <2>2 DEF Course, Dealt
  <2>5. gate' = gate
    BY <2>1, <2>4 DEF DispatchInv
  <2>6. Dealt'
    BY <1>1, <2>2, <2>3, <2>5 DEF Course, Dealt
  <2>7. QED
    BY <1>1, <2>2, <2>3, <2>5, <2>6, BusyCourse
<1>4. QED
  BY <1>2, <1>3

\* What refuses the last terminal of a run is what somebody will take up.
LEMMA RefusedEnd ==
  ASSUME TypeInv, JournalSafe, Admitted, Writable(Turn),
         ~FinishAdmitted(Turn, Run, "failed", "preparation")
  PROVE  PendingAsk(Turn) \/ Uncertain(Turn)
<1>1. HasAuthority(Turn, Run)
  BY OnlyTurn DEF Owned
<1>2. SettlesOwnAttempts(Turn, Run)
  BY DEF SettlesOwnAttempts, AttemptsOf, Admitted
<1>3. QED
  BY <1>1, <1>2 DEF FinishAdmitted

LEMMA EndOfRunCourse ==
  ASSUME TypeInv, JournalSafe, JournalSafe', StrandInv, EndOfRun
  PROVE  Course'
<1> USE DEF StrandInv
<1>1. /\ UNCHANGED <<ctx, owner, up, late, waiters, recover, gate, main>> /\ Course
      /\ exec \notin {"none", "batch"} /\ Dead' = Dead
  <2>1. UNCHANGED <<process, stopping, dispatch, recover>> /\ exec \notin {"none", "batch"}
    BY DEF EndOfRun, EndUnknown, LeaveToOwner, CloseCall, SaveResult, EndRun, EndReplayed,
       EndRefused, EndFailed, EndFallback, engine
  <2>2. QED
    BY <2>1 DEF process, stopping, dispatch, Dead
<1>2. marker[Turn] # "none"
  BY <1>1 DEF Course, Admitted
<1>3. CASE Ends
  BY <1>1, <1>3, EndedCourse DEF Course
<1>4. ASSUME UNCHANGED vars, exec' # "none" \/ Terminal(Turn)
      PROVE  Course'
  BY <1>1, <1>4, StillCourse
<1>5. Terminal(Turn) \/ Writable(Turn)
  BY <1>2, TheTurn DEF Terminal, Writable, TypeInv, TypeOK, MarkerStatus
<1>6. ASSUME UNCHANGED vars, Writable(Turn), exec' = "none", Awake'
      PROVE  Course'
  <2> USE DEF vars, journal, items
  <2>1. Writable(Turn)'
    BY <1>6 DEF Writable
  <2>2. \A c \in Calls : AttemptOf(c)' = AttemptOf(c) /\ AskOf(c)' = AskOf(c)
    BY <1>6 DEF AttemptOf, AskOf
  <2>3. Dealt'
    BY <1>1, <1>6, <2>2 DEF Course, Dealt
  <2>4. recover' = "none" /\ \A c \in Calls : ~Unowned(c)'
    BY <1>1, <1>6, <2>2, Busy DEF Unowned
  <2>5. Recovers'
    BY <2>4 DEF Recovers
  <2>6. \A c \in Calls : AskOf(c)' = "pending" /\ c \in waiters' => gate'[c] = "pending" \/ Dead
    BY <1>1, <2>2 DEF Course, Waits
  <2>7. QED
    BY <1>1, <1>6, <2>1, <2>2, <2>3, <2>5, <2>6, LiveCourse
<1>7. CASE EndUnknown
  <2>1. SettleUnknown /\ exec' = IF Writable(Turn) /\ ~FailUnknownAdmitted(Turn, Run)
                                 THEN "fallback" ELSE "none"
    BY <1>7 DEF EndUnknown
  <2>2. Ends \/ (UNCHANGED vars /\ ~(Writable(Turn) /\ Uncertain(Turn)))
    BY <1>1, <2>1, SettlingEnds DEF Course
  <2>3. FailUnknownAdmitted(Turn, Run) => Writable(Turn) /\ Uncertain(Turn)
    BY <1>1, OnlyTurn DEF Course
  <2>4. QED
    BY <1>3, <1>4, <1>5, <2>1, <2>2, <2>3
<1>8. CASE LeaveToOwner
  <2>1. UNCHANGED vars /\ exec' = "none" /\ ctx = "graceful"
    BY <1>8 DEF LeaveToOwner
  <2>2. Writable(Turn) => owner = "graceful"
    BY <1>1, <2>1 DEF Course, Stops
  <2>3. Writable(Turn) => Awake'
    BY <1>1, <2>2 DEF Awake
  <2>4. QED
    BY <1>4, <1>5, <1>6, <2>1, <2>3
<1>9. ASSUME NEW c \in Calls, CloseCall(c)
      PROVE  Course'
  <2>1. AppendToolResult(Turn, c) /\ exec' = exec
    BY <1>9 DEF CloseCall, engine
  <2>2. /\ Writable(Turn) /\ Writable(Turn)' /\ UNCHANGED <<identity, waited, ask, attempt>>
        /\ \A d \in Calls : call'[<<Turn, d>>] = "none" => call[<<Turn, d>>] = "none"
    BY <2>1, TheTurn DEF AppendToolResult, journal, TypeInv, TypeOK, Writable
  <2>3. Dealt'
    BY <1>1, <2>2 DEF Dealt, Course, AskOf, AttemptOf
  <2>4. QED
    BY <1>1, <2>1, <2>2, <2>3, BusyCourse DEF AttemptOf
<1>10. CASE SaveResult
  <2>1. SavePoint(Turn) /\ exec' = "saved"
    BY <1>10 DEF SaveResult
  <2>2. /\ Writable(Turn) /\ Writable(Turn)' /\ UNCHANGED <<waited, ask, attempt, call>>
        /\ identity'[Turn] = identity[Turn]
    BY <2>1, TheTurn DEF SavePoint, WriteMarker, items, TypeInv, TypeOK, Writable, ActiveStatus
  <2>3. Dealt'
    BY <1>1, <2>2 DEF Dealt, Course, AskOf, AttemptOf
  <2>4. QED
    BY <1>1, <2>1, <2>2, <2>3, BusyCourse DEF AttemptOf
<1>11. CASE EndRun
  <2>1. FinishTurn(Turn, Run, EndStatus, "run", TRUE)
    BY <1>11 DEF EndRun
  <2>2. EndStatus \in {"completed", "failed", "aborted"}
    BY DEF EndStatus
  <2>3. QED
    BY <1>3, <2>1, <2>2, EndingEnds DEF FinishIDs
<1>12. CASE EndReplayed \/ EndRefused
  BY <1>4, <1>12 DEF EndReplayed, EndRefused
<1>13. CASE EndFailed
  BY <1>3, <1>4, <1>13, EndingEnds DEF EndFailed, FinishIDs
<1>14. CASE EndFallback
  <2>1. Writable(Turn) /\ exec' = "none"
    BY <1>14 DEF EndFallback
  <2>2. CASE FinishTurn(Turn, Run, "failed", "preparation", FALSE)
    BY <1>3, <2>2, EndingEnds DEF FinishIDs
  <2>3. CASE ~FinishAdmitted(Turn, Run, "failed", "preparation") /\ UNCHANGED vars
    <3>1. \E c \in Calls : AskOf(c) = "pending" \/ AttemptOf(c) = "dispatching"
      BY <1>1, <2>1, <2>3, RefusedEnd, OnlyTurn DEF Course
    <3>2. PICK c \in Calls : AskOf(c) = "pending" \/ AttemptOf(c) = "dispatching"
      BY <3>1
    <3>3. AskOf(c)' = AskOf(c) /\ AttemptOf(c)' = AttemptOf(c)
      BY <2>3 DEF vars, journal, items, AskOf, AttemptOf
    <3>4. CASE AttemptOf(c) = "dispatching"
      BY <1>6, <2>1, <2>3, <3>3, <3>4 DEF Awake
    <3>5. CASE AskOf(c) = "pending"
      <4>1. c \in waiters
        BY <1>1, <2>1, <3>5, Busy DEF Unowned
      <4>2. Dead
        <5>1. gate[c] = "pending" => Dead
          BY <1>1 DEF Batched, GateDone
        <5>2. QED
          BY <1>1, <3>5, <4>1, <5>1 DEF Course, Waits
      <4>3. owner = "graceful" \/ late
        BY <1>1, <2>1, <4>2 DEF Dead, Course, Stops
      <4>4. AnyAsk'
        BY <3>3, <3>5 DEF AnyAsk
      <4>5. Awake'
        BY <1>1, <4>3, <4>4 DEF Awake
      <4>6. QED
        BY <1>6, <2>1, <2>3, <4>5
    <3>6. QED
      BY <3>2, <3>4, <3>5
  <2>4. QED
    BY <1>14, <2>2, <2>3 DEF EndFallback
<1>15. QED
  BY <1>7, <1>8, <1>9, <1>10, <1>11, <1>12, <1>13, <1>14 DEF EndOfRun

\* A step of the stop, of the process or of recovery moves no gate.
LEMMA RestingCourse ==
  ASSUME TypeInv, JournalSafe, Course, UNCHANGED vars, Writable(Turn),
         Stops', Waits', Recovers', Converges', Awake'
  PROVE  (\A c \in Calls : gate[c] = "none" => gate'[c] = "none") => Course'
<1> SUFFICES ASSUME \A c \in Calls : gate[c] = "none" => gate'[c] = "none" PROVE Course'
  OBVIOUS
<1> USE DEF vars, journal, items
<1>1. marker[Turn] # "none"
  BY DEF Writable, ActiveStatus
<1>2. Admitted'
  BY <1>1 DEF Course, Admitted, Attempts
<1>3. \A c \in Calls : AttemptOf(c)' = AttemptOf(c) /\ AskOf(c)' = AskOf(c)
  BY DEF AttemptOf, AskOf
<1>4. Dealt'
  BY <1>3 DEF Course, Dealt
<1>5. QED
  BY <1>2, <1>4 DEF Course

LEMMA StopCourse ==
  ASSUME TypeInv, JournalSafe, JournalSafe', StrandInv, Stop \/ Owner
  PROVE  Course'
<1> USE DEF StrandInv
<1>1. UNCHANGED <<engine, process, recover, main, gate>> /\ up /\ Course /\ (Dead => Dead')
  BY DEF Stop, Owner, StopNow, RequestStop, CancelExecution, WindowEnds, OwnerSettles, Down, Dead,
     dispatch
<1>2. CASE Ends
  BY <1>1, <1>2, EndedCourse DEF Course
<1>3. CASE Terminal(Turn) /\ UNCHANGED vars
  BY <1>1, <1>3, OverCourse DEF Course
<1>4. CASE StopNow
  <2>1. CommitStop /\ (Writable(Turn) \/ Terminal(Turn))
    BY <1>4 DEF StopNow, Terminal, TerminalStatus
  <2>2. Ends \/ (UNCHANGED vars /\ ~Writable(Turn))
    BY <1>1, <2>1, SettlingEnds DEF Course
  <2>3. QED
    BY <1>2, <1>3, <2>1, <2>2
<1>5. CASE OwnerSettles
  <2>1. CommitStop /\ marker[Turn] # "none"
    BY <1>1, <1>5 DEF OwnerSettles, Course, Admitted
  <2>2. Ends \/ (UNCHANGED vars /\ ~Writable(Turn))
    BY <1>1, <2>1, SettlingEnds DEF Course
  <2>3. Writable(Turn) \/ Terminal(Turn)
    BY <2>1, TheTurn DEF Terminal, Writable, TypeInv, TypeOK, MarkerStatus
  <2>4. QED
    BY <1>2, <1>3, <2>2, <2>3
<1>6. CASE CancelExecution
  <2>1. UNCHANGED vars /\ owner = "cancelling"
    BY <1>6 DEF CancelExecution
  <2>2. ~Writable(Turn) /\ marker[Turn] # "none"
    BY <1>1, <2>1 DEF Course, Stops, Admitted
  <2>3. Terminal(Turn)
    BY <2>2, TheTurn DEF Terminal, Writable, TypeInv, TypeOK, MarkerStatus
  <2>4. QED
    BY <1>3, <2>1, <2>3
<1>7. CASE WindowEnds
  <2>1. UNCHANGED vars /\ UNCHANGED <<ctx, owner, late, waiters, exec, up>>
    BY <1>1, <1>7 DEF WindowEnds, dispatch, engine, process
  <2>2. marker[Turn] # "none"
    BY <1>1, <1>7 DEF WindowEnds, Course, Admitted
  <2>3. Writable(Turn) \/ Terminal(Turn)
    BY <2>2, TheTurn DEF Terminal, Writable, TypeInv, TypeOK, MarkerStatus
  <2>4. CASE Writable(Turn)
    <3> USE DEF vars, journal, items
    <3>1. \A c \in Calls : /\ AttemptOf(c)' = AttemptOf(c) /\ AskOf(c)' = AskOf(c)
                           /\ Unowned(c)' = Unowned(c)
      BY <2>1 DEF AttemptOf, AskOf, Unowned
    <3>2. /\ AnyAsk' = AnyAsk /\ GatesDone' = GatesDone /\ Writable(Turn)' = Writable(Turn)
          /\ PendingAsk(Turn)' = PendingAsk(Turn) /\ Uncertain(Turn)' = Uncertain(Turn)
      BY <1>1, <2>1 DEF AnyAsk, AskOf, GatesDone, Writable, PendingAsk, Uncertain, AttemptsOf,
         Attempts
    <3>3. Stops' /\ Waits' /\ Awake'
      BY <1>1, <2>1, <3>1, <3>2 DEF Course, Stops, Waits, Awake
    <3>4. Recovers' /\ Converges'
      BY <1>1, <2>1, <3>1, <3>2 DEF Course, Recovers, Converges
    <3>5. QED
      BY <1>1, <2>1, <2>4, <3>3, <3>4, RestingCourse
  <2>5. QED
    BY <1>3, <2>1, <2>3, <2>4
<1>8. CASE RequestStop
  <2>1. /\ RequestCancel(Turn, Run) /\ UNCHANGED <<waiters, exec, late, up>> /\ owner = "none"
        /\ owner' = "graceful" /\ ctx' = IF ctx = "live" /\ exec # "none" THEN "graceful" ELSE ctx
    BY <1>1, <1>8 DEF RequestStop, dispatch, engine, process
  <2>2. /\ Writable(Turn) /\ Writable(Turn)' /\ UNCHANGED <<marker, identity, waited, items>>
    BY <1>1, <2>1, OnlyTurn DEF RequestCancel, Owned, Writable, Course
  <2>3. ctx = "live" /\ ctx' \in {"live", "graceful"}
    BY <1>1, <2>1, <2>2 DEF Course, Stops
  <2>4. \A c \in Calls : /\ AttemptOf(c)' = AttemptOf(c) /\ AskOf(c)' = AskOf(c)
                         /\ Unowned(c)' = Unowned(c)
    BY <2>1, <2>2 DEF AttemptOf, AskOf, Unowned, items
  <2>5. Stops' /\ Awake'
    BY <2>1, <2>3 DEF Stops, Awake
  <2>6. Waits'
    BY <1>1, <2>1, <2>4 DEF Course, Waits
  <2>7. Recovers'
    <3>1. GatesDone' = GatesDone /\ PendingAsk(Turn)' = PendingAsk(Turn)
          /\ Uncertain(Turn)' = Uncertain(Turn)
      BY <1>1, <2>2 DEF GatesDone, PendingAsk, Uncertain, AttemptsOf, Attempts, items
    <3>2. QED
      BY <1>1, <2>1, <2>2, <2>4, <3>1 DEF Course, Recovers
  <2>8. Converges'
    BY <1>1, <2>1, <2>2, <2>3, <2>4 DEF Course, Converges
  <2>9. Dealt'
    BY <1>1, <2>2, <2>4 DEF Course, Dealt, items
  <2>10. Admitted'
    <3>1. marker[Turn] # "none" /\ marker'[Turn] # "none"
      BY <2>2 DEF Writable, ActiveStatus
    <3>2. QED
      BY <1>1, <2>2, <3>1 DEF Course, Admitted, items, Attempts
  <2>11. QED
    BY <2>5, <2>6, <2>7, <2>8, <2>9, <2>10 DEF Course
<1>9. QED
  BY <1>4, <1>5, <1>6, <1>7, <1>8 DEF Stop, Owner

LEMMA AdmitCourse ==
  ASSUME TypeInv, JournalSafe, StrandInv, Admit
  PROVE  Course'
<1> USE DEF StrandInv
<1>1. /\ UNCHANGED <<process, stopping, dispatch, recover>> /\ exec' = "model"
      /\ AcceptTurn(Turn, Run, "ordinary") /\ Course
  BY DEF Admit
<1>2. /\ marker[Turn] = "none" /\ marker'[Turn] = "started" /\ identity'[Turn] = Run
      /\ UNCHANGED <<waited, attempt, call, ask>>
  BY <1>1, TheTurn DEF AcceptTurn, items, TypeInv, TypeOK
<1>3. \A c \in Calls : /\ AttemptOf(c)' = AttemptOf(c) /\ AskOf(c)' = AskOf(c)
                       /\ Unowned(c)' = Unowned(c) /\ AttemptOf(c) = "none" /\ AskOf(c) = "none"
  BY <1>1, <1>2 DEF AttemptOf, AskOf, Unowned, dispatch, Course, Admitted, Dealt
<1>4. Admitted'
  BY <1>1, <1>2 DEF Course, Admitted, Attempts
<1>5. Dealt'
  BY <1>1, <1>2, <1>3 DEF Course, Dealt, dispatch
<1>6. Stops' /\ Awake'
  BY <1>1, <1>2 DEF Course, Admitted, Stops, Awake, stopping
<1>7. Waits' /\ Converges'
  BY <1>3 DEF Waits, Converges
<1>8. Recovers'
  BY <1>1, <1>2, <1>3 DEF Course, Admitted, Recovers, Unowned
<1>9. QED
  BY <1>4, <1>5, <1>6, <1>7, <1>8 DEF Course

LEMMA ProcessCourse ==
  ASSUME TypeInv, JournalSafe, JournalSafe', StrandInv, Crash \/ Restarting
  PROVE  Course'
<1> USE DEF StrandInv
<1>1. Course /\ \A c \in Calls : gate[c] = "none" => gate'[c] = "none"
  BY DEF Crash, Restarting, Restart, Recover, Redispatch, dispatch
<1>2. CASE Ends
  BY <1>1, <1>2, EndedCourse DEF Course
<1>3. CASE UNCHANGED vars /\ Terminal(Turn)
  BY <1>1, <1>3, OverCourse DEF Course
<1>4. marker[Turn] = "none" \/ Writable(Turn) \/ Terminal(Turn)
  BY TheTurn DEF Terminal, Writable, TypeInv, TypeOK, MarkerStatus
<1>5. ASSUME UNCHANGED vars
      PROVE  /\ \A c \in Calls : AttemptOf(c)' = AttemptOf(c) /\ AskOf(c)' = AskOf(c)
             /\ AnyAsk' = AnyAsk /\ Writable(Turn)' = Writable(Turn) /\ marker'[Turn] = marker[Turn]
             /\ PendingAsk(Turn)' = PendingAsk(Turn) /\ Uncertain(Turn)' = Uncertain(Turn)
  BY <1>5 DEF AttemptOf, AskOf, AnyAsk, Writable, PendingAsk, Uncertain, AttemptsOf, Attempts,
     vars, journal, items
<1>6. ASSUME UNCHANGED vars, marker[Turn] = "none" => exec' = "none" /\ ctx' = "live"
                                                      /\ owner' = "none" /\ recover' = "none",
             Stops', Waits', Recovers', Converges', Awake'
      PROVE  Course'
  <2>1. Dealt'
    <3>1. call' = call
      BY <1>6 DEF vars, items
    <3>2. QED
      BY <1>1, <1>5, <1>6, <3>1 DEF Course, Dealt
  <2>2. Admitted'
    BY <1>1, <1>6 DEF Course, Admitted, Attempts, vars, journal, items
  <2>3. QED
    BY <1>6, <2>1, <2>2 DEF Course
<1>7. CASE Crash
  <2>1. /\ UNCHANGED vars /\ exec' = "none" /\ ctx' = "live" /\ owner' = "none" /\ recover' = "none"
        /\ ~up' /\ waiters' = {} /\ gate' = [c \in Calls |-> "none"]
    BY <1>7 DEF Crash
  <2>2. Stops' /\ Waits' /\ Converges' /\ Awake'
    BY <2>1 DEF Stops, Waits, Converges, Awake
  <2>3. Recovers'
    BY <2>1 DEF Recovers, GatesDone, GateDone
  <2>4. QED
    BY <1>6, <2>1, <2>2, <2>3
<1>8. CASE Restart
  <2>1. /\ UNCHANGED vars /\ UNCHANGED <<exec, ctx, owner, waiters, gate, late>> /\ ~up
        /\ recover' = IF Writable(Turn) THEN "due" ELSE "none"
    BY <1>8 DEF Restart, engine, stopping, dispatch
  <2>2. exec = "none" /\ GatesDone /\ owner = "none" /\ ctx = "live"
    BY <2>1 DEF Down
  <2>3. Stops' /\ Converges' /\ Awake'
    BY <1>5, <2>1, <2>2 DEF Stops, Converges, Awake
  <2>4. Recovers'
    BY <1>5, <2>1, <2>2 DEF Recovers, GatesDone
  <2>5. Waits'
    BY <1>1, <1>5, <2>1 DEF Course, Waits, Dead
  <2>6. marker[Turn] = "none" => ~Writable(Turn)
    BY DEF Writable, ActiveStatus
  <2>7. QED
    BY <1>6, <2>1, <2>2, <2>3, <2>4, <2>5, <2>6
<1>9. CASE Recover
  <2>1. /\ recover = "due" /\ UNCHANGED <<exec, ctx, owner, waiters, gate, late, up>>
        /\ marker[Turn] # "none"
    BY <1>1, <1>9 DEF Recover, engine, stopping, dispatch, process, Course, Admitted
  <2>2. CASE ~Writable(Turn)
    BY <1>3, <1>4, <1>9, <2>1, <2>2 DEF Recover
  <2>3. CASE Writable(Turn) /\ Cancelled
    <3>1. CommitStop
      BY <1>9, <2>3 DEF Recover
    <3>2. QED
      BY <1>1, <1>2, <2>3, <3>1, SettlingEnds DEF Course
  <2>4. CASE Writable(Turn) /\ ~Cancelled /\ Uncertain(Turn)
    <3>1. SettleUnknown
      BY <1>9, <2>4 DEF Recover
    <3>2. QED
      BY <1>1, <1>2, <2>4, <3>1, SettlingEnds DEF Course
  <2>5. CASE Writable(Turn) /\ ~Cancelled /\ ~Uncertain(Turn)
    <3>1. UNCHANGED vars /\ recover' = IF PendingAsk(Turn) THEN "none" ELSE "redispatch"
      BY <1>9, <2>5 DEF Recover
    <3>2. exec = "none" /\ GatesDone
      BY <1>1, <2>1, <2>5 DEF Course, Recovers
    <3>3. Stops' /\ Waits'
      BY <1>1, <1>5, <2>1, <3>1 DEF Course, Stops, Waits, Dead
    <3>4. Recovers'
      BY <1>5, <2>1, <2>5, <3>1, <3>2 DEF Recovers, GatesDone
    <3>5. \A c \in Calls : AttemptOf(c) # "dispatching"
      BY <1>1, <2>5, OnlyTurn DEF Course
    <3>6. Converges'
      BY <1>5, <3>1, <3>5 DEF Converges
    <3>7. Awake'
      <4>1. CASE ~PendingAsk(Turn)
        BY <3>1, <4>1 DEF Awake
      <4>2. CASE PendingAsk(Turn)
        <5>1. PICK c \in Calls : AskOf(c) = "pending"
          BY <1>1, <4>2, OnlyTurn DEF Course
        <5>2. CASE c \notin waiters
          <6>1. Unowned(c)'
            BY <1>5, <2>1, <3>1, <5>1, <5>2 DEF Unowned
          <6>2. QED
            BY <6>1 DEF Awake
        <5>3. CASE c \in waiters
          <6>1. Dead
            BY <1>1, <3>2, <5>1, <5>3 DEF Course, Waits, GatesDone, GateDone
          <6>2. late \/ owner = "graceful"
            BY <1>1, <2>5, <6>1 DEF Dead, Course, Stops
          <6>3. AnyAsk'
            BY <1>5, <3>1, <5>1 DEF AnyAsk
          <6>4. QED
            BY <2>1, <6>2, <6>3 DEF Awake
        <5>4. QED
          BY <5>2, <5>3
      <4>3. QED
        BY <4>1, <4>2
    <3>8. QED
      BY <1>6, <2>1, <3>1, <3>3, <3>4, <3>6, <3>7
  <2>6. QED
    BY <2>2, <2>3, <2>4, <2>5
<1>10. CASE Redispatch
  <2>1. /\ recover = "redispatch" /\ recover' = "none" /\ UNCHANGED vars
        /\ UNCHANGED <<ctx, owner, waiters, gate, late, up>> /\ marker[Turn] # "none"
        /\ exec' = IF Terminal(Turn) THEN exec ELSE "model"
    BY <1>1, <1>10 DEF Redispatch, stopping, dispatch, process, Course, Admitted
  <2>2. CASE Terminal(Turn)
    BY <1>3, <2>1, <2>2
  <2>3. CASE Writable(Turn) /\ ~Terminal(Turn)
    <3>1. ~PendingAsk(Turn) /\ ~Uncertain(Turn)
      BY <1>1, <2>1, <2>3 DEF Course, Recovers
    <3>2. \A c \in Calls : AskOf(c) # "pending" /\ AttemptOf(c) # "dispatching"
      BY <1>1, <2>3, <3>1, OnlyTurn DEF Course
    <3>3. Stops'
      BY <1>1, <1>5, <2>1 DEF Course, Stops
    <3>4. Waits' /\ Converges' /\ Awake'
      BY <1>5, <2>1, <2>3, <3>2 DEF Waits, Converges, Awake
    <3>5. Recovers'
      BY <1>5, <2>1, <3>2 DEF Recovers, Unowned
    <3>6. QED
      BY <1>6, <2>1, <3>3, <3>4, <3>5
  <2>4. QED
    BY <1>4, <2>1, <2>2, <2>3
<1>11. QED
  BY <1>7, <1>8, <1>9, <1>10 DEF Restarting

LEMMA StutterCourse ==
  ASSUME Course, UNCHANGED dispatchVars
  PROVE  Course'
<1> USE DEF dispatchVars, vars, journal, items, process, engine, stopping, dispatch
<1>1. \A c \in Calls : /\ AttemptOf(c)' = AttemptOf(c) /\ AskOf(c)' = AskOf(c)
                       /\ Unowned(c)' = Unowned(c)
  BY DEF AttemptOf, AskOf, Unowned
<1>2. /\ AnyAsk' = AnyAsk /\ GatesDone' = GatesDone /\ Writable(Turn)' = Writable(Turn)
      /\ PendingAsk(Turn)' = PendingAsk(Turn) /\ Uncertain(Turn)' = Uncertain(Turn)
      /\ Dead' = Dead
  BY DEF AnyAsk, AskOf, GatesDone, Writable, PendingAsk, Uncertain, AttemptsOf, Attempts, Dead
<1>3. Admitted' /\ Dealt'
  BY <1>1 DEF Course, Admitted, Dealt, Attempts
<1>4. Stops' /\ Waits'
  BY <1>1, <1>2 DEF Course, Stops, Waits
<1>5. Recovers' /\ Converges'
  BY <1>1, <1>2 DEF Course, Recovers, Converges
<1>6. Awake'
  BY <1>1, <1>2 DEF Course, Awake
<1>7. QED
  BY <1>3, <1>4, <1>5, <1>6 DEF Course

LEMMA StrandStep ==
  TypeInv /\ JournalSafe /\ DispatchInv /\ StrandInv /\ [DispatchNext]_dispatchVars => StrandInv'
<1> SUFFICES ASSUME TypeInv, JournalSafe, DispatchInv, StrandInv, [DispatchNext]_dispatchVars
             PROVE  StrandInv'
  OBVIOUS
<1>1. JournalSafe'
  BY StepSafe, DispatchStepIsJournalStep
<1>2. Down' /\ Batched'
  BY DownStep DEF DispatchInv
<1>3. Course'
  <2>1. CASE UNCHANGED dispatchVars
    BY <2>1, StutterCourse DEF StrandInv
  <2>2. CASE DispatchNext
    BY <1>1, <2>2, AdmitCourse, EngineCourse, EndOfRunCourse, BatchCourse, GateCourse,
       AnswerCourse, StopCourse, ProcessCourse
    DEF DispatchNext
  <2>3. QED
    BY <2>1, <2>2
<1>4. QED
  BY <1>2, <1>3 DEF StrandInv

\* An unfinished turn on which nobody works any more waits for an answer that
\* resumes it, unless its wall time expired behind a question: no stop, refused
\* end, failing handler or loss of the process leaves a turn to nobody.
THEOREM DispatchStrandsNoTurn == DispatchSpec => []OnlyWallTimeStrands
<1>1. DispatchInit => StrandInv
  BY StrandStarts
<1>2. StrandInv => OnlyWallTimeStrands
  <2> SUFFICES ASSUME StrandInv, Quiescent, Writable(Turn)
               PROVE  (\E c \in Calls : Unowned(c)) \/ (late /\ AnyAsk)
    BY DEF OnlyWallTimeStrands, NoStrandedTurn, Unowned, AnyAsk, AskOf
  <2>1. \A c \in Calls : AttemptOf(c) # "dispatching"
    BY DEF StrandInv, Course, Converges, Stops, Quiescent, GateDone, AtWork
  <2>2. QED
    BY <2>1 DEF StrandInv, Course, Awake, Quiescent
<1>3. QED
  BY <1>1, <1>2, StrandStep, DispatchInvariant, PTL DEF DispatchSpec
=============================================================================
