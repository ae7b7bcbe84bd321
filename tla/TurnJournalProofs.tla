------------------------- MODULE TurnJournalProofs -------------------------
(***************************************************************************)
(* Proofs about TurnJournal for every set of turns, runs, calls,           *)
(* interactions and steering requests: how turns end and what they leave,  *)
(* the records beside the turns, and the refinement of TurnContract.       *)
(***************************************************************************)
EXTENDS TurnJournal, TLAPS

\* A turn that was admitted has a run: what the type invariant rests on, since
\* save points and compaction entries are written under identity[t].
AdmittedTurnHasRun ==
  \A t \in Turns : marker[t] # "none" => identity[t] \in Runs

TypeInv == TypeOK /\ AdmittedTurnHasRun

\* The actions whose step from any typed state is again typed, grouped as in
\* Next.  Marker writes share one lemma.
LEMMA WriteMarkerType ==
  ASSUME TypeInv, NEW t \in Turns, NEW r \in Runs,
         NEW status \in MarkerStatus \ {"none"}, WriteMarker(t, r, status)
  PROVE  /\ marker' \in [Turns -> MarkerStatus]
         /\ identity' \in [Turns -> Runs \cup {NoRun}]
         /\ runs' \in [Turns -> SUBSET Runs]
         /\ kind' \in [Turns -> Kinds]
         /\ started' \in [Turns -> Runs \cup {NoRun}]
         /\ AdmittedTurnHasRun'
  BY DEF TypeInv, TypeOK, AdmittedTurnHasRun, WriteMarker

LEMMA SettledItemsType ==
  ASSUME TypeOK, NEW t \in Turns
  PROVE  /\ SettleSteers(t) => steer' \in [Turns \X Steers -> {"none", "pending", "applied", "cancelled"}]
         /\ SettleAsks(t) => ask' \in [Turns \X Asks -> {"none", "pending", "resolved"}]
         /\ CloseCalls(t) => call' \in [Turns \X Calls -> {"none", "open", "closed"}]
         /\ WithdrawPrepared(t) => attempt' \in [Attempts -> AttemptStatus]
  BY DEF TypeOK, SettleSteers, SettleAsks, CloseCalls, WithdrawPrepared, AttemptStatus

\* The initial journal is well typed.
LEMMA InitType == Init => TypeInv
  BY DEF Init, TypeInv, TypeOK, AdmittedTurnHasRun, Kinds, MarkerStatus, AttemptStatus

LEMMA RunTurnType ==
  ASSUME TypeInv, NEW t \in Turns, RunTurn(t)
  PROVE  TypeInv'
<1> USE DEF TypeInv, TypeOK, AdmittedTurnHasRun, journal, items
<1>1. ASSUME NEW r \in Runs, NEW k \in Kinds, AcceptTurn(t, r, k)
      PROVE  TypeInv'
  BY <1>1 DEF AcceptTurn, MarkerStatus, ActiveStatus
<1>2. ASSUME SavePoint(t)
      PROVE  TypeInv'
  <2>1. identity[t] \in Runs
    BY <1>2 DEF SavePoint, Writable, ActiveStatus
  <2>2. QED
    BY <1>2, <2>1, WriteMarkerType DEF SavePoint, MarkerStatus, ActiveStatus
<1>3. ASSUME NEW r \in Runs, ContinueRun(t, r)
      PROVE  TypeInv'
  BY <1>3, WriteMarkerType DEF ContinueRun, MarkerStatus, ActiveStatus
<1>4. ASSUME NEW r \in Runs, NEW calls \in SUBSET Calls,
             NEW state \in {"set", "keep", "clear"},
             CommitProviderContext(t, r, calls, state)
      PROVE  TypeInv'
  BY <1>4 DEF CommitProviderContext
<1>5. ASSUME NEW c \in Calls, AppendToolResult(t, c)
      PROVE  TypeInv'
  BY <1>5 DEF AppendToolResult
<1>6. ASSUME StartCompaction(t)
      PROVE  TypeInv'
  BY <1>6 DEF StartCompaction, Writable, ActiveStatus
<1>7. ASSUME EndCompaction(t)
      PROVE  TypeInv'
  BY <1>7 DEF EndCompaction, SettleCompaction
<1>8. ASSUME NEW r \in Runs, InstallCompaction(t, r)
      PROVE  TypeInv'
  <2>1. CASE kind[t] = "compaction"
    BY <1>8, <2>1, WriteMarkerType, SettledItemsType
    DEF InstallCompaction, SettleCompaction, MarkerStatus, TerminalStatus
  <2>2. CASE kind[t] # "compaction"
    BY <1>8, <2>2 DEF InstallCompaction, SettleCompaction
  <2>3. QED
    BY <2>1, <2>2
<1>9. QED
  BY <1>1, <1>2, <1>3, <1>4, <1>5, <1>6, <1>7, <1>8 DEF RunTurn

LEMMA InteractType ==
  ASSUME TypeInv, NEW t \in Turns, Interact(t)
  PROVE  TypeInv'
<1> USE DEF TypeInv, TypeOK, AdmittedTurnHasRun, journal
<1>1. ASSUME NEW a \in Asks, AskInteraction(t, a)
      PROVE  TypeInv'
  BY <1>1 DEF AskInteraction
<1>2. ASSUME NEW answered \in SUBSET Asks, ResolveInteractions(t, answered)
      PROVE  TypeInv'
  BY <1>2 DEF ResolveInteractions
<1>3. ASSUME NEW r \in Runs, NEW s \in Steers, RequestSteering(t, r, s)
      PROVE  TypeInv'
  BY <1>3 DEF RequestSteering
<1>4. ASSUME NEW r \in Runs, ApplySteering(t, r)
      PROVE  TypeInv'
  BY <1>4 DEF ApplySteering
<1>5. QED
  BY <1>1, <1>2, <1>3, <1>4 DEF Interact

LEMMA EffectType ==
  ASSUME TypeInv, NEW t \in Turns, Effect(t)
  PROVE  TypeInv'
<1> USE DEF TypeInv, TypeOK, AdmittedTurnHasRun, journal, Attempts, AttemptStatus
<1>1. PICK r \in Runs, c \in Calls :
        \/ PrepareEffect(t, r, c)
        \/ RejectEffect(t, r, c)
        \/ BeginDispatch(t, r, c)
        \/ \E outcome \in Outcomes : FinishDispatch(t, r, c, outcome)
  BY DEF Effect
<1>2. CASE PrepareEffect(t, r, c)
  BY <1>2 DEF PrepareEffect
<1>3. CASE RejectEffect(t, r, c)
  BY <1>3 DEF RejectEffect
<1>4. CASE BeginDispatch(t, r, c)
  BY <1>4 DEF BeginDispatch
<1>5. CASE \E outcome \in Outcomes : FinishDispatch(t, r, c, outcome)
  BY <1>5 DEF FinishDispatch, Outcomes
<1>6. QED
  BY <1>1, <1>2, <1>3, <1>4, <1>5

LEMMA FailUnknownType ==
  ASSUME TypeInv, NEW t \in Turns, NEW r \in Runs, FailUnknown(t, r),
         cancelled' \in [Turns -> BOOLEAN]
  PROVE  TypeInv'
<1>1. attempt' \in [Attempts -> AttemptStatus]
  BY DEF TypeInv, TypeOK, FailUnknown, AttemptStatus
<1>2. QED
  BY <1>1, WriteMarkerType, SettledItemsType
  DEF FailUnknown, TypeInv, TypeOK, MarkerStatus, TerminalStatus

LEMMA EndTurnType ==
  ASSUME TypeInv, NEW t \in Turns, EndTurn(t)
  PROVE  TypeInv'
<1>1. ASSUME NEW r \in Runs, NEW status \in FinishStatus, NEW id \in FinishIDs,
             NEW keep \in BOOLEAN, FinishTurn(t, r, status, id, keep)
      PROVE  TypeInv'
  <2>1. WriteMarker(t, r, status) /\ status \in MarkerStatus \ {"none"}
    BY <1>1 DEF FinishTurn, FinishStatus, MarkerStatus, ActiveStatus, TerminalStatus
  <2>2. /\ waited' \subseteq Turns \X Runs
        /\ compacting' \subseteq Turns \X Runs
        /\ cursor' \in Runs \cup {NoRun}
        /\ cancelled' = cancelled /\ call' = call /\ ask' = ask
    BY <1>1 DEF FinishTurn, SettleCompaction, TypeInv, TypeOK
  <2>3. steer' = steer \/ SettleSteers(t)
    BY <1>1 DEF FinishTurn
  <2>4. WithdrawPrepared(t)
    BY <1>1 DEF FinishTurn
  <2>5. QED
    BY <2>1, <2>2, <2>3, <2>4, WriteMarkerType, SettledItemsType DEF TypeInv, TypeOK
<1>2. ASSUME NEW r \in Runs, FailUnknownEffectTurn(t, r)
      PROVE  TypeInv'
  BY <1>2, FailUnknownType DEF FailUnknownEffectTurn, TypeInv, TypeOK
<1>3. ASSUME NEW r \in Runs, RequestCancel(t, r)
      PROVE  TypeInv'
  BY <1>3 DEF RequestCancel, TypeInv, TypeOK, AdmittedTurnHasRun, items
<1>4. ASSUME NEW r \in Runs, CancelTurn(t, r)
      PROVE  TypeInv'
  <2>1. cancelled' \in [Turns -> BOOLEAN]
    BY <1>4 DEF CancelTurn, TypeInv, TypeOK
  <2>2. CASE Uncertain(t)
    BY <1>4, <2>1, <2>2, FailUnknownType DEF CancelTurn
  <2>3. CASE ~Uncertain(t)
    <3>1. WriteMarker(t, r, "stopped") /\ "stopped" \in MarkerStatus \ {"none"}
      BY <1>4, <2>3 DEF CancelTurn, MarkerStatus, TerminalStatus
    <3>2. /\ compacting' \subseteq Turns \X Runs
          /\ waited' = waited /\ cursor' = cursor
      BY <1>4, <2>3 DEF CancelTurn, SettleCompaction, TypeInv, TypeOK
    <3>3. /\ WithdrawPrepared(t) /\ SettleSteers(t)
          /\ SettleAsks(t) /\ CloseCalls(t)
      BY <1>4, <2>3 DEF CancelTurn
    <3>4. QED
      BY <2>1, <3>1, <3>2, <3>3, WriteMarkerType, SettledItemsType DEF TypeInv, TypeOK
  <2>4. QED
    BY <2>2, <2>3
<1>5. PICK r \in Runs :
        \/ \E status \in FinishStatus, id \in FinishIDs, keep \in BOOLEAN :
             FinishTurn(t, r, status, id, keep)
        \/ FailUnknownEffectTurn(t, r)
        \/ RequestCancel(t, r)
        \/ CancelTurn(t, r)
  BY Zenon DEF EndTurn
<1>6. QED
  BY <1>1, <1>2, <1>3, <1>4, <1>5, Zenon

LEMMA StepType == TypeInv /\ [Next]_vars => TypeInv'
<1> SUFFICES ASSUME TypeInv, [Next]_vars PROVE TypeInv'
  OBVIOUS
<1>1. ASSUME NEW t \in Turns, RunTurn(t) \/ Interact(t) \/ Effect(t) \/ EndTurn(t)
      PROVE  TypeInv'
  BY <1>1, RunTurnType, InteractType, EffectType, EndTurnType
<1>2. CASE UNCHANGED vars
  BY <1>2 DEF vars, journal, items, TypeInv, TypeOK, AdmittedTurnHasRun
<1>3. QED
  BY <1>1, <1>2 DEF Next

\* Every state the journal reaches is well typed, whatever its callers do.
THEOREM JournalTyped == Spec => []TypeInv
  BY InitType, StepType, PTL DEF Spec

COROLLARY JournalTypeOK == Spec => []TypeOK
<1>1. TypeInv => TypeOK
  BY DEF TypeInv
<1>2. QED
  BY JournalTyped, <1>1, PTL
-----------------------------------------------------------------------------
(* One active turn: admission reads the index of active turns, and every    *)
(* other marker is written to a turn that was already active.               *)

LEMMA StepOneActive == TypeInv /\ OneActiveTurn /\ [Next]_vars => OneActiveTurn'
<1> SUFFICES ASSUME TypeInv, OneActiveTurn, [Next]_vars PROVE OneActiveTurn'
  OBVIOUS
<1> USE DEF TypeInv, TypeOK
<1>1. CASE UNCHANGED vars
  BY <1>1 DEF vars, journal, OneActiveTurn, Active
<1>2. ASSUME NEW t \in Turns, NEW r \in Runs, NEW k \in Kinds, AcceptTurn(t, r, k)
      PROVE  OneActiveTurn'
  <2>1. Active \subseteq {t}
    <3>1. \A u \in Active : u # t => Active = {u}
      BY DEF OneActiveTurn, Active
    <3>2. QED
      BY <1>2, <3>1 DEF AcceptTurn, ActiveTurn, Active
  <2>2. Active' \subseteq Active \cup {t}
    BY <1>2 DEF AcceptTurn, Active
  <2>3. QED
    BY <2>1, <2>2 DEF OneActiveTurn
<1>3. ASSUME Active' \subseteq Active
      PROVE  OneActiveTurn'
  BY <1>3 DEF OneActiveTurn
<1>4. ASSUME NEW t \in Turns, t \in Active,
             \A u \in Turns : u # t => marker'[u] = marker[u]
      PROVE  Active' \subseteq Active
  BY <1>4 DEF Active
<1>5. ASSUME NEW t \in Turns, RunTurn(t), ~\E r \in Runs, k \in Kinds : AcceptTurn(t, r, k)
      PROVE  OneActiveTurn'
  <2>1. t \in Active \/ marker' = marker
    BY <1>5 DEF RunTurn, SavePoint, ContinueRun, CommitProviderContext, AppendToolResult,
         StartCompaction, EndCompaction, InstallCompaction, InstallAdmitted, HasAuthority,
         ActiveTurn, Active, Writable, journal
  <2>2. \A u \in Turns : u # t => marker'[u] = marker[u]
    BY <1>5 DEF RunTurn, SavePoint, ContinueRun, CommitProviderContext, AppendToolResult,
         StartCompaction, EndCompaction, InstallCompaction, WriteMarker, journal
  <2>3. QED
    BY <2>1, <2>2, <1>3, <1>4 DEF Active
<1>6. ASSUME NEW t \in Turns, Interact(t) \/ Effect(t)
      PROVE  OneActiveTurn'
  <2>1. marker' = marker
    BY <1>6 DEF Interact, Effect, AskInteraction, ResolveInteractions, RequestSteering,
         ApplySteering, PrepareEffect, RejectEffect, BeginDispatch, FinishDispatch, journal
  <2>2. QED
    BY <2>1, <1>3 DEF Active
<1>7. ASSUME NEW t \in Turns, EndTurn(t)
      PROVE  OneActiveTurn'
  <2>1. t \in Active
    BY <1>7 DEF EndTurn, FinishTurn, FinishAdmitted, FailUnknownEffectTurn, FailUnknown,
         FailUnknownAdmitted, RequestCancel, CancelTurn, HasAuthority, ActiveTurn
  <2>2. \A u \in Turns : u # t => marker'[u] = marker[u]
    BY <1>7 DEF EndTurn, FinishTurn, FailUnknownEffectTurn, FailUnknown, RequestCancel,
         CancelTurn, WriteMarker
  <2>3. QED
    BY <2>1, <2>2, <1>3, <1>4
<1>8. QED
  BY <1>1, <1>2, <1>5, <1>6, <1>7 DEF Next

\* At no point do two turns of a thread both believe they run.
THEOREM JournalOneActiveTurn == Spec => []OneActiveTurn
<1>1. Init => OneActiveTurn
  BY DEF Init, OneActiveTurn, Active, ActiveStatus
<1>2. QED
  BY InitType, StepType, StepOneActive, <1>1, PTL DEF Spec
-----------------------------------------------------------------------------
(* A finished turn is frozen: every transaction asks for a live turn.       *)

\* The items of one turn are the only ones a transaction of that turn writes.
LEMMA OtherTurnsKept ==
  ASSUME TypeInv, NEW t \in Turns, RunTurn(t) \/ Interact(t) \/ Effect(t) \/ EndTurn(t),
         NEW u \in Turns, u # t
  PROVE  FrozenTurn(u)
<1> USE DEF TypeInv, TypeOK, FrozenTurn, AttemptsOf, Attempts, journal, items
<1>1. CASE RunTurn(t)
  <2>1. ASSUME NEW r \in Runs, InstallCompaction(t, r)
        PROVE  FrozenTurn(u)
    BY <2>1 DEF InstallCompaction, WriteMarker, SettleSteers, WithdrawPrepared
  <2>2. CASE \E r \in Runs, k \in Kinds : AcceptTurn(t, r, k)
    BY <2>2 DEF AcceptTurn
  <2>3. CASE SavePoint(t) \/ \E r \in Runs : ContinueRun(t, r)
    BY <2>3 DEF SavePoint, ContinueRun, WriteMarker
  <2>4. CASE \E r \in Runs, calls \in SUBSET Calls, state \in {"set", "keep", "clear"} :
               CommitProviderContext(t, r, calls, state)
    BY <2>4 DEF CommitProviderContext
  <2>5. CASE (\E c \in Calls : AppendToolResult(t, c)) \/ StartCompaction(t) \/ EndCompaction(t)
    BY <2>5 DEF AppendToolResult, StartCompaction, EndCompaction
  <2>6. QED
    BY <1>1, <2>1, <2>2, <2>3, <2>4, <2>5 DEF RunTurn
<1>2. CASE Interact(t)
  BY <1>2 DEF Interact, AskInteraction, ResolveInteractions, RequestSteering, ApplySteering
<1>3. CASE Effect(t)
  <2>1. PICK r \in Runs, c \in Calls :
          \/ PrepareEffect(t, r, c)
          \/ RejectEffect(t, r, c)
          \/ BeginDispatch(t, r, c)
          \/ \E outcome \in Outcomes : FinishDispatch(t, r, c, outcome)
    BY <1>3 DEF Effect
  <2>2. \A a \in Attempts : a # <<t, r, c>> => attempt'[a] = attempt[a]
    BY <2>1 DEF PrepareEffect, RejectEffect, BeginDispatch, FinishDispatch
  <2>3. /\ \A d \in Calls : call'[<<u, d>>] = call[<<u, d>>]
        /\ UNCHANGED <<journal, ask, steer>>
    BY <2>1 DEF PrepareEffect, RejectEffect, BeginDispatch, FinishDispatch
  <2>4. QED
    BY <2>2, <2>3
<1>4. CASE EndTurn(t)
  <2>1. ASSUME NEW r \in Runs, FailUnknown(t, r), cancelled'[u] = cancelled[u]
        PROVE  FrozenTurn(u)
    <3>1. \A a \in AttemptsOf(u) : attempt'[a] = attempt[a]
      BY <2>1 DEF FailUnknown
    <3>2. QED
      BY <2>1, <3>1 DEF FailUnknown, WriteMarker, SettleSteers, SettleAsks, CloseCalls
  <2>2. ASSUME NEW r \in Runs, NEW status \in FinishStatus, NEW id \in FinishIDs,
               NEW keep \in BOOLEAN, FinishTurn(t, r, status, id, keep)
        PROVE  FrozenTurn(u)
    <3>1. /\ WriteMarker(t, r, status) /\ WithdrawPrepared(t)
          /\ steer' = steer \/ SettleSteers(t)
          /\ UNCHANGED <<cancelled, call, ask>>
      BY <2>2 DEF FinishTurn
    <3>2. QED
      BY <3>1 DEF WriteMarker, SettleSteers, WithdrawPrepared
  <2>3. ASSUME NEW r \in Runs, FailUnknownEffectTurn(t, r)
        PROVE  FrozenTurn(u)
    BY <2>1, <2>3 DEF FailUnknownEffectTurn
  <2>4. ASSUME NEW r \in Runs, RequestCancel(t, r)
        PROVE  FrozenTurn(u)
    BY <2>4 DEF RequestCancel
  <2>5. ASSUME NEW r \in Runs, CancelTurn(t, r)
        PROVE  FrozenTurn(u)
    <3>1. cancelled'[u] = cancelled[u]
      BY <2>5 DEF CancelTurn
    <3>2. CASE Uncertain(t)
      BY <2>1, <2>5, <3>1, <3>2 DEF CancelTurn
    <3>3. CASE ~Uncertain(t)
      BY <2>5, <3>1, <3>3
      DEF CancelTurn, WriteMarker, WithdrawPrepared, SettleSteers, SettleAsks, CloseCalls
    <3>4. QED
      BY <3>2, <3>3
  <2>6. QED
    BY <1>4, <2>2, <2>3, <2>4, <2>5 DEF EndTurn
<1>5. QED
  BY <1>1, <1>2, <1>3, <1>4

\* A transaction of a turn finds it idle (admission) or live, or leaves
\* everything but the provider state and the compactions as they were.
LEMMA TerminalRefuses ==
  ASSUME TypeInv, NEW t \in Turns, RunTurn(t) \/ Interact(t) \/ Effect(t) \/ EndTurn(t)
  PROVE  ~Terminal(t)
<1> USE DEF Terminal, TerminalStatus
<1>1. \A r \in Runs : HasAuthority(t, r) => ~Terminal(t)
  BY DEF HasAuthority, ActiveTurn, Active, ActiveStatus
<1>2. Writable(t) => ~Terminal(t)
  BY DEF Writable, ActiveStatus
<1>3. CASE RunTurn(t)
  BY <1>1, <1>2, <1>3 DEF RunTurn, AcceptTurn, SavePoint, ContinueRun, CommitProviderContext,
     AppendToolResult, StartCompaction, EndCompaction, InstallCompaction, InstallAdmitted
<1>4. CASE Interact(t)
  BY <1>1, <1>2, <1>4 DEF Interact, AskInteraction, ResolveInteractions, RequestSteering,
     ApplySteering
<1>5. CASE Effect(t)
  BY <1>1, <1>2, <1>5 DEF Effect, PrepareEffect, RejectEffect, BeginDispatch, FinishDispatch
<1>6. CASE EndTurn(t)
  BY <1>1, <1>6 DEF EndTurn, FinishTurn, FinishAdmitted, FailUnknownEffectTurn, FailUnknown,
     FailUnknownAdmitted, RequestCancel, CancelTurn
<1>7. QED
  BY <1>3, <1>4, <1>5, <1>6

LEMMA StepFrozen ==
  TypeInv /\ [Next]_vars => \A u \in Turns : Terminal(u) => FrozenTurn(u)
<1> SUFFICES ASSUME TypeInv, [Next]_vars, NEW u \in Turns, Terminal(u)
             PROVE  FrozenTurn(u)
  OBVIOUS
<1>1. CASE UNCHANGED vars
  BY <1>1 DEF vars, journal, items, FrozenTurn
<1>2. ASSUME NEW t \in Turns, RunTurn(t) \/ Interact(t) \/ Effect(t) \/ EndTurn(t)
      PROVE  FrozenTurn(u)
  BY <1>2, OtherTurnsKept, TerminalRefuses
<1>3. QED
  BY <1>1, <1>2 DEF Next

\* Late callers never change a finished turn.
THEOREM JournalTerminalFrozen == Spec => TerminalFrozen
<1>1. TypeInv /\ [Next]_vars => [\A t \in Turns : Terminal(t) => FrozenTurn(t)]_vars
  BY StepFrozen
<1>2. QED
  BY InitType, StepType, <1>1, PTL DEF Spec, TerminalFrozen
-----------------------------------------------------------------------------
(* The five safety invariants, turn by turn.  They are proved together: a   *)
(* transaction writes one turn, the others keep what TurnSafe reads, and a  *)
(* terminal is written only by the four transactions that settle the turn.  *)

TurnSafe(t) ==
  /\ Terminal(t) =>
       /\ \A a \in AttemptsOf(t) : attempt[a] \notin {"prepared", "dispatching"}
       /\ \A a \in Asks : ask[<<t, a>>] # "pending"
       /\ \A s \in Steers : steer[<<t, s>>] # "pending"
  /\ marker[t] = "unknown" <=> \E a \in AttemptsOf(t) : attempt[a] = "unknown"
  /\ cancelled[t] => marker[t] # "completed"
  /\ marker[t] = "stopped" => cancelled[t]
  /\ marker[t] \in {"stopped", "unknown"} => \A c \in Calls : call[<<t, c>>] # "open"
  /\ \A a \in AttemptsOf(t) : attempt[a] \in Outcomes => call[<<t, a[3]>>] = "closed"

JournalSafe == \A t \in Turns : TurnSafe(t)

LEMMA SafeParts ==
  ASSUME JournalSafe
  PROVE  /\ TerminalSettled /\ UncertaintyReported /\ StopHonoured
         /\ OutcomeHasResult
<1> USE DEF JournalSafe, TurnSafe
<1>1. TerminalSettled
  BY DEF TerminalSettled, PendingAsk, PendingSteer
<1>2. OutcomeHasResult
  BY DEF OutcomeHasResult, AttemptsOf, Attempts
<1>3. UncertaintyReported /\ StopHonoured
  BY <1>2 DEF UncertaintyReported, StopHonoured
<1>4. QED
  BY <1>1, <1>2, <1>3

LEMMA InitSafe == Init => JournalSafe
  BY DEF Init, JournalSafe, TurnSafe, Terminal, TerminalStatus, AttemptsOf, Attempts, Outcomes

LEMMA FrozenSafe ==
  ASSUME NEW u \in Turns, TurnSafe(u), FrozenTurn(u)
  PROVE  TurnSafe(u)'
<1>1. AttemptsOf(u) = AttemptsOf(u)'
  BY DEF AttemptsOf, Attempts
<1>2. \A a \in AttemptsOf(u) : a[3] \in Calls
  BY DEF AttemptsOf, Attempts
<1>3. Terminal(u)' <=> Terminal(u)
  BY DEF FrozenTurn, Terminal
<1>4. QED
  BY <1>1, <1>2, <1>3 DEF TurnSafe, FrozenTurn

\* Transactions that keep the turn live change no settled fact of it.
LEMMA LiveStepSafe ==
  ASSUME TypeInv, NEW t \in Turns, TurnSafe(t), ~Terminal(t)',
         \A a \in AttemptsOf(t) : attempt'[a] = "unknown" => attempt[a] = "unknown",
         \A a \in AttemptsOf(t) : attempt'[a] \in Outcomes =>
            call'[<<t, a[3]>>] = "closed",
         ~Terminal(t)
  PROVE  TurnSafe(t)'
<1>1. AttemptsOf(t) = AttemptsOf(t)'
  BY DEF AttemptsOf, Attempts
<1>2. marker[t] # "unknown"
  BY DEF Terminal, TerminalStatus
<1>3. marker'[t] \notin TerminalStatus
  BY DEF Terminal
<1>4. QED
  BY <1>1, <1>2, <1>3 DEF TurnSafe, TerminalStatus, Terminal
\* A terminal without uncertain effects withdraws what had not started.
LEMMA QuietEndSafe ==
  ASSUME TypeInv, NEW t \in Turns, TurnSafe(t), ~Terminal(t), ~Uncertain(t),
         marker'[t] \in {"completed", "failed", "aborted", "stopped"},
         WithdrawPrepared(t), SettleSteers(t),
         \A a \in Asks : ask'[<<t, a>>] # "pending",
         marker'[t] = "completed" => ~cancelled'[t],
         marker'[t] = "stopped" => cancelled'[t] /\ CloseCalls(t),
         marker'[t] # "stopped" => call' = call
  PROVE  TurnSafe(t)'
<1>1. AttemptsOf(t) = AttemptsOf(t)' /\ AttemptsOf(t) \subseteq Attempts
  BY DEF AttemptsOf, Attempts
<1>2. \A a \in AttemptsOf(t) : a[1] = t /\ a[3] \in Calls
  BY DEF AttemptsOf, Attempts
<1>3. \A a \in AttemptsOf(t) :
        attempt'[a] = IF attempt[a] = "prepared" THEN "withdrawn" ELSE attempt[a]
  BY <1>1, <1>2 DEF WithdrawPrepared
<1>4. \A a \in AttemptsOf(t) : attempt'[a] \notin {"prepared", "dispatching", "unknown"}
  BY <1>3 DEF Uncertain
<1>5. \A c \in Calls : call[<<t, c>>] = "closed" => call'[<<t, c>>] = "closed"
  BY DEF CloseCalls, TypeInv, TypeOK
<1>6. \A a \in AttemptsOf(t) : attempt'[a] \in Outcomes => call'[<<t, a[3]>>] = "closed"
  BY <1>2, <1>3, <1>5 DEF TurnSafe, Outcomes
<1>7. \A x \in Steers : steer'[<<t, x>>] # "pending"
  BY DEF SettleSteers, TypeInv, TypeOK
<1>8. marker'[t] = "stopped" => \A c \in Calls : call'[<<t, c>>] # "open"
  BY DEF CloseCalls, TypeInv, TypeOK
<1>9. QED
  BY <1>1, <1>4, <1>6, <1>7, <1>8 DEF TurnSafe, Terminal

\* The unknown end settles every attempt, question, instruction and call.
LEMMA UnknownEndSafe ==
  ASSUME TypeInv, NEW t \in Turns, NEW r \in Runs, TurnSafe(t), FailUnknown(t, r)
  PROVE  TurnSafe(t)'
<1>1. AttemptsOf(t) = AttemptsOf(t)' /\ AttemptsOf(t) \subseteq Attempts
  BY DEF AttemptsOf, Attempts
<1>2. \A a \in AttemptsOf(t) : a[1] = t /\ a[3] \in Calls
  BY DEF AttemptsOf, Attempts
<1>3. \A a \in AttemptsOf(t) :
        attempt'[a] = CASE attempt[a] = "prepared" -> "withdrawn"
                        [] attempt[a] = "dispatching" -> "unknown"
                        [] OTHER -> attempt[a]
  BY <1>1, <1>2 DEF FailUnknown
<1>4. \A a \in AttemptsOf(t) :
        /\ attempt'[a] \notin {"prepared", "dispatching"}
        /\ attempt[a] \in {"dispatching", "unknown"} => attempt'[a] = "unknown"
        /\ attempt'[a] \in Outcomes => attempt[a] \in Outcomes
  BY <1>3 DEF Outcomes
<1>5. marker'[t] = "unknown"
  BY DEF FailUnknown, WriteMarker, TypeInv, TypeOK
<1>6. \E a \in AttemptsOf(t) : attempt'[a] = "unknown"
  BY <1>4 DEF FailUnknown, FailUnknownAdmitted, Uncertain
<1>7. \A c \in Calls : /\ call'[<<t, c>>] # "open"
                       /\ call[<<t, c>>] = "closed" => call'[<<t, c>>] = "closed"
  BY DEF FailUnknown, CloseCalls, TypeInv, TypeOK
<1>8. /\ \A x \in Steers : steer'[<<t, x>>] # "pending"
      /\ \A a \in Asks : ask'[<<t, a>>] # "pending"
  BY DEF FailUnknown, SettleSteers, SettleAsks, TypeInv, TypeOK
<1>9. \A a \in AttemptsOf(t) : attempt'[a] \in Outcomes => call'[<<t, a[3]>>] = "closed"
  BY <1>2, <1>4, <1>7 DEF TurnSafe
<1>10. QED
  BY <1>1, <1>4, <1>5, <1>6, <1>7, <1>8, <1>9 DEF TurnSafe, Terminal

LEMMA OwnStepSafe ==
  ASSUME TypeInv, NEW t \in Turns, TurnSafe(t),
         RunTurn(t) \/ Interact(t) \/ Effect(t) \/ EndTurn(t)
  PROVE  TurnSafe(t)'
<1>1. ~Terminal(t)
  BY TerminalRefuses
<1>2. \A a \in AttemptsOf(t) : a \in Attempts /\ a[1] = t /\ a[3] \in Calls
  BY DEF AttemptsOf, Attempts
<1>3. CASE RunTurn(t)
  <2>1. ASSUME NEW r \in Runs, InstallCompaction(t, r), kind[t] = "compaction"
        PROVE  TurnSafe(t)'
    <3>1. /\ ~Uncertain(t) /\ ~cancelled[t] /\ ~PendingAsk(t)
          /\ WithdrawPrepared(t) /\ SettleSteers(t) /\ WriteMarker(t, r, "completed")
          /\ UNCHANGED <<cancelled, call, ask>>
      BY <2>1 DEF InstallCompaction, InstallAdmitted, FinishAdmitted
    <3>2. marker'[t] = "completed"
      BY <3>1 DEF WriteMarker, TypeInv, TypeOK
    <3>3. QED
      BY <1>1, <3>1, <3>2, QuietEndSafe DEF PendingAsk
  <2>2. ASSUME attempt' = attempt, ~Terminal(t)',
               \A c \in Calls : call[<<t, c>>] = "closed" => call'[<<t, c>>] = "closed"
        PROVE  TurnSafe(t)'
    BY <1>1, <1>2, <2>2, LiveStepSafe DEF TurnSafe
  <2>3. ASSUME ~\E r \in Runs : InstallCompaction(t, r) /\ kind[t] = "compaction"
        PROVE  attempt' = attempt
    BY <1>3, <2>3 DEF RunTurn, AcceptTurn, SavePoint, ContinueRun, CommitProviderContext,
       AppendToolResult, StartCompaction, EndCompaction, InstallCompaction, items
  <2>4. ASSUME ~\E r \in Runs : InstallCompaction(t, r) /\ kind[t] = "compaction"
        PROVE  ~Terminal(t)'
    BY <1>1, <1>3, <2>4 DEF RunTurn, AcceptTurn, SavePoint, ContinueRun, CommitProviderContext,
       AppendToolResult, StartCompaction, EndCompaction, InstallCompaction, WriteMarker,
       Terminal, TerminalStatus, journal, TypeInv, TypeOK
  <2>5. ASSUME ~\E r \in Runs : InstallCompaction(t, r) /\ kind[t] = "compaction"
        PROVE  \A c \in Calls : call[<<t, c>>] = "closed" => call'[<<t, c>>] = "closed"
    BY <1>3, <2>5 DEF RunTurn, AcceptTurn, SavePoint, ContinueRun, CommitProviderContext,
       AppendToolResult, StartCompaction, EndCompaction, InstallCompaction, items, TypeInv, TypeOK
  <2>6. QED
    BY <2>1, <2>2, <2>3, <2>4, <2>5
<1>4. CASE Interact(t)
  <2>1. UNCHANGED <<marker, attempt, call>>
    BY <1>4 DEF Interact, AskInteraction, ResolveInteractions, RequestSteering,
       ApplySteering, journal
  <2>2. QED
    BY <1>1, <2>1, <1>2, LiveStepSafe DEF TurnSafe, Terminal
<1>5. CASE Effect(t)
  <2>1. PICK r \in Runs, c \in Calls :
          \/ PrepareEffect(t, r, c)
          \/ RejectEffect(t, r, c)
          \/ BeginDispatch(t, r, c)
          \/ \E outcome \in Outcomes : FinishDispatch(t, r, c, outcome)
    BY <1>5 DEF Effect
  <2>2. /\ marker' = marker
        /\ \A d \in Calls : call[<<t, d>>] = "closed" => call'[<<t, d>>] = "closed"
    BY <2>1 DEF PrepareEffect, RejectEffect, BeginDispatch, FinishDispatch, journal,
       TypeInv, TypeOK
  <2>3. \A a \in Attempts : a # <<t, r, c>> => attempt'[a] = attempt[a]
    BY <2>1 DEF PrepareEffect, RejectEffect, BeginDispatch, FinishDispatch, TypeInv, TypeOK
  <2>4. /\ attempt'[<<t, r, c>>] # "unknown"
        /\ attempt'[<<t, r, c>>] \in Outcomes => call'[<<t, c>>] = "closed"
    BY <2>1 DEF PrepareEffect, RejectEffect, BeginDispatch, FinishDispatch, Outcomes,
       TypeInv, TypeOK, Attempts
  <2>5. \A a \in AttemptsOf(t) : attempt'[a] = "unknown" => attempt[a] = "unknown"
    BY <1>2, <2>3, <2>4
  <2>6. ASSUME NEW a \in AttemptsOf(t), attempt'[a] \in Outcomes
        PROVE  call'[<<t, a[3]>>] = "closed"
    <3>1. CASE a = <<t, r, c>>
      BY <2>4, <2>6, <3>1
    <3>2. CASE a # <<t, r, c>>
      BY <1>2, <2>2, <2>3, <2>6, <3>2 DEF TurnSafe
    <3>3. QED
      BY <3>1, <3>2
  <2>7. ~Terminal(t)'
    BY <1>1, <2>2 DEF Terminal
  <2>8. QED
    BY <1>1, <2>5, <2>6, <2>7, LiveStepSafe
<1>6. CASE EndTurn(t)
  <2>1. ASSUME NEW r \in Runs, NEW status \in FinishStatus, NEW id \in FinishIDs,
               NEW keep \in BOOLEAN, FinishTurn(t, r, status, id, keep)
        PROVE  TurnSafe(t)'
    <3>1. /\ marker'[t] = status /\ WithdrawPrepared(t) /\ ~Uncertain(t)
          /\ UNCHANGED <<cancelled, call, ask>>
      BY <2>1 DEF FinishTurn, FinishAdmitted, WriteMarker, TypeInv, TypeOK
    <3>2. CASE status = "waiting"
      <4>1. \A a \in AttemptsOf(t) : attempt'[a] = attempt[a] \/ attempt'[a] = "withdrawn"
        BY <1>2, <3>1 DEF WithdrawPrepared
      <4>2. ~Terminal(t)'
        BY <3>1, <3>2 DEF Terminal, TerminalStatus
      <4>3. \A a \in AttemptsOf(t) : attempt'[a] \in Outcomes => call'[<<t, a[3]>>] = "closed"
        BY <3>1, <4>1 DEF TurnSafe, Outcomes
      <4>4. QED
        BY <1>1, <4>1, <4>2, <4>3, LiveStepSafe
    <3>3. CASE status # "waiting"
      <4>1. /\ ~PendingAsk(t) /\ SettleSteers(t)
            /\ status = "completed" => ~cancelled[t]
        BY <2>1, <3>3 DEF FinishTurn, FinishAdmitted
      <4>2. status \in {"completed", "failed", "aborted"}
        BY <3>3 DEF FinishStatus
      <4>3. QED
        BY <1>1, <3>1, <4>1, <4>2, QuietEndSafe DEF PendingAsk
    <3>4. QED
      BY <3>2, <3>3
  <2>2. ASSUME NEW r \in Runs, FailUnknownEffectTurn(t, r)
        PROVE  TurnSafe(t)'
    BY <2>2, UnknownEndSafe DEF FailUnknownEffectTurn
  <2>3. ASSUME NEW r \in Runs, RequestCancel(t, r)
        PROVE  TurnSafe(t)'
    BY <1>1, <1>2, <2>3, LiveStepSafe DEF RequestCancel, TurnSafe, Terminal, items
  <2>4. ASSUME NEW r \in Runs, CancelTurn(t, r)
        PROVE  TurnSafe(t)'
    <3>1. CASE Uncertain(t)
      BY <2>4, <3>1, UnknownEndSafe DEF CancelTurn
    <3>2. CASE ~Uncertain(t)
      <4>1. /\ marker'[t] = "stopped" /\ cancelled'[t]
            /\ WithdrawPrepared(t) /\ SettleSteers(t) /\ CloseCalls(t) /\ SettleAsks(t)
        BY <2>4, <3>2 DEF CancelTurn, WriteMarker, TypeInv, TypeOK
      <4>2. \A a \in Asks : ask'[<<t, a>>] # "pending"
        BY <4>1 DEF SettleAsks, TypeInv, TypeOK
      <4>3. QED
        BY <1>1, <3>2, <4>1, <4>2, QuietEndSafe
    <3>3. QED
      BY <3>1, <3>2
  <2>5. QED
    BY <1>6, <2>1, <2>2, <2>3, <2>4 DEF EndTurn
<1>7. QED
  BY <1>3, <1>4, <1>5, <1>6

LEMMA StepSafe == TypeInv /\ JournalSafe /\ [Next]_vars => JournalSafe'
<1> SUFFICES ASSUME TypeInv, JournalSafe, [Next]_vars, NEW u \in Turns
             PROVE  TurnSafe(u)'
  BY DEF JournalSafe
<1>1. TurnSafe(u)
  BY DEF JournalSafe
<1>2. CASE UNCHANGED vars
  BY <1>1, <1>2, FrozenSafe DEF vars, journal, items, FrozenTurn
<1>3. ASSUME NEW t \in Turns, RunTurn(t) \/ Interact(t) \/ Effect(t) \/ EndTurn(t)
      PROVE  TurnSafe(u)'
  BY <1>1, <1>3, OwnStepSafe, OtherTurnsKept, FrozenSafe
<1>4. QED
  BY <1>2, <1>3 DEF Next

\* Together with the type invariant, they are inductive.
THEOREM JournalSafety == Spec => []JournalSafe
  BY InitType, StepType, InitSafe, StepSafe, PTL DEF Spec

\* A finished turn leaves nothing that could still act.
THEOREM JournalTerminalSettled == Spec => []TerminalSettled
  BY JournalSafety, SafeParts, PTL

\* An effect with no known outcome is what a turn ends as, and nothing else.
THEOREM JournalUncertaintyReported == Spec => []UncertaintyReported
  BY JournalSafety, SafeParts, PTL

\* No accepted stop is answered by success.
THEOREM JournalStopHonoured == Spec => []StopHonoured
  BY JournalSafety, SafeParts, PTL

\* No outcome is on record without its tool result.
THEOREM JournalOutcomeHasResult == Spec => []OutcomeHasResult
  BY JournalSafety, SafeParts, PTL

-----------------------------------------------------------------------------
(* The provider state and the compaction lifecycle agree with how the turns *)
(* have ended.  Neither record is written under a turn's name: what ties it *)
(* to its turn is that authority is a run of the turn.                      *)

AuthorityIsARun == \A t \in Turns : marker[t] # "none" => identity[t] \in runs[t]

SideInv == AuthorityIsARun /\ SideRecordsAgree

LEMMA InitSide == Init => SideInv
  BY DEF Init, SideInv, AuthorityIsARun, SideRecordsAgree, CursorFromKnownTurn,
     EndedCompactionClosed

\* What a transaction of turn t does to the records beside the turns.
SideStep(t) ==
  /\ \A u \in Turns : runs[u] \subseteq runs'[u]
  /\ identity'[t] \in runs'[t]
  /\ cursor' \in {cursor, NoRun} \/ (marker[t] # "none" /\ cursor' = identity[t])
  /\ cursor' # NoRun => marker'[t] # "unknown"
  /\ marker'[t] \in {"failed", "aborted", "stopped"} =>
       <<t, identity'[t]>> \notin compacting'
  /\ \A u \in Turns \ {t}, r \in Runs : <<u, r>> \in compacting' => <<u, r>> \in compacting

LEMMA WriteMarkerSide ==
  ASSUME TypeInv, NEW t \in Turns, NEW r \in Runs, NEW status, WriteMarker(t, r, status)
  PROVE  /\ marker'[t] = status /\ identity'[t] = r /\ r \in runs'[t]
         /\ \A u \in Turns : runs[u] \subseteq runs'[u]
  BY DEF WriteMarker, TypeInv, TypeOK

\* Transactions that keep the turn's markers and compactions, and leave the
\* provider state, drop it or set it under their own authority.
LEMMA QuietSide ==
  ASSUME TypeInv, SideInv, NEW t \in Turns, marker[t] \in ActiveStatus,
         UNCHANGED <<marker, identity, runs>>,
         cursor' \in {cursor, NoRun} \/ cursor' = identity[t],
         \A u \in Turns \ {t}, r \in Runs : <<u, r>> \in compacting' => <<u, r>> \in compacting
  PROVE  SideStep(t)
  BY DEF SideStep, SideInv, AuthorityIsARun, ActiveStatus

LEMMA RunTurnSide ==
  ASSUME TypeInv, SideInv, NEW t \in Turns, RunTurn(t)
  PROVE  SideStep(t)
<1>1. ASSUME NEW r \in Runs, NEW k \in Kinds, AcceptTurn(t, r, k)
      PROVE  SideStep(t)
  BY <1>1 DEF AcceptTurn, SideStep, TypeInv, TypeOK
<1>2. ASSUME NEW r \in Runs, WriteMarker(t, r, "savepoint"), UNCHANGED <<compacting, cursor>>
      PROVE  SideStep(t)
  BY <1>2, WriteMarkerSide DEF SideStep
<1>3. ASSUME SavePoint(t)
      PROVE  SideStep(t)
  <2>1. identity[t] \in Runs
    BY <1>3 DEF SavePoint, Writable, ActiveStatus, TypeInv, AdmittedTurnHasRun
  <2>2. QED
    BY <1>2, <1>3, <2>1 DEF SavePoint
<1>4. ASSUME NEW r \in Runs, ContinueRun(t, r)
      PROVE  SideStep(t)
  BY <1>2, <1>4 DEF ContinueRun
<1>5. ASSUME NEW r \in Runs, NEW calls \in SUBSET Calls,
             NEW state \in {"set", "keep", "clear"},
             CommitProviderContext(t, r, calls, state)
      PROVE  SideStep(t)
  <2>1. marker[t] \in ActiveStatus /\ identity[t] = r
    BY <1>5 DEF CommitProviderContext, HasAuthority, ActiveTurn, Active
  <2>2. cursor' \in {cursor, NoRun} \/ cursor' = identity[t]
    BY <1>5, <2>1 DEF CommitProviderContext
  <2>3. QED
    BY <1>5, <2>1, <2>2, QuietSide DEF CommitProviderContext, journal
<1>6. ASSUME NEW c \in Calls, AppendToolResult(t, c)
      PROVE  SideStep(t)
  BY <1>6, QuietSide DEF AppendToolResult, Writable, journal
<1>7. ASSUME StartCompaction(t)
      PROVE  SideStep(t)
  BY <1>7, QuietSide DEF StartCompaction, Writable, journal
<1>8. ASSUME EndCompaction(t)
      PROVE  SideStep(t)
  BY <1>8, QuietSide DEF EndCompaction, SettleCompaction, Writable, journal
<1>9. ASSUME NEW r \in Runs, InstallCompaction(t, r)
      PROVE  SideStep(t)
  <2>1. marker[t] \in ActiveStatus
    BY <1>9 DEF InstallCompaction, InstallAdmitted, HasAuthority, ActiveTurn, Active
  <2>2. SettleCompaction(t, r) /\ cursor' = NoRun
    BY <1>9 DEF InstallCompaction
  <2>3. CASE kind[t] = "compaction"
    <3>1. WriteMarker(t, r, "completed")
      BY <1>9, <2>3 DEF InstallCompaction
    <3>2. QED
      BY <2>2, <3>1, WriteMarkerSide DEF SideStep, SettleCompaction
  <2>4. CASE kind[t] # "compaction"
    BY <1>9, <2>1, <2>2, <2>4, QuietSide DEF InstallCompaction, SettleCompaction, journal
  <2>5. QED
    BY <2>3, <2>4
<1>10. QED
  BY <1>1, <1>3, <1>4, <1>5, <1>6, <1>7, <1>8, <1>9 DEF RunTurn

LEMMA InteractSide ==
  ASSUME TypeInv, SideInv, NEW t \in Turns, Interact(t) \/ Effect(t)
  PROVE  SideStep(t)
<1>1. marker[t] \in ActiveStatus
  BY DEF Interact, Effect, AskInteraction, ResolveInteractions, RequestSteering,
     ApplySteering, PrepareEffect, RejectEffect, BeginDispatch, FinishDispatch,
     Writable, HasAuthority, ActiveTurn, Active
<1>2. UNCHANGED <<marker, identity, runs, compacting, cursor>>
  BY DEF Interact, Effect, AskInteraction, ResolveInteractions, RequestSteering,
     ApplySteering, PrepareEffect, RejectEffect, BeginDispatch, FinishDispatch, journal
<1>3. QED
  BY <1>1, <1>2, QuietSide

LEMMA EndTurnSide ==
  ASSUME TypeInv, SideInv, NEW t \in Turns, EndTurn(t)
  PROVE  SideStep(t)
<1>1. ASSUME NEW r \in Runs, NEW status \in FinishStatus, NEW id \in FinishIDs,
             NEW keep \in BOOLEAN, FinishTurn(t, r, status, id, keep)
      PROVE  SideStep(t)
  <2>1. identity[t] = r /\ marker[t] # "none" /\ WriteMarker(t, r, status)
    BY <1>1 DEF FinishTurn, FinishAdmitted, HasAuthority, ActiveTurn, Active, ActiveStatus
  <2>2. cursor' \in {cursor, NoRun} \/ cursor' = identity[t]
    BY <1>1, <2>1 DEF FinishTurn
  <2>3. IF status \in {"failed", "aborted"} THEN SettleCompaction(t, r)
        ELSE UNCHANGED compacting
    BY <1>1 DEF FinishTurn
  <2>4. status \notin {"unknown", "stopped"}
    BY DEF FinishStatus
  <2>5. QED
    BY <2>1, <2>2, <2>3, <2>4, WriteMarkerSide DEF SideStep, SettleCompaction
<1>2. ASSUME NEW r \in Runs, FailUnknown(t, r)
      PROVE  SideStep(t)
  BY <1>2, WriteMarkerSide DEF FailUnknown, SideStep
<1>3. ASSUME NEW r \in Runs, RequestCancel(t, r)
      PROVE  SideStep(t)
  BY <1>3, QuietSide DEF RequestCancel, HasAuthority, ActiveTurn, Active
<1>4. ASSUME NEW r \in Runs, CancelTurn(t, r), ~Uncertain(t)
      PROVE  SideStep(t)
  BY <1>4, WriteMarkerSide DEF CancelTurn, SideStep, SettleCompaction
<1>5. QED
  BY <1>1, <1>2, <1>3, <1>4 DEF EndTurn, FailUnknownEffectTurn, CancelTurn

LEMMA StepSide == TypeInv /\ SideInv /\ [Next]_vars => SideInv'
<1> SUFFICES ASSUME TypeInv, SideInv, [Next]_vars PROVE SideInv'
  OBVIOUS
<1>1. CASE UNCHANGED vars
  BY <1>1 DEF vars, journal, SideInv, AuthorityIsARun, SideRecordsAgree,
     CursorFromKnownTurn, EndedCompactionClosed
<1>2. ASSUME NEW t \in Turns, RunTurn(t) \/ Interact(t) \/ Effect(t) \/ EndTurn(t)
      PROVE  SideInv'
  <2>1. SideStep(t)
    BY <1>2, RunTurnSide, InteractSide, EndTurnSide
  <2>2. \A u \in Turns \ {t} : FrozenTurn(u)
    BY <1>2, OtherTurnsKept
  <2>3. AuthorityIsARun'
    BY <2>1, <2>2 DEF SideStep, FrozenTurn, SideInv, AuthorityIsARun
  <2>4. CursorFromKnownTurn'
    <3>1. CASE cursor' \in {cursor, NoRun}
      BY <2>1, <2>2, <3>1 DEF SideStep, FrozenTurn, SideInv, SideRecordsAgree,
         CursorFromKnownTurn
    <3>2. CASE cursor' = identity[t] /\ marker[t] # "none"
      BY <2>1, <3>2 DEF SideStep, SideInv, AuthorityIsARun, CursorFromKnownTurn
    <3>3. QED
      BY <2>1, <3>1, <3>2 DEF SideStep
  <2>5. EndedCompactionClosed'
    <3>1. \A u \in Turns : marker[u] # "none" => identity[u] \in Runs
      BY DEF TypeInv, AdmittedTurnHasRun
    <3>2. QED
      BY <2>1, <2>2, <3>1 DEF SideStep, FrozenTurn, SideInv, SideRecordsAgree,
         EndedCompactionClosed
  <2>6. QED
    BY <2>3, <2>4, <2>5 DEF SideInv, SideRecordsAgree
<1>3. QED
  BY <1>1, <1>2 DEF Next

\* The next provider request never continues a conversation left by a turn
\* with an unknown effect, and no compaction stays open behind a failed end.
THEOREM JournalSideRecordsAgree == Spec => []SideRecordsAgree
<1>1. SideInv => SideRecordsAgree
  BY DEF SideInv
<1>2. QED
  BY InitType, StepType, InitSide, StepSide, <1>1, PTL DEF Spec
-----------------------------------------------------------------------------
(* Every transaction is one step of the contract or invisible to it.  First *)
(* what the mapped variables are in the states a transaction can meet.      *)

LEMMA MappedTurn ==
  ASSUME TypeInv, NEW t \in Turns
  PROVE  /\ marker[t] = "none" => TurnState(t) = "idle" /\ Verdict(t) = "none"
         /\ marker[t] \in ActiveStatus => TurnState(t) = "open" /\ Verdict(t) = "none"
         /\ marker[t] \in TerminalStatus => TurnState(t) = "closed"
         /\ TurnState(t) = "open" => marker[t] \in ActiveStatus
  BY DEF TurnState, Verdict, Terminal, TerminalStatus, ActiveStatus, MarkerStatus,
     TypeInv, TypeOK

LEMMA MappedEffect ==
  ASSUME TypeInv, NEW a \in Attempts
  PROVE  /\ attempt[a] = "none" <=> EffectState(a) = "absent"
         /\ attempt[a] = "prepared" <=> EffectState(a) = "reserved"
         /\ attempt[a] = "dispatching" <=> EffectState(a) = "running"
         /\ attempt[a] \in Outcomes => EffectState(a) = "done"
         /\ attempt[a] \in {"rejected", "withdrawn"} => EffectState(a) = "dropped"
         /\ attempt[a] = "unknown" => EffectState(a) = "uncertain"
<1>1. attempt[a] \in AttemptStatus
  BY DEF TypeInv, TypeOK
<1>2. QED
  BY <1>1 DEF EffectState, AttemptStatus, Outcomes

\* A step of turn t leaves the others as the contract sees them.
OthersKept(t) ==
  /\ \A u \in Turns \ {t} : /\ TurnState(u)' = TurnState(u) /\ Verdict(u)' = Verdict(u)
                            /\ cancelled'[u] = cancelled[u]
  /\ \A a \in Attempts : a[1] # t => EffectState(a)' = EffectState(a)

LEMMA OthersMapped ==
  ASSUME TypeInv, NEW t \in Turns, RunTurn(t) \/ Interact(t) \/ Effect(t) \/ EndTurn(t)
  PROVE  OthersKept(t)
<1>1. \A u \in Turns \ {t} : FrozenTurn(u)
  BY OtherTurnsKept
<1>2. \A u \in Turns \ {t} : /\ TurnState(u)' = TurnState(u) /\ Verdict(u)' = Verdict(u)
                            /\ cancelled'[u] = cancelled[u]
  BY <1>1 DEF FrozenTurn, TurnState, Verdict, Terminal
<1>3. ASSUME NEW a \in Attempts, a[1] # t
      PROVE  EffectState(a)' = EffectState(a)
  <2>1. a[1] \in Turns \ {t} /\ a \in AttemptsOf(a[1])
    BY <1>3 DEF AttemptsOf, Attempts
  <2>2. attempt'[a] = attempt[a]
    BY <1>1, <2>1 DEF FrozenTurn
  <2>3. QED
    BY <2>2 DEF EffectState
<1>4. QED
  BY <1>2, <1>3 DEF OthersKept

\* A step that leaves its own turn as it was is invisible.
LEMMA MapsToStutter ==
  ASSUME TypeInv, TypeInv', NEW t \in Turns, OthersKept(t),
         TurnState(t)' = TurnState(t), Verdict(t)' = Verdict(t), cancelled' = cancelled,
         \A a \in Attempts : a[1] = t => EffectState(a)' = EffectState(a)
  PROVE  UNCHANGED Contract!vars
<1>1. \A u \in Turns : TurnState(u)' = TurnState(u) /\ Verdict(u)' = Verdict(u)
  BY DEF OthersKept
<1>2. \A a \in Attempts : EffectState(a)' = EffectState(a)
  BY DEF OthersKept
<1>3. Attempts' = Attempts
  BY DEF Attempts
<1>4. QED
  BY <1>1, <1>2, <1>3 DEF Contract!vars

\* A step that moves one effect of a live turn.
LEMMA MapsToMove ==
  ASSUME TypeInv, TypeInv', NEW t \in Turns, OthersKept(t),
         NEW e \in Attempts, e[1] = t, NEW from, NEW to,
         marker[t] \in ActiveStatus, marker' = marker, cancelled' = cancelled,
         EffectState(e) = from, EffectState(e)' = to,
         \A a \in Attempts : a # e => attempt'[a] = attempt[a]
  PROVE  Contract!Move(e, from, to)
<1>1. TurnState(t) = "open"
  BY MappedTurn
<1>2. \A u \in Turns : TurnState(u)' = TurnState(u) /\ Verdict(u)' = Verdict(u)
  BY DEF TurnState, Verdict, Terminal
<1>3. \A a \in Attempts : a # e => EffectState(a)' = EffectState(a)
  BY DEF EffectState
<1>4. Attempts' = Attempts
  BY DEF Attempts
<1>5. QED
  BY <1>1, <1>2, <1>3, <1>4 DEF Contract!Move

\* A step that ends its turn with verdict v.
LEMMA MapsToClose ==
  ASSUME TypeInv, TypeInv', NEW t \in Turns, OthersKept(t),
         NEW v \in Contract!Verdicts, NEW stopped \in BOOLEAN,
         marker[t] \in ActiveStatus, TurnState(t)' = "closed", Verdict(t)' = v,
         v = "success" => ~cancelled[t],
         v = "stop" => cancelled[t] \/ stopped,
         stopped => v \in {"stop", "uncertain"},
         v = "uncertain" <=> \E a \in AttemptsOf(t) : attempt[a] = "dispatching",
         cancelled' = [cancelled EXCEPT ![t] = @ \/ stopped],
         \A a \in Attempts : a[1] = t =>
           EffectState(a)' = CASE attempt[a] = "prepared" -> "dropped"
                               [] attempt[a] = "dispatching" -> "uncertain"
                               [] OTHER -> EffectState(a)
  PROVE  Contract!Close(t, v, stopped)
<1>1. TurnState(t) = "open"
  BY MappedTurn
<1>2. [u \in Turns |-> TurnState(u)]' = [[u \in Turns |-> TurnState(u)] EXCEPT ![t] = "closed"]
  BY DEF OthersKept
<1>3. [u \in Turns |-> Verdict(u)]' = [[u \in Turns |-> Verdict(u)] EXCEPT ![t] = v]
  BY DEF OthersKept
<1>4. Attempts' = Attempts
  BY DEF Attempts
<1>5. v = "uncertain" <=> \E a \in Attempts : a[1] = t /\ EffectState(a) = "running"
  BY MappedEffect DEF AttemptsOf
<1>6. \A a \in Attempts :
        EffectState(a)' = CASE a[1] = t /\ EffectState(a) = "reserved" -> "dropped"
                            [] a[1] = t /\ EffectState(a) = "running" -> "uncertain"
                            [] OTHER -> EffectState(a)
  BY MappedEffect DEF OthersKept
<1>7. [a \in Attempts |-> EffectState(a)]' =
        [e \in Attempts |->
           CASE [a \in Attempts |-> a[1]][e] = t /\ [a \in Attempts |-> EffectState(a)][e] = "reserved" -> "dropped"
             [] [a \in Attempts |-> a[1]][e] = t /\ [a \in Attempts |-> EffectState(a)][e] = "running" -> "uncertain"
             [] OTHER -> [a \in Attempts |-> EffectState(a)][e]]
  BY <1>4, <1>6
<1>8. QED
  BY <1>1, <1>2, <1>3, <1>5, <1>7 DEF Contract!Close

\* The ends without an uncertain effect withdraw what had not started.
LEMMA MapsToQuietEnd ==
  ASSUME TypeInv, TypeInv', NEW t \in Turns, OthersKept(t), NEW r \in Runs,
         NEW status \in {"completed", "failed", "aborted", "stopped"},
         marker[t] \in ActiveStatus, ~Uncertain(t), WithdrawPrepared(t),
         WriteMarker(t, r, status),
         status = "completed" => ~cancelled[t],
         cancelled' = IF status = "stopped" THEN [cancelled EXCEPT ![t] = TRUE]
                                            ELSE cancelled
  PROVE  Contract!Next
<1>1. marker'[t] = status
  BY WriteMarkerSide
<1>2. /\ TurnState(t)' = "closed"
      /\ status = "completed" => Verdict(t)' = "success"
      /\ status = "failed" => Verdict(t)' = "failure"
      /\ status = "aborted" => Verdict(t)' = "abort"
      /\ status = "stopped" => Verdict(t)' = "stop"
  BY <1>1 DEF TurnState, Verdict, Terminal, TerminalStatus
<1>3. /\ Verdict(t)' \in Contract!Verdicts /\ Verdict(t)' # "uncertain"
      /\ Verdict(t)' = "success" => ~cancelled[t]
      /\ Verdict(t)' = "stop" <=> status = "stopped"
  BY <1>2 DEF Contract!Verdicts
<1>4. cancelled' = [cancelled EXCEPT ![t] = @ \/ status = "stopped"]
  <2>1. cancelled \in [Turns -> BOOLEAN]
    BY DEF TypeInv, TypeOK
  <2>2. CASE status = "stopped"
    <3>1. (cancelled[t] \/ status = "stopped") = TRUE
      BY <2>2
    <3>2. QED
      BY <2>2, <3>1
  <2>3. CASE status # "stopped"
    <3>1. (cancelled[t] \/ status = "stopped") = cancelled[t]
      BY <2>1, <2>3
    <3>2. [cancelled EXCEPT ![t] = cancelled[t]] = cancelled
      BY <2>1
    <3>3. QED
      BY <2>3, <3>1, <3>2
  <2>4. QED
    BY <2>2, <2>3
<1>5. \A a \in AttemptsOf(t) : attempt[a] # "dispatching"
  BY DEF Uncertain
<1>6. ASSUME NEW a \in Attempts, a[1] = t
      PROVE  EffectState(a)' = CASE attempt[a] = "prepared" -> "dropped"
                                 [] attempt[a] = "dispatching" -> "uncertain"
                                 [] OTHER -> EffectState(a)
  <2>1. attempt[a] # "dispatching"
    BY <1>5, <1>6 DEF AttemptsOf
  <2>2. attempt'[a] = IF attempt[a] = "prepared" THEN "withdrawn" ELSE attempt[a]
    BY <1>6 DEF WithdrawPrepared
  <2>3. CASE attempt[a] = "prepared"
    BY <2>2, <2>3 DEF EffectState, Outcomes
  <2>4. CASE attempt[a] # "prepared"
    <3>1. attempt'[a] = attempt[a]
      BY <2>2, <2>4
    <3>2. EffectState(a)' = EffectState(a)
      BY <3>1 DEF EffectState
    <3>3. QED
      BY <2>1, <2>4, <3>2
  <2>5. QED
    BY <2>3, <2>4
<1>7. Contract!Close(t, Verdict(t)', status = "stopped")
  BY <1>2, <1>3, <1>4, <1>5, <1>6, MapsToClose
<1>8. QED
  BY <1>3, <1>7 DEF Contract!Next

ContractStep == Contract!Next \/ UNCHANGED Contract!vars

LEMMA RunTurnImplements ==
  ASSUME TypeInv, TypeInv', OneActiveTurn, JournalSafe, NEW t \in Turns, RunTurn(t),
         OthersKept(t)
  PROVE  ContractStep
<1>1. ASSUME NEW r \in Runs, NEW k \in Kinds, AcceptTurn(t, r, k)
      PROVE  Contract!Open(t)
  <2>1. \A u \in Turns : marker[u] \notin ActiveStatus
    BY <1>1 DEF AcceptTurn, ActiveTurn, OneActiveTurn, Active, ActiveStatus
  <2>2. \A u \in Turns : TurnState(u) # "open"
    BY <2>1, MappedTurn
  <2>3. TurnState(t) = "idle" /\ Verdict(t) = "none"
    BY <1>1, MappedTurn DEF AcceptTurn
  <2>4. marker'[t] = "started" /\ cancelled' = cancelled /\ attempt' = attempt
    BY <1>1 DEF AcceptTurn, items, TypeInv, TypeOK
  <2>5. TurnState(t)' = "open" /\ Verdict(t)' = "none"
    BY <2>4 DEF TurnState, Verdict, Terminal, TerminalStatus
  <2>6. [u \in Turns |-> TurnState(u)]' = [[u \in Turns |-> TurnState(u)] EXCEPT ![t] = "open"]
    BY <2>5 DEF OthersKept
  <2>7. [u \in Turns |-> Verdict(u)]' = [u \in Turns |-> Verdict(u)]
    BY <2>3, <2>5 DEF OthersKept
  <2>8. [a \in Attempts |-> EffectState(a)]' = [a \in Attempts |-> EffectState(a)]
    BY <2>4 DEF EffectState, Attempts
  <2>9. QED
    BY <2>2, <2>3, <2>4, <2>6, <2>7, <2>8 DEF Contract!Open
<1>2. ASSUME marker[t] \in ActiveStatus, marker'[t] \in ActiveStatus,
             cancelled' = cancelled, attempt' = attempt
      PROVE  UNCHANGED Contract!vars
  <2>1. /\ TurnState(t)' = TurnState(t) /\ Verdict(t)' = Verdict(t)
    BY <1>2 DEF TurnState, Verdict, Terminal, TerminalStatus, ActiveStatus
  <2>2. \A a \in Attempts : EffectState(a)' = EffectState(a)
    BY <1>2 DEF EffectState
  <2>3. QED
    BY <1>2, <2>1, <2>2, MapsToStutter
<1>3. ASSUME \/ SavePoint(t)
             \/ \E r \in Runs : ContinueRun(t, r)
      PROVE  UNCHANGED Contract!vars
  BY <1>2, <1>3 DEF SavePoint, ContinueRun, WriteMarker, Writable, ActiveStatus, items,
     TypeInv, TypeOK
<1>4. ASSUME NEW r \in Runs, NEW calls \in SUBSET Calls,
             NEW state \in {"set", "keep", "clear"},
             CommitProviderContext(t, r, calls, state)
      PROVE  UNCHANGED Contract!vars
  BY <1>2, <1>4 DEF CommitProviderContext, HasAuthority, ActiveTurn, Active, journal
<1>5. ASSUME (\E c \in Calls : AppendToolResult(t, c)) \/ StartCompaction(t) \/ EndCompaction(t)
      PROVE  UNCHANGED Contract!vars
  BY <1>2, <1>5 DEF AppendToolResult, StartCompaction, EndCompaction, Writable, journal, items
<1>6. ASSUME NEW r \in Runs, InstallCompaction(t, r)
      PROVE  ContractStep
  <2>1. marker[t] \in ActiveStatus /\ ~cancelled[t]
    BY <1>6 DEF InstallCompaction, InstallAdmitted, HasAuthority, ActiveTurn, Active
  <2>2. CASE kind[t] = "compaction"
    <3>1. /\ ~Uncertain(t) /\ WithdrawPrepared(t) /\ cancelled' = cancelled
          /\ WriteMarker(t, r, "completed")
      BY <1>6, <2>2 DEF InstallCompaction, FinishAdmitted
    <3>2. QED
      BY <2>1, <3>1, MapsToQuietEnd DEF ContractStep
  <2>3. CASE kind[t] # "compaction"
    BY <1>2, <1>6, <2>1, <2>3 DEF InstallCompaction, journal, items, ContractStep
  <2>4. QED
    BY <2>2, <2>3
<1>7. QED
  BY <1>1, <1>3, <1>4, <1>5, <1>6 DEF RunTurn, ContractStep, Contract!Next

LEMMA InteractImplements ==
  ASSUME TypeInv, TypeInv', NEW t \in Turns, Interact(t), OthersKept(t)
  PROVE  UNCHANGED Contract!vars
<1>1. UNCHANGED <<marker, cancelled, attempt>>
  BY DEF Interact, AskInteraction, ResolveInteractions, RequestSteering, ApplySteering, journal
<1>2. TurnState(t)' = TurnState(t) /\ Verdict(t)' = Verdict(t)
  BY <1>1 DEF TurnState, Verdict, Terminal
<1>3. \A a \in Attempts : EffectState(a)' = EffectState(a)
  BY <1>1 DEF EffectState
<1>4. QED
  BY <1>1, <1>2, <1>3, MapsToStutter

LEMMA EffectImplements ==
  ASSUME TypeInv, TypeInv', NEW t \in Turns, Effect(t), OthersKept(t)
  PROVE  Contract!Next
<1>1. PICK r \in Runs, c \in Calls :
        \/ PrepareEffect(t, r, c)
        \/ RejectEffect(t, r, c)
        \/ BeginDispatch(t, r, c)
        \/ \E outcome \in Outcomes : FinishDispatch(t, r, c, outcome)
  BY DEF Effect
<1> DEFINE e == <<t, r, c>>
<1>2. e \in Attempts /\ e[1] = t /\ [a \in Attempts |-> a[1]][e] = t
  BY DEF Attempts
<1>3. marker[t] \in ActiveStatus /\ marker' = marker /\ cancelled' = cancelled
  BY <1>1 DEF PrepareEffect, RejectEffect, BeginDispatch, FinishDispatch, Writable,
     HasAuthority, ActiveTurn, Active, journal
<1>4. \A a \in Attempts : a # e => attempt'[a] = attempt[a]
  BY <1>1 DEF PrepareEffect, RejectEffect, BeginDispatch, FinishDispatch, TypeInv, TypeOK
<1>5. ASSUME NEW from, NEW to, EffectState(e) = from, EffectState(e)' = to
      PROVE  Contract!Move(e, from, to)
  BY <1>2, <1>3, <1>4, <1>5, MapsToMove
<1>6. CASE PrepareEffect(t, r, c)
  <2>1. attempt[e] = "none" /\ attempt'[e] = "prepared" /\ ~cancelled[t]
    BY <1>2, <1>6 DEF PrepareEffect, TypeInv, TypeOK
  <2>2. EffectState(e) = "absent" /\ EffectState(e)' = "reserved"
    BY <2>1 DEF EffectState, Outcomes
  <2>3. Contract!Move(e, "absent", "reserved")
    BY <1>5, <2>2
  <2>4. Contract!Reserve(e)
    BY <1>2, <2>1, <2>3 DEF Contract!Reserve
  <2>5. QED
    BY <1>2, <2>4 DEF Contract!Next
<1>7. CASE RejectEffect(t, r, c)
  <2>1. attempt[e] = "prepared" /\ attempt'[e] = "rejected"
    BY <1>2, <1>7 DEF RejectEffect, TypeInv, TypeOK
  <2>2. EffectState(e) = "reserved" /\ EffectState(e)' = "dropped"
    BY <2>1 DEF EffectState, Outcomes
  <2>3. Contract!Drop(e)
    BY <1>5, <2>2 DEF Contract!Drop
  <2>4. QED
    BY <1>2, <2>3 DEF Contract!Next
<1>8. CASE BeginDispatch(t, r, c)
  <2>1. attempt[e] = "prepared" /\ attempt'[e] = "dispatching" /\ ~cancelled[t]
    BY <1>2, <1>8 DEF BeginDispatch, TypeInv, TypeOK
  <2>2. EffectState(e) = "reserved" /\ EffectState(e)' = "running"
    BY <2>1 DEF EffectState, Outcomes
  <2>3. Contract!Move(e, "reserved", "running")
    BY <1>5, <2>2
  <2>4. Contract!Start(e)
    BY <1>2, <2>1, <2>3 DEF Contract!Start
  <2>5. QED
    BY <1>2, <2>4 DEF Contract!Next
<1>9. ASSUME NEW outcome \in Outcomes, FinishDispatch(t, r, c, outcome)
      PROVE  Contract!Next
  <2>1. attempt[e] = "dispatching" /\ attempt'[e] \in Outcomes
    BY <1>2, <1>9 DEF FinishDispatch, TypeInv, TypeOK
  <2>2. EffectState(e) = "running" /\ EffectState(e)' = "done"
    BY <2>1 DEF EffectState, Outcomes
  <2>3. Contract!Settle(e)
    BY <1>5, <2>2 DEF Contract!Settle
  <2>4. QED
    BY <1>2, <2>3 DEF Contract!Next
<1>10. QED
  BY <1>1, <1>6, <1>7, <1>8, <1>9

\* The unknown end: what ran is uncertain, and the verdict says so.
LEMMA MapsToUnknownEnd ==
  ASSUME TypeInv, TypeInv', JournalSafe, NEW t \in Turns, OthersKept(t), NEW r \in Runs,
         FailUnknown(t, r), NEW stopped \in BOOLEAN,
         cancelled' = [cancelled EXCEPT ![t] = @ \/ stopped]
  PROVE  Contract!Next
<1>1. marker[t] \in ActiveStatus
  BY DEF FailUnknown, FailUnknownAdmitted, HasAuthority, ActiveTurn, Active
<1>2. marker'[t] = "unknown"
  BY WriteMarkerSide DEF FailUnknown
<1>3. TurnState(t)' = "closed" /\ Verdict(t)' = "uncertain"
  BY <1>2 DEF TurnState, Verdict, Terminal, TerminalStatus
<1>4. \E a \in AttemptsOf(t) : attempt[a] = "dispatching"
  <2>1. \A a \in AttemptsOf(t) : attempt[a] # "unknown"
    BY <1>1 DEF JournalSafe, TurnSafe, ActiveStatus
  <2>2. QED
    BY <2>1 DEF FailUnknown, FailUnknownAdmitted, Uncertain
<1>5. ASSUME NEW a \in Attempts, a[1] = t
      PROVE  EffectState(a)' = CASE attempt[a] = "prepared" -> "dropped"
                                 [] attempt[a] = "dispatching" -> "uncertain"
                                 [] OTHER -> EffectState(a)
  <2>1. attempt'[a] = CASE attempt[a] = "prepared" -> "withdrawn"
                        [] attempt[a] = "dispatching" -> "unknown"
                        [] OTHER -> attempt[a]
    BY <1>5 DEF FailUnknown
  <2>2. CASE attempt[a] = "prepared"
    BY <2>1, <2>2 DEF EffectState, Outcomes
  <2>3. CASE attempt[a] = "dispatching"
    BY <2>1, <2>3 DEF EffectState, Outcomes
  <2>4. CASE attempt[a] \notin {"prepared", "dispatching"}
    <3>1. attempt'[a] = attempt[a]
      BY <2>1, <2>4
    <3>2. EffectState(a)' = EffectState(a)
      BY <3>1 DEF EffectState
    <3>3. QED
      BY <2>4, <3>2
  <2>5. QED
    BY <2>2, <2>3, <2>4
<1>6. Contract!Close(t, "uncertain", stopped)
  BY <1>1, <1>3, <1>4, <1>5, MapsToClose DEF Contract!Verdicts
<1>7. QED
  BY <1>6 DEF Contract!Next, Contract!Verdicts

LEMMA EndTurnImplements ==
  ASSUME TypeInv, TypeInv', JournalSafe, NEW t \in Turns, EndTurn(t), OthersKept(t)
  PROVE  Contract!Next
<1>1. marker[t] \in ActiveStatus
  BY DEF EndTurn, FinishTurn, FinishAdmitted, FailUnknownEffectTurn, FailUnknown,
     FailUnknownAdmitted, RequestCancel, CancelTurn, HasAuthority, ActiveTurn, Active
<1>2. cancelled \in [Turns -> BOOLEAN]
  BY DEF TypeInv, TypeOK
<1>3. ASSUME NEW r \in Runs, NEW status \in FinishStatus, NEW id \in FinishIDs,
             NEW keep \in BOOLEAN, FinishTurn(t, r, status, id, keep)
      PROVE  Contract!Next
  <2>1. /\ ~Uncertain(t) /\ WithdrawPrepared(t) /\ WriteMarker(t, r, status)
        /\ cancelled' = cancelled
        /\ status \in {"completed", "waiting"} => ~cancelled[t]
    BY <1>3 DEF FinishTurn, FinishAdmitted
  <2>2. CASE status = "waiting"
    <3>1. marker'[t] = "waiting"
      BY <2>1, <2>2, WriteMarkerSide
    <3>2. /\ TurnState(t) = "open" /\ Verdict(t) = "none"
          /\ TurnState(t)' = "open" /\ Verdict(t)' = "none"
      BY <1>1, <3>1, MappedTurn DEF TurnState, Verdict, Terminal, TerminalStatus
    <3>3. \A u \in Turns : TurnState(u)' = TurnState(u) /\ Verdict(u)' = Verdict(u)
      BY <3>2 DEF OthersKept
    <3>4. \A a \in Attempts : a[1] = t => attempt[a] # "dispatching"
      BY <2>1 DEF Uncertain, AttemptsOf
    <3>5. ASSUME NEW a \in Attempts
          PROVE  EffectState(a)' = IF a[1] = t /\ EffectState(a) = "reserved" THEN "dropped"
                                   ELSE EffectState(a)
      <4>1. attempt'[a] = IF a[1] = t /\ attempt[a] = "prepared" THEN "withdrawn"
                          ELSE attempt[a]
        BY <2>1 DEF WithdrawPrepared
      <4>2. CASE a[1] = t /\ attempt[a] = "prepared"
        <5>1. EffectState(a)' = "dropped"
          BY <4>1, <4>2 DEF EffectState, Outcomes
        <5>2. QED
          BY <4>2, <5>1, MappedEffect
      <4>3. CASE ~(a[1] = t /\ attempt[a] = "prepared")
        <5>1. EffectState(a)' = EffectState(a)
          BY <4>1, <4>3 DEF EffectState
        <5>2. QED
          BY <4>3, <5>1, MappedEffect
      <4>4. QED
        BY <4>2, <4>3
    <3>6. \A a \in Attempts : a[1] = t => EffectState(a) # "running"
      BY <3>4, MappedEffect
    <3>7. Attempts' = Attempts
      BY DEF Attempts
    <3>8. Contract!Pause(t)
      BY <2>1, <2>2, <3>2, <3>3, <3>5, <3>6, <3>7 DEF Contract!Pause
    <3>9. QED
      BY <3>8 DEF Contract!Next
  <2>3. CASE status # "waiting"
    <3>1. status \in {"completed", "failed", "aborted", "stopped"} /\ status # "stopped"
      BY <2>3 DEF FinishStatus
    <3>2. QED
      BY <1>1, <2>1, <3>1, MapsToQuietEnd
  <2>4. QED
    BY <2>2, <2>3
<1>4. ASSUME NEW r \in Runs, FailUnknownEffectTurn(t, r)
      PROVE  Contract!Next
  <2>1. (cancelled[t] \/ FALSE) = cancelled[t]
    BY <1>2
  <2>2. cancelled' = [cancelled EXCEPT ![t] = @ \/ FALSE]
    BY <1>2, <1>4, <2>1 DEF FailUnknownEffectTurn
  <2>3. QED
    BY <1>4, <2>2, MapsToUnknownEnd DEF FailUnknownEffectTurn
<1>5. ASSUME NEW r \in Runs, RequestCancel(t, r)
      PROVE  Contract!Next
  <2>1. /\ cancelled' = [cancelled EXCEPT ![t] = TRUE]
        /\ UNCHANGED <<marker, attempt>>
    BY <1>5 DEF RequestCancel, items
  <2>2. \A u \in Turns : TurnState(u)' = TurnState(u) /\ Verdict(u)' = Verdict(u)
    BY <2>1 DEF TurnState, Verdict, Terminal
  <2>3. Attempts' = Attempts /\ \A a \in Attempts : EffectState(a)' = EffectState(a)
    BY <2>1 DEF EffectState, Attempts
  <2>4. TurnState(t) = "open"
    BY <1>1, MappedTurn
  <2>5. Contract!AskStop(t)
    BY <2>1, <2>2, <2>3, <2>4 DEF Contract!AskStop
  <2>6. QED
    BY <2>5 DEF Contract!Next
<1>6. ASSUME NEW r \in Runs, CancelTurn(t, r)
      PROVE  Contract!Next
  <2>1. CASE Uncertain(t)
    <3>1. (cancelled[t] \/ TRUE) = TRUE
      OBVIOUS
    <3>2. cancelled' = [cancelled EXCEPT ![t] = @ \/ TRUE]
      BY <1>6, <3>1 DEF CancelTurn
    <3>3. QED
      BY <1>6, <2>1, <3>2, MapsToUnknownEnd DEF CancelTurn
  <2>2. CASE ~Uncertain(t)
    <3>1. /\ WithdrawPrepared(t) /\ WriteMarker(t, r, "stopped")
          /\ cancelled' = [cancelled EXCEPT ![t] = TRUE]
      BY <1>6, <2>2 DEF CancelTurn
    <3>2. QED
      BY <1>1, <2>2, <3>1, MapsToQuietEnd
  <2>3. QED
    BY <2>1, <2>2
<1>7. PICK r \in Runs :
        \/ \E status \in FinishStatus, id \in FinishIDs, keep \in BOOLEAN :
             FinishTurn(t, r, status, id, keep)
        \/ FailUnknownEffectTurn(t, r)
        \/ RequestCancel(t, r)
        \/ CancelTurn(t, r)
  BY Zenon DEF EndTurn
<1>8. QED
  BY <1>3, <1>4, <1>5, <1>6, <1>7, Zenon

LEMMA StepImplements ==
  TypeInv /\ TypeInv' /\ OneActiveTurn /\ JournalSafe /\ [Next]_vars
    => [Contract!Next]_(Contract!vars)
<1> SUFFICES ASSUME TypeInv, TypeInv', OneActiveTurn, JournalSafe, [Next]_vars
             PROVE  ContractStep
  BY DEF ContractStep
<1>1. CASE UNCHANGED vars
  BY <1>1 DEF vars, journal, items, ContractStep, Contract!vars, TurnState, Verdict,
     Terminal, EffectState, Attempts
<1>2. ASSUME NEW t \in Turns, RunTurn(t) \/ Interact(t) \/ Effect(t) \/ EndTurn(t)
      PROVE  ContractStep
  <2>1. OthersKept(t)
    BY <1>2, OthersMapped
  <2>2. QED
    BY <1>2, <2>1, RunTurnImplements, InteractImplements, EffectImplements,
       EndTurnImplements DEF ContractStep
<1>3. QED
  BY <1>1, <1>2 DEF Next

LEMMA InitImplements == Init => Contract!Init
<1> SUFFICES ASSUME Init PROVE Contract!Init
  OBVIOUS
<1>1. \A t \in Turns : TurnState(t) = "idle" /\ Verdict(t) = "none"
  BY InitType, MappedTurn DEF Init
<1>2. \A a \in Attempts : EffectState(a) = "absent"
  BY InitType, MappedEffect DEF Init
<1>3. QED
  BY <1>1, <1>2 DEF Init, Contract!Init

\* Every transaction of the journal is a step of the contract or invisible: an
\* effect starts at most once and never after a stop, and the end of a turn
\* decides all its effects and its verdict at once.
THEOREM JournalImplementsContract == Spec => ImplementsContract
<1>1. Spec => [](TypeInv /\ OneActiveTurn /\ JournalSafe)
  BY JournalTyped, JournalOneActiveTurn, JournalSafety, PTL
<1>2. QED
  BY <1>1, InitImplements, StepImplements, PTL DEF Spec, ImplementsContract, Contract!Spec
=============================================================================
