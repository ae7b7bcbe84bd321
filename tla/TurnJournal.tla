---------------------------- MODULE TurnJournal ----------------------------
(***************************************************************************)
(* The durable journal of one thread: what internal/sessiontree accepts    *)
(* from its callers.  Every action is one storage transaction of the       *)
(* canonical backend (canonicalJournalUpdate): it either commits all of    *)
(* its entries or none, so crashes of the process fall between actions.    *)
(*                                                                         *)
(* Callers are left free: a stale execution, a recovery pass, a stop and   *)
(* the current run may interleave their transactions in any order that the *)
(* journal's own checks admit.  A call that the journal refuses, or that   *)
(* it answers by replaying an earlier commit, changes nothing and is a     *)
(* stuttering step.                                                        *)
(***************************************************************************)
EXTENDS Naturals

CONSTANTS Turns,   \* turn identities of the thread
          Runs,    \* run identities; NewRunID never repeats one
          Calls,   \* tool call identities of a turn
          Asks,    \* interactions (approvals, questions) of a turn
          Steers,  \* steering requests of a turn
          NoRun

ASSUME RunAssumption == NoRun \notin Runs

VARIABLES
  marker,        \* marker[t]: latest turn marker of t
  kind,          \* kind[t]: ordinary execution or standalone compaction
  started,       \* started[t]: run of the Started marker
  identity,      \* identity[t]: run of the latest marker or cancel request
  runs,          \* runs[t]: the runs that ever wrote a marker of t
  cancelled,     \* cancelled[t]: a CancelRequested entry exists
  waited,        \* <<t, r>> whose stable terminal ID holds a Waiting marker
  attempt,       \* attempt[<<t, r, c>>]: state of that effect attempt
  call,          \* call[<<t, c>>]: tool call entry and its result
  ask,           \* ask[<<t, a>>]: interaction
  steer,         \* steer[<<t, s>>]: steering request
  compacting,    \* <<t, r>> whose latest compaction lifecycle is running
  cursor         \* run that created the provider state record, or NoRun

journal == <<marker, kind, started, identity, runs, cancelled, waited>>
items == <<attempt, call, ask, steer>>
vars == <<journal, items, compacting, cursor>>

(***************************************************************************)
(* "stopped" is the Aborted marker of CancelTurn, "unknown" the Failed     *)
(* marker whose failure code is effect_outcome_unknown.                    *)
(***************************************************************************)
ActiveStatus == {"started", "savepoint", "waiting"}
TerminalStatus == {"completed", "failed", "aborted", "stopped", "unknown"}
MarkerStatus == {"none"} \cup ActiveStatus \cup TerminalStatus

(***************************************************************************)
(* The code's Cancelled attempt is "withdrawn" here when it was cancelled  *)
(* before its dispatch (no result entry) and "cancelled" when its handler  *)
(* reported the cancellation (ResultEntryID is set).                       *)
(***************************************************************************)
AttemptStatus == {"none", "prepared", "rejected", "dispatching", "completed",
                  "failed", "cancelled", "withdrawn", "unknown"}
Outcomes == {"completed", "failed", "cancelled"}

Attempts == Turns \X Runs \X Calls
AttemptsOf(t) == {a \in Attempts : a[1] = t}

Kinds == {"ordinary", "compaction"}

TypeOK ==
  /\ marker \in [Turns -> MarkerStatus]
  /\ kind \in [Turns -> Kinds]
  /\ started \in [Turns -> Runs \cup {NoRun}]
  /\ identity \in [Turns -> Runs \cup {NoRun}]
  /\ runs \in [Turns -> SUBSET Runs]
  /\ cancelled \in [Turns -> BOOLEAN]
  /\ waited \subseteq Turns \X Runs
  /\ attempt \in [Attempts -> AttemptStatus]
  /\ call \in [Turns \X Calls -> {"none", "open", "closed"}]
  /\ ask \in [Turns \X Asks -> {"none", "pending", "resolved"}]
  /\ steer \in [Turns \X Steers -> {"none", "pending", "applied", "cancelled"}]
  /\ compacting \subseteq Turns \X Runs
  /\ cursor \in Runs \cup {NoRun}

Init ==
  /\ marker = [t \in Turns |-> "none"]
  /\ kind = [t \in Turns |-> "ordinary"]
  /\ started = [t \in Turns |-> NoRun]
  /\ identity = [t \in Turns |-> NoRun]
  /\ runs = [t \in Turns |-> {}]
  /\ cancelled = [t \in Turns |-> FALSE]
  /\ waited = {}
  /\ attempt = [a \in Attempts |-> "none"]
  /\ call = [c \in Turns \X Calls |-> "none"]
  /\ ask = [q \in Turns \X Asks |-> "none"]
  /\ steer = [s \in Turns \X Steers |-> "none"]
  /\ compacting = {}
  /\ cursor = NoRun
-----------------------------------------------------------------------------
(* What the transactions read.                                             *)

Active == {t \in Turns : marker[t] \in ActiveStatus}

\* The active-turn index names a turn only when it holds exactly one.
ActiveTurn(t) == Active = {t}

HasAuthority(t, r) == ActiveTurn(t) /\ identity[t] = r

\* A live turn still accepts plain appends; after its terminal none is.
Writable(t) == marker[t] \in ActiveStatus

Terminal(t) == marker[t] \in TerminalStatus

PendingAsk(t) == \E a \in Asks : ask[<<t, a>>] = "pending"

PendingSteer(t) == {s \in Steers : steer[<<t, s>>] = "pending"}

\* Mutant: an attempt still dispatching counts as settled.
UncertainRecorded(t) == \E a \in AttemptsOf(t) : attempt[a] = "unknown"

Uncertain(t) == \E a \in AttemptsOf(t) : attempt[a] \in {"dispatching", "unknown"}

\* Run identities are minted by NewRunID and never reused.
FreshRun(r) == \A t \in Turns : r \notin runs[t]
-----------------------------------------------------------------------------
(* What the transactions write, shared by the handlers that end a turn.    *)

SettleSteers(t) ==
  steer' = [s \in DOMAIN steer |->
              IF s[1] = t /\ steer[s] = "pending" THEN "cancelled" ELSE steer[s]]

SettleAsks(t) ==
  ask' = [q \in DOMAIN ask |->
            IF q[1] = t /\ ask[q] = "pending" THEN "resolved" ELSE ask[q]]

CloseCalls(t) ==
  call' = [c \in DOMAIN call |->
             IF c[1] = t /\ call[c] = "open" THEN "closed" ELSE call[c]]

WithdrawPrepared(t) ==
  attempt' = [a \in Attempts |->
                IF a[1] = t /\ attempt[a] = "prepared" THEN "withdrawn"
                ELSE attempt[a]]

\* Mutant: the compaction lifecycle stays running.
LeaveCompaction(t, r) == UNCHANGED compacting

SettleCompaction(t, r) == compacting' = compacting \ {<<t, r>>}

WriteMarker(t, r, status) ==
  /\ marker' = [marker EXCEPT ![t] = status]
  /\ identity' = [identity EXCEPT ![t] = r]
  /\ runs' = [runs EXCEPT ![t] = @ \cup {r}]
  /\ UNCHANGED <<kind, started>>
-----------------------------------------------------------------------------
(* Admission and the running turn.                                         *)

\* Mutant: admission without the busy check.
AcceptTurnBusy(t, r, k) ==
  /\ marker[t] = "none"
  /\ FreshRun(r)
  /\ kind' = [kind EXCEPT ![t] = k]
  /\ started' = [started EXCEPT ![t] = r]
  /\ marker' = [marker EXCEPT ![t] = "started"]
  /\ identity' = [identity EXCEPT ![t] = r]
  /\ runs' = [runs EXCEPT ![t] = @ \cup {r}]
  /\ UNCHANGED <<cancelled, waited, items, compacting, cursor>>

\* Started and the user message commit together, on an idle thread only.
AcceptTurn(t, r, k) ==
  /\ marker[t] = "none"
  /\ \A u \in Turns \ {t} : ~ActiveTurn(u)
  /\ FreshRun(r)
  /\ marker' = [marker EXCEPT ![t] = "started"]
  /\ kind' = [kind EXCEPT ![t] = k]
  /\ started' = [started EXCEPT ![t] = r]
  /\ identity' = [identity EXCEPT ![t] = r]
  /\ runs' = [runs EXCEPT ![t] = @ \cup {r}]
  /\ UNCHANGED <<cancelled, waited, items, compacting, cursor>>

\* A plain SavePoint append by the executing run.
SavePoint(t) ==
  /\ Writable(t)
  /\ WriteMarker(t, identity[t], "savepoint")
  /\ UNCHANGED <<cancelled, waited, items, compacting, cursor>>

\* The continuation SavePoint that hands a suspended turn to a new run: the
\* runtime admits it only without a cancel request or an open question.
ContinueRun(t, r) ==
  /\ Writable(t)
  /\ kind[t] = "ordinary"
  /\ ~cancelled[t]
  /\ ~PendingAsk(t)
  /\ FreshRun(r)
  /\ WriteMarker(t, r, "savepoint")
  /\ UNCHANGED <<cancelled, waited, items, compacting, cursor>>

\* One provider response: its tool calls and, when it carries one, its
\* provider state, or an explicit clearing of that state.
CommitProviderContext(t, r, calls, state) ==
  /\ HasAuthority(t, r)
  /\ ~cancelled[t]
  /\ state = "clear" => calls = {}
  /\ \A c \in calls : call[<<t, c>>] = "none"
  /\ call' = [c \in DOMAIN call |->
                IF c[1] = t /\ c[2] \in calls THEN "open" ELSE call[c]]
  /\ cursor' = CASE state = "set" -> r
                 [] state = "clear" -> NoRun
                 [] OTHER -> cursor
  /\ UNCHANGED <<journal, attempt, ask, steer, compacting>>

\* Mutant: a result is appended behind the terminal.
AppendToolResultLate(t, c) ==
  /\ call[<<t, c>>] = "open"
  /\ call' = [call EXCEPT ![<<t, c>>] = "closed"]
  /\ UNCHANGED <<journal, attempt, ask, steer, compacting, cursor>>

\* A tool result that no effect attempt owns (control tools, declined calls,
\* the closing of interrupted calls).
AppendToolResult(t, c) ==
  /\ Writable(t)
  /\ call[<<t, c>>] = "open"
  /\ call' = [call EXCEPT ![<<t, c>>] = "closed"]
  /\ UNCHANGED <<journal, attempt, ask, steer, compacting, cursor>>

AskInteraction(t, a) ==
  /\ Writable(t)
  /\ ask[<<t, a>>] = "none"
  /\ ask' = [ask EXCEPT ![<<t, a>>] = "pending"]
  /\ UNCHANGED <<journal, attempt, call, steer, compacting, cursor>>

\* A batch of answers is one transaction.
ResolveInteractions(t, answered) ==
  /\ Writable(t)
  /\ answered # {}
  /\ \A a \in answered : ask[<<t, a>>] = "pending"
  /\ ask' = [q \in DOMAIN ask |->
               IF q[1] = t /\ q[2] \in answered THEN "resolved" ELSE ask[q]]
  /\ UNCHANGED <<journal, attempt, call, steer, compacting, cursor>>

RequestSteering(t, r, s) ==
  /\ HasAuthority(t, r)
  /\ ~cancelled[t]
  /\ steer[<<t, s>>] = "none"
  /\ steer' = [steer EXCEPT ![<<t, s>>] = "pending"]
  /\ UNCHANGED <<journal, attempt, call, ask, compacting, cursor>>

\* Every pending instruction is applied in one batch.
ApplySteering(t, r) ==
  /\ HasAuthority(t, r)
  /\ ~cancelled[t]
  /\ PendingSteer(t) # {}
  /\ steer' = [s \in DOMAIN steer |->
                 IF s[1] = t /\ steer[s] = "pending" THEN "applied" ELSE steer[s]]
  /\ UNCHANGED <<journal, attempt, call, ask, compacting, cursor>>
-----------------------------------------------------------------------------
(* Context compaction.                                                     *)

\* A lifecycle entry with status running, appended by the executing run.
StartCompaction(t) ==
  /\ Writable(t)
  /\ <<t, identity[t]>> \notin compacting
  /\ compacting' = compacting \cup {<<t, identity[t]>>}
  /\ UNCHANGED <<journal, items, cursor>>

\* Its failed, cancelled or noop successor.
EndCompaction(t) ==
  /\ Writable(t)
  /\ <<t, identity[t]>> \in compacting
  /\ SettleCompaction(t, identity[t])
  /\ UNCHANGED <<journal, items, cursor>>
-----------------------------------------------------------------------------
(* Effect attempts.                                                        *)

PrepareEffect(t, r, c) ==
  /\ HasAuthority(t, r)
  /\ ~cancelled[t]
  /\ call[<<t, c>>] = "open"     \* the engine dispatches committed calls
  /\ attempt[<<t, r, c>>] = "none"
  /\ attempt' = [attempt EXCEPT ![<<t, r, c>>] = "prepared"]
  /\ UNCHANGED <<journal, call, ask, steer, compacting, cursor>>

RejectEffect(t, r, c) ==
  /\ Writable(t)
  /\ attempt[<<t, r, c>>] = "prepared"
  /\ attempt' = [attempt EXCEPT ![<<t, r, c>>] = "rejected"]
  /\ UNCHANGED <<journal, call, ask, steer, compacting, cursor>>

\* Mutant: the dispatch boundary ignores a cancel request.
BeginDispatchAfterStop(t, r, c) ==
  /\ HasAuthority(t, r)
  /\ attempt[<<t, r, c>>] = "prepared"
  /\ attempt' = [attempt EXCEPT ![<<t, r, c>>] = "dispatching"]
  /\ UNCHANGED <<journal, call, ask, steer, compacting, cursor>>

BeginDispatch(t, r, c) ==
  /\ ~cancelled[t]
  /\ HasAuthority(t, r)
  /\ attempt[<<t, r, c>>] = "prepared"
  /\ attempt' = [attempt EXCEPT ![<<t, r, c>>] = "dispatching"]
  /\ UNCHANGED <<journal, call, ask, steer, compacting, cursor>>

\* The tool result and the attempt's outcome commit together; a cancel
\* request does not refuse an outcome that is already known.
FinishDispatch(t, r, c, outcome) ==
  /\ HasAuthority(t, r)
  /\ attempt[<<t, r, c>>] = "dispatching"
  /\ attempt' = [attempt EXCEPT ![<<t, r, c>>] = outcome]
  /\ call' = [call EXCEPT ![<<t, c>>] = "closed"]
  /\ UNCHANGED <<journal, ask, steer, compacting, cursor>>
-----------------------------------------------------------------------------
(* Ends of a turn.                                                         *)

\* The two terminal entry IDs that FinishTurn is called with: the run's
\* stable ID and the one of a preparation that failed before any runner.
FinishIDs == {"run", "preparation"}

\* A terminal that follows a Prepared attempt of another run is refused: the
\* settlement entry demands that its terminal has the attempt's own run.
SettlesOwnAttempts(t, r) ==
  \A a \in AttemptsOf(t) : attempt[a] = "prepared" => a[2] = r

\* Mutant: a cancel request does not refuse a completion.
FinishAdmittedAfterStop(t, r, status, id) ==
  /\ HasAuthority(t, r)
  /\ id = "run" => <<t, r>> \notin waited
  /\ id = "preparation" => status = "failed"
  /\ status # "waiting" => ~PendingAsk(t)
  /\ ~Uncertain(t)
  /\ status # "waiting" => SettlesOwnAttempts(t, r)

FinishAdmitted(t, r, status, id) ==
  /\ HasAuthority(t, r)
  /\ id = "run" => <<t, r>> \notin waited
  /\ id = "preparation" => status = "failed"
  /\ status # "waiting" => ~PendingAsk(t)
  /\ status \in {"completed", "waiting"} => ~cancelled[t]
  /\ ~Uncertain(t)
  /\ status # "waiting" => SettlesOwnAttempts(t, r)

\* The provider state is kept across an end of its own continuation, dropped
\* when the preparation failed and, at the latest, when it does not match.
FinishTurn(t, r, status, id, keep) ==
  /\ FinishAdmitted(t, r, status, id)
  /\ id = "preparation" => keep = (kind[t] = "compaction")
  /\ WriteMarker(t, r, status)
  /\ waited' = IF status = "waiting" THEN waited \cup {<<t, r>>} ELSE waited
  /\ IF status = "waiting" THEN UNCHANGED steer ELSE SettleSteers(t)
  /\ IF status \in {"failed", "aborted"} THEN SettleCompaction(t, r)
                                         ELSE UNCHANGED compacting
  /\ WithdrawPrepared(t)
  /\ cursor' = CASE ~keep \/ cursor = NoRun -> NoRun
                 [] id = "preparation" -> r
                 [] OTHER -> cursor
  /\ UNCHANGED <<cancelled, call, ask>>

\* Installing a summary drops the provider state; a standalone compaction
\* turn completes in the same transaction.
InstallAdmitted(t, r) ==
  /\ HasAuthority(t, r)
  /\ ~cancelled[t]
  /\ started[t] = r

InstallCompaction(t, r) ==
  /\ InstallAdmitted(t, r)
  /\ <<t, r>> \in compacting
  /\ SettleCompaction(t, r)
  /\ cursor' = NoRun
  /\ IF kind[t] = "compaction"
     THEN /\ FinishAdmitted(t, r, "completed", "run")
          /\ WriteMarker(t, r, "completed")
          /\ SettleSteers(t)
          /\ WithdrawPrepared(t)
          /\ UNCHANGED <<cancelled, waited, call, ask>>
     ELSE UNCHANGED <<journal, items>>

\* failUnknownEffectTurn: what it requires and what it writes.
FailUnknownAdmitted(t, r) ==
  /\ HasAuthority(t, r)
  /\ <<t, r>> \notin waited
  /\ Uncertain(t)

\* Mutant: an effect in flight is recorded as one that never started.
FailUnknownWithdrawing(t, r) ==
  /\ FailUnknownAdmitted(t, r)
  /\ WriteMarker(t, r, "unknown")
  /\ attempt' = [a \in Attempts |->
                   IF a[1] = t /\ attempt[a] \in {"prepared", "dispatching"}
                   THEN "withdrawn" ELSE attempt[a]]
  /\ SettleSteers(t)
  /\ SettleAsks(t)
  /\ CloseCalls(t)
  /\ cursor' = NoRun
  /\ UNCHANGED <<waited, compacting>>

FailUnknown(t, r) ==
  /\ FailUnknownAdmitted(t, r)
  /\ WriteMarker(t, r, "unknown")
  /\ attempt' = [a \in Attempts |->
                   CASE a[1] = t /\ attempt[a] = "prepared" -> "withdrawn"
                     [] a[1] = t /\ attempt[a] = "dispatching" -> "unknown"
                     [] OTHER -> attempt[a]]
  /\ SettleSteers(t)
  /\ SettleAsks(t)
  /\ CloseCalls(t)
  /\ cursor' = NoRun
  /\ UNCHANGED <<waited, compacting>>

FailUnknownEffectTurn(t, r) ==
  /\ FailUnknown(t, r)
  /\ UNCHANGED cancelled

\* CancelTurn with RequestOnly: the graceful stop's first transaction.
RequestCancel(t, r) ==
  /\ HasAuthority(t, r)
  /\ ~cancelled[t]
  /\ cancelled' = [cancelled EXCEPT ![t] = TRUE]
  /\ UNCHANGED <<marker, kind, started, identity, runs, waited, items,
                 compacting, cursor>>

\* CancelTurn: the request and the terminal commit together, and an effect
\* whose outcome nobody knows turns the stop into the unknown failure.
CancelTurn(t, r) ==
  /\ HasAuthority(t, r)
  /\ cancelled' = [cancelled EXCEPT ![t] = TRUE]
  /\ IF Uncertain(t)
     THEN FailUnknown(t, r)
     ELSE /\ WriteMarker(t, r, "stopped")
          /\ WithdrawPrepared(t)
          /\ SettleSteers(t)
          /\ SettleAsks(t)
          /\ CloseCalls(t)
          /\ SettleCompaction(t, r)
          /\ UNCHANGED <<waited, cursor>>
-----------------------------------------------------------------------------
FinishStatus == {"completed", "waiting", "failed", "aborted"}

RunTurn(t) ==
  \/ \E r \in Runs, k \in Kinds : AcceptTurn(t, r, k)
  \/ SavePoint(t)
  \/ \E r \in Runs : ContinueRun(t, r)
  \/ \E r \in Runs, calls \in SUBSET Calls, state \in {"set", "keep", "clear"} :
       CommitProviderContext(t, r, calls, state)
  \/ \E c \in Calls : AppendToolResult(t, c)
  \/ StartCompaction(t) \/ EndCompaction(t)
  \/ \E r \in Runs : InstallCompaction(t, r)

Interact(t) ==
  \/ \E a \in Asks : AskInteraction(t, a)
  \/ \E answered \in SUBSET Asks : ResolveInteractions(t, answered)
  \/ \E r \in Runs, s \in Steers : RequestSteering(t, r, s)
  \/ \E r \in Runs : ApplySteering(t, r)

Effect(t) ==
  \E r \in Runs, c \in Calls :
    \/ PrepareEffect(t, r, c)
    \/ RejectEffect(t, r, c)
    \/ BeginDispatch(t, r, c)
    \/ \E outcome \in Outcomes : FinishDispatch(t, r, c, outcome)

EndTurn(t) ==
  \E r \in Runs :
    \/ \E status \in FinishStatus, id \in FinishIDs, keep \in BOOLEAN :
         FinishTurn(t, r, status, id, keep)
    \/ FailUnknownEffectTurn(t, r)
    \/ RequestCancel(t, r)
    \/ CancelTurn(t, r)

Next == \E t \in Turns : RunTurn(t) \/ Interact(t) \/ Effect(t) \/ EndTurn(t)

Spec == Init /\ [][Next]_vars
-----------------------------------------------------------------------------
(* Properties.                                                             *)

\* At most one turn of the thread is unfinished: admission, continuation and
\* recovery never leave two turns that both believe they run.
OneActiveTurn ==
  \A t, u \in Active : t = u

\* A finished turn leaves nothing to act on: no attempt that could still be
\* dispatched or is running, no open interaction, no waiting instruction; and
\* when it was stopped or its outcome is unknown, no call without a result,
\* which the next provider request would have to show.
TerminalSettled ==
  \A t \in Turns : Terminal(t) =>
    /\ \A a \in AttemptsOf(t) : attempt[a] \notin {"prepared", "dispatching"}
    /\ ~PendingAsk(t)
    /\ PendingSteer(t) = {}
    /\ marker[t] \in {"stopped", "unknown"} =>
         \A c \in Calls : call[<<t, c>>] # "open"

\* An outcome is on record only together with its tool result.
OutcomeHasResult ==
  \A a \in Attempts : attempt[a] \in Outcomes => call[<<a[1], a[3]>>] = "closed"

\* A turn ends as effect_outcome_unknown exactly when some effect of any of
\* its runs has no known outcome; success or plain failure never hides one, and
\* what counts as known is what the model can read as a tool result.
UncertaintyReported ==
  /\ \A t \in Turns :
       marker[t] = "unknown" <=> \E a \in AttemptsOf(t) : attempt[a] = "unknown"
  /\ OutcomeHasResult

\* An accepted cancel request is never answered by success or by waiting for
\* more input, and an immediate stop always leaves its request on record.
StopHonoured ==
  \A t \in Turns :
    /\ cancelled[t] => marker[t] # "completed"
    /\ marker[t] = "stopped" => cancelled[t]

\* The provider-side conversation that the next request would continue was
\* left by a turn that did not end with an unknown effect, even if a late
\* provider response arrives after that end.
CursorFromKnownTurn ==
  cursor # NoRun => \E t \in Turns : cursor \in runs[t] /\ marker[t] # "unknown"

\* A failed or aborted end closes the visible compaction of its own run.
EndedCompactionClosed ==
  \A t \in Turns : marker[t] \in {"failed", "aborted", "stopped"} =>
    <<t, identity[t]>> \notin compacting

\* The two records beside the turns, the provider state and the compaction
\* lifecycle, agree with how the turns they belong to have ended.
SideRecordsAgree == CursorFromKnownTurn /\ EndedCompactionClosed

\* Whatever late callers do, nothing of a finished turn changes again.
FrozenTurn(t) ==
  /\ marker'[t] = marker[t] /\ identity'[t] = identity[t]
  /\ cancelled'[t] = cancelled[t] /\ runs'[t] = runs[t]
  /\ \A a \in AttemptsOf(t) : attempt'[a] = attempt[a]
  /\ \A c \in Calls : call'[<<t, c>>] = call[<<t, c>>]
  /\ \A a \in Asks : ask'[<<t, a>>] = ask[<<t, a>>]
  /\ \A s \in Steers : steer'[<<t, s>>] = steer[<<t, s>>]

TerminalFrozen == [][\A t \in Turns : Terminal(t) => FrozenTurn(t)]_vars
-----------------------------------------------------------------------------
(* The journal implements the contract of TurnContract.                    *)

TurnState(t) ==
  IF marker[t] = "none" THEN "idle" ELSE IF Terminal(t) THEN "closed" ELSE "open"

Verdict(t) ==
  CASE marker[t] = "completed" -> "success"
    [] marker[t] = "failed" -> "failure"
    [] marker[t] = "aborted" -> "abort"
    [] marker[t] = "stopped" -> "stop"
    [] marker[t] = "unknown" -> "uncertain"
    [] OTHER -> "none"

EffectState(a) ==
  CASE attempt[a] = "none" -> "absent"
    [] attempt[a] = "prepared" -> "reserved"
    [] attempt[a] = "dispatching" -> "running"
    [] attempt[a] \in Outcomes -> "done"
    [] attempt[a] \in {"rejected", "withdrawn"} -> "dropped"
    [] attempt[a] = "unknown" -> "uncertain"

Contract == INSTANCE TurnContract WITH
  Effects <- Attempts, TurnOf <- [a \in Attempts |-> a[1]],
  turn <- [t \in Turns |-> TurnState(t)],
  stop <- cancelled,
  verdict <- [t \in Turns |-> Verdict(t)],
  effect <- [a \in Attempts |-> EffectState(a)]

\* Every transaction of the journal is one step of the contract or invisible
\* to it: an effect starts once, never after a stop, and the end of a turn
\* decides all its effects at once.
ImplementsContract == Contract!Spec
=============================================================================
