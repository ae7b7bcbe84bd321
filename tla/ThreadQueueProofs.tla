------------------------- MODULE ThreadQueueProofs -------------------------
(***************************************************************************)
(* Proofs about ThreadQueue and HostWork for any number of turns,          *)
(* requests, works and losses of the process.  Every handler does what the *)
(* journal allows; an accepted request is in exactly one place; a turn     *)
(* runs the text last shown; the end of a turn releases its thread; works, *)
(* their notices and the turns they wake leave all that as it is; and work *)
(* that is completed wakes a thread at rest.                               *)
(***************************************************************************)
EXTENDS HostWork, TurnJournalProofs, FiniteSetTheorems, SequenceTheorems

(* What an execution or a stop may write it may write as the journal's run. *)

LEMMA Authority ==
  ASSUME TypeInv, NEW t, NEW r, HasAuthority(t, r)
  PROVE  t \in Turns /\ r \in Runs /\ t \in Active
<1>1. t \in Turns /\ t \in Active
  BY DEF HasAuthority, ActiveTurn, Active
<1>2. marker[t] # "none" /\ identity[t] = r
  BY <1>1 DEF HasAuthority, Active, ActiveStatus
<1>3. QED
  BY <1>1, <1>2 DEF TypeInv, AdmittedTurnHasRun

LEMMA Minted ==
  ASSUME CanMint
  PROVE  /\ NewTurn \in Turns /\ marker[NewTurn] = "none"
         /\ NewRun \in Runs /\ FreshRun(NewRun)
  BY DEF CanMint, NewTurn, NewRun

\* The transactions of the queue, under names for what they do to a turn.
Admits == AcceptTurn(NewTurn, NewRun, "ordinary") /\ CanMint
Instructs(q) == RequestSteering(current, RunOf(current), q)
Applies(t) == ApplySteering(t, RunOf(t))
Ends(t) ==
  \/ \E status \in {"completed", "failed"} : FinishTurn(t, RunOf(t), status, "run", TRUE)
  \/ CancelTurn(t, RunOf(t))
AsksToStop(t) == RequestCancel(t, RunOf(t))

Transacts ==
  \/ Admits
  \/ \E q \in Requests : Instructs(q)
  \/ \E t \in Turns : Applies(t) \/ Ends(t) \/ AsksToStop(t)
  \/ Ends(current) \/ AsksToStop(current)
  \/ UNCHANGED vars

LEMMA TransactsIsStep == TypeInv /\ Transacts => [Next]_vars
<1> SUFFICES ASSUME TypeInv, Transacts PROVE [Next]_vars
  OBVIOUS
<1>1. CASE Admits
  BY <1>1, Minted DEF Admits, Next, RunTurn, Kinds
<1>2. ASSUME NEW q \in Requests, Instructs(q)
      PROVE  Next
  <2>1. current \in Turns /\ RunOf(current) \in Runs
    BY <1>2, Authority DEF Instructs, RequestSteering
  <2>2. QED
    BY <1>2, <2>1, QueueAssumption DEF Instructs, Next, Interact
<1>3. ASSUME NEW t, Applies(t)
      PROVE  Next
  <2>1. t \in Turns /\ RunOf(t) \in Runs
    BY <1>3, Authority DEF Applies, ApplySteering
  <2>2. QED
    BY <1>3, <2>1 DEF Applies, Next, Interact
<1>4. ASSUME NEW t, Ends(t)
      PROVE  Next
  <2>1. HasAuthority(t, RunOf(t))
    BY <1>4 DEF Ends, FinishTurn, FinishAdmitted, CancelTurn
  <2>2. t \in Turns /\ RunOf(t) \in Runs
    BY <2>1, Authority
  <2>3. QED
    BY <1>4, <2>2 DEF Ends, Next, EndTurn, FinishStatus, FinishIDs
<1>5. ASSUME NEW t, AsksToStop(t)
      PROVE  Next
  <2>1. t \in Turns /\ RunOf(t) \in Runs
    BY <1>5, Authority DEF AsksToStop, RequestCancel
  <2>2. QED
    BY <1>5, <2>1 DEF AsksToStop, Next, EndTurn
<1>6. QED
  BY <1>1, <1>2, <1>3, <1>4, <1>5 DEF Transacts

LEMMA SendingTransacts == ASSUME NEW q \in Requests, Sending(q) PROVE Transacts
  BY DEF Sending, SendReads, SendQueues, SendAdmits, SendRefused, Begin, Transacts, Admits

LEMMA QueueingTransacts == ASSUME NEW q \in Requests, Queueing(q) PROVE Transacts
  BY DEF Queueing, EditQueued, ReorderQueue, DeleteQueued, PromoteQueued, SteerQueued,
     SendQueuedNow, Promote, Promotable, Begin, Transacts, Admits, Instructs

LEMMA ExecutingTransacts == ASSUME NEW t \in Turns, Executing(t) PROVE Transacts
  BY DEF Executing, Apply, Seal, Complete, Fail, Leave, FinishSend, StartNextQueued,
     AutoFails, Transacts, Applies, Ends

LEMMA StoppingTransacts == ASSUME NEW t \in Turns, Stopping(t) PROVE Transacts
  BY DEF Stopping, OwnerSettles, OwnerLate, FinishStop, CommitStop, Transacts, Ends

LEMMA QueueTransacts == [QueueNext]_queueVars => Transacts
<1> SUFFICES ASSUME [QueueNext]_queueVars PROVE Transacts
  OBVIOUS
<1>1. CASE UNCHANGED queueVars
  BY <1>1 DEF queueVars, Transacts
<1>2. ASSUME NEW auto \in autos, AutoPromote(auto) \/ AutoRefused(auto)
      PROVE  Transacts
  BY <1>2 DEF AutoPromote, AutoRefused, Promote, Promotable, Begin, Transacts, Admits
<1>3. ASSUME NEW q \in Requests, NEW t \in Turns,
             HandoverStops(q, t) \/ HandoverPromotes(q, t) \/ HandoverRefused(q, t)
      PROVE  Transacts
  BY <1>3 DEF HandoverStops, HandoverPromotes, HandoverRefused, AcceptStop, Promote,
     Promotable, Begin, Transacts, Admits, AsksToStop
<1>4. CASE RequestStop \/ StopNow
  BY <1>4 DEF RequestStop, StopNow, AcceptStop, CommitStop, Transacts, Ends, AsksToStop
<1>5. CASE Crash \/ Restart
  BY <1>5 DEF Crash, Restart, Transacts
<1>6. QED
  BY <1>1, <1>2, <1>3, <1>4, <1>5, SendingTransacts, QueueingTransacts, ExecutingTransacts,
     StoppingTransacts DEF QueueNext

\* The queue, its promotions and its stops are behaviours of the journal.
THEOREM QueueKeepsTheJournal == QueueSpec => Spec
<1>1. QueueInit => Init
  BY DEF QueueInit
<1>2. TypeInv /\ [QueueNext]_queueVars => [Next]_vars
  BY QueueTransacts, TransactsIsStep
<1>3. QED
  BY <1>1, <1>2, InitType, StepType, PTL DEF QueueSpec, Spec
-----------------------------------------------------------------------------
(* The end of a turn releases its thread.  By itself that is not inductive: *)
(* the view of a restarted process is active again when the journal has an  *)
(* unfinished turn, which must then be the one the view names.              *)

Released == worker[current] \in {"sealed", "over"} \/ <<current, "sealing">> \in stops

ReleaseInv ==
  /\ Active \subseteq {current}
  /\ active \in BOOLEAN /\ worker \in [Turns -> Stages]
  /\ active => current \in Turns
  /\ active /\ Terminal(current) => Released

LEMMA InitReleases == QueueInit => ReleaseInv
<1> SUFFICES ASSUME QueueInit PROVE ReleaseInv
  OBVIOUS
<1>1. Active = {}
  BY DEF QueueInit, Init, Active, ActiveStatus
<1>2. worker \in [Turns -> Stages]
  BY DEF QueueInit, Stages
<1>3. active = FALSE
  BY DEF QueueInit
<1>4. QED
  BY <1>1, <1>2, <1>3 DEF ReleaseInv

LEMMA ReleaseKept ==
  ASSUME ReleaseInv, UNCHANGED <<marker, current>>,
         active' \in BOOLEAN, worker' \in [Turns -> Stages], active' => active,
         active /\ Released => Released' \/ ~active'
  PROVE  ReleaseInv'
  BY DEF ReleaseInv, Active, Terminal

LEMMA ReleaseAdmitted ==
  ASSUME TypeInv, OneActiveTurn, ReleaseInv, Admits,
         active' = TRUE, current' = NewTurn, worker' = [worker EXCEPT ![NewTurn] = "running"]
  PROVE  ReleaseInv'
<1> DEFINE n == NewTurn
<1>1. n \in Turns /\ marker[n] = "none" /\ AcceptTurn(n, NewRun, "ordinary")
  BY Minted DEF Admits
<1>2. Active = {}
  <2>1. \A u \in Active : Active = {u}
    BY DEF OneActiveTurn, Active
  <2>2. QED
    BY <1>1, <2>1 DEF AcceptTurn, ActiveTurn, Active, ActiveStatus
<1>3. marker' = [marker EXCEPT ![n] = "started"] /\ marker \in [Turns -> MarkerStatus]
  BY <1>1 DEF AcceptTurn, TypeInv, TypeOK
<1>4. worker' \in [Turns -> Stages]
  BY <1>1 DEF ReleaseInv, Stages
<1>5. PICK m : m = n
  OBVIOUS
<1> HIDE DEF n
<1>6. marker'[m] = "started" /\ \A u \in Turns \ {m} : marker'[u] = marker[u]
  BY <1>1, <1>3, <1>5
<1>7. Active' \subseteq {m}
  BY <1>2, <1>6 DEF Active
<1>8. current' = m /\ active' = TRUE
  BY <1>5 DEF n
<1>9. ~(Terminal(current)')
  BY <1>6, <1>8 DEF Terminal, TerminalStatus
<1>10. QED
  BY <1>1, <1>4, <1>5, <1>7, <1>8, <1>9 DEF ReleaseInv

LEMMA ReleaseEnded ==
  ASSUME TypeInv, ReleaseInv, NEW t, Ends(t), UNCHANGED <<active, current>>,
         worker' \in [Turns -> Stages],
         worker'[t] \in {"sealed", "over"} \/ <<t, "sealing">> \in stops'
  PROVE  ReleaseInv'
<1>1. HasAuthority(t, RunOf(t))
  BY DEF Ends, FinishTurn, FinishAdmitted, CancelTurn
<1>2. t \in Turns /\ t = current
  BY <1>1, Authority DEF ReleaseInv
<1>3. \A u \in Turns \ {t} : marker'[u] = marker[u]
  BY DEF Ends, FinishTurn, CancelTurn, FailUnknown, WriteMarker, TypeInv, TypeOK
<1>4. Active' \subseteq {current'}
  BY <1>2, <1>3 DEF Active, ReleaseInv
<1>5. Released'
  BY <1>2 DEF Released
<1>6. QED
  BY <1>4, <1>5 DEF ReleaseInv

LEMMA SendingReleases ==
  ASSUME TypeInv, OneActiveTurn, ReleaseInv, NEW q \in Requests, Sending(q)
  PROVE  ReleaseInv'
<1>1. CASE SendReads(q) \/ SendQueues(q) \/ SendRefused(q)
  <2>1. UNCHANGED <<marker, active, current, worker, stops>>
    BY <1>1 DEF SendReads, SendQueues, SendRefused, vars, journal, view, executions
  <2>2. QED
    BY <2>1, ReleaseKept DEF ReleaseInv, Released
<1>2. CASE SendAdmits(q)
  BY <1>2, ReleaseAdmitted DEF SendAdmits, Begin, Admits
<1>3. QED
  BY <1>1, <1>2 DEF Sending

LEMMA PromoteReleases ==
  ASSUME TypeInv, OneActiveTurn, ReleaseInv, NEW q, Promote(q)
  PROVE  ReleaseInv'
  BY ReleaseAdmitted DEF Promote, Promotable, Begin, Admits

LEMMA QueueingReleases ==
  ASSUME TypeInv, OneActiveTurn, ReleaseInv, NEW q \in Requests, Queueing(q)
  PROVE  ReleaseInv'
<1>1. CASE Promote(q)
  BY <1>1, PromoteReleases
<1>2. CASE ~Promote(q)
  <2>1. UNCHANGED <<marker, active, current, worker, stops>>
    BY <1>2 DEF Queueing, EditQueued, ReorderQueue, DeleteQueued, PromoteQueued, SteerQueued,
       SendQueuedNow, RequestSteering, vars, journal, view, executions
  <2>2. QED
    BY <2>1, ReleaseKept DEF ReleaseInv, Released
<1>3. QED
  BY <1>1, <1>2

LEMMA StageTyped ==
  ASSUME ReleaseInv, NEW t \in Turns, NEW stage \in Stages, Stage(t, stage)
  PROVE  worker' \in [Turns -> Stages] /\ \A u \in Turns : worker'[u] = IF u = t THEN stage ELSE worker[u]
  BY DEF Stage, ReleaseInv

LEMMA ExecutingReleases ==
  ASSUME TypeInv, ReleaseInv, NEW t \in Turns, Executing(t)
  PROVE  ReleaseInv'
<1> USE DEF executions, view
<1>1. CASE Apply(t)
  BY <1>1, ReleaseKept DEF Apply, ApplySteering, journal, ReleaseInv, Released
<1>2. CASE Seal(t)
  <2>1. UNCHANGED <<marker, active, current, stops>> /\ Stage(t, "sealed")
    BY <1>2 DEF Seal, vars, journal
  <2>2. active /\ Released => Released'
    BY <2>1, StageTyped DEF Released, ReleaseInv, Stages
  <2>3. QED
    BY <2>1, <2>2, StageTyped, ReleaseKept DEF ReleaseInv, Stages
<1>3. CASE Complete(t)
  <2>1. UNCHANGED <<active, current, stops>> /\ Stage(t, "over")
    BY <1>3 DEF Complete
  <2>2. worker' \in [Turns -> Stages] /\ worker'[t] = "over"
    BY <2>1, StageTyped DEF Stages
  <2>3. CASE Ends(t)
    BY <2>1, <2>2, <2>3, ReleaseEnded
  <2>4. CASE ~Ends(t)
    <3>1. marker' = marker
      BY <1>3, <2>4 DEF Complete, Ends, vars, journal
    <3>2. active /\ Released => Released'
      BY <2>1, StageTyped DEF Released, ReleaseInv, Stages
    <3>3. QED
      BY <2>1, <2>2, <3>1, <3>2, ReleaseKept DEF ReleaseInv
  <2>5. QED
    BY <2>3, <2>4
<1>4. CASE Fail(t)
  <2>1. UNCHANGED <<active, current, stops>> /\ Stage(t, "over") /\ Ends(t)
    BY <1>4 DEF Fail, Ends
  <2>2. worker' \in [Turns -> Stages] /\ worker'[t] = "over"
    BY <2>1, StageTyped DEF Stages
  <2>3. QED
    BY <2>1, <2>2, ReleaseEnded
<1>5. CASE Leave(t) \/ StartNextQueued(t)
  <2>1. /\ UNCHANGED <<marker, active, current, stops>> /\ Stage(t, "none")
        /\ worker[t] \in {"running", "completed"}
    BY <1>5 DEF Leave, StartNextQueued, vars, journal
  <2>2. active /\ Released => Released'
    BY <2>1, StageTyped DEF Released, ReleaseInv, Stages
  <2>3. QED
    BY <2>1, <2>2, StageTyped, ReleaseKept DEF ReleaseInv, Stages
<1>6. CASE FinishSend(t)
  <2>1. UNCHANGED <<marker, current, stops>> /\ (active' = active \/ active' = FALSE)
    BY <1>6 DEF FinishSend, Settle, vars, journal
  <2>2. worker' \in [Turns -> Stages] /\ \A u \in Turns \ {t} : worker'[u] = worker[u]
    BY <1>6 DEF FinishSend, Stage, ReleaseInv, Stages
  <2>3. active /\ Released => Released' \/ ~active'
    BY <1>6, <2>1, <2>2 DEF FinishSend, Settle, Released, ReleaseInv
  <2>4. active' \in BOOLEAN /\ (active' => active)
    <3>1. active \in BOOLEAN
      BY DEF ReleaseInv
    <3>2. CASE active' = FALSE
      BY <3>2
    <3>3. CASE active' = active
      BY <3>1, <3>3
    <3>4. QED
      BY <2>1, <3>2, <3>3
  <2>5. QED
    BY <2>1, <2>2, <2>3, <2>4, ReleaseKept DEF ReleaseInv
<1>7. CASE AutoFails(t)
  BY <1>7, ReleaseKept DEF AutoFails, vars, journal, ReleaseInv
<1>8. QED
  BY <1>1, <1>2, <1>3, <1>4, <1>5, <1>6, <1>7 DEF Executing

LEMMA CommitStopReleases ==
  ASSUME TypeInv, ReleaseInv, NEW t, CommitStop(t), UNCHANGED worker,
         <<t, "sealing">> \in stops'
  PROVE  ReleaseInv'
  BY ReleaseEnded DEF CommitStop, Ends, ReleaseInv

LEMMA StoppingReleases ==
  ASSUME TypeInv, ReleaseInv, NEW t \in Turns, Stopping(t)
  PROVE  ReleaseInv'
<1>1. CASE OwnerSettles(t)
  BY <1>1, CommitStopReleases DEF OwnerSettles, executions
<1>2. CASE OwnerLate(t)
  <2>1. UNCHANGED <<marker, active, current, worker>> /\ stops' = stops \ {<<t, "window">>}
    BY <1>2 DEF OwnerLate, vars, journal, view, executions
  <2>2. Released => Released'
    BY <2>1 DEF Released
  <2>3. QED
    BY <2>1, <2>2, ReleaseKept DEF ReleaseInv
<1>3. CASE FinishStop(t)
  <2>1. /\ UNCHANGED <<marker, current, worker>> /\ stops' = stops \ {<<t, "sealing">>}
        /\ (active' = active /\ (active => current # t)) \/ active' = FALSE
    BY <1>3 DEF FinishStop, Settle, vars, journal, view, executions, ReleaseInv
  <2>2. active /\ Released => Released' \/ ~active'
    BY <2>1 DEF Released
  <2>3. active' \in BOOLEAN /\ (active' => active)
    <3>1. active \in BOOLEAN
      BY DEF ReleaseInv
    <3>2. CASE active' = FALSE
      BY <3>2
    <3>3. CASE active' = active
      BY <3>1, <3>3
    <3>4. QED
      BY <2>1, <3>2, <3>3
  <2>4. QED
    BY <2>1, <2>2, <2>3, ReleaseKept DEF ReleaseInv
<1>4. QED
  BY <1>1, <1>2, <1>3 DEF Stopping

LEMMA RestartReleases ==
  ASSUME ReleaseInv, Restart
  PROVE  ReleaseInv'
<1>1. UNCHANGED <<marker, current>> /\ active' = (Active # {})
  BY DEF Restart, vars, journal
<1>2. worker' \in [Turns -> Stages]
  BY DEF Restart, Stage, executions, ReleaseInv, Stages
<1>3. active' => current \in Active
  BY <1>1 DEF ReleaseInv
<1>4. active' => current \in Turns /\ ~Terminal(current)'
  BY <1>1, <1>3 DEF Active, Terminal, ActiveStatus, TerminalStatus
<1>5. QED
  BY <1>1, <1>2, <1>4 DEF ReleaseInv, Active, Terminal

LEMMA HandoverReleases ==
  ASSUME TypeInv, OneActiveTurn, ReleaseInv, NEW q, NEW t,
         HandoverStops(q, t) \/ HandoverPromotes(q, t) \/ HandoverRefused(q, t)
  PROVE  ReleaseInv'
<1>1. CASE Promote(q)
  BY <1>1, PromoteReleases
<1>2. CASE ~Promote(q)
  <2>1. /\ UNCHANGED <<marker, active, current, worker>>
        /\ stops' = stops \/ stops' = stops \cup {<<t, "window">>}
    BY <1>2 DEF HandoverStops, HandoverPromotes, HandoverRefused, AcceptStop, RequestCancel,
       vars, journal, view, executions
  <2>2. Released => Released'
    BY <2>1 DEF Released
  <2>3. QED
    BY <2>1, <2>2, ReleaseKept DEF ReleaseInv
<1>3. QED
  BY <1>1, <1>2

LEMMA QueueStepReleases ==
  TypeInv /\ OneActiveTurn /\ ReleaseInv /\ [QueueNext]_queueVars => ReleaseInv'
<1> SUFFICES ASSUME TypeInv, OneActiveTurn, ReleaseInv, [QueueNext]_queueVars
             PROVE  ReleaseInv'
  OBVIOUS
<1>1. CASE UNCHANGED queueVars
  BY <1>1 DEF queueVars, vars, journal, view, executions, ReleaseInv, Active, Terminal, Released
<1>2. ASSUME NEW auto \in autos, AutoPromote(auto) \/ AutoRefused(auto)
      PROVE  ReleaseInv'
  <2>1. CASE Promote(auto.item)
    BY <2>1, PromoteReleases
  <2>2. CASE ~Promote(auto.item)
    <3>1. UNCHANGED <<marker, active, current, worker, stops>>
      BY <1>2, <2>2 DEF AutoPromote, AutoRefused, vars, journal, view, executions
    <3>2. QED
      BY <3>1, ReleaseKept DEF ReleaseInv, Released
  <2>3. QED
    BY <2>1, <2>2
<1>3. CASE RequestStop
  <2>1. /\ UNCHANGED <<marker, active, current, worker>>
        /\ stops' = stops \cup {<<current, "window">>}
    BY <1>3 DEF RequestStop, AcceptStop, RequestCancel, executions
  <2>2. Released => Released'
    BY <2>1 DEF Released
  <2>3. QED
    BY <2>1, <2>2, ReleaseKept DEF ReleaseInv
<1>4. CASE StopNow
  BY <1>4, CommitStopReleases DEF StopNow, executions
<1>5. CASE Crash
  <2>1. UNCHANGED <<marker, current>> /\ active' = FALSE /\ worker' = [t \in Turns |-> "none"]
    BY <1>5 DEF Crash, vars, journal
  <2>2. worker' \in [Turns -> Stages]
    BY <2>1 DEF Stages
  <2>3. QED
    BY <2>1, <2>2, ReleaseKept
<1>6. CASE Restart
  BY <1>6, RestartReleases
<1>7. QED
  BY <1>1, <1>2, <1>3, <1>4, <1>5, <1>6, SendingReleases, QueueingReleases, ExecutingReleases,
     StoppingReleases, HandoverReleases DEF QueueNext

\* Whoever ends a turn, an execution or a stop, still releases the actor.
THEOREM QueueEndsRelease == QueueSpec => []EndReleasesThread
<1>1. QueueInit => Init
  BY DEF QueueInit
<1>2. TypeInv /\ [QueueNext]_queueVars => [Next]_vars
  BY QueueTransacts, TransactsIsStep
<1>3. Init => OneActiveTurn
  BY DEF Init, OneActiveTurn, Active, ActiveStatus
<1>4. ReleaseInv => EndReleasesThread
  BY DEF ReleaseInv, Released, EndReleasesThread
<1>5. QED
  BY <1>1, <1>2, <1>3, <1>4, InitType, StepType, StepOneActive, InitReleases,
     QueueStepReleases, PTL DEF QueueSpec
-----------------------------------------------------------------------------
(* The queue as a sequence without repetitions.                             *)

NoRepeats(s) == \A i, j \in 1..Len(s) : s[i] = s[j] => i = j

LEMMA RemoveAtElements ==
  ASSUME NEW S, NEW s \in Seq(S), NEW i \in 1..Len(s)
  PROVE  /\ RemoveAt(s, i) \in Seq(S)
         /\ Len(RemoveAt(s, i)) = Len(s) - 1
         /\ \A k \in 1..(Len(s) - 1) :
              RemoveAt(s, i)[k] = IF k < i THEN s[k] ELSE s[k + 1]
<1> DEFINE a == SubSeq(s, 1, i - 1)
           b == SubSeq(s, i + 1, Len(s))
<1>1. a \in Seq(S) /\ Len(a) = i - 1 /\ \A k \in 1..(i - 1) : a[k] = s[k]
  OBVIOUS
<1>2. b \in Seq(S) /\ Len(b) = Len(s) - i /\ \A k \in 1..(Len(s) - i) : b[k] = s[i + k]
  OBVIOUS
<1>3. RemoveAt(s, i) = a \o b
  BY DEF RemoveAt
<1> HIDE DEF a, b
<1>4. a \o b \in Seq(S) /\ Len(a \o b) = Len(s) - 1
  <2>1. Len(a) + Len(b) = Len(s) - 1
    BY <1>1, <1>2
  <2>2. QED
    BY <1>1, <1>2, <2>1, ConcatProperties
<1>5. ASSUME NEW k \in 1..(Len(s) - 1), k < i
      PROVE  (a \o b)[k] = s[k]
  BY <1>1, <1>2, <1>5
<1>6. ASSUME NEW k \in 1..(Len(s) - 1), ~(k < i)
      PROVE  (a \o b)[k] = s[k + 1]
  <2>1. k - (i - 1) \in 1..(Len(s) - i) /\ i + (k - (i - 1)) = k + 1
    BY <1>6
  <2>2. (a \o b)[k] = b[k - (i - 1)]
    BY <1>1, <1>2, <1>6, <2>1
  <2>3. QED
    BY <1>2, <2>1, <2>2
<1>7. QED
  BY <1>3, <1>4, <1>5, <1>6

LEMMA RemoveOne ==
  ASSUME NEW S, NEW s \in Seq(S), NoRepeats(s), NEW i \in 1..Len(s)
  PROVE  /\ NoRepeats(RemoveAt(s, i))
         /\ \A e : Contains(RemoveAt(s, i), e) <=> Contains(s, e) /\ e # s[i]
<1> DEFINE r == RemoveAt(s, i)
<1>1. /\ r \in Seq(S) /\ Len(r) = Len(s) - 1 /\ Len(s) \in Nat
      /\ \A k \in 1..(Len(s) - 1) : r[k] = IF k < i THEN s[k] ELSE s[k + 1]
  BY RemoveAtElements
<1> HIDE DEF r
<1>2. NoRepeats(r)
  BY <1>1 DEF NoRepeats
<1>3. ASSUME NEW e, Contains(r, e)
      PROVE  Contains(s, e) /\ e # s[i]
  <2>1. PICK k \in 1..Len(r) : r[k] = e
    BY <1>3 DEF Contains
  <2>2. PICK j \in 1..Len(s) : j # i /\ s[j] = e
    <3>1. CASE k < i
      BY <1>1, <2>1, <3>1
    <3>2. CASE ~(k < i)
      <4>1. k + 1 \in 1..Len(s) /\ k + 1 # i /\ s[k + 1] = e
        BY <1>1, <2>1, <3>2
      <4>2. QED
        BY <4>1
    <3>3. QED
      BY <3>1, <3>2
  <2>3. QED
    BY <2>2 DEF Contains, NoRepeats
<1>4. ASSUME NEW e, Contains(s, e), e # s[i]
      PROVE  Contains(r, e)
  <2>1. PICK j \in 1..Len(s) : s[j] = e
    BY <1>4 DEF Contains
  <2>2. j # i
    BY <1>4, <2>1
  <2>3. CASE j < i
    <3>1. j \in 1..Len(r) /\ r[j] = e
      BY <1>1, <2>1, <2>3
    <3>2. QED
      BY <3>1 DEF Contains
  <2>4. CASE j > i
    <3>1. j - 1 \in 1..Len(r) /\ r[j - 1] = e
      BY <1>1, <2>1, <2>4
    <3>2. QED
      BY <3>1 DEF Contains
  <2>5. QED
    BY <1>1, <2>2, <2>3, <2>4
<1>5. QED
  BY <1>2, <1>3, <1>4 DEF r

LEMMA WithoutQueued ==
  ASSUME queue \in Seq(Requests), NoRepeats(queue), NEW q, Queued(q)
  PROVE  /\ Without(q) \in Seq(Requests) /\ NoRepeats(Without(q))
         /\ \A p : Contains(Without(q), p) <=> Queued(p) /\ p # q
<1> DEFINE i == CHOOSE i \in 1..Len(queue) : queue[i] = q
<1>1. i \in 1..Len(queue) /\ queue[i] = q
  BY DEF Queued, Contains
<1> HIDE DEF i
<1>2. Without(q) = RemoveAt(queue, i)
  BY DEF Without, i
<1>3. QED
  BY <1>1, <1>2, RemoveAtElements, RemoveOne DEF Queued

LEMMA Appended ==
  ASSUME NEW S, NEW s \in Seq(S), NoRepeats(s), NEW e \in S, ~Contains(s, e)
  PROVE  /\ Append(s, e) \in Seq(S) /\ NoRepeats(Append(s, e))
         /\ \A d : Contains(Append(s, e), d) <=> Contains(s, d) \/ d = e
  BY DEF NoRepeats, Contains

LEMMA Prepended ==
  ASSUME NEW S, NEW s \in Seq(S), NoRepeats(s), NEW e \in S, ~Contains(s, e)
  PROVE  /\ <<e>> \o s \in Seq(S) /\ NoRepeats(<<e>> \o s)
         /\ \A d : Contains(<<e>> \o s, d) <=> Contains(s, d) \/ d = e
<1> DEFINE r == <<e>> \o s
<1>1. /\ r \in Seq(S) /\ Len(r) = Len(s) + 1 /\ Len(s) \in Nat
      /\ r[1] = e /\ \A k \in 2..(Len(s) + 1) : r[k] = s[k - 1]
  OBVIOUS
<1> HIDE DEF r
<1>2. \A k \in 1..Len(r) : k = 1 \/ (k - 1 \in 1..Len(s) /\ r[k] = s[k - 1])
  <2>1. ASSUME NEW k \in 1..Len(r), k # 1
        PROVE  k - 1 \in 1..Len(s) /\ r[k] = s[k - 1]
    <3>1. k - 1 \in 1..Len(s) /\ k \in 2..(Len(s) + 1)
      BY <1>1, <2>1
    <3>2. QED
      BY <1>1, <3>1
  <2>2. QED
    BY <2>1
<1>3. \A k \in 1..Len(s) : k + 1 \in 1..Len(r) /\ r[k + 1] = s[k]
  BY <1>1
<1>4. \A k \in 1..Len(s) : s[k] # e
  BY DEF Contains
<1>5. NoRepeats(r)
  <2>1. ASSUME NEW i \in 1..Len(r), NEW j \in 1..Len(r), r[i] = r[j], i # 1, j # 1
        PROVE  i = j
    <3>1. s[i - 1] = s[j - 1] /\ i - 1 \in 1..Len(s) /\ j - 1 \in 1..Len(s)
      BY <1>2, <2>1
    <3>2. i - 1 = j - 1
      BY <3>1 DEF NoRepeats
    <3>3. QED
      BY <3>2
  <2>2. ASSUME NEW i \in 1..Len(r), i # 1
        PROVE  r[i] # r[1]
    BY <1>1, <1>2, <1>4, <2>2
  <2>3. QED
    BY <2>1, <2>2 DEF NoRepeats
<1>6. \A d : Contains(r, d) <=> Contains(s, d) \/ d = e
  <2>1. ASSUME NEW d, Contains(r, d)
        PROVE  Contains(s, d) \/ d = e
    BY <1>1, <1>2, <2>1 DEF Contains
  <2>2. ASSUME NEW d, Contains(s, d) \/ d = e
        PROVE  Contains(r, d)
    <3>1. CASE d = e
      <4>1. 1 \in 1..Len(r)
        BY <1>1
      <4>2. QED
        BY <1>1, <3>1, <4>1 DEF Contains
    <3>2. CASE Contains(s, d)
      BY <1>3, <3>2 DEF Contains
    <3>3. QED
      BY <2>2, <3>1, <3>2
  <2>3. QED
    BY <2>1, <2>2
<1>7. QED
  BY <1>1, <1>5, <1>6 DEF r
-----------------------------------------------------------------------------
(* Every accepted request is in exactly one place, and a turn runs the text *)
(* last shown.  The two depend on each other: an edit touches no text that  *)
(* a turn runs because the edited input is still queued.                    *)

OnePlace(q) ==
  /\ q \in sent <=> Queued(q) \/ q \in removed \/ TurnsOf(q) # {} \/ InstructionsOf(q) # {}
  /\ Queued(q) => q \notin removed /\ TurnsOf(q) = {} /\ InstructionsOf(q) = {}
  /\ q \in removed => TurnsOf(q) = {} /\ InstructionsOf(q) = {}
  /\ TurnsOf(q) # {} => InstructionsOf(q) = {}
  /\ \E t : TurnsOf(q) \subseteq {t}
  /\ \E t : InstructionsOf(q) \subseteq {t}

Prompts == {NoPrompt} \cup (Requests \X Nat)

PlacedInv ==
  /\ queue \in Seq(Requests) /\ NoRepeats(queue)
  /\ prompt \in [Turns -> Prompts] /\ text \in [Requests -> Nat]
  /\ \A t \in Turns : marker[t] = "none" => prompt[t] = NoPrompt
  /\ \A q \in Requests : OnePlace(q)
  /\ PromotedAsEdited

LEMMA PromptIsNoEmpty == \A q, v : <<q, v>> # NoPrompt
<1> TAKE q, v
<1>1. Len(<<q, v>>) = 2 /\ Len(<< >>) = 0
  OBVIOUS
<1>2. QED
  BY <1>1 DEF NoPrompt

LEMMA InitPlaced == QueueInit => PlacedInv
<1> SUFFICES ASSUME QueueInit PROVE PlacedInv
  OBVIOUS
<1>1. /\ queue = << >> /\ prompt = [t \in Turns |-> NoPrompt] /\ sent = {} /\ removed = {}
      /\ text = [q \in Requests |-> 0] /\ steer = [s \in Turns \X Steers |-> "none"]
  BY DEF QueueInit, Init
<1>2. queue \in Seq(Requests) /\ NoRepeats(queue) /\ \A q : ~Queued(q)
  BY <1>1 DEF NoRepeats, Queued, Contains
<1>3. \A q \in Requests : TurnsOf(q) = {} /\ InstructionsOf(q) = {}
  BY <1>1, QueueAssumption DEF TurnsOf, InstructionsOf
<1>4. \A q \in Requests : OnePlace(q)
  BY <1>1, <1>2, <1>3 DEF OnePlace
<1>5. QED
  BY <1>1, <1>2, <1>4 DEF PlacedInv, Prompts, PromotedAsEdited

\* A transaction unmarks no turn, and only an instruction leaves "none".
Kept ==
  /\ \A t \in Turns : marker'[t] = "none" => marker[t] = "none"
  /\ \A q \in Requests : InstructionsOf(q)' = InstructionsOf(q)

LEMMA SteersKept ==
  ASSUME NEW t, TypeInv, steer' = steer \/ SettleSteers(t) \/ Applies(t)
  PROVE  \A q \in Requests : InstructionsOf(q)' = InstructionsOf(q)
<1>1. \A u \in Turns, q \in Requests : <<u, q>> \in Turns \X Steers
  BY QueueAssumption
<1>2. DOMAIN steer = Turns \X Steers
  BY DEF TypeInv, TypeOK
<1>3. \A s \in Turns \X Steers : steer'[s] = "none" <=> steer[s] = "none"
  BY <1>2 DEF SettleSteers, Applies, ApplySteering
<1>4. QED
  BY <1>1, <1>3 DEF InstructionsOf

LEMMA MarkersKept ==
  ASSUME TypeInv, NEW t \in Turns, NEW status \in MarkerStatus \ {"none"},
         marker' = [marker EXCEPT ![t] = status]
  PROVE  \A u \in Turns : marker'[u] = "none" => marker[u] = "none"
  BY DEF TypeInv, TypeOK

LEMMA AdmissionKeeps == TypeInv /\ Admits => Kept
<1> SUFFICES ASSUME TypeInv, Admits PROVE Kept
  OBVIOUS
<1>1. steer' = steer /\ marker' = [marker EXCEPT ![NewTurn] = "started"]
  BY DEF Admits, AcceptTurn, items
<1>2. NewTurn \in Turns
  BY Minted DEF Admits
<1>3. QED
  BY <1>1, <1>2, SteersKept, MarkersKept DEF Kept, MarkerStatus, ActiveStatus

LEMMA UnchangedKeeps == TypeInv /\ UNCHANGED vars => Kept
  BY SteersKept DEF vars, journal, items, Kept

LEMMA TurnKeeps ==
  ASSUME NEW t, TypeInv, Applies(t) \/ Ends(t) \/ AsksToStop(t)
  PROVE  Kept
<1> USE DEF MarkerStatus, ActiveStatus, TerminalStatus
<1>1. CASE Applies(t)
  <2>1. marker' = marker
    BY <1>1 DEF Applies, ApplySteering, journal
  <2>2. QED
    BY <1>1, <2>1, SteersKept DEF Kept
<1>2. CASE Ends(t)
  <2>1. HasAuthority(t, RunOf(t))
    BY <1>2 DEF Ends, FinishTurn, FinishAdmitted, CancelTurn
  <2>2. t \in Turns
    BY <2>1, Authority
  <2>3. SettleSteers(t)
    BY <1>2 DEF Ends, FinishTurn, CancelTurn, FailUnknown
  <2>4. \E status \in MarkerStatus \ {"none"} : marker' = [marker EXCEPT ![t] = status]
    BY <1>2 DEF Ends, FinishTurn, CancelTurn, FailUnknown, WriteMarker
  <2>5. QED
    BY <2>2, <2>3, <2>4, SteersKept, MarkersKept DEF Kept
<1>3. CASE AsksToStop(t)
  <2>1. marker' = marker /\ steer' = steer
    BY <1>3 DEF AsksToStop, RequestCancel, items
  <2>2. QED
    BY <2>1, SteersKept DEF Kept
<1>4. QED
  BY <1>1, <1>2, <1>3

LEMMA PlaceKept ==
  ASSUME NEW p, OnePlace(p), Queued(p)' <=> Queued(p), p \in sent' <=> p \in sent,
         p \in removed' <=> p \in removed, TurnsOf(p)' = TurnsOf(p),
         InstructionsOf(p)' = InstructionsOf(p)
  PROVE  OnePlace(p)'
  BY DEF OnePlace

LEMMA PlaceUntouched ==
  ASSUME PlacedInv, Kept, NEW p \in Requests, prompt' = prompt, Queued(p)' <=> Queued(p),
         p \in sent' <=> p \in sent, p \in removed' <=> p \in removed
  PROVE  OnePlace(p)'
<1>1. OnePlace(p)
  BY DEF PlacedInv
<1>2. TurnsOf(p)' = TurnsOf(p)
  BY DEF TurnsOf
<1>3. InstructionsOf(p)' = InstructionsOf(p)
  BY DEF Kept
<1>4. QED
  BY <1>1, <1>2, <1>3, PlaceKept

\* What happens to the inputs in a step, and that each keeps the places.
LEMMA InputsUntouched ==
  ASSUME PlacedInv, Kept, UNCHANGED inputs
  PROVE  PlacedInv'
<1>1. ASSUME NEW q \in Requests
      PROVE  OnePlace(q)'
  <2>1. Queued(q)' <=> Queued(q)
    BY DEF Queued, inputs
  <2>2. QED
    BY <2>1, PlaceUntouched DEF inputs
<1>2. QED
  BY <1>1 DEF PlacedInv, Kept, PromotedAsEdited, inputs

LEMMA InputQueued ==
  ASSUME PlacedInv, Kept, NEW q \in Requests, q \notin sent,
         queue' = Append(queue, q), sent' = sent \cup {q}, UNCHANGED <<text, removed, prompt>>
  PROVE  PlacedInv'
<1>1. ~Queued(q) /\ q \notin removed /\ TurnsOf(q) = {} /\ InstructionsOf(q) = {}
  BY DEF PlacedInv, OnePlace
<1>2. /\ queue' \in Seq(Requests) /\ NoRepeats(queue)'
      /\ \A p : Contains(queue', p) <=> Contains(queue, p) \/ p = q
  BY <1>1, Appended DEF PlacedInv, Queued, NoRepeats
<1>3. ASSUME NEW p \in Requests, p # q
      PROVE  OnePlace(p)'
  <2>1. Queued(p)' <=> Queued(p)
    BY <1>2, <1>3 DEF Queued
  <2>2. QED
    BY <1>3, <2>1, PlaceUntouched
<1>4. OnePlace(q)'
  <2>1. Queued(q)' /\ q \in sent' /\ q \notin removed'
    BY <1>1, <1>2 DEF Queued
  <2>2. TurnsOf(q)' = {}
    BY <1>1 DEF TurnsOf
  <2>3. InstructionsOf(q)' = {}
    BY <1>1 DEF Kept
  <2>4. QED
    BY <2>1, <2>2, <2>3 DEF OnePlace
<1>5. QED
  BY <1>2, <1>3, <1>4 DEF PlacedInv, Kept, PromotedAsEdited

LEMMA InputEdited ==
  ASSUME PlacedInv, Kept, NEW q \in Requests, Queued(q),
         text' = [text EXCEPT ![q] = @ + 1], UNCHANGED <<queue, sent, removed, prompt>>
  PROVE  PlacedInv'
<1>1. TurnsOf(q) = {}
  BY DEF PlacedInv, OnePlace
<1>2. text' \in [Requests -> Nat] /\ \A p \in Requests \ {q} : text'[p] = text[p]
  BY DEF PlacedInv
<1>3. ASSUME NEW t \in Turns, prompt[t] # NoPrompt
      PROVE  prompt[t][1] \in Requests \ {q}
  BY <1>1, <1>3 DEF PlacedInv, Prompts, TurnsOf
<1>4. PromotedAsEdited'
  BY <1>2, <1>3 DEF PlacedInv, PromotedAsEdited
<1>5. ASSUME NEW p \in Requests
      PROVE  OnePlace(p)'
  <2>1. Queued(p)' <=> Queued(p)
    BY DEF Queued
  <2>2. QED
    BY <2>1, PlaceUntouched
<1>6. QED
  BY <1>2, <1>4, <1>5 DEF PlacedInv, Kept

LEMMA InputMoved ==
  ASSUME PlacedInv, Kept, NEW q \in Requests, Queued(q),
         queue' = <<q>> \o Without(q), UNCHANGED <<text, sent, removed, prompt>>
  PROVE  PlacedInv'
<1>1. /\ Without(q) \in Seq(Requests) /\ NoRepeats(Without(q))
      /\ \A p : Contains(Without(q), p) <=> Queued(p) /\ p # q
  BY WithoutQueued DEF PlacedInv
<1>2. /\ queue' \in Seq(Requests) /\ NoRepeats(queue')
      /\ \A p : Contains(queue', p) <=> Contains(Without(q), p) \/ p = q
  BY <1>1, Prepended
<1>3. NoRepeats(queue)'
  BY <1>2 DEF NoRepeats
<1>4. ASSUME NEW p \in Requests
      PROVE  OnePlace(p)'
  <2>1. Queued(p)' <=> Queued(p)
    BY <1>1, <1>2 DEF Queued
  <2>2. QED
    BY <2>1, PlaceUntouched
<1>5. QED
  BY <1>2, <1>3, <1>4 DEF PlacedInv, Kept, PromotedAsEdited

LEMMA Dequeued ==
  ASSUME PlacedInv, NEW q, Queued(q), queue' = Without(q)
  PROVE  /\ queue' \in Seq(Requests) /\ NoRepeats(queue)'
         /\ \A p : Contains(queue', p) <=> Contains(queue, p) /\ p # q
<1>1. /\ Without(q) \in Seq(Requests) /\ NoRepeats(Without(q))
      /\ \A p : Contains(Without(q), p) <=> Queued(p) /\ p # q
  BY WithoutQueued DEF PlacedInv
<1>2. QED
  BY <1>1 DEF NoRepeats, Queued

LEMMA InputDeleted ==
  ASSUME PlacedInv, Kept, NEW q \in Requests, Queued(q),
         queue' = Without(q), removed' = removed \cup {q}, UNCHANGED <<text, sent, prompt>>
  PROVE  PlacedInv'
<1>1. ASSUME NEW p \in Requests, p # q
      PROVE  OnePlace(p)'
  <2>1. Queued(p)' <=> Queued(p)
    BY <1>1, Dequeued DEF Queued
  <2>2. QED
    BY <1>1, <2>1, PlaceUntouched
<1>2. OnePlace(q)'
  <2>1. OnePlace(q)
    BY DEF PlacedInv
  <2>2. q \in sent' /\ q \in removed' /\ TurnsOf(q) = {} /\ InstructionsOf(q) = {}
    BY <2>1 DEF OnePlace
  <2>3. ~(Queued(q)')
    BY Dequeued DEF Queued
  <2>4. TurnsOf(q)' = {}
    BY <2>2 DEF TurnsOf
  <2>5. InstructionsOf(q)' = {}
    BY <2>2 DEF Kept
  <2>6. QED
    BY <2>2, <2>3, <2>4, <2>5 DEF OnePlace
<1>3. QED
  BY <1>1, <1>2, Dequeued DEF PlacedInv, Kept, PromotedAsEdited

LEMMA InputInstructs ==
  ASSUME TypeInv, PlacedInv, NEW q \in Requests, Queued(q), Instructs(q),
         queue' = Without(q), UNCHANGED <<text, sent, removed, prompt>>
  PROVE  PlacedInv'
<1>1. /\ marker' = marker /\ current \in Turns
      /\ steer' = [steer EXCEPT ![<<current, q>>] = "pending"]
  BY Authority DEF Instructs, RequestSteering, journal
<1>2. DOMAIN steer = Turns \X Requests
  BY QueueAssumption DEF TypeInv, TypeOK
<1>3. InstructionsOf(q)' = InstructionsOf(q) \cup {current}
  BY <1>1, <1>2 DEF InstructionsOf
<1>5. q \notin removed /\ q \in sent /\ TurnsOf(q) = {} /\ InstructionsOf(q) = {}
  BY DEF PlacedInv, OnePlace
<1>6. OnePlace(q)'
  <2>1. InstructionsOf(q)' = {current}
    BY <1>3, <1>5
  <2>2. TurnsOf(q)' = {}
    BY <1>5 DEF TurnsOf
  <2>3. ~(Queued(q)')
    BY Dequeued DEF Queued
  <2>4. QED
    BY <1>5, <2>1, <2>2, <2>3 DEF OnePlace
<1>7. ASSUME NEW p \in Requests, p # q
      PROVE  OnePlace(p)'
  <2>1. Queued(p)' <=> Queued(p)
    BY <1>7, Dequeued DEF Queued
  <2>2. OnePlace(p)
    BY DEF PlacedInv
  <2>3. TurnsOf(p)' = TurnsOf(p)
    BY DEF TurnsOf
  <2>4. InstructionsOf(p)' = InstructionsOf(p)
    BY <1>1, <1>2, <1>7 DEF InstructionsOf
  <2>5. QED
    BY <2>1, <2>2, <2>3, <2>4, PlaceKept
<1>8. QED
  BY <1>1, <1>6, <1>7, Dequeued DEF PlacedInv, PromotedAsEdited

LEMMA InputBegins ==
  ASSUME TypeInv, PlacedInv, Admits, NEW q \in Requests,
         prompt' = [prompt EXCEPT ![NewTurn] = <<q, text[q]>>],
         UNCHANGED <<text, removed>>,
         \/ Queued(q) /\ queue' = Without(q) /\ sent' = sent
         \/ q \notin sent /\ queue' = queue /\ sent' = sent \cup {q}
  PROVE  PlacedInv'
<1>1. PICK n \in Turns : n = NewTurn /\ marker[n] = "none" /\ marker' = [marker EXCEPT ![n] = "started"]
  BY Minted DEF Admits, AcceptTurn
<1>2. Kept
  BY AdmissionKeeps
<1>3. prompt[n] = NoPrompt /\ prompt' = [prompt EXCEPT ![n] = <<q, text[q]>>]
  BY <1>1 DEF PlacedInv
<1>4. /\ prompt' \in [Turns -> Prompts]
      /\ prompt'[n] = <<q, text[q]>> /\ \A t \in Turns \ {n} : prompt'[t] = prompt[t]
  <2>1. <<q, text[q]>> \in Prompts
    BY DEF PlacedInv, Prompts
  <2>2. QED
    BY <1>3, <2>1 DEF PlacedInv
<1>5. prompt'[n] # NoPrompt /\ prompt'[n][1] = q /\ prompt'[n][2] = text[q]
  BY <1>4, PromptIsNoEmpty
<1>6. TurnsOf(q)' = TurnsOf(q) \cup {n}
  BY <1>3, <1>4, <1>5 DEF TurnsOf
<1>7. TurnsOf(q) = {} /\ InstructionsOf(q) = {} /\ q \notin removed
  BY DEF PlacedInv, OnePlace
<1>8. /\ queue' \in Seq(Requests) /\ NoRepeats(queue)' /\ ~Contains(queue', q) /\ q \in sent'
      /\ \A p \in Requests \ {q} : /\ Contains(queue', p) <=> Contains(queue, p)
                                   /\ p \in sent' <=> p \in sent
  <2>1. CASE Queued(q) /\ queue' = Without(q) /\ sent' = sent
    BY <2>1, Dequeued DEF PlacedInv, OnePlace
  <2>2. CASE q \notin sent /\ queue' = queue /\ sent' = sent \cup {q}
    BY <2>2 DEF PlacedInv, OnePlace, Queued, NoRepeats
  <2>3. QED
    BY <2>1, <2>2
<1>9. OnePlace(q)'
  <2>1. TurnsOf(q)' = {n} /\ InstructionsOf(q)' = {}
    BY <1>2, <1>6, <1>7 DEF Kept
  <2>2. ~(Queued(q)')
    BY <1>8 DEF Queued
  <2>3. QED
    BY <1>7, <1>8, <2>1, <2>2 DEF OnePlace
<1>10. ASSUME NEW p \in Requests, p # q
       PROVE  OnePlace(p)'
  <2>1. Queued(p)' <=> Queued(p)
    BY <1>8, <1>10 DEF Queued
  <2>2. OnePlace(p)
    BY DEF PlacedInv
  <2>3. TurnsOf(p)' = TurnsOf(p)
    BY <1>3, <1>4, <1>5, <1>10 DEF TurnsOf
  <2>4. InstructionsOf(p)' = InstructionsOf(p)
    BY <1>2 DEF Kept
  <2>5. p \in sent' <=> p \in sent
    BY <1>8, <1>10
  <2>6. QED
    BY <2>1, <2>2, <2>3, <2>4, <2>5, PlaceKept
<1>11. PromotedAsEdited'
  BY <1>4, <1>5 DEF PlacedInv, PromotedAsEdited
<1>12. \A t \in Turns : marker'[t] = "none" => prompt'[t] = NoPrompt
  BY <1>1, <1>2, <1>4 DEF PlacedInv, Kept, TypeInv, TypeOK
<1>13. QED
  BY <1>4, <1>8, <1>9, <1>10, <1>11, <1>12 DEF PlacedInv

LEMMA SendingPlaces ==
  ASSUME TypeInv, PlacedInv, NEW q \in Requests, Sending(q)
  PROVE  PlacedInv'
<1>1. CASE SendReads(q) \/ SendRefused(q)
  BY <1>1, InputsUntouched, UnchangedKeeps DEF SendReads, SendRefused
<1>2. CASE SendQueues(q)
  BY <1>2, UnchangedKeeps, InputsUntouched, InputQueued DEF SendQueues
<1>3. CASE SendAdmits(q)
  <2>1. Admits /\ q \notin sent
    BY <1>3 DEF SendAdmits, Begin, Admits
  <2>2. /\ prompt' = [prompt EXCEPT ![NewTurn] = <<q, text[q]>>]
        /\ sent' = sent \cup {q} /\ UNCHANGED <<queue, text, removed>>
    BY <1>3 DEF SendAdmits, Begin
  <2>3. QED
    BY <2>1, <2>2, InputBegins
<1>4. QED
  BY <1>1, <1>2, <1>3 DEF Sending

LEMMA PromotePlaces ==
  ASSUME TypeInv, PlacedInv, NEW q, Promote(q)
  PROVE  PlacedInv'
<1>1. Admits /\ Queued(q)
  BY DEF Promote, Promotable, Begin, Admits
<1>2. /\ prompt' = [prompt EXCEPT ![NewTurn] = <<q, text[q]>>]
      /\ queue' = Without(q) /\ UNCHANGED <<text, sent, removed>>
  BY DEF Promote, Begin
<1>3. q \in Requests
  BY <1>1 DEF PlacedInv, Queued, Contains
<1>4. QED
  BY <1>1, <1>2, <1>3, InputBegins

LEMMA QueueingPlaces ==
  ASSUME TypeInv, PlacedInv, NEW q \in Requests, Queueing(q)
  PROVE  PlacedInv'
<1>1. CASE EditQueued(q)
  BY <1>1, UnchangedKeeps, InputEdited DEF EditQueued
<1>2. CASE ReorderQueue(q)
  BY <1>2, UnchangedKeeps, InputMoved DEF ReorderQueue
<1>3. CASE DeleteQueued(q)
  BY <1>3, UnchangedKeeps, InputDeleted DEF DeleteQueued
<1>4. CASE PromoteQueued(q)
  BY <1>4, PromotePlaces DEF PromoteQueued
<1>5. CASE SteerQueued(q)
  BY <1>5, PromotePlaces, InputInstructs DEF SteerQueued, Instructs
<1>6. CASE SendQueuedNow(q)
  BY <1>6, UnchangedKeeps, InputsUntouched DEF SendQueuedNow
<1>7. QED
  BY <1>1, <1>2, <1>3, <1>4, <1>5, <1>6 DEF Queueing

LEMMA ExecutingPlaces ==
  ASSUME TypeInv, PlacedInv, NEW t \in Turns, Executing(t)
  PROVE  PlacedInv'
<1>1. UNCHANGED inputs
  BY DEF Executing, Apply, Seal, Complete, Fail, Leave, FinishSend, StartNextQueued, AutoFails
<1>2. Applies(t) \/ Ends(t) \/ UNCHANGED vars
  BY DEF Executing, Apply, Seal, Complete, Fail, Leave, FinishSend, StartNextQueued, AutoFails,
     Applies, Ends
<1>3. QED
  BY <1>1, <1>2, TurnKeeps, UnchangedKeeps, InputsUntouched

LEMMA StoppingPlaces ==
  ASSUME TypeInv, PlacedInv, NEW t \in Turns, Stopping(t)
  PROVE  PlacedInv'
<1>1. UNCHANGED inputs
  BY DEF Stopping, OwnerSettles, OwnerLate, FinishStop
<1>2. Ends(t) \/ UNCHANGED vars
  BY DEF Stopping, OwnerSettles, OwnerLate, FinishStop, CommitStop, Ends
<1>3. QED
  BY <1>1, <1>2, TurnKeeps, UnchangedKeeps, InputsUntouched

LEMMA HandoverPlaces ==
  ASSUME TypeInv, PlacedInv, NEW q, NEW t,
         HandoverStops(q, t) \/ HandoverPromotes(q, t) \/ HandoverRefused(q, t)
  PROVE  PlacedInv'
<1>1. CASE Promote(q)
  BY <1>1, PromotePlaces
<1>2. CASE ~Promote(q)
  <2>1. UNCHANGED inputs /\ (AsksToStop(t) \/ UNCHANGED vars)
    BY <1>2 DEF HandoverStops, HandoverPromotes, HandoverRefused, AcceptStop, AsksToStop
  <2>2. QED
    BY <2>1, TurnKeeps, UnchangedKeeps, InputsUntouched
<1>3. QED
  BY <1>1, <1>2

LEMMA QueueStepPlaces == TypeInv /\ PlacedInv /\ [QueueNext]_queueVars => PlacedInv'
<1> SUFFICES ASSUME TypeInv, PlacedInv, [QueueNext]_queueVars PROVE PlacedInv'
  OBVIOUS
<1>1. CASE UNCHANGED queueVars
  BY <1>1, UnchangedKeeps, InputsUntouched DEF queueVars
<1>2. ASSUME NEW auto \in autos, AutoPromote(auto) \/ AutoRefused(auto)
      PROVE  PlacedInv'
  BY <1>2, PromotePlaces, UnchangedKeeps, InputsUntouched DEF AutoPromote, AutoRefused
<1>3. CASE RequestStop \/ StopNow \/ Crash \/ Restart
  <2>1. /\ UNCHANGED inputs
        /\ Ends(current) \/ AsksToStop(current) \/ UNCHANGED vars
    BY <1>3 DEF RequestStop, StopNow, Crash, Restart, AcceptStop, CommitStop, Ends, AsksToStop
  <2>2. QED
    BY <2>1, TurnKeeps, UnchangedKeeps, InputsUntouched
<1>4. QED
  BY <1>1, <1>2, <1>3, SendingPlaces, QueueingPlaces, ExecutingPlaces, StoppingPlaces,
     HandoverPlaces DEF QueueNext

LEMMA AtMostOne ==
  ASSUME NEW S, NEW x, S \subseteq {x}
  PROVE  Cardinality(S) = IF S = {} THEN 0 ELSE 1
<1>1. S = {} \/ S = {x}
  OBVIOUS
<1>2. QED
  BY <1>1, FS_EmptySet, FS_Singleton

LEMMA PlacesCounted == PlacedInv => RequestAccounted
<1> SUFFICES ASSUME PlacedInv, NEW q \in Requests
             PROVE  Cardinality({i \in 1..Len(queue) : queue[i] = q})
                      + Cardinality({q} \cap removed)
                      + Cardinality(InstructionsOf(q)) + Cardinality(TurnsOf(q))
                      = IF q \in sent THEN 1 ELSE 0
  BY DEF RequestAccounted
<1> DEFINE P == {i \in 1..Len(queue) : queue[i] = q}
<1>1. OnePlace(q)
  BY DEF PlacedInv
<1>2. Cardinality(P) = IF Queued(q) THEN 1 ELSE 0
  <2>1. P = {} <=> ~Queued(q)
    BY DEF Queued, Contains
  <2>2. \E x : P \subseteq {x}
    BY DEF PlacedInv, NoRepeats
  <2>3. QED
    BY <2>1, <2>2, AtMostOne
<1>3. Cardinality({q} \cap removed) = IF q \in removed THEN 1 ELSE 0
  <2>1. {q} \cap removed \subseteq {q} /\ ({q} \cap removed = {} <=> q \notin removed)
    OBVIOUS
  <2>2. QED
    BY <2>1, AtMostOne
<1>4. Cardinality(InstructionsOf(q)) = IF InstructionsOf(q) = {} THEN 0 ELSE 1
  BY <1>1, AtMostOne DEF OnePlace
<1>5. Cardinality(TurnsOf(q)) = IF TurnsOf(q) = {} THEN 0 ELSE 1
  BY <1>1, AtMostOne DEF OnePlace
<1> HIDE DEF P
<1>6. QED
  BY <1>1, <1>2, <1>3, <1>4, <1>5 DEF OnePlace, P

LEMMA QueueIsPlaced == QueueSpec => []PlacedInv
<1>1. QueueInit => Init
  BY DEF QueueInit
<1>2. TypeInv /\ [QueueNext]_queueVars => [Next]_vars
  BY QueueTransacts, TransactsIsStep
<1>3. QED
  BY <1>1, <1>2, InitType, StepType, InitPlaced, QueueStepPlaces, PTL DEF QueueSpec

\* A request that was accepted is queued, deleted, an instruction or a turn, and
\* only one of them once.
THEOREM QueueAccounts == QueueSpec => []RequestAccounted
  BY QueueIsPlaced, PlacesCounted, PTL

\* No turn runs a text that an accepted edit had replaced.
THEOREM QueuePromotesAsEdited == QueueSpec => []PromotedAsEdited
<1>1. PlacedInv => PromotedAsEdited
  BY DEF PlacedInv
<1>2. QED
  BY <1>1, QueueIsPlaced, PTL

-----------------------------------------------------------------------------
(* A step of a thread with works is a step of its queue, or the admission   *)
(* of a turn that no request asked for.                                     *)

Woken ==
  /\ Admits /\ UNCHANGED <<inputs, stops>>
  /\ active' = TRUE /\ current' = NewTurn /\ worker' = [worker EXCEPT ![NewTurn] = "running"]

LEMMA ExecutedIsQueueStep ==
  ASSUME NEW t \in Turns, Executed(t)
  PROVE  QueueNext
<1>1. Executing(t) \/ Stopping(t)
  BY DEF Executed, SealPrepared, EndShown, StopShown, PromotionFails, GoesOn, Executing, Stopping
<1>2. QED
  BY <1>1 DEF QueueNext

LEMMA QueuesIsQueueStep == Queues => QueueNext
  BY DEF Queues, QueueNext, Executing, Stopping

LEMMA WorkStep == [HostWorkNext]_hostWorkVars => [QueueNext]_queueVars \/ Woken
<1> SUFFICES ASSUME [HostWorkNext]_hostWorkVars PROVE [QueueNext]_queueVars \/ Woken
  OBVIOUS
<1>1. CASE UNCHANGED hostWorkVars
  BY <1>1 DEF hostWorkVars
<1>2. CASE Hosting
  BY <1>2 DEF Hosting, CompleteHostWork, BindHostWork, ObserveHostWork, AdmitHostWork, StopHostWork
<1>3. CASE Waking
  BY <1>3 DEF Waking, ReadWake, Continue, DropWake, Woken, Admits
<1>4. ASSUME NEW t \in Turns, Executed(t)
      PROVE  QueueNext
  BY <1>4, ExecutedIsQueueStep
<1>5. CASE LoseProcess \/ RestartThread
  BY <1>5 DEF LoseProcess, RestartThread, QueueNext
<1>6. CASE Queues
  BY <1>6, QueuesIsQueueStep
<1>7. QED
  BY <1>1, <1>2, <1>3, <1>4, <1>5, <1>6 DEF HostWorkNext

WorkInv == TypeInv /\ OneActiveTurn /\ ReleaseInv /\ PlacedInv

LEMMA InitWork == WorkInit => Init /\ WorkInv
<1> SUFFICES ASSUME WorkInit PROVE Init /\ WorkInv
  OBVIOUS
<1>1. QueueInit /\ Init
  BY DEF WorkInit, QueueInit
<1>2. OneActiveTurn
  BY <1>1 DEF Init, OneActiveTurn, Active, ActiveStatus
<1>3. QED
  BY <1>1, <1>2, InitType, InitReleases, InitPlaced DEF WorkInv

LEMMA StepWork == WorkInv /\ [HostWorkNext]_hostWorkVars => [Next]_vars /\ WorkInv'
<1> SUFFICES ASSUME WorkInv, [HostWorkNext]_hostWorkVars PROVE [Next]_vars /\ WorkInv'
  OBVIOUS
<1>1. [QueueNext]_queueVars \/ Woken
  BY WorkStep
<1>2. Transacts
  BY <1>1, QueueTransacts DEF Woken, Transacts
<1>3. [Next]_vars
  BY <1>2, TransactsIsStep DEF WorkInv
<1>4. TypeInv' /\ OneActiveTurn'
  BY <1>3, StepType, StepOneActive DEF WorkInv
<1>5. ReleaseInv'
  BY <1>1, QueueStepReleases, ReleaseAdmitted DEF WorkInv, Woken
<1>6. PlacedInv'
  BY <1>1, QueueStepPlaces, AdmissionKeeps, InputsUntouched DEF WorkInv, Woken
<1>7. QED
  BY <1>3, <1>4, <1>5, <1>6 DEF WorkInv

\* A thread with works is still a journal.
THEOREM WorksKeepTheJournal == HostWorkSpec => Spec
  BY InitWork, StepWork, PTL DEF HostWorkSpec, Spec

\* Whatever wakes the thread, a request is in one place and runs as last shown,
\* and the end of every turn, woken or sent, releases the thread.
THEOREM WorksKeepTheQueue ==
  HostWorkSpec => []RequestAccounted /\ []PromotedAsEdited /\ []EndReleasesThread
<1>1. WorkInv => RequestAccounted
  BY PlacesCounted DEF WorkInv
<1>2. WorkInv => PromotedAsEdited
  BY DEF WorkInv, PlacedInv
<1>3. WorkInv => EndReleasesThread
  BY DEF WorkInv, ReleaseInv, Released, EndReleasesThread
<1>4. QED
  BY InitWork, StepWork, <1>1, <1>2, <1>3, PTL DEF HostWorkSpec
-----------------------------------------------------------------------------
(* Works wake the thread.  A wake that finds the thread busy or its key     *)
(* outdated is dropped, so the invariant says which wake is still of use    *)
(* while the thread rests and a work waits: one that has still to look, or  *)
(* one whose work is still the first.  That the latter is not refused needs *)
(* that a work whose key started a turn was shown to the model by the time  *)
(* a turn completed, and that in turn that a completed turn had prepared a  *)
(* request.                                                                 *)

Rests == up /\ natural /\ ~active /\ queue = << >> /\ removed = {}
Wanted == \E w \in Works : WakesFirst(w)

\* A wake that has still to look, or that found the work that is still first.
Useful == \E wake \in wakes : wake[2] = "asked" \/ (wake[2] \in Works /\ WakesFirst(wake[2]))

SpentAdmitted == \A w \in Works : Spent(w) => w \in admitted

ExecutionsInv ==
  /\ \A t \in Turns : marker[t] = "none" => t \notin prepared
  /\ \A t \in Turns : worker[t] = "sealed" => t \in prepared
  /\ \A t \in Turns : worker[t] = "over" /\ marker[t] = "completed" => t \in prepared
  /\ \A t \in Turns : worker[t] = "running" => Writable(t) \/ cancelled[t]

SpentInv ==
  /\ works \in Seq(Works) /\ fact \in [Works -> Facts]
  /\ continues \in [Turns -> Works \cup {NoWork}]
  /\ \A w \in Works : Spent(w) => fact[w] \notin {"none", "bound"}
  /\ current \in prepared => SpentAdmitted
  /\ natural /\ ~active => Active = {} /\ SpentAdmitted

\* Nothing of a lost process goes on.
DownInv ==
  ~up => /\ natural = FALSE /\ sends = {} /\ autos = {} /\ handovers = {} /\ wakes = {}
         /\ \A t \in Turns : worker[t] = "none"

WakeInv ==
  /\ ExecutionsInv /\ SpentInv
  /\ Rests /\ Wanted => Useful \/ worker[current] = "completed"

LEMMA InitWakes == WorkInit => WakeInv /\ DownInv
<1> SUFFICES ASSUME WorkInit PROVE WakeInv /\ DownInv
  OBVIOUS
<1>1. /\ prepared = {} /\ natural = FALSE /\ worker = [t \in Turns |-> "none"] /\ up = TRUE
      /\ continues = [t \in Turns |-> NoWork] /\ fact = [w \in Works |-> "none"]
      /\ works = << >>
  BY DEF WorkInit, QueueInit
<1>2. ExecutionsInv
  BY <1>1 DEF ExecutionsInv
<1>3. \A w \in Works : ~Spent(w)
  BY <1>1, WorkAssumption DEF Spent
<1>4. SpentInv
  BY <1>1, <1>3 DEF SpentInv, SpentAdmitted, Facts
<1>5. ~Rests
  BY <1>1 DEF Rests
<1>6. DownInv
  BY <1>1 DEF DownInv
<1>7. QED
  BY <1>2, <1>4, <1>5, <1>6 DEF WakeInv

\* An admission: the thread is busy, and its turn has prepared nothing.
LEMMA WakeAdmitted ==
  ASSUME WorkInv, WakeInv, Admits,
         active' = TRUE, current' = NewTurn, worker' = [worker EXCEPT ![NewTurn] = "running"],
         UNCHANGED <<up, works, fact, admitted, prepared, natural>>,
         \/ continues' = continues
         \/ \E w \in Works : /\ fact[w] = "notify"
                             /\ continues' = [continues EXCEPT ![NewTurn] = w]
  PROVE  WakeInv'
<1>1. PICK n \in Turns : n = NewTurn
  BY Minted DEF Admits
<1>2. /\ marker[n] = "none" /\ marker' = [marker EXCEPT ![n] = "started"]
      /\ cancelled' = cancelled
  BY <1>1, Minted DEF Admits, AcceptTurn
<1>3. marker'[n] = "started" /\ \A t \in Turns \ {n} : marker'[t] = marker[t]
  BY <1>2 DEF WorkInv, TypeInv, TypeOK
<1>4. worker'[n] = "running" /\ \A t \in Turns \ {n} : worker'[t] = worker[t]
  BY <1>1 DEF WorkInv, ReleaseInv
<1>5. ExecutionsInv'
  <2>1. ASSUME NEW t \in Turns
        PROVE  /\ marker'[t] = "none" => t \notin prepared
               /\ worker'[t] = "sealed" => t \in prepared
               /\ worker'[t] = "over" /\ marker'[t] = "completed" => t \in prepared
               /\ worker'[t] = "running" => marker'[t] \in ActiveStatus \/ cancelled[t]
    BY <1>3, <1>4 DEF WakeInv, ExecutionsInv, ActiveStatus, Writable
  <2>2. QED
    BY <1>2, <2>1 DEF ExecutionsInv, Writable
<1>6. continues' \in [Turns -> Works \cup {NoWork}]
  BY <1>1 DEF WakeInv, SpentInv
<1>7. ASSUME NEW w \in Works, Spent(w)'
      PROVE  fact[w] \notin {"none", "bound"}
  <2>1. CASE continues' = continues
    BY <1>7, <2>1 DEF WakeInv, SpentInv, Spent
  <2>2. ASSUME NEW v \in Works, fact[v] = "notify", continues' = [continues EXCEPT ![NewTurn] = v]
        PROVE  fact[w] \notin {"none", "bound"}
    <3>1. CASE w = v
      BY <2>2, <3>1
    <3>2. CASE w # v
      <4>1. PICK t \in Turns : continues'[t] = w
        BY <1>7 DEF Spent
      <4>2. continues[t] = w
        BY <1>1, <2>2, <3>2, <4>1 DEF WakeInv, SpentInv
      <4>3. QED
        BY <4>2 DEF WakeInv, SpentInv, Spent
    <3>3. QED
      BY <3>1, <3>2
  <2>3. QED
    BY <2>1, <2>2
<1>8. current' \notin prepared
  BY <1>1, <1>2 DEF WakeInv, ExecutionsInv
<1>9. SpentInv'
  BY <1>6, <1>7, <1>8 DEF SpentInv, WakeInv
<1>10. QED
  BY <1>5, <1>9 DEF WakeInv, Rests

\* The end of a turn is the end of the current one, and the thread is not idle
\* by itself before it is shown.
LEMMA WakeEnded ==
  ASSUME WorkInv, WakeInv, NEW t, Ends(t),
         UNCHANGED <<active, current, up, works, fact, admitted, continues, prepared, natural>>,
         worker' \in [Turns -> Stages], \A u \in Turns \ {t} : worker'[u] = worker[u],
         \/ CancelTurn(t, RunOf(t)) /\ worker'[t] = worker[t]
         \/ worker'[t] = "over" /\ (marker'[t] = "completed" => t \in prepared)
  PROVE  WakeInv'
<1>1. HasAuthority(t, RunOf(t))
  BY DEF Ends, FinishTurn, FinishAdmitted, CancelTurn
<1>2. t \in Turns /\ t \in Active
  BY <1>1, Authority DEF WorkInv
<1>3. \A u \in Turns \ {t} : marker'[u] = marker[u] /\ cancelled'[u] = cancelled[u]
  BY DEF Ends, FinishTurn, CancelTurn, FailUnknown, WriteMarker, WorkInv, TypeInv, TypeOK
<1>4. marker'[t] # "none" /\ (CancelTurn(t, RunOf(t)) => cancelled'[t] /\ marker'[t] # "completed")
  BY <1>2 DEF Ends, FinishTurn, CancelTurn, FailUnknown, WriteMarker, WorkInv, TypeInv, TypeOK
<1>5. ExecutionsInv'
  <2>1. ASSUME NEW u \in Turns, u # t
        PROVE  /\ marker'[u] = "none" => u \notin prepared
               /\ worker'[u] = "sealed" => u \in prepared
               /\ worker'[u] = "over" /\ marker'[u] = "completed" => u \in prepared
               /\ worker'[u] = "running" => marker'[u] \in ActiveStatus \/ cancelled'[u]
    BY <1>3, <2>1 DEF WakeInv, ExecutionsInv, Writable
  <2>2. /\ marker'[t] = "none" => t \notin prepared
        /\ worker'[t] = "sealed" => t \in prepared
        /\ worker'[t] = "over" /\ marker'[t] = "completed" => t \in prepared
        /\ worker'[t] = "running" => marker'[t] \in ActiveStatus \/ cancelled'[t]
    BY <1>2, <1>4 DEF WakeInv, ExecutionsInv
  <2>3. QED
    BY <2>1, <2>2 DEF ExecutionsInv, Writable
<1>6. ~(natural /\ ~active)
  BY <1>2 DEF WakeInv, SpentInv
<1>7. SpentInv'
  BY <1>6 DEF WakeInv, SpentInv, Spent, SpentAdmitted
<1>8. QED
  BY <1>5, <1>6, <1>7 DEF WakeInv, Rests

\* What a step leaves of the reasons to wake the thread.
Unmoved ==
  /\ UNCHANGED <<up, marker, current, journalOfWorks, wakes, prepared>>
  /\ \A t \in Turns : cancelled[t] => cancelled'[t]
  /\ Active # {} \/ cancelled' = cancelled
  /\ natural' /\ ~active' => natural /\ ~active
  /\ active' \/ (queue' = << >> /\ removed' = {} => queue = << >> /\ removed = {})

LEMMA UnmovedWakes ==
  ASSUME WorkInv, WakeInv, Unmoved, ExecutionsInv',
         worker[current] = "completed" => worker'[current] = "completed"
  PROVE  WakeInv'
<1>1. Active' = Active
  BY DEF Unmoved, Active
<1>2. SpentInv'
  BY <1>1 DEF Unmoved, journalOfWorks, WakeInv, SpentInv, SpentAdmitted, Spent
<1>3. ASSUME Rests', Wanted'
      PROVE  Useful' \/ worker'[current'] = "completed"
  <2>1. Rests
    BY <1>3 DEF Rests, Unmoved
  <2>2. Active = {} /\ cancelled' = cancelled
    BY <1>1, <1>3 DEF Wanted, WakesFirst, Unmoved
  <2>3. \A w : WakesFirst(w)' = WakesFirst(w)
    BY <1>1, <2>2 DEF WakesFirst, MayWake, Stopped, Unmoved, journalOfWorks
  <2>4. Wanted /\ (Useful => Useful')
    BY <1>3, <2>3 DEF Wanted, Useful, Unmoved
  <2>5. QED
    BY <2>1, <2>4 DEF WakeInv, Unmoved
<1>4. QED
  BY <1>2, <1>3 DEF WakeInv

LEMMA ExecutionsStaged ==
  ASSUME WorkInv, ExecutionsInv, NEW t \in Turns, NEW stage \in Stages, Stage(t, stage),
         UNCHANGED <<marker, cancelled, prepared>>,
         stage = "sealed" => t \in prepared,
         stage = "over" /\ marker[t] = "completed" => t \in prepared, stage # "running"
  PROVE  ExecutionsInv'
<1>1. worker'[t] = stage /\ \A u \in Turns \ {t} : worker'[u] = worker[u]
  BY StageTyped DEF WorkInv
<1>2. QED
  BY <1>1 DEF ExecutionsInv, Writable

LEMMA ExecutionsKept ==
  ASSUME ExecutionsInv, UNCHANGED <<marker, worker, prepared>>,
         \A t \in Turns : cancelled[t] => cancelled'[t]
  PROVE  ExecutionsInv'
  BY DEF ExecutionsInv, Writable

\* The request to stop comes while its turn has not ended.
LEMMA CancelAsked ==
  ASSUME WorkInv, NEW t, AsksToStop(t)
  PROVE  /\ UNCHANGED marker /\ \A u \in Turns : cancelled[u] => cancelled'[u]
         /\ Active # {}
<1>1. UNCHANGED marker /\ HasAuthority(t, RunOf(t)) /\ cancelled' = [cancelled EXCEPT ![t] = TRUE]
  BY DEF AsksToStop, RequestCancel
<1>2. t \in Active
  BY <1>1, Authority DEF WorkInv
<1>3. \A u \in Turns : cancelled[u] => cancelled'[u]
  BY <1>1 DEF WorkInv, TypeInv, TypeOK
<1>4. QED
  BY <1>1, <1>2, <1>3

\* A step that leaves turns, executions, works and the view as they are, or
\* that asks a turn to stop.
LEMMA WakeBeside ==
  ASSUME WorkInv, WakeInv, UNCHANGED workVars,
         UNCHANGED <<up, active, current, worker, before>>,
         UNCHANGED vars \/ (\E t : AsksToStop(t)) \/ UNCHANGED <<marker, cancelled>>,
         active \/ (queue' = << >> /\ removed' = {} => queue = << >> /\ removed = {})
  PROVE  WakeInv'
<1>1. /\ UNCHANGED marker /\ \A u \in Turns : cancelled[u] => cancelled'[u]
      /\ Active # {} \/ cancelled' = cancelled
  BY CancelAsked DEF vars, journal
<1>2. ExecutionsInv'
  BY <1>1, ExecutionsKept DEF WakeInv, workVars
<1>3. Unmoved
  BY <1>1 DEF Unmoved, workVars
<1>4. QED
  BY <1>2, <1>3, UnmovedWakes DEF WakeInv, workVars

LEMMA SendingWakes ==
  ASSUME WorkInv, WakeInv, UNCHANGED workVars, NEW q \in Requests, Sending(q)
  PROVE  WakeInv'
<1>1. CASE SendReads(q) \/ SendRefused(q)
  BY <1>1, WakeBeside DEF SendReads, SendRefused, process, view, executions, inputs
<1>2. CASE SendQueues(q)
  <2>1. UNCHANGED <<vars, process, view, executions>> /\ removed' = removed
    BY <1>2 DEF SendQueues, inputs
  <2>2. queue' = << >> => queue = << >>
    <3>1. CASE queue' = queue
      BY <3>1
    <3>2. CASE queue' = Append(queue, q)
      <4>1. queue \in Seq(Requests)
        BY DEF WorkInv, PlacedInv
      <4>2. Len(queue') = Len(queue) + 1 /\ Len(queue) \in Nat /\ Len(<< >>) = 0
        BY <3>2, <4>1
      <4>3. QED
        BY <4>2
    <3>3. QED
      BY <1>2, <3>1, <3>2 DEF SendQueues, inputs
  <2>3. QED
    BY <2>1, <2>2, WakeBeside DEF process, view, executions
<1>3. CASE SendAdmits(q)
  BY <1>3, WakeAdmitted DEF SendAdmits, Begin, Admits, process, workVars, journalOfWorks
<1>4. QED
  BY <1>1, <1>2, <1>3 DEF Sending

LEMMA PromoteWakes ==
  ASSUME WorkInv, WakeInv, UNCHANGED workVars, UNCHANGED process, NEW q, Promote(q)
  PROVE  WakeInv'
  BY WakeAdmitted DEF Promote, Promotable, Begin, Admits, process, workVars, journalOfWorks

LEMMA QueueingWakes ==
  ASSUME WorkInv, WakeInv, UNCHANGED workVars, NEW q \in Requests, Queueing(q)
  PROVE  WakeInv'
<1> USE DEF process, view, executions, inputs
<1>1. CASE EditQueued(q) \/ SendQueuedNow(q)
  BY <1>1, WakeBeside DEF EditQueued, SendQueuedNow
<1>2. CASE ReorderQueue(q)
  <2>1. UNCHANGED <<vars, process, view, executions>> /\ Queued(q)
    BY <1>2 DEF ReorderQueue
  <2>2. queue # << >>
    BY <2>1 DEF Queued, Contains
  <2>3. queue' = <<q>> \o Without(q)
    BY <1>2 DEF ReorderQueue
  <2>4. queue' # << >>
    <3>1. Without(q) \in Seq(Requests)
      BY <2>1, WithoutQueued DEF WorkInv, PlacedInv
    <3>2. QED
      BY <2>3, <3>1
  <2>5. QED
    BY <2>1, <2>4, WakeBeside
<1>3. CASE DeleteQueued(q)
  <2>1. UNCHANGED <<vars, process, view, executions>> /\ removed' # {}
    BY <1>3 DEF DeleteQueued
  <2>2. QED
    BY <2>1, WakeBeside
<1>4. CASE PromoteQueued(q)
  BY <1>4, PromoteWakes DEF PromoteQueued
<1>5. CASE SteerQueued(q)
  <2>1. UNCHANGED process
    BY <1>5 DEF SteerQueued
  <2>2. CASE Promote(q)
    BY <2>1, <2>2, PromoteWakes
  <2>3. CASE ~Promote(q)
    <3>1. active /\ RequestSteering(current, RunOf(current), q) /\ UNCHANGED <<view, executions>>
      BY <1>5, <2>3 DEF SteerQueued
    <3>2. UNCHANGED <<marker, cancelled>>
      BY <3>1 DEF RequestSteering, journal
    <3>3. QED
      BY <2>1, <3>1, <3>2, WakeBeside
  <2>4. QED
    BY <2>2, <2>3
<1>6. QED
  BY <1>1, <1>2, <1>3, <1>4, <1>5 DEF Queueing

LEMMA StagedWakes ==
  ASSUME WorkInv, WakeInv, UNCHANGED <<up, vars, inputs, current, journalOfWorks, prepared, wakes>>,
         NEW t \in Turns, NEW stage \in Stages, Stage(t, stage), worker[t] # "completed",
         stage = "sealed" => t \in prepared,
         stage = "over" /\ marker[t] = "completed" => t \in prepared, stage # "running",
         natural' /\ ~active' => natural /\ ~active
  PROVE  WakeInv'
<1>1. ExecutionsInv'
  BY ExecutionsStaged DEF WakeInv, vars, journal
<1>2. Unmoved
  BY DEF Unmoved, vars, journal, inputs
<1>3. worker[current] = "completed" => worker'[current] = "completed"
  BY DEF Stage, WorkInv, ReleaseInv
<1>4. QED
  BY <1>1, <1>2, <1>3, UnmovedWakes

LEMMA QueueExecutingWakes ==
  ASSUME WorkInv, WakeInv, UNCHANGED workVars, NEW t \in Turns,
         Apply(t) \/ Complete(t) \/ Fail(t) \/ Leave(t)
  PROVE  WakeInv'
<1> USE DEF workVars, process, view
<1>1. CASE Apply(t)
  <2>1. UNCHANGED <<marker, cancelled, process, inputs, view, executions>>
    BY <1>1 DEF Apply, ApplySteering, journal
  <2>2. QED
    BY <2>1, WakeBeside DEF inputs, executions
<1>2. CASE Complete(t)
  <2>1. Stage(t, "over") /\ UNCHANGED <<process, inputs, view>> /\ t \in prepared
    BY <1>2 DEF Complete, WakeInv, ExecutionsInv
  <2>2. CASE UNCHANGED vars
    BY <1>2, <2>1, <2>2, StagedWakes DEF Complete, Stages, WakeInv
  <2>3. CASE ~UNCHANGED vars
    <3>1. Ends(t)
      BY <1>2, <2>3 DEF Complete, Ends
    <3>2. worker' \in [Turns -> Stages] /\ worker'[t] = "over" /\ \A u \in Turns \ {t} : worker'[u] = worker[u]
      BY <2>1, StageTyped DEF WorkInv, Stages
    <3>3. QED
      BY <2>1, <3>1, <3>2, WakeEnded DEF journalOfWorks
  <2>4. QED
    BY <2>2, <2>3
<1>3. CASE Fail(t)
  <2>1. Stage(t, "over") /\ UNCHANGED <<process, inputs, view>> /\ Ends(t)
    BY <1>3 DEF Fail, Ends
  <2>2. marker'[t] # "completed"
    BY <1>3 DEF Fail, FinishTurn, WriteMarker, WorkInv, TypeInv, TypeOK
  <2>3. worker' \in [Turns -> Stages] /\ worker'[t] = "over" /\ \A u \in Turns \ {t} : worker'[u] = worker[u]
    BY <2>1, StageTyped DEF WorkInv, Stages
  <2>4. QED
    BY <2>1, <2>2, <2>3, WakeEnded DEF journalOfWorks
<1>4. CASE Leave(t)
  BY <1>4, StagedWakes DEF Leave, Stages, WakeInv
<1>5. QED
  BY <1>1, <1>2, <1>3, <1>4

LEMMA CommitStopWakes ==
  ASSUME WorkInv, WakeInv, UNCHANGED workVars, UNCHANGED <<process, executions>>,
         NEW t, CommitStop(t)
  PROVE  WakeInv'
<1>1. Ends(t) /\ CancelTurn(t, RunOf(t)) /\ UNCHANGED <<active, current>>
  BY DEF CommitStop, Ends
<1>2. UNCHANGED <<up, works, fact, admitted, continues, prepared, natural, worker>>
  BY DEF workVars, journalOfWorks, process, executions
<1>3. worker \in [Turns -> Stages]
  BY DEF WorkInv, ReleaseInv
<1>4. QED
  BY <1>1, <1>2, <1>3, WakeEnded

LEMMA QueueStoppingWakes ==
  ASSUME WorkInv, WakeInv, UNCHANGED workVars, NEW t \in Turns, OwnerSettles(t) \/ OwnerLate(t)
  PROVE  WakeInv'
<1>1. CASE OwnerSettles(t)
  BY <1>1, CommitStopWakes DEF OwnerSettles
<1>2. CASE OwnerLate(t)
  BY <1>2, WakeBeside DEF OwnerLate, process, inputs, view, executions
<1>3. QED
  BY <1>1, <1>2

LEMMA HandoverWakes ==
  ASSUME WorkInv, WakeInv, UNCHANGED workVars, NEW q, NEW t,
         HandoverStops(q, t) \/ HandoverPromotes(q, t) \/ HandoverRefused(q, t)
  PROVE  WakeInv'
<1>1. UNCHANGED process
  BY DEF HandoverStops, HandoverPromotes, HandoverRefused
<1>2. CASE Promote(q)
  BY <1>1, <1>2, PromoteWakes
<1>3. CASE ~Promote(q)
  <2>1. UNCHANGED <<inputs, active, current, executions>> /\ (AsksToStop(t) \/ UNCHANGED vars)
    BY <1>3 DEF HandoverStops, HandoverPromotes, HandoverRefused, AcceptStop, AsksToStop, view
  <2>2. QED
    BY <1>1, <2>1, WakeBeside DEF process, inputs, executions
<1>4. QED
  BY <1>2, <1>3

LEMMA QueuesWakes ==
  ASSUME WorkInv, WakeInv, Queues, UNCHANGED workVars
  PROVE  WakeInv'
<1>1. ASSUME NEW auto \in autos, AutoPromote(auto)
      PROVE  WakeInv'
  BY <1>1, PromoteWakes DEF AutoPromote
<1>2. ASSUME NEW auto \in autos, AutoRefused(auto)
      PROVE  WakeInv'
  BY <1>2, WakeBeside DEF AutoRefused, process, inputs, view, executions
<1>3. CASE RequestStop
  <2>1. AsksToStop(current) /\ UNCHANGED <<process, inputs, executions, active, current>>
    BY <1>3 DEF RequestStop, AcceptStop, AsksToStop
  <2>2. QED
    BY <2>1, WakeBeside DEF process, inputs, executions
<1>4. CASE StopNow
  BY <1>4, CommitStopWakes DEF StopNow
<1>5. QED
  BY <1>1, <1>2, <1>3, <1>4, SendingWakes, QueueingWakes, QueueExecutingWakes,
     QueueStoppingWakes, HandoverWakes DEF Queues


LEMMA AskedIsUseful ==
  ASSUME NEW cause, Wake(cause), UNCHANGED works, Wanted'
  PROVE  Useful'
<1>1. works # << >>
  BY DEF Wanted, WakesFirst
<1>2. <<cause, "asked">> \in wakes'
  BY <1>1 DEF Wake
<1>3. QED
  BY <1>2 DEF Useful

-----------------------------------------------------------------------------
LEMMA ExecutedWakes ==
  ASSUME WorkInv, WakeInv, NEW t \in Turns, Executed(t)
  PROVE  WakeInv'
<1> USE DEF view, process
<1>1. CASE SealPrepared(t)
  <2>1. /\ Stage(t, "sealed") /\ worker[t] = "running" /\ t \in prepared
        /\ UNCHANGED <<vars, process, inputs, view, workVars>>
    BY <1>1 DEF SealPrepared, Seal, MayRun
  <2>2. QED
    BY <2>1, StagedWakes DEF Stages, WakeInv, workVars
<1>2. CASE EndShown(t)
  <2>1. PICK stage \in {"none", "completed"} : Stage(t, stage)
    BY <1>2 DEF EndShown, FinishSend
  <2>2. /\ worker[t] = "over" /\ UNCHANGED <<vars, up, inputs, current, journalOfWorks, wakes, prepared>>
        /\ worker' \in [Turns -> Stages] /\ worker'[t] = stage
    BY <1>2, <2>1, StageTyped DEF EndShown, FinishSend, Settle, Stages, WorkInv
  <2>3. CASE active /\ current = t /\ stage = "completed"
    <3>1. t \in prepared /\ SpentAdmitted /\ Active = {}
      <4>1. marker[t] = "completed"
        BY <1>2, <2>2, <2>3 DEF EndShown, FinishSend, Stage, WorkInv, ReleaseInv
      <4>2. t \in prepared /\ SpentAdmitted
        BY <2>2, <2>3, <4>1 DEF WakeInv, ExecutionsInv, SpentInv
      <4>3. Active = {}
        BY <2>3, <4>1 DEF Active, ActiveStatus, WorkInv, ReleaseInv
      <4>4. QED
        BY <4>2, <4>3
    <3>2. ExecutionsInv'
      BY <2>1, <2>2, <2>3, ExecutionsStaged DEF WakeInv, Stages, vars, journal
    <3>3. SpentInv'
      BY <2>2, <3>1 DEF WakeInv, SpentInv, SpentAdmitted, Spent, journalOfWorks, Active, vars, journal
    <3>4. worker'[current'] = "completed"
      BY <2>2, <2>3
    <3>5. QED
      BY <3>2, <3>3, <3>4 DEF WakeInv
  <2>4. CASE ~(active /\ current = t /\ stage = "completed")
    <3>1. natural' /\ ~active' => natural /\ ~active
      BY <1>2, <2>2, <2>4 DEF EndShown, FinishSend, Settle
    <3>2. stage = "none"
      BY <1>2, <2>1, <2>2, <2>4 DEF EndShown, FinishSend, Stage, WorkInv, ReleaseInv
    <3>3. QED
      BY <2>1, <2>2, <3>1, <3>2, StagedWakes DEF Stages
  <2>5. QED
    BY <2>3, <2>4
<1>3. CASE StopShown(t)
  <2>1. UNCHANGED <<vars, up, inputs, current, executions, journalOfWorks, wakes, prepared>>
    BY <1>3 DEF StopShown, FinishStop, Settle
  <2>2. (natural' => natural) /\ (natural' /\ ~active' => ~active)
    BY <1>3 DEF StopShown, FinishStop, Settle
  <2>3. Unmoved
    BY <2>1, <2>2 DEF Unmoved, vars, journal, inputs
  <2>4. ExecutionsInv'
    BY <2>1, ExecutionsKept DEF WakeInv, vars, journal, executions
  <2>5. QED
    BY <2>1, <2>2, <2>3, <2>4, UnmovedWakes DEF WakeInv, executions
<1>4. CASE PromotionFails(t)
  <2>1. /\ UNCHANGED <<vars, up, inputs, current, executions, journalOfWorks, wakes, prepared>>
        /\ natural' = FALSE
    BY <1>4 DEF PromotionFails, AutoFails
  <2>2. Unmoved
    BY <2>1 DEF Unmoved, vars, journal, inputs
  <2>3. ExecutionsInv'
    BY <2>1, ExecutionsKept DEF WakeInv, vars, journal, executions
  <2>4. QED
    BY <2>1, <2>2, <2>3, UnmovedWakes DEF WakeInv, executions
<1>5. CASE GoesOn(t)
  <2>1. /\ Stage(t, "none") /\ Wake(t)
        /\ UNCHANGED <<vars, up, inputs, view, journalOfWorks, prepared, natural>>
    BY <1>5 DEF GoesOn, StartNextQueued
  <2>2. ExecutionsInv'
    BY <2>1, ExecutionsStaged DEF WakeInv, Stages, vars, journal
  <2>3. SpentInv'
    BY <2>1 DEF WakeInv, SpentInv, SpentAdmitted, Spent, journalOfWorks, Active, vars, journal
  <2>4. Wanted' => Useful'
    BY <2>1, AskedIsUseful DEF journalOfWorks
  <2>5. QED
    BY <2>1, <2>2, <2>3, <2>4 DEF WakeInv
<1>6. QED
  BY <1>1, <1>2, <1>3, <1>4, <1>5 DEF Executed

LEMMA StepDown == WorkInv /\ DownInv /\ [HostWorkNext]_hostWorkVars => DownInv'
<1> SUFFICES ASSUME WorkInv, DownInv, [HostWorkNext]_hostWorkVars PROVE DownInv'
  OBVIOUS
<1> USE DEF process, calls, executions, workVars, journalOfWorks
<1>1. CASE LoseProcess
  BY <1>1 DEF LoseProcess, Crash, DownInv
<1>2. CASE RestartThread
  BY <1>2 DEF RestartThread, Restart, DownInv
<1>3. CASE UNCHANGED hostWorkVars
  BY <1>3 DEF hostWorkVars, queueVars, DownInv
<1>4. CASE Hosting \/ Waking
  <2>1. up' = up /\ UNCHANGED calls
    BY <1>4 DEF Hosting, CompleteHostWork, BindHostWork, ObserveHostWork, AdmitHostWork, StopHostWork,
       Waking, ReadWake, Continue, DropWake, queueVars
  <2>2. up \/ UNCHANGED <<worker, wakes, natural>>
    BY <1>4 DEF Hosting, CompleteHostWork, BindHostWork, ObserveHostWork, AdmitHostWork, StopHostWork,
       Waking, ReadWake, Continue, DropWake, queueVars, DownInv, MayRun
  <2>3. QED
    BY <2>1, <2>2 DEF DownInv
<1>5. ASSUME NEW t \in Turns, Executed(t)
      PROVE  DownInv'
  <2>1. up' = up
    BY <1>5 DEF Executed, SealPrepared, Seal, EndShown, FinishSend, StopShown, FinishStop, PromotionFails,
       AutoFails, GoesOn, StartNextQueued
  <2>2. CASE SealPrepared(t) \/ EndShown(t) \/ GoesOn(t)
    BY <2>1, <2>2 DEF SealPrepared, Seal, EndShown, FinishSend, GoesOn, StartNextQueued, DownInv, MayRun
  <2>3. CASE StopShown(t) \/ PromotionFails(t)
    BY <2>1, <2>3 DEF StopShown, FinishStop, PromotionFails, AutoFails, DownInv
  <2>4. QED
    BY <1>5, <2>2, <2>3 DEF Executed
<1>6. CASE Queues /\ UNCHANGED workVars
  <2>1. up' = up
    BY <1>6 DEF Queues, Sending, SendReads, SendQueues, SendAdmits, SendRefused, Queueing, EditQueued,
       ReorderQueue, DeleteQueued, PromoteQueued, SteerQueued, SendQueuedNow, Apply, Complete, Fail, Leave,
       OwnerSettles, OwnerLate, AutoPromote, AutoRefused, HandoverStops, HandoverPromotes,
       HandoverRefused, RequestStop, StopNow
  <2>2. up \/ UNCHANGED <<worker, sends, autos, handovers>>
    <3>1. ASSUME NEW q \in Requests, Sending(q) \/ Queueing(q)
          PROVE  up
      BY <3>1 DEF Sending, SendReads, SendQueues, SendAdmits, SendRefused, Queueing, EditQueued,
         ReorderQueue, DeleteQueued, PromoteQueued, SteerQueued, SendQueuedNow, DownInv
    <3>2. ASSUME NEW t \in Turns, Apply(t) \/ Complete(t) \/ Fail(t) \/ Leave(t)
          PROVE  up
      BY <3>2 DEF Apply, Complete, Fail, Leave, MayRun, DownInv
    <3>3. ASSUME NEW t \in Turns, OwnerSettles(t) \/ OwnerLate(t)
          PROVE  UNCHANGED <<worker, sends, autos, handovers>>
      BY <3>3 DEF OwnerSettles, OwnerLate
    <3>4. ASSUME NEW auto \in autos, AutoPromote(auto) \/ AutoRefused(auto)
          PROVE  up
      BY <3>4 DEF DownInv
    <3>5. ASSUME NEW q \in Requests, NEW t \in Turns,
                 HandoverStops(q, t) \/ HandoverPromotes(q, t) \/ HandoverRefused(q, t)
          PROVE  up
      BY <3>5 DEF HandoverStops, HandoverPromotes, HandoverRefused, DownInv
    <3>6. CASE RequestStop \/ StopNow
      BY <3>6 DEF RequestStop, StopNow
    <3>7. QED
      BY <1>6, <3>1, <3>2, <3>3, <3>4, <3>5, <3>6 DEF Queues
  <2>3. QED
    BY <1>6, <2>1, <2>2 DEF DownInv
<1>7. QED
  BY <1>1, <1>2, <1>3, <1>4, <1>5, <1>6 DEF HostWorkNext

LEMMA HostingWakes ==
  ASSUME WorkInv, WakeInv, Hosting
  PROVE  WakeInv'
<1>1. UNCHANGED <<queueVars, continues, natural>>
  BY DEF Hosting, CompleteHostWork, BindHostWork, ObserveHostWork, AdmitHostWork, StopHostWork
<1>2. UNCHANGED <<vars, process, inputs, view, executions>>
  BY <1>1 DEF queueVars
<1>3. \A w \in Works : Spent(w)' = Spent(w)
  BY <1>1 DEF Spent
<1>4. Rests' = Rests
  BY <1>1, <1>2 DEF Rests, process, inputs, view
<1>5. Active' = Active
  BY <1>2 DEF vars, journal, Active
<1>6. ASSUME NEW t \in Turns, MayRun(t)
      PROVE  ~Rests /\ marker[t] # "none"
  <2>1. Writable(t) /\ worker[t] = "running"
    BY <1>6 DEF MayRun, WakeInv, ExecutionsInv
  <2>2. t \in Active
    BY <2>1 DEF Writable, Active
  <2>3. QED
    BY <2>1, <2>2 DEF Rests, WakeInv, SpentInv, Writable, ActiveStatus
<1>7. ASSUME UNCHANGED prepared
      PROVE  ExecutionsInv'
  BY <1>2, <1>7 DEF WakeInv, ExecutionsInv, vars, journal, executions, Writable
<1>8. ASSUME NEW w \in Works, NEW state \in {"completed", "notify"}, CompleteHostWork(w, state)
      PROVE  WakeInv'
  <2>1. /\ fact' = [fact EXCEPT ![w] = state] /\ fact[w] \in {"bound", state}
        /\ UNCHANGED <<works, origin, admitted, suppressed, prepared>>
    BY <1>8 DEF CompleteHostWork
  <2>2. ExecutionsInv'
    BY <1>7, <2>1
  <2>3. SpentInv'
    BY <1>1, <1>2, <1>3, <1>5, <2>1 DEF WakeInv, SpentInv, SpentAdmitted, Facts, view
  <2>4. CASE state = "notify"
    <3>1. Wanted' => Useful'
      BY <1>8, <2>1, <2>4, AskedIsUseful DEF CompleteHostWork
    <3>2. QED
      BY <2>2, <2>3, <3>1 DEF WakeInv
  <2>5. CASE state = "completed"
    <3>1. \A v \in Works : fact'[v] = "notify" <=> fact[v] = "notify"
      BY <2>1, <2>5 DEF WakeInv, SpentInv
    <3>2. UNCHANGED <<wakes, cancelled>>
      BY <1>2, <1>8, <2>5 DEF CompleteHostWork, vars, journal
    <3>3. \A v \in Works : MayWake(v)' <=> MayWake(v)
      BY <2>1, <3>1, <3>2 DEF MayWake, Stopped
    <3>4. works \in Seq(Works)
      BY DEF WakeInv, SpentInv
    <3>5. \A v \in Works : WakesFirst(v)' <=> WakesFirst(v)
      BY <1>5, <2>1, <3>3, <3>4 DEF WakesFirst
    <3>6. (Wanted' => Wanted) /\ (Useful => Useful')
      BY <3>2, <3>5 DEF Wanted, Useful
    <3>7. worker'[current'] = worker[current]
      BY <1>2 DEF executions, view
    <3>8. QED
      BY <1>4, <2>2, <2>3, <3>6, <3>7 DEF WakeInv
  <2>6. QED
    BY <2>4, <2>5
<1>9. ASSUME NEW w \in Works, NEW t \in Turns, BindHostWork(w, t)
      PROVE  WakeInv'
  <2>1. /\ fact' = [fact EXCEPT ![w] = "bound"] /\ fact[w] = "none" /\ MayRun(t)
        /\ UNCHANGED <<admitted, suppressed, prepared>> /\ works' = Append(works, w)
    BY <1>9 DEF BindHostWork
  <2>2. ExecutionsInv'
    BY <1>7, <2>1
  <2>3. ~Spent(w)
    BY <2>1 DEF WakeInv, SpentInv
  <2>4. SpentInv'
    BY <1>1, <1>2, <1>3, <1>5, <2>1, <2>3 DEF WakeInv, SpentInv, SpentAdmitted, Facts, view
  <2>5. QED
    BY <1>4, <1>6, <2>1, <2>2, <2>4 DEF WakeInv
<1>10. ASSUME NEW w \in Works, NEW t \in Turns, ObserveHostWork(w, t)
       PROVE  WakeInv'
  <2>1. /\ MayRun(t) /\ admitted' = admitted \cup {w} /\ UNCHANGED <<works, fact, prepared>>
    BY <1>10 DEF ObserveHostWork
  <2>2. ExecutionsInv'
    BY <1>7, <2>1
  <2>3. SpentInv'
    BY <1>1, <1>2, <1>3, <1>5, <2>1 DEF WakeInv, SpentInv, SpentAdmitted, view
  <2>4. QED
    BY <1>4, <1>6, <2>1, <2>2, <2>3 DEF WakeInv
<1>11. ASSUME NEW t \in Turns, AdmitHostWork(t)
       PROVE  WakeInv'
  <2>1. /\ MayRun(t) /\ admitted' = admitted \cup Notices /\ prepared' = prepared \cup {t}
        /\ UNCHANGED <<works, fact>>
    BY <1>11 DEF AdmitHostWork
  <2>2. SpentAdmitted'
    BY <1>3, <2>1 DEF WakeInv, SpentInv, SpentAdmitted, Notices
  <2>3. ExecutionsInv'
    BY <1>2, <1>6, <2>1 DEF WakeInv, ExecutionsInv, vars, journal, executions, Writable
  <2>4. SpentInv'
    BY <1>1, <1>2, <1>3, <1>5, <2>1, <2>2 DEF WakeInv, SpentInv, view
  <2>5. QED
    BY <1>4, <1>6, <2>1, <2>3, <2>4 DEF WakeInv
<1>12. CASE StopHostWork
  <2>1. UNCHANGED <<works, fact, origin, admitted, prepared>>
    BY <1>12 DEF StopHostWork
  <2>2. ExecutionsInv'
    BY <1>7, <2>1
  <2>3. SpentInv'
    BY <1>1, <1>2, <1>3, <1>5, <2>1 DEF WakeInv, SpentInv, SpentAdmitted, view
  <2>4. ~Wanted'
    <3>1. \A w \in Works : fact[w] = "notify" /\ w \notin admitted => origin[w] \in suppressed'
      BY <1>12 DEF StopHostWork
    <3>2. QED
      BY <2>1, <3>1 DEF Wanted, WakesFirst, MayWake, Stopped
  <2>5. QED
    BY <2>2, <2>3, <2>4 DEF WakeInv
<1>13. QED
  BY <1>8, <1>9, <1>10, <1>11, <1>12 DEF Hosting

LEMMA WakingWakes ==
  ASSUME WorkInv, WakeInv, Waking
  PROVE  WakeInv'
<1>1. ASSUME NEW cause, NEW w \in Works, Continue(cause, w)
      PROVE  WakeInv'
  <2>1. fact[w] = "notify"
    BY <1>1 DEF Continue, MayContinue, WakesFirst, MayWake
  <2>2. QED
    BY <1>1, <2>1, WakeAdmitted DEF Continue, Admits, process
<1>2. ASSUME NEW cause, ReadWake(cause) \/ (\E w \in Works : DropWake(cause, w))
      PROVE  WakeInv'
  <2>1. UNCHANGED <<queueVars, journalOfWorks, prepared, natural>>
    BY <1>2 DEF ReadWake, DropWake
  <2>2. UNCHANGED <<vars, process, inputs, view, executions>>
    BY <2>1 DEF queueVars
  <2>3. Active' = Active /\ \A w : WakesFirst(w)' <=> WakesFirst(w)
    BY <2>1, <2>2 DEF journalOfWorks, vars, journal, WakesFirst, MayWake, Stopped, Active
  <2>4. ExecutionsInv'
    BY <2>1, <2>2 DEF WakeInv, ExecutionsInv, vars, journal, executions, Writable
  <2>5. SpentInv'
    BY <2>1, <2>2, <2>3 DEF WakeInv, SpentInv, SpentAdmitted, Spent, journalOfWorks, view
  <2>6. (Rests' <=> Rests) /\ (Wanted' <=> Wanted) /\ worker'[current'] = worker[current]
    BY <2>1, <2>2, <2>3 DEF Rests, Wanted, process, inputs, view, executions
  <2>7. CASE ReadWake(cause)
    <3>1. Wanted => \E w \in Works : WakesFirst(w) /\ <<cause, w>> \in wakes'
      BY <2>7 DEF ReadWake, Wanted
    <3>2. Wanted => Useful'
      BY <2>3, <3>1 DEF Useful
    <3>3. QED
      BY <2>4, <2>5, <2>6, <3>2 DEF WakeInv
  <2>8. ASSUME NEW w \in Works, DropWake(cause, w)
        PROVE  WakeInv'
    <3>1. wakes' = wakes \ {<<cause, w>>} /\ ~MayContinue(w)
      BY <2>8 DEF DropWake
    <3>2. ASSUME Rests, NEW wake \in wakes,
                 wake[2] = "asked" \/ (wake[2] \in Works /\ WakesFirst(wake[2]))
          PROVE  wake \in wakes'
      <4>1. CASE wake[2] = "asked"
        BY <3>1, <4>1, WorkAssumption
      <4>2. CASE wake[2] \in Works /\ WakesFirst(wake[2])
        <5>1. ~Spent(wake[2])
          BY <3>2, <4>2 DEF Rests, WakesFirst, MayWake, WakeInv, SpentInv, SpentAdmitted
        <5>2. MayContinue(wake[2])
          BY <3>2, <4>2, <5>1 DEF MayContinue, Rests
        <5>3. QED
          BY <3>1, <5>2
      <4>3. QED
        BY <3>2, <4>1, <4>2
    <3>3. Rests /\ Useful => Useful'
      BY <2>3, <3>2 DEF Useful
    <3>4. QED
      BY <2>4, <2>5, <2>6, <3>3 DEF WakeInv
  <2>9. QED
    BY <1>2, <2>7, <2>8
<1>3. QED
  BY <1>1, <1>2 DEF Waking

LEMMA LossWakes ==
  ASSUME WorkInv, WakeInv, LoseProcess
  PROVE  WakeInv'
<1>1. /\ UNCHANGED <<vars, inputs, current, works, fact, admitted, continues>>
      /\ natural' = FALSE /\ prepared' = {} /\ worker' = [t \in Turns |-> "none"]
  BY DEF LoseProcess, Crash
<1>2. ExecutionsInv'
  BY <1>1 DEF ExecutionsInv
<1>3. SpentInv'
  BY <1>1 DEF WakeInv, SpentInv, Spent
<1>4. QED
  BY <1>1, <1>2, <1>3 DEF WakeInv, Rests

LEMMA RestartWakes ==
  ASSUME WorkInv, WakeInv, DownInv, RestartThread
  PROVE  WakeInv'
<1>1. /\ UNCHANGED <<vars, inputs, current, works, admitted, continues, prepared, natural>>
      /\ fact' = Reconciled /\ natural = FALSE
  BY DEF RestartThread, Restart, DownInv
<1>2. \A t \in Turns : \/ worker'[t] = worker[t]
                       \/ worker'[t] = "running" /\ Writable(t)
                       \/ worker'[t] = "none"
  BY DEF RestartThread, Restart, Stage, executions, WorkInv, ReleaseInv
<1>3. ExecutionsInv'
  BY <1>1, <1>2 DEF WakeInv, ExecutionsInv, Writable, vars, journal
<1>4. \A w \in Works : fact'[w] \in Facts /\ (fact[w] \notin {"none", "bound"} => fact'[w] = fact[w])
  BY <1>1 DEF Reconciled, Facts, WakeInv, SpentInv
<1>5. fact' \in [Works -> Facts]
  BY <1>1, <1>4 DEF Reconciled
<1>6. SpentInv'
  BY <1>1, <1>4, <1>5 DEF WakeInv, SpentInv, Spent, SpentAdmitted
<1>7. QED
  BY <1>1, <1>3, <1>6 DEF WakeInv, Rests

LEMMA StepWakes == WorkInv /\ DownInv /\ WakeInv /\ [HostWorkNext]_hostWorkVars => WakeInv'
<1> SUFFICES ASSUME WorkInv, DownInv, WakeInv, [HostWorkNext]_hostWorkVars PROVE WakeInv'
  OBVIOUS
<1>1. CASE UNCHANGED hostWorkVars
  <2>1. UNCHANGED workVars /\ UNCHANGED <<vars, process, inputs, view, executions>>
    BY <1>1 DEF hostWorkVars, queueVars
  <2>2. QED
    BY <2>1, WakeBeside DEF process, inputs, view, executions
<1>2. QED
  BY <1>1, HostingWakes, WakingWakes, ExecutedWakes, LossWakes, RestartWakes, QueuesWakes
     DEF HostWorkNext

LEMMA WakesAreEnough == WorkInv /\ WakeInv => WorkWakesThread
  BY DEF WakeInv, WorkWakesThread, Rests, Wanted, Useful

\* Completed work does not wait on a thread that came to rest by itself: some
\* wake has still to look, or has the work that is first, or the end of the last
\* turn has still to ask.
THEOREM WorksWakeTheThread == HostWorkSpec => []WorkWakesThread
  BY InitWork, StepWork, InitWakes, StepDown, StepWakes, WakesAreEnough, PTL DEF HostWorkSpec
=============================================================================
