----------------------------- MODULE ThreadQueue -----------------------------
(***************************************************************************)
(* How a thread admits requests: sends, the queue behind an active turn,   *)
(* automatic promotion after a completed turn, edits, SendQueuedNow and    *)
(* SteerQueued, against stops, failures and a loss of the process          *)
(* (runtime/thread_runtime.go, thread_queue_edit.go, thread_queue_send.go, *)
(* thread_steering.go).                                                    *)
(*                                                                         *)
(* Every handler that touches the queue appends its fact and updates the   *)
(* view under the actor lock, so one variable stands for both; only the    *)
(* queue and the journal outlive the process.  What is read under one lock *)
(* and used under a later one is state of its own: sends, autos and        *)
(* handovers.                                                              *)
(*                                                                         *)
(* A turn has one run here, runs no tools and asks nothing: TurnRecovery   *)
(* and EffectDispatch look inside the turn.                                *)
(***************************************************************************)
EXTENDS TurnJournal, SequencesExt

CONSTANTS Requests,    \* request keys of sends
          NoTurn,
          MaxEdits,    \* bound on the edits of queued inputs
          MaxOpen,     \* bound on the Send and SendQueuedNow calls under way
          MaxCrashes   \* bound on process losses

ASSUME QueueAssumption ==
  /\ Calls = {} /\ Asks = {} /\ Steers = Requests /\ NoTurn \notin Turns
  /\ {MaxEdits, MaxOpen, MaxCrashes} \subseteq Nat

VARIABLES
  up, crashes,
  queue,      \* queued inputs in order: journal facts and view alike
  text,       \* text[q]: latest accepted version of an input
  sent,       \* requests whose send is on record
  removed,    \* requests deleted from the queue
  prompt,     \* prompt[t]: request and version that turn t was admitted with
  active, current, stopSeen,   \* the actor's view of the thread
  worker,     \* stage of the execution of a turn
  before,     \* before[t]: turn whose execution has to be over first
  sends,      \* Send calls that read the activity and left the lock
  autos,      \* promotions captured after a completed turn
  failing,    \* turns whose captured promotion failed, handler still due
  handovers,  \* SendQueuedNow calls
  stops       \* stops in progress

process == <<up, crashes>>
inputs == <<queue, text, sent, removed, prompt>>
view == <<active, current, stopSeen>>
calls == <<sends, autos, failing, handovers>>
executions == <<worker, before>>
queueVars == <<vars, process, inputs, view, executions, calls, stops>>

Stages == {"none", "running", "sealed", "over", "completed"}
NoPrompt == <<>>

QueueTypeOK ==
  /\ TypeOK
  /\ up \in BOOLEAN /\ crashes \in 0..MaxCrashes
  /\ queue \in Seq(Requests) /\ text \in [Requests -> 0..MaxEdits]
  /\ sent \subseteq Requests /\ removed \subseteq sent
  /\ \A t \in Turns : prompt[t] \in {NoPrompt} \cup (Requests \X (0..MaxEdits))
  /\ active \in BOOLEAN /\ stopSeen \in BOOLEAN /\ current \in Turns \cup {NoTurn}
  /\ active => current # NoTurn
  /\ worker \in [Turns -> Stages] /\ before \in [Turns -> Turns \cup {NoTurn}]
  /\ sends \subseteq Requests \X {"queue", "admit"}
  /\ autos \subseteq [item : Requests, text : 0..MaxEdits, by : Turns]
  /\ failing \subseteq Turns
  /\ handovers \subseteq Requests \X Turns \X {"checked", "waiting"}
  /\ stops \subseteq Turns \X {"window", "sealing"}

QueueInit ==
  /\ Init
  /\ up = TRUE /\ crashes = 0
  /\ queue = << >> /\ text = [q \in Requests |-> 0] /\ sent = {} /\ removed = {}
  /\ prompt = [t \in Turns |-> NoPrompt]
  /\ active = FALSE /\ current = NoTurn /\ stopSeen = FALSE
  /\ worker = [t \in Turns |-> "none"] /\ before = [t \in Turns |-> NoTurn]
  /\ sends = {} /\ autos = {} /\ failing = {} /\ handovers = {} /\ stops = {}
-----------------------------------------------------------------------------
(* Conditions and updates shared by the handlers.                          *)

MayOpen == Cardinality(sends) + Cardinality(handovers) < MaxOpen

Queued(q) == Contains(queue, q)

\* A handler finds the input it removes by its place in the queue.
Without(q) == RemoveAt(queue, CHOOSE i \in 1..Len(queue) : queue[i] = q)

RunOf(t) == started[t]

\* New identities: which unused one is minted is immaterial.
NewTurn == CHOOSE t \in Turns : marker[t] = "none"
NewRun == CHOOSE r \in Runs : FreshRun(r)
CanMint == (\E t \in Turns : marker[t] = "none") /\ \E r \in Runs : FreshRun(r)

\* AcceptTurn's own check: the journal refuses a second unfinished turn.
Admissible == \A t \in Turns : ~ActiveTurn(t)

\* acceptCanonicalTurn and beginRun, in one hold of the actor lock.
Begin(q, version) ==
  /\ AcceptTurn(NewTurn, NewRun, "ordinary")
  /\ prompt' = [prompt EXCEPT ![NewTurn] = <<q, version>>]
  /\ active' = TRUE /\ current' = NewTurn /\ stopSeen' = FALSE
  /\ worker' = [worker EXCEPT ![NewTurn] = "running"]
  /\ before' = [before EXCEPT ![NewTurn] = current]

\* A promotion resolves the queued input while it admits it.
Promotable(q) == CanMint /\ ~active /\ Queued(q)

Promote(q) ==
  /\ Promotable(q)
  /\ Begin(q, text[q])
  /\ queue' = Without(q)
  /\ UNCHANGED <<text, sent, removed>>

\* finishSend: a turn that is no longer the actor's changes nothing.
Settle(t) ==
  IF active /\ current = t
  THEN active' = FALSE /\ UNCHANGED <<current, stopSeen>>
  ELSE UNCHANGED view

Stage(t, stage) == worker' = [worker EXCEPT ![t] = stage] /\ UNCHANGED before

\* An execution waits for the one that its actor ran before it.
MayRun(t) ==
  /\ worker[t] = "running" /\ ~cancelled[t]
  /\ before[t] # NoTurn => worker[before[t]] = "none"

\* The loop decided to complete: the actor refuses instructions and stops.
Sealed ==
  \/ worker[current] = "sealed"
  \/ worker[current] = "over" /\ marker[current] = "completed"
-----------------------------------------------------------------------------
(* Send.                                                                   *)

\* The activity is read under the lock, and used after it was released.
SendReads(q) ==
  /\ up /\ q \notin sent /\ MayOpen
  /\ sends' = sends \cup {<<q, IF active THEN "queue" ELSE "admit">>}
  /\ UNCHANGED <<vars, process, inputs, view, executions, autos, failing, handovers, stops>>

\* Mutant: the key is not looked up again under the lock.
SendQueuesAgain(q) ==
  /\ <<q, "queue">> \in sends
  /\ sends' = sends \ {<<q, "queue">>}
  /\ queue' = Append(queue, q) /\ sent' = sent \cup {q}
  /\ UNCHANGED <<vars, process, text, removed, prompt, view, executions, autos, failing,
                 handovers, stops>>

\* The thread need not be active any more.
SendQueues(q) ==
  /\ <<q, "queue">> \in sends
  /\ sends' = sends \ {<<q, "queue">>}
  /\ IF q \in sent THEN UNCHANGED inputs
     ELSE /\ queue' = Append(queue, q) /\ sent' = sent \cup {q}
          /\ UNCHANGED <<text, removed, prompt>>
  /\ UNCHANGED <<vars, process, view, executions, autos, failing, handovers, stops>>

SendAdmits(q) ==
  /\ <<q, "admit">> \in sends /\ q \notin sent
  /\ CanMint /\ ~active
  /\ Begin(q, text[q])
  /\ sent' = sent \cup {q}
  /\ sends' = sends \ {<<q, "admit">>}
  /\ UNCHANGED <<process, queue, text, removed, autos, failing, handovers, stops>>

\* A replay, or an error that leaves no trace (the caller may send again).
SendRefused(q) ==
  /\ <<q, "admit">> \in sends
  /\ q \in sent \/ active \/ ~Admissible
  /\ sends' = sends \ {<<q, "admit">>}
  /\ UNCHANGED <<vars, process, inputs, view, executions, autos, failing, handovers, stops>>
-----------------------------------------------------------------------------
(* What users do to the queue.                                             *)

EditQueued(q) ==
  /\ up /\ Queued(q) /\ \A p \in Requests : text[p] < MaxEdits
  /\ text' = [text EXCEPT ![q] = @ + 1]
  /\ UNCHANGED <<vars, process, queue, sent, removed, prompt, view, executions, calls, stops>>

\* Moving one input to the front generates every order.
ReorderQueue(q) ==
  /\ up /\ Queued(q) /\ Head(queue) # q
  /\ queue' = <<q>> \o Without(q)
  /\ UNCHANGED <<vars, process, text, sent, removed, prompt, view, executions, calls, stops>>

DeleteQueued(q) ==
  /\ up /\ Queued(q)
  /\ queue' = Without(q) /\ removed' = removed \cup {q}
  /\ UNCHANGED <<vars, process, text, sent, prompt, view, executions, calls, stops>>

PromoteQueued(q) ==
  /\ up /\ Promote(q)
  /\ UNCHANGED <<process, calls, stops>>

\* The input becomes an instruction of the running turn; an idle thread
\* starts it, and a sealed execution is waited for.
SteerQueued(q) ==
  /\ up /\ Queued(q)
  /\ \/ /\ active /\ ~stopSeen /\ ~Sealed
        /\ RequestSteering(current, RunOf(current), q)
        /\ queue' = Without(q)
        /\ UNCHANGED <<text, sent, removed, prompt, view, executions>>
     \/ Promote(q)
  /\ UNCHANGED <<process, calls, stops>>
-----------------------------------------------------------------------------
(* The execution of a turn and what follows its end.                       *)

Apply(t) ==
  /\ MayRun(t)
  /\ ApplySteering(t, RunOf(t))
  /\ UNCHANGED <<process, inputs, view, executions, calls, stops>>

Seal(t) ==
  /\ MayRun(t) /\ PendingSteer(t) = {}
  /\ Stage(t, "sealed")
  /\ UNCHANGED <<vars, process, inputs, view, calls, stops>>

\* A completion that an immediate stop overtook replays the stop's terminal.
Complete(t) ==
  /\ worker[t] = "sealed" /\ Stage(t, "over")
  /\ IF FinishAdmitted(t, RunOf(t), "completed", "run")
     THEN FinishTurn(t, RunOf(t), "completed", "run", TRUE)
     ELSE UNCHANGED vars
  /\ UNCHANGED <<process, inputs, view, calls, stops>>

Fail(t) ==
  /\ worker[t] = "running" /\ Stage(t, "over")
  /\ FinishTurn(t, RunOf(t), "failed", "run", TRUE)
  /\ UNCHANGED <<process, inputs, view, calls, stops>>

\* A cancelled execution leaves the turn to the owner of the stop.
Leave(t) ==
  /\ worker[t] = "running" /\ cancelled[t]
  /\ Stage(t, "none")
  /\ UNCHANGED <<vars, process, inputs, view, calls, stops>>

\* A completed turn that nobody asked to stop goes on to the queue.
FinishSend(t) ==
  /\ worker[t] = "over"
  /\ Settle(t)
  /\ Stage(t, IF active /\ current = t /\ marker[t] = "completed" /\ ~stopSeen
              THEN "completed" ELSE "none")
  /\ UNCHANGED <<vars, process, inputs, calls, stops>>

\* startNextQueued: the head is captured under the lock, promoted later.
StartNextQueued(t) ==
  /\ worker[t] = "completed" /\ Stage(t, "none")
  /\ autos' = IF active \/ queue = << >> THEN autos
              ELSE autos \cup {[item |-> Head(queue), text |-> text[Head(queue)], by |-> t]}
  /\ UNCHANGED <<vars, process, inputs, view, sends, failing, handovers, stops>>

\* Mutant: the captured copy is admitted.
AutoPromoteCopy(auto) ==
  /\ Promotable(auto.item)
  /\ Begin(auto.item, auto.text)
  /\ queue' = Without(auto.item)
  /\ autos' = autos \ {auto}
  /\ UNCHANGED <<process, text, sent, removed, sends, failing, handovers, stops>>

AutoPromote(auto) ==
  /\ Promote(auto.item)
  /\ autos' = autos \ {auto}
  /\ UNCHANGED <<process, sends, failing, handovers, stops>>

AutoRefused(auto) ==
  /\ active \/ ~Queued(auto.item) \/ ~Admissible
  /\ autos' = autos \ {auto} /\ failing' = failing \cup {auto.by}
  /\ UNCHANGED <<vars, process, inputs, view, executions, sends, handovers, stops>>

\* The handler of a failed promotion, whatever the actor is doing now.
AutoFails(t) ==
  /\ t \in failing /\ failing' = failing \ {t}
  /\ active' = FALSE
  /\ UNCHANGED <<vars, process, inputs, current, stopSeen, executions, sends, autos,
                 handovers, stops>>
-----------------------------------------------------------------------------
(* Stops and SendQueuedNow.                                                *)

Stoppable(t) == active /\ current = t /\ ~stopSeen /\ ~Sealed

AcceptStop(t) ==
  /\ Stoppable(t)
  /\ RequestCancel(t, RunOf(t))
  /\ stopSeen' = TRUE /\ stops' = stops \cup {<<t, "window">>}
  /\ UNCHANGED <<active, current>>

RequestStop ==
  /\ up /\ active /\ AcceptStop(current)
  /\ UNCHANGED <<process, inputs, executions, calls>>

\* The settlement after the drain or the deadline, and an immediate stop.
CommitStop(t) ==
  /\ active /\ current = t
  /\ CancelTurn(t, RunOf(t))
  /\ stopSeen' = TRUE
  /\ UNCHANGED <<active, current>>

\* Mutant: the terminal is committed and the actor is left active.
OwnerSettlesQuietly(t) ==
  /\ <<t, "window">> \in stops /\ CommitStop(t)
  /\ stops' = stops \ {<<t, "window">>}
  /\ UNCHANGED <<process, inputs, executions, calls>>

OwnerSettles(t) ==
  /\ <<t, "window">> \in stops /\ CommitStop(t)
  /\ stops' = (stops \ {<<t, "window">>}) \cup {<<t, "sealing">>}
  /\ UNCHANGED <<process, inputs, executions, calls>>

OwnerLate(t) ==
  /\ <<t, "window">> \in stops
  /\ ~(active /\ current = t) \/ ~Writable(t)
  /\ stops' = stops \ {<<t, "window">>}
  /\ UNCHANGED <<vars, process, inputs, view, executions, calls>>

StopNow ==
  /\ up /\ active /\ CommitStop(current)
  /\ stops' = stops \cup {<<current, "sealing">>}
  /\ UNCHANGED <<process, inputs, executions, calls>>

FinishStop(t) ==
  /\ <<t, "sealing">> \in stops /\ stops' = stops \ {<<t, "sealing">>}
  /\ Settle(t)
  /\ UNCHANGED <<vars, process, inputs, executions, calls>>

\* SendQueuedNow of an active thread: what it checks under the first lock.
SendQueuedNow(q) ==
  /\ up /\ active /\ Queued(q) /\ ~stopSeen /\ MayOpen
  /\ handovers' = handovers \cup {<<q, current, "checked">>}
  /\ UNCHANGED <<vars, process, inputs, view, executions, sends, autos, failing, stops>>

\* It stops the turn it saw, under the next lock; a turn that ended meanwhile
\* needs no stop, and any other one is left alone.
HandoverStops(q, t) ==
  /\ <<q, t, "checked">> \in handovers
  /\ ~(active /\ current = t /\ Sealed)
  /\ \/ /\ AcceptStop(t)
        /\ handovers' = (handovers \ {<<q, t, "checked">>}) \cup {<<q, t, "waiting">>}
     \/ /\ ~Stoppable(t) \/ ~Writable(t)
        /\ handovers' = (handovers \ {<<q, t, "checked">>})
                          \cup (IF active THEN {} ELSE {<<q, t, "waiting">>})
        /\ UNCHANGED <<vars, view, stops>>
  /\ UNCHANGED <<process, inputs, executions, sends, autos, failing>>

\* Then it promotes its input, or somebody else has taken the thread, or the
\* input is gone, or the transition took too long.
HandoverPromotes(q, t) ==
  /\ <<q, t, "waiting">> \in handovers /\ ~(active /\ current = t)
  /\ handovers' = handovers \ {<<q, t, "waiting">>}
  /\ Promote(q)
  /\ UNCHANGED <<process, sends, autos, failing, stops>>

HandoverRefused(q, t) ==
  /\ <<q, t, "waiting">> \in handovers
  /\ handovers' = handovers \ {<<q, t, "waiting">>}
  /\ UNCHANGED <<vars, process, inputs, view, executions, sends, autos, failing, stops>>
-----------------------------------------------------------------------------
(* Loss of the process.                                                    *)

Crash ==
  /\ up /\ crashes < MaxCrashes
  /\ up' = FALSE /\ crashes' = crashes + 1
  /\ active' = FALSE /\ stopSeen' = FALSE
  /\ worker' = [t \in Turns |-> "none"] /\ before' = [t \in Turns |-> NoTurn]
  /\ sends' = {} /\ autos' = {} /\ failing' = {} /\ handovers' = {} /\ stops' = {}
  /\ UNCHANGED <<vars, inputs, current>>

\* The view is rebuilt from the journal.  An unfinished turn is recovered: its
\* stop is settled or it runs again.  Nothing starts a queue.
Restart ==
  /\ ~up /\ up' = TRUE
  /\ active' = (Active # {})
  /\ IF current = NoTurn THEN UNCHANGED <<stopSeen, executions, stops>>
     ELSE /\ stopSeen' = cancelled[current]
          /\ stops' = IF Writable(current) /\ cancelled[current]
                      THEN {<<current, "window">>} ELSE {}
          /\ Stage(current, IF Writable(current) /\ ~cancelled[current]
                            THEN "running" ELSE "none")
  /\ UNCHANGED <<vars, crashes, inputs, current, calls>>
-----------------------------------------------------------------------------
Sending(q) == SendReads(q) \/ SendQueues(q) \/ SendAdmits(q) \/ SendRefused(q)

Queueing(q) ==
  \/ EditQueued(q) \/ ReorderQueue(q) \/ DeleteQueued(q) \/ PromoteQueued(q)
  \/ SteerQueued(q) \/ SendQueuedNow(q)

Executing(t) ==
  \/ Apply(t) \/ Seal(t) \/ Complete(t) \/ Fail(t) \/ Leave(t)
  \/ FinishSend(t) \/ StartNextQueued(t) \/ AutoFails(t)

Stopping(t) == OwnerSettles(t) \/ OwnerLate(t) \/ FinishStop(t)

QueueNext ==
  \/ \E q \in Requests : Sending(q) \/ Queueing(q)
  \/ \E t \in Turns : Executing(t) \/ Stopping(t)
  \/ \E auto \in autos : AutoPromote(auto) \/ AutoRefused(auto)
  \/ \E q \in Requests, t \in Turns :
       HandoverStops(q, t) \/ HandoverPromotes(q, t) \/ HandoverRefused(q, t)
  \/ RequestStop \/ StopNow \/ Crash \/ Restart

QueueSpec == QueueInit /\ [][QueueNext]_queueVars
-----------------------------------------------------------------------------
(* Properties.                                                             *)

TurnsOf(q) == {t \in Turns : prompt[t] # NoPrompt /\ prompt[t][1] = q}
InstructionsOf(q) == {t \in Turns : steer[<<t, q>>] # "none"}

\* An accepted request is in exactly one place, once: it waits in the queue,
\* was deleted, instructs one turn or started one turn.  Retried sends,
\* promotions that race each other and process losses neither lose it nor
\* run it twice.
RequestAccounted ==
  \A q \in Requests :
    LET places == Cardinality({i \in 1..Len(queue) : queue[i] = q})
                + Cardinality({q} \cap removed)
                + Cardinality(InstructionsOf(q)) + Cardinality(TurnsOf(q))
    IN places = IF q \in sent THEN 1 ELSE 0

\* A turn runs the text that the last successful edit showed: an edit either
\* precedes the promotion and is in it, or is refused.
PromotedAsEdited ==
  \A t \in Turns : prompt[t] # NoPrompt => prompt[t][2] = text[prompt[t][1]]

\* An ended turn does not keep the thread busy: whoever ended it is still to
\* release the actor.
EndReleasesThread ==
  up /\ active /\ Terminal(current) =>
    worker[current] \in {"sealed", "over"} \/ <<current, "sealing">> \in stops

\* ThreadActivity reports whether the thread owns an accepted turn.
ActivityReportsTurn == up /\ Active # {} => active
=============================================================================
