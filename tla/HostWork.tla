------------------------------- MODULE HostWork -------------------------------
(***************************************************************************)
(* Asynchronous work of the host: bound by a tool call of a turn, finished *)
(* in its own time, shown to the model once, and allowed to wake an idle   *)
(* thread for a turn of its own (runtime/thread_host_work.go,              *)
(* sessiontree/host_work.go, host_work_repo.go), over the requests and the *)
(* queue of ThreadQueue.                                                   *)
(*                                                                         *)
(* A wake is a goroutine continueHostWork, told apart by what started it;  *)
(* it is <<cause, "asked">> before it reads the journal and <<cause, w>>   *)
(* with the key of work w.  The thread has to be idle twice, when the key  *)
(* is read and when the turn is admitted, and what it finds busy is        *)
(* dropped.                                                                *)
(***************************************************************************)
EXTENDS ThreadQueue

CONSTANTS Works, NoWork

ASSUME WorkAssumption ==
  NoWork \notin Works /\ "asked" \notin Works /\ Works \cap Turns = {}

VARIABLES
  works,       \* the bound works, in the order of the journal
  fact,        \* what the journal says of a work
  origin,      \* the turn that bound it
  owned,       \* works bound by this process: only it settles them
  admitted,    \* works the model has been told about
  suppressed,  \* finished turns with a cancel request for their works
  continues,   \* continues[t]: the work whose key started turn t
  wakes,
  prepared,    \* turns whose execution has prepared a provider request
  natural      \* the actor saw its last turn complete, and nothing since

journalOfWorks == <<works, fact, origin, owned, admitted, suppressed, continues>>
workVars == <<journalOfWorks, wakes, prepared, natural>>
hostWorkVars == <<queueVars, workVars>>

\* notify: completed, and the host permits a continuation.
Facts == {"none", "bound", "completed", "notify", "unknown"}
Causes == Works \cup Turns \cup {"pass"}

WorkTypeOK ==
  /\ works \in Seq(Works) /\ fact \in [Works -> Facts]
  /\ origin \in [Works -> Turns \cup {NoTurn}]
  /\ owned \subseteq Works /\ admitted \subseteq Works /\ suppressed \subseteq Turns
  /\ continues \in [Turns -> Works \cup {NoWork}]
  /\ wakes \subseteq Causes \X (Works \cup {"asked"})
  /\ prepared \subseteq Turns /\ natural \in BOOLEAN

WorkInit ==
  /\ QueueInit
  /\ works = << >> /\ fact = [w \in Works |-> "none"]
  /\ origin = [w \in Works |-> NoTurn]
  /\ owned = {} /\ admitted = {} /\ suppressed = {}
  /\ continues = [t \in Turns |-> NoWork]
  /\ wakes = {} /\ prepared = {} /\ natural = FALSE
-----------------------------------------------------------------------------
(* What the transactions read.                                             *)

Stopped(t) == cancelled[t] \/ t \in suppressed

\* HostWorkContinuation: the first work that may wake the thread.
MayWake(w) == fact[w] = "notify" /\ w \notin admitted /\ ~Stopped(origin[w])

WakesFirst(w) ==
  /\ Active = {} /\ MayWake(w)
  /\ \E i \in DOMAIN works : works[i] = w /\ \A j \in 1..(i - 1) : ~MayWake(works[j])

\* hostWorkAdmission; what does not fit in 8 KiB waits for the next one.
Notices == {w \in Works : fact[w] \notin {"none", "bound"} /\ w \notin admitted}

\* A turn was admitted with the key of the work.
Spent(w) == \E t \in Turns : continues[t] = w

\* A wake asked while the journal has no work is left out: it finds none, or one
\* whose completion asks too.
Wake(cause) ==
  wakes' = IF works = << >> THEN wakes ELSE wakes \cup {<<cause, "asked">>}
-----------------------------------------------------------------------------
(* The host and the turn that executes.                                    *)

\* A dispatched handler of the turn binds its work; the run has asked the
\* provider before.
BindHostWork(w, t) ==
  /\ up /\ fact[w] = "none" /\ MayRun(t) /\ t \in prepared
  /\ works' = Append(works, w)
  /\ fact' = [fact EXCEPT ![w] = "bound"] /\ origin' = [origin EXCEPT ![w] = t]
  /\ owned' = owned \cup {w}
  /\ UNCHANGED <<queueVars, admitted, suppressed, continues, wakes, prepared, natural>>

\* A repeated completion is a replay, and wakes again; another process has no
\* say in the work.
CompleteHostWork(w, state) ==
  /\ up /\ w \in owned /\ fact[w] \in {"bound", state}
  /\ fact' = [fact EXCEPT ![w] = state]
  /\ IF state = "notify" THEN Wake(w) ELSE UNCHANGED wakes
  /\ UNCHANGED <<queueVars, works, origin, owned, admitted, suppressed, continues,
                 prepared, natural>>

\* The preparation of a provider request admits every notice that waits.
AdmitHostWork(t) ==
  /\ MayRun(t)
  /\ admitted' = admitted \cup Notices
  /\ prepared' = prepared \cup {t}
  /\ UNCHANGED <<queueVars, works, fact, origin, owned, suppressed, continues, wakes,
                 natural>>

\* A handler returned the work's result itself, maybe before its completion.
ObserveHostWork(w, t) ==
  /\ MayRun(t) /\ t \in prepared /\ fact[w] # "none"
  /\ admitted' = admitted \cup {w}
  /\ UNCHANGED <<queueVars, works, fact, origin, owned, suppressed, continues, wakes,
                 prepared, natural>>

\* A stop of an idle thread (StopHostWork) reaches the turns its works are of.
\* A thread that is shown idle while it executes a turn is left out.
StopHostWork ==
  /\ up /\ ~active /\ Active = {}
  /\ suppressed' = suppressed \cup
       {origin[w] : w \in {v \in Works : fact[v] # "none" /\ v \notin admitted}}
  /\ UNCHANGED <<queueVars, works, fact, origin, owned, admitted, continues, wakes,
                 prepared, natural>>
-----------------------------------------------------------------------------
(* Wakes.                                                                  *)

ReadWake(cause) ==
  /\ <<cause, "asked">> \in wakes
  /\ wakes' = (wakes \ {<<cause, "asked">>})
                \cup {<<cause, w>> : w \in {v \in Works : WakesFirst(v)}}
  /\ UNCHANGED <<queueVars, journalOfWorks, prepared, natural>>

\* The admission checks the actor, its queue and, in the transaction, the key.
MayContinue(w) == ~active /\ queue = << >> /\ ~Spent(w) /\ WakesFirst(w)

Continue(cause, w) ==
  /\ <<cause, w>> \in wakes /\ MayContinue(w) /\ CanMint
  /\ wakes' = wakes \ {<<cause, w>>}
  /\ AcceptTurn(NewTurn, NewRun, "ordinary")
  /\ continues' = [continues EXCEPT ![NewTurn] = w]
  /\ active' = TRUE /\ current' = NewTurn /\ stopSeen' = FALSE
  /\ worker' = [worker EXCEPT ![NewTurn] = "running"]
  /\ before' = [before EXCEPT ![NewTurn] = current]
  /\ UNCHANGED <<process, inputs, calls, stops, works, fact, origin, owned, admitted,
                 suppressed, prepared, natural>>

\* ErrThreadBusy and ErrStaleAuthority are dropped, a used key is a replay.
DropWake(cause, w) ==
  /\ <<cause, w>> \in wakes /\ ~MayContinue(w)
  /\ wakes' = wakes \ {<<cause, w>>}
  /\ UNCHANGED <<queueVars, journalOfWorks, prepared, natural>>
-----------------------------------------------------------------------------
(* Steps of ThreadQueue that host works hang on.                           *)

\* Every execution prepares at least one request before it completes.
SealPrepared(t) == Seal(t) /\ t \in prepared /\ UNCHANGED workVars

\* finishSend shows the actor how its turn ended.
EndShown(t) ==
  /\ FinishSend(t)
  /\ natural' = IF active /\ current = t THEN worker'[t] = "completed" ELSE natural
  /\ UNCHANGED <<journalOfWorks, wakes, prepared>>

StopShown(t) ==
  /\ FinishStop(t)
  /\ natural' = (natural /\ ~(active /\ current = t))
  /\ UNCHANGED <<journalOfWorks, wakes, prepared>>

PromotionFails(t) ==
  /\ AutoFails(t) /\ natural' = FALSE
  /\ UNCHANGED <<journalOfWorks, wakes, prepared>>

\* Mutant: a completed turn starts the queue only.
GoesOnQueueOnly(t) == StartNextQueued(t) /\ UNCHANGED workVars

\* What follows a completed turn: its queue, and the works that waited for it.
GoesOn(t) ==
  /\ StartNextQueued(t) /\ Wake(t)
  /\ UNCHANGED <<journalOfWorks, prepared, natural>>

LoseProcess ==
  /\ Crash
  /\ wakes' = {} /\ owned' = {} /\ prepared' = {} /\ natural' = FALSE
  /\ UNCHANGED <<works, fact, origin, admitted, suppressed, continues>>

Reconciled == [w \in Works |-> IF fact[w] = "bound" THEN "unknown" ELSE fact[w]]

\* Works of the lost process become unknown before anything else.  A recovery
\* pass is started for an active thread only, and wakes it if it is over by then.
RestartThread ==
  /\ Restart
  /\ fact' = Reconciled
  /\ IF Active # {} THEN Wake("pass") ELSE UNCHANGED wakes
  /\ UNCHANGED <<works, origin, owned, admitted, suppressed, continues, prepared, natural>>
-----------------------------------------------------------------------------
Hosting ==
  \/ \E w \in Works :
       \/ \E state \in {"completed", "notify"} : CompleteHostWork(w, state)
       \/ \E t \in Turns : BindHostWork(w, t) \/ ObserveHostWork(w, t)
  \/ \E t \in Turns : AdmitHostWork(t)
  \/ StopHostWork

Waking ==
  \E cause \in Causes :
    \/ ReadWake(cause)
    \/ \E w \in Works : Continue(cause, w) \/ DropWake(cause, w)

Executed(t) ==
  \/ SealPrepared(t) \/ EndShown(t) \/ StopShown(t) \/ PromotionFails(t) \/ GoesOn(t)

Queues ==
  \/ \E q \in Requests : Sending(q) \/ Queueing(q)
  \/ \E t \in Turns :
       Apply(t) \/ Complete(t) \/ Fail(t) \/ Leave(t) \/ OwnerSettles(t) \/ OwnerLate(t)
  \/ \E auto \in autos : AutoPromote(auto) \/ AutoRefused(auto)
  \/ \E q \in Requests, t \in Turns :
       HandoverStops(q, t) \/ HandoverPromotes(q, t) \/ HandoverRefused(q, t)
  \/ RequestStop \/ StopNow

HostWorkNext ==
  \/ Hosting \/ Waking
  \/ \E t \in Turns : Executed(t)
  \/ LoseProcess \/ RestartThread
  \/ Queues /\ UNCHANGED workVars

HostWorkSpec == WorkInit /\ [][HostWorkNext]_hostWorkVars
-----------------------------------------------------------------------------
(* Properties.                                                             *)

\* Completed work never waits in vain on a thread that came to rest by itself:
\* a wake that found the thread busy, or its key outdated, is made up for by
\* the end of whatever it met, and no order of the wake's two looks at the
\* thread, of a completion and of the end of a turn loses it.  A wake may be
\* lost where a queued input is deleted that it gave way to.
WorkWakesThread ==
  up /\ natural /\ ~active /\ queue = << >> /\ removed = {}
     /\ (\E w \in Works : WakesFirst(w))
  => wakes # {} \/ worker[current] = "completed"
=============================================================================
