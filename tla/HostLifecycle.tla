---------------------------- MODULE HostLifecycle ----------------------------
(***************************************************************************)
(* Threads that come and go while their turns are executed: creation of a  *)
(* child thread by a tool handler, deletion of a thread with its subtree   *)
(* and shutdown of the host (runtime/thread_runtime.go, host_v2.go).       *)
(*                                                                         *)
(*   stored[t], journal[t][n]   what storage holds: threads and their turns*)
(*   busy, current, fence       a thread's actor                           *)
(*   worker[t][n]               the execution goroutine of turn n of t     *)
(*   lock                       Host.mutationMu: creation, deletion and    *)
(*                              shutdown one at a time                     *)
(*   waits[op]                  the channels a deletion or the shutdown    *)
(*                              has captured and waits for                 *)
(*                                                                         *)
(* A channel is named by its turn, <<t, n>> for executionDone of turn n,   *)
(* and by <<t, 0>> for effectsDone of the actor.  Turns do not pause here  *)
(* and a turn runs one tool handler: pauses and calls are the subject of   *)
(* TurnRecovery and EffectDispatch, queues that of ThreadQueue.            *)
(***************************************************************************)
EXTENDS Naturals, FiniteSets

CONSTANTS Threads,
          Parent,      \* the parent of a thread; NoThread for a root
          NoThread,
          Turns,       \* Turns[t]: how many turns thread t may get (a bound)
          Deletions    \* calls of Delete

ASSUME LifecycleAssumption ==
  /\ NoThread \notin Threads /\ IsFiniteSet(Threads)
  /\ Deletions \cap (Threads \cup {"free", "shutdown"}) = {}
  /\ Parent \in [Threads -> Threads \cup {NoThread}]
  /\ Turns \in [Threads -> Nat \ {0}]

VARIABLES
  stored, journal,
  busy, current,
  fence,       \* open, deleting, deleted or closed
  asked,       \* threads with a Send that passed requireExecution
  worker,
  cancelled,   \* turns whose execution context is cancelled
  due,         \* turns whose stop has yet to settle the actor
  lock, waits,
  deletion, target,
  host,        \* open, closing, settling or closed
  left,        \* actors that the shutdown has not visited
  settling,    \* the turn that the shutdown is about to stop
  missed,      \* history: ends that a deleting fence kept from the actor
  slipped      \* history: turns begun once the shutdown had visited their actor

storage == <<stored, journal>>
actor == <<busy, current, fence>>
execution == <<worker, cancelled>>
deleting == <<deletion, target>>
closing == <<host, left, settling>>
history == <<missed, slipped>>
lifecycleVars == <<storage, actor, asked, execution, due, lock, waits, deleting,
                   closing, history>>

TurnsOf(t) == 1..Turns[t]
AllTurns == UNION {{t} \X TurnsOf(t) : t \in Threads}
Channels == AllTurns \cup (Threads \X {0})
NoTurn == <<NoThread, 0>>

Stages == {"none", "preparing", "ready", "running", "effect", "creating", "created",
           "returned", "ending", "aborting", "late", "lateEnding"}

LifecycleTypeOK ==
  /\ stored \in [Threads -> {"absent", "live", "deleted"}]
  /\ DOMAIN journal = Threads
  /\ \A t \in Threads :
       journal[t] \in [TurnsOf(t) -> {"none", "active", "ended", "stopped"}]
  /\ busy \in [Threads -> BOOLEAN]
  /\ DOMAIN current = Threads /\ \A t \in Threads : current[t] \in 0..Turns[t]
  /\ fence \in [Threads -> {"open", "deleting", "deleted", "closed"}]
  /\ asked \subseteq Threads
  /\ DOMAIN worker = Threads
  /\ \A t \in Threads : worker[t] \in [TurnsOf(t) -> Stages]
  /\ cancelled \subseteq AllTurns /\ due \subseteq AllTurns
  /\ lock \in Deletions \cup {"free", "shutdown"}
  /\ waits \in [Deletions \cup {"shutdown"} -> SUBSET Channels]
  /\ deletion \in [Deletions -> {"idle", "waiting", "draining", "deleted", "refused"}]
  /\ target \in [Deletions -> Threads \cup {NoThread}]
  /\ host \in {"open", "closing", "settling", "closed"}
  /\ left \subseteq Threads /\ settling \in AllTurns \cup {NoTurn}
  /\ missed \subseteq AllTurns /\ slipped \subseteq AllTurns

LifecycleInit ==
  /\ stored = [t \in Threads |-> IF Parent[t] = NoThread THEN "live" ELSE "absent"]
  /\ journal = [t \in Threads |-> [n \in TurnsOf(t) |-> "none"]]
  /\ busy = [t \in Threads |-> FALSE] /\ current = [t \in Threads |-> 0]
  /\ fence = [t \in Threads |-> "open"] /\ asked = {}
  /\ worker = [t \in Threads |-> [n \in TurnsOf(t) |-> "none"]]
  /\ cancelled = {} /\ due = {}
  /\ lock = "free" /\ waits = [op \in Deletions \cup {"shutdown"} |-> {}]
  /\ deletion = [d \in Deletions |-> "idle"]
  /\ target = [d \in Deletions |-> NoThread]
  /\ host = "open" /\ left = {} /\ settling = NoTurn
  /\ missed = {} /\ slipped = {}
-----------------------------------------------------------------------------
(* Conditions and updates shared by the handlers.                          *)

InEffect == {"effect", "creating", "created"}
Handling(t) == {n \in TurnsOf(t) : worker[t][n] \in InEffect}

\* Turns of t whose executionDone is open, and those for which it is not.
Undrained(t) == {n \in TurnsOf(t) : worker[t][n] \notin {"none", "late", "lateEnding"}}
Done(t, n) == n \notin Undrained(t)

\* The channels that close and deletion read from the actor of t.
Joins(t) ==
  (IF Done(t, current[t]) THEN {} ELSE {<<t, current[t]>>})
  \cup (IF Handling(t) = {} THEN {} ELSE {<<t, 0>>})

Closes(channels) == waits' = [op \in DOMAIN waits |-> waits[op] \ channels]

Stage(t, n, stage) == worker' = [worker EXCEPT ![t][n] = stage]
Record(t, n, outcome) == journal' = [journal EXCEPT ![t][n] = outcome]

\* Storage takes a terminal only for an active turn of a live thread.
Writable(t, n) == stored[t] = "live" /\ host # "closed" /\ journal[t][n] = "active"

Owns(t, n) == busy[t] /\ current[t] = n

\* finishSend: the actor goes idle, unless its fence is up.
Settle(t, n) ==
  /\ busy' = [busy EXCEPT ![t] = @ /\ ~(Owns(t, n) /\ fence[t] = "open")]
  /\ missed' = IF Owns(t, n) /\ fence[t] = "deleting" THEN missed \cup {<<t, n>>}
               ELSE missed
  /\ UNCHANGED <<current, fence, slipped>>
-----------------------------------------------------------------------------
(* A turn, from its request to its end.                                    *)

\* sendCommand or startNextQueued: the host is asked once, at the start.
Ask(t) ==
  /\ host = "open" /\ t \notin asked /\ stored[t] = "live"
  /\ current[t] < Turns[t]
  /\ asked' = asked \cup {t}
  /\ UNCHANGED <<storage, actor, execution, due, lock, waits, deleting, closing, history>>

\* startAcceptedResult under the actor lock.
Begins(t) == fence[t] = "open" /\ ~busy[t] /\ stored[t] = "live" /\ current[t] < Turns[t]

Begin(t) ==
  /\ t \in asked /\ Begins(t)
  /\ LET n == current[t] + 1
     IN /\ Record(t, n, "active") /\ Stage(t, n, "preparing")
        /\ current' = [current EXCEPT ![t] = n]
        /\ slipped' = IF host = "settling" /\ t \notin left
                      THEN slipped \cup {<<t, n>>} ELSE slipped
  /\ busy' = [busy EXCEPT ![t] = TRUE]
  /\ asked' = asked \ {t}
  /\ UNCHANGED <<stored, fence, cancelled, due, lock, waits, deleting, closing, missed>>

\* The thread is busy (the request is queued), fenced, deleted or closed.
Refuse(t) ==
  /\ t \in asked /\ ~Begins(t)
  /\ asked' = asked \ {t}
  /\ UNCHANGED <<storage, actor, execution, due, lock, waits, deleting, closing, history>>

\* prepareExecution asks the host again; a preparation that succeeded may win
\* against the cancelled context.
Prepare(t, n) ==
  /\ worker[t][n] = "preparing" /\ host = "open"
  /\ Stage(t, n, "ready")
  /\ UNCHANGED <<storage, actor, asked, cancelled, due, lock, waits, deleting, closing,
                 history>>

\* Mutant: the execution is not reported as done.
LosePreparationUndone(t, n) ==
  /\ worker[t][n] = "preparing"
  /\ Stage(t, n, "late")
  /\ UNCHANGED <<storage, actor, asked, cancelled, due, lock, waits, deleting, closing,
                 history>>

\* executePreparedSend without a prepared agent: the execution is done before
\* the fallback settles its turn.
LosePreparation(t, n) ==
  /\ worker[t][n] = "preparing"
  /\ Stage(t, n, "late") /\ Closes({<<t, n>>})
  /\ UNCHANGED <<storage, actor, asked, cancelled, due, lock, deleting, closing, history>>

\* executeAcceptedSend: the execution before it is drained, or it is stopped
\* while it waits for that.
Execute(t, n) ==
  /\ worker[t][n] = "ready" /\ Done(t, n - 1)
  /\ Stage(t, n, "running")
  /\ UNCHANGED <<storage, actor, asked, cancelled, due, lock, waits, deleting, closing,
                 history>>

\* Mutant: the turn is left to whoever cancelled its context.
AbortSilently(t, n) ==
  /\ worker[t][n] = "ready" /\ n > 1 /\ <<t, n>> \in cancelled
  /\ Stage(t, n, "none") /\ Closes({<<t, n>>})
  /\ UNCHANGED <<storage, actor, asked, cancelled, due, lock, deleting, closing, history>>

Abort(t, n) ==
  /\ worker[t][n] = "ready" /\ n > 1 /\ <<t, n>> \in cancelled
  /\ Stage(t, n, "aborting")
  /\ UNCHANGED <<storage, actor, asked, cancelled, due, lock, waits, deleting, closing,
                 history>>

\* claimEffectDispatch and the dispatch in the journal.  The approval the call
\* waited for may have asked the host long before.
ClaimEffect(t, n) ==
  /\ worker[t][n] = "running" /\ fence[t] = "open" /\ Writable(t, n)
  /\ Stage(t, n, "effect")
  /\ UNCHANGED <<storage, actor, asked, cancelled, due, lock, waits, deleting, closing,
                 history>>

\* The handler calls Create and waits for the lock.
CallCreate(t, n) ==
  /\ worker[t][n] = "effect" /\ \E c \in Threads : Parent[c] = t
  /\ Stage(t, n, "creating")
  /\ UNCHANGED <<storage, actor, asked, cancelled, due, lock, waits, deleting, closing,
                 history>>

\* A call whose context ended while it waited creates nothing; storage refuses
\* a child of a deleted thread.
Create(t, n) ==
  /\ worker[t][n] = "creating" /\ lock = "free"
  /\ IF <<t, n>> \in cancelled \/ stored[t] # "live" \/ host = "closed"
     THEN UNCHANGED stored
     ELSE \E c \in Threads :
            /\ Parent[c] = t
            /\ stored' = IF stored[c] = "absent" THEN [stored EXCEPT ![c] = "live"]
                         ELSE stored
  /\ Stage(t, n, "created")
  /\ UNCHANGED <<journal, actor, asked, cancelled, due, lock, waits, deleting, closing,
                 history>>

\* releaseEffectDispatch: the last handler of the actor closes effectsDone.
ReturnEffect(t, n) ==
  /\ worker[t][n] \in {"effect", "created"}
  /\ Stage(t, n, "returned")
  /\ IF Handling(t) = {n} THEN Closes({<<t, 0>>}) ELSE UNCHANGED waits
  /\ UNCHANGED <<storage, actor, asked, cancelled, due, lock, deleting, closing, history>>

\* The harness finishes the turn in storage, which knows no fence.
End(t, n) ==
  /\ worker[t][n] \in {"running", "returned"}
  /\ IF Writable(t, n) THEN Record(t, n, "ended") ELSE UNCHANGED journal
  /\ Stage(t, n, "ending")
  /\ UNCHANGED <<stored, actor, asked, cancelled, due, lock, waits, deleting, closing,
                 history>>

FinishSend(t, n) ==
  /\ worker[t][n] \in {"ending", "lateEnding"}
  /\ Settle(t, n)
  /\ Stage(t, n, "none") /\ Closes({<<t, n>>})
  /\ UNCHANGED <<storage, asked, cancelled, due, lock, deleting, closing>>

\* finishUnloadedCancellation goes through the actor, and leaves the turn as it
\* is when the fence is up or the turn is no longer the actor's.
FallbackStops(t, n) ==
  /\ worker[t][n] \in {"late", "aborting"} /\ <<t, n>> \in cancelled
  /\ IF fence[t] = "open" /\ Owns(t, n) /\ journal[t][n] # "ended"
     THEN /\ Record(t, n, "stopped")
          /\ Stage(t, n, IF worker[t][n] = "late" THEN "lateEnding" ELSE "ending")
          /\ UNCHANGED <<waits, missed>>
     ELSE /\ Stage(t, n, "none") /\ Closes({<<t, n>>})
          /\ missed' = IF fence[t] = "deleting" /\ Owns(t, n) THEN missed \cup {<<t, n>>}
                       ELSE missed
          /\ UNCHANGED journal
  /\ UNCHANGED <<stored, actor, asked, cancelled, due, lock, deleting, closing, slipped>>

\* finishUnloadedTerminal of a failed preparation goes to storage directly.
FallbackFails(t, n) ==
  /\ worker[t][n] = "late"
  /\ IF Writable(t, n) THEN Record(t, n, "ended") /\ Stage(t, n, "lateEnding")
     ELSE UNCHANGED journal /\ Stage(t, n, "none")
  /\ UNCHANGED <<stored, actor, asked, cancelled, due, lock, waits, deleting, closing,
                 history>>

\* Mutant: the creation does not take the lock.
CreateByUserUnlocked(c) ==
  /\ host # "closed" /\ stored[c] = "absent" /\ stored[Parent[c]] = "live"
  /\ stored' = [stored EXCEPT ![c] = "live"]
  /\ UNCHANGED <<journal, actor, asked, execution, due, lock, waits, deleting, closing,
                 history>>

\* A user creates a child thread (createCommand).
CreateByUser(c) ==
  /\ lock = "free" /\ host # "closed" /\ stored[c] = "absent" /\ stored[Parent[c]] = "live"
  /\ stored' = [stored EXCEPT ![c] = "live"]
  /\ UNCHANGED <<journal, actor, asked, execution, due, lock, waits, deleting, closing,
                 history>>
-----------------------------------------------------------------------------
(* Stops.                                                                  *)

\* settleCancellation under the actor lock: CancelTurn takes an active turn or
\* repeats its own terminal, and is refused for a turn that ended otherwise.
Stops(t, n) == fence[t] = "open" /\ Owns(t, n) /\ journal[t][n] # "ended"

StopNow(t) ==
  LET n == current[t]
  IN /\ Stops(t, n) /\ <<t, n>> \notin due
     /\ Record(t, n, "stopped")
     /\ cancelled' = cancelled \cup {<<t, n>>}
     /\ due' = due \cup {<<t, n>>}
     /\ UNCHANGED <<stored, actor, asked, worker, lock, waits, deleting, closing, history>>

FinishStop(t, n) ==
  /\ <<t, n>> \in due
  /\ Settle(t, n)
  /\ due' = due \ {<<t, n>>}
  /\ UNCHANGED <<storage, asked, execution, lock, waits, deleting, closing>>
-----------------------------------------------------------------------------
(* Deletion.                                                               *)

\* A thread and what it descends from.
Lineage(t) ==
  LET up[k \in 0..Cardinality(Threads)] ==
        IF k = 0 THEN {t} ELSE up[k - 1] \cup {Parent[u] : u \in up[k - 1] \ {NoThread}}
  IN up[Cardinality(Threads)]

Subtree(t) == {u \in Threads : stored[u] = "live" /\ t \in Lineage(u)}

CallDelete(d, t) ==
  /\ deletion[d] = "idle" /\ host \in {"open", "closing"}
  /\ deletion' = [deletion EXCEPT ![d] = "waiting"]
  /\ target' = [target EXCEPT ![d] = t]
  /\ UNCHANGED <<storage, actor, asked, execution, due, lock, waits, closing, history>>

\* The caller has the lock.  A thread that is gone, or whose host is closed, is
\* reported; otherwise fenceThreadRuntimes fences the subtree at once, reads
\* what is to be drained and cancels what runs.
Fence(d) ==
  /\ deletion[d] = "waiting" /\ lock = "free"
  /\ LET tree == Subtree(target[d])
     IN IF tree = {} \/ \E t \in tree : fence[t] = "closed"
        THEN /\ deletion' = [deletion EXCEPT ![d] = "refused"]
             /\ UNCHANGED <<fence, waits, cancelled, lock>>
        ELSE /\ deletion' = [deletion EXCEPT ![d] = "draining"]
             /\ lock' = d
             /\ fence' = [t \in Threads |-> IF t \in tree THEN "deleting" ELSE fence[t]]
             /\ waits' = [waits EXCEPT ![d] = UNION {Joins(t) : t \in tree}]
             /\ cancelled' = cancelled \cup {<<t, current[t]>> : t \in {u \in tree : busy[u]}}
  /\ UNCHANGED <<storage, busy, current, asked, worker, due, target, closing, history>>

\* The storage transaction reads the subtree again and deletes it.
CommitDelete(d) ==
  /\ deletion[d] = "draining" /\ waits[d] = {}
  /\ LET tree == Subtree(target[d])
     IN /\ stored' = [t \in Threads |-> IF t \in tree THEN "deleted" ELSE stored[t]]
        /\ fence' = [t \in Threads |-> IF fence[t] # "deleting" THEN fence[t]
                                       ELSE IF t \in tree THEN "deleted" ELSE "open"]
        /\ busy' = [t \in Threads |-> busy[t] /\ t \notin tree]
  /\ deletion' = [deletion EXCEPT ![d] = "deleted"] /\ lock' = "free"
  /\ UNCHANGED <<journal, current, asked, execution, due, waits, target, closing, history>>

\* The caller's context ends while executions drain, or storage refuses: the
\* fences are lifted and nothing else is done (releaseDeleteFences).
RefuseDelete(d) ==
  /\ deletion[d] = "draining"
  /\ fence' = [t \in Threads |-> IF fence[t] = "deleting" THEN "open" ELSE fence[t]]
  /\ waits' = [waits EXCEPT ![d] = {}]
  /\ deletion' = [deletion EXCEPT ![d] = "refused"] /\ lock' = "free"
  /\ UNCHANGED <<storage, busy, current, asked, execution, due, target, closing, history>>
-----------------------------------------------------------------------------
(* Shutdown.                                                               *)

CallShutdown ==
  /\ host = "open" /\ host' = "closing"
  /\ UNCHANGED <<storage, actor, asked, execution, due, lock, waits, deleting, left,
                 settling, history>>

BeginClose ==
  /\ host = "closing" /\ lock = "free"
  /\ host' = "settling" /\ lock' = "shutdown" /\ left' = Threads
  /\ UNCHANGED <<storage, actor, asked, execution, due, waits, deleting, settling, history>>

\* close reads the actor's channels and its turn ...
Visit(t) ==
  /\ host = "settling" /\ settling = NoTurn /\ t \in left
  /\ left' = left \ {t}
  /\ waits' = [waits EXCEPT !["shutdown"] = @ \cup Joins(t)]
  /\ settling' = IF fence[t] = "open" /\ busy[t] THEN <<t, current[t]>> ELSE NoTurn
  /\ UNCHANGED <<storage, actor, asked, execution, due, lock, deleting, host, history>>

\* ... and stops that turn, if the actor still has it.
SettleTurn ==
  /\ settling # NoTurn /\ settling' = NoTurn
  /\ LET t == settling[1]  n == settling[2]
     IN /\ IF Stops(t, n) THEN Record(t, n, "stopped") /\ Settle(t, n)
           ELSE UNCHANGED <<journal, actor, history>>
        /\ cancelled' = cancelled \cup {settling}
  /\ UNCHANGED <<stored, asked, worker, due, lock, waits, deleting, host, left>>

FinishClose ==
  /\ host = "settling" /\ left = {} /\ settling = NoTurn /\ waits["shutdown"] = {}
  /\ host' = "closed" /\ lock' = "free"
  /\ fence' = [t \in Threads |-> IF fence[t] = "deleted" THEN "deleted" ELSE "closed"]
  /\ UNCHANGED <<storage, busy, current, asked, execution, due, waits, deleting, left,
                 settling, history>>
-----------------------------------------------------------------------------
Work(t, n) ==
  \/ Prepare(t, n) \/ LosePreparation(t, n) \/ Execute(t, n) \/ Abort(t, n)
  \/ ClaimEffect(t, n) \/ CallCreate(t, n) \/ Create(t, n) \/ ReturnEffect(t, n)
  \/ End(t, n) \/ FinishSend(t, n) \/ FallbackStops(t, n) \/ FallbackFails(t, n)
  \/ FinishStop(t, n)

Requests == \E t \in Threads : Begin(t) \/ Refuse(t)
Deleting(d) == Fence(d) \/ CommitDelete(d)
Closing == BeginClose \/ (\E t \in Threads : Visit(t)) \/ SettleTurn \/ FinishClose

\* What users do, and a deletion that fails, with no promise that they do it.
Outside ==
  \/ \E t \in Threads :
       \/ Ask(t) \/ StopNow(t)
       \/ Parent[t] # NoThread /\ CreateByUser(t)
       \/ \E d \in Deletions : CallDelete(d, t)
  \/ \E d \in Deletions : RefuseDelete(d)
  \/ CallShutdown

LifecycleNext ==
  \/ \E t \in Threads : \E n \in TurnsOf(t) : Work(t, n)
  \/ Requests \/ (\E d \in Deletions : Deleting(d)) \/ Closing \/ Outside

\* Goroutines run, handlers return, and whoever waits for the lock gets it.
LifecycleFairness ==
  /\ \A t \in Threads : \A n \in TurnsOf(t) : WF_lifecycleVars(Work(t, n))
  /\ WF_lifecycleVars(Requests)
  /\ \A d \in Deletions : WF_lifecycleVars(Deleting(d))
  /\ WF_lifecycleVars(Closing)

LifecycleSpec == LifecycleInit /\ [][LifecycleNext]_lifecycleVars
FairLifecycle == LifecycleSpec /\ LifecycleFairness
-----------------------------------------------------------------------------
(* Properties.                                                             *)

\* A tool handler never works for a thread that is deleted, nor behind a store
\* that is closed: the drains cover every handler of the subtree, also that of
\* a turn which was stopped and followed by another one, and no child can be
\* created between the fence and the deletion (Delete, close).
QuietEnd ==
  \A t \in Threads :
    stored[t] = "deleted" \/ host = "closed" => Handling(t) = {}

\* Nobody is left to bring turn n of t to its end.
Abandoned(t, n) ==
  /\ journal[t][n] = "active" \/ (Owns(t, n) /\ fence[t] # "closed")
  /\ worker[t][n] = "none" /\ <<t, n>> \notin due /\ settling # <<t, n>>

\* A turn on record as active, or that its actor calls active, has an execution
\* or a stop that will end it, through stops, shutdown and refused deletions.
\* The two exceptions are ends that came while the fence of a deletion was up,
\* which the actor never learns, and turns begun behind the shutdown's back.
NoTurnAbandoned ==
  \A t \in Threads : \A n \in TurnsOf(t) :
    stored[t] = "live" /\ Abandoned(t, n) => <<t, n>> \in missed \cup slipped

\* The holder of the lock waits for a handler that waits for the lock.
Entangled ==
  lock # "free" /\ \E t \in Threads : \E n \in TurnsOf(t) :
    worker[t][n] = "creating" /\ waits[lock] \cap {<<t, 0>>, <<t, n>>} # {}

\* A deletion comes to an answer and a shutdown closes the host, whatever they
\* find at work, unless a handler they wait for is creating a thread.
LifecycleEnds ==
  /\ \A d \in Deletions :
       deletion[d] = "waiting" ~> deletion[d] \in {"deleted", "refused"} \/ Entangled
  /\ host = "closing" ~> host = "closed" \/ Entangled
=============================================================================
