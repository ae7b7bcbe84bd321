------------------------ MODULE HostLifecycleProofs ------------------------
(***************************************************************************)
(* Proofs about HostLifecycle for every forest of threads and any number   *)
(* of turns and deletions: who still ends a turn, and what a deletion or a *)
(* shutdown has waited for.                                                *)
(***************************************************************************)
EXTENDS HostLifecycle, TLAPS

Outcomes == {"none", "active", "ended", "stopped"}

LEMMA Operations ==
  /\ "free" \notin Deletions /\ "shutdown" \notin Deletions
  /\ NoThread \notin Threads
  /\ \A t \in Threads : Turns[t] \in Nat /\ Turns[t] > 0
  BY LifecycleAssumption

LEMMA Numbers == \A t \in Threads : \A n : n \in TurnsOf(t) <=> n \in Nat /\ n > 0 /\ n <= Turns[t]
  BY Operations DEF TurnsOf

LEMMA TurnNames ==
  /\ \A t \in Threads : \A n \in TurnsOf(t) :
       <<t, n>> \in AllTurns /\ <<t, n>> \in Channels /\ <<t, n>> # NoTurn
       /\ <<t, n>> # <<t, 0>>
  /\ \A t \in Threads : <<t, 0>> \in Channels
<1>1. ASSUME NEW t \in Threads, NEW n \in TurnsOf(t)
      PROVE  <<t, n>> \in UNION {{u} \X TurnsOf(u) : u \in Threads}
  <2>1. {t} \X TurnsOf(t) \in {{u} \X TurnsOf(u) : u \in Threads}
    OBVIOUS
  <2>2. <<t, n>> \in {t} \X TurnsOf(t)
    OBVIOUS
  <2> DEFINE rows == {{u} \X TurnsOf(u) : u \in Threads}
             row == {t} \X TurnsOf(t)
  <2>3. row \in rows /\ <<t, n>> \in row
    BY <2>1, <2>2
  <2> HIDE DEF row, rows
  <2>4. <<t, n>> \in UNION rows
    BY <2>3
  <2>5. QED
    BY <2>4 DEF rows
<1>2. \A t \in Threads : \A n \in TurnsOf(t) : <<t, n>> \in AllTurns
  BY <1>1 DEF AllTurns
<1>3. QED
  BY <1>2, Operations, Numbers DEF Channels, NoTurn

LEMMA AllTurnsAre ==
  \A x \in AllTurns : \E t \in Threads : \E n \in TurnsOf(t) : x = <<t, n>>
  BY DEF AllTurns

\* What writing one turn of one thread does to a table of turns.
LEMMA TableUpdate ==
  ASSUME NEW f, NEW V, DOMAIN f = Threads, \A u \in Threads : f[u] \in [TurnsOf(u) -> V],
         NEW t \in Threads, NEW n \in TurnsOf(t), NEW v \in V
  PROVE  LET g == [f EXCEPT ![t][n] = v]
         IN /\ DOMAIN g = Threads
            /\ \A u \in Threads : g[u] \in [TurnsOf(u) -> V]
            /\ g[t][n] = v
            /\ \A u \in Threads : \A m \in TurnsOf(u) : u # t \/ m # n => g[u][m] = f[u][m]
<1> DEFINE row == [f[t] EXCEPT ![n] = v]
           g == [f EXCEPT ![t] = row]
<1>1. row \in [TurnsOf(t) -> V] /\ row[n] = v /\ \A m \in TurnsOf(t) : m # n => row[m] = f[t][m]
  OBVIOUS
<1> HIDE DEF row
<1>2. DOMAIN g = Threads /\ g[t] = row /\ \A u \in Threads : u # t => g[u] = f[u]
  OBVIOUS
<1>3. \A u \in Threads : g[u] \in [TurnsOf(u) -> V]
  BY <1>1, <1>2
<1>4. g[t][n] = v /\ \A u \in Threads : \A m \in TurnsOf(u) : u # t \/ m # n => g[u][m] = f[u][m]
  BY <1>1, <1>2
<1>5. g = [f EXCEPT ![t][n] = v]
  BY DEF row
<1> HIDE DEF g
<1>6. QED
  BY <1>2, <1>3, <1>4, <1>5

LEMMA StageUpdate ==
  ASSUME LifecycleTypeOK, NEW t \in Threads, NEW n \in TurnsOf(t), NEW stage \in Stages,
         Stage(t, n, stage)
  PROVE  /\ DOMAIN worker' = Threads
         /\ \A u \in Threads : worker'[u] \in [TurnsOf(u) -> Stages]
         /\ worker'[t][n] = stage
         /\ \A u \in Threads : \A m \in TurnsOf(u) : u # t \/ m # n => worker'[u][m] = worker[u][m]
<1>1. DOMAIN worker = Threads /\ \A u \in Threads : worker[u] \in [TurnsOf(u) -> Stages]
  BY DEF LifecycleTypeOK
<1>2. worker' = [worker EXCEPT ![t][n] = stage]
  BY DEF Stage
<1>3. QED
  BY <1>1, <1>2, TableUpdate

LEMMA RecordUpdate ==
  ASSUME LifecycleTypeOK, NEW t \in Threads, NEW n \in TurnsOf(t), NEW outcome \in Outcomes,
         Record(t, n, outcome)
  PROVE  /\ DOMAIN journal' = Threads
         /\ \A u \in Threads : journal'[u] \in [TurnsOf(u) -> Outcomes]
         /\ journal'[t][n] = outcome
         /\ \A u \in Threads : \A m \in TurnsOf(u) : u # t \/ m # n => journal'[u][m] = journal[u][m]
<1>1. DOMAIN journal = Threads /\ \A u \in Threads : journal[u] \in [TurnsOf(u) -> Outcomes]
  BY DEF LifecycleTypeOK, Outcomes
<1>2. journal' = [journal EXCEPT ![t][n] = outcome]
  BY DEF Record
<1>3. QED
  BY <1>1, <1>2, TableUpdate

-----------------------------------------------------------------------------
(* Types.                                                                   *)

\* A busy actor has a turn.
BusyHasTurn == \A t \in Threads : busy[t] => current[t] # 0

TypeInv == LifecycleTypeOK /\ BusyHasTurn

LEMMA InitType == LifecycleInit => TypeInv
  BY Operations DEF LifecycleInit, LifecycleTypeOK, Stages, TypeInv, BusyHasTurn

LEMMA JoinsTyped ==
  ASSUME LifecycleTypeOK, NEW t \in Threads
  PROVE  Joins(t) \in SUBSET Channels
<1>1. ~Done(t, current[t]) => <<t, current[t]>> \in Channels
  BY TurnNames DEF Done, Undrained
<1>2. QED
  BY <1>1, TurnNames DEF Joins

\* The turn of a busy actor.
LEMMA CurrentTurn ==
  ASSUME TypeInv, NEW t \in Threads, busy[t]
  PROVE  current[t] \in TurnsOf(t) /\ <<t, current[t]>> \in AllTurns
  BY Numbers, TurnNames, Operations DEF TypeInv, LifecycleTypeOK, BusyHasTurn

\* Settle touches the actor of its turn only.
LEMMA SettleType ==
  ASSUME TypeInv, NEW t \in Threads, NEW n \in TurnsOf(t), Settle(t, n)
  PROVE  /\ busy' \in [Threads -> BOOLEAN] /\ missed' \subseteq AllTurns
         /\ \A u \in Threads : busy'[u] => busy[u]
         /\ UNCHANGED <<current, fence, slipped>>
  BY TurnNames DEF Settle, TypeInv, LifecycleTypeOK

LEMMA WorkType ==
  ASSUME TypeInv, NEW t \in Threads, NEW n \in TurnsOf(t), Work(t, n)
  PROVE  TypeInv'
<1> USE DEF storage, actor, execution, deleting, closing, history, TypeInv, BusyHasTurn
<1>1. CASE Prepare(t, n) \/ Execute(t, n) \/ Abort(t, n) \/ ClaimEffect(t, n) \/ CallCreate(t, n)
  BY <1>1, StageUpdate DEF Prepare, Execute, Abort, ClaimEffect, CallCreate, Stages, LifecycleTypeOK
<1>2. CASE LosePreparation(t, n) \/ ReturnEffect(t, n)
  BY <1>2, StageUpdate DEF LosePreparation, ReturnEffect, Closes, Stages, LifecycleTypeOK
<1>3. CASE Create(t, n)
  <2>1. stored' \in [Threads -> {"absent", "live", "deleted"}]
    BY <1>3 DEF Create, LifecycleTypeOK
  <2>2. Stage(t, n, "created") /\ "created" \in Stages
    BY <1>3 DEF Create, Stages
  <2>3. /\ DOMAIN worker' = Threads
        /\ \A u \in Threads : worker'[u] \in [TurnsOf(u) -> Stages]
    BY <2>2, StageUpdate
  <2>4. QED
    BY <1>3, <2>1, <2>3 DEF Create, LifecycleTypeOK
<1>4. CASE End(t, n)
  BY <1>4, StageUpdate, RecordUpdate DEF End, Stages, Outcomes, LifecycleTypeOK
<1>5. CASE FinishSend(t, n)
  BY <1>5, StageUpdate, SettleType DEF FinishSend, Closes, Stages, LifecycleTypeOK
<1>6. CASE FallbackStops(t, n)
  BY <1>6, StageUpdate, RecordUpdate, TurnNames
     DEF FallbackStops, Closes, Stages, Outcomes, LifecycleTypeOK
<1>7. CASE FallbackFails(t, n)
  BY <1>7, StageUpdate, RecordUpdate DEF FallbackFails, Stages, Outcomes, LifecycleTypeOK
<1>8. CASE FinishStop(t, n)
  BY <1>8, SettleType DEF FinishStop, LifecycleTypeOK
<1>9. QED
  BY <1>1, <1>2, <1>3, <1>4, <1>5, <1>6, <1>7, <1>8 DEF Work

LEMMA UserType ==
  ASSUME TypeInv, NEW t \in Threads,
         Begin(t) \/ Refuse(t) \/ Ask(t) \/ StopNow(t) \/ CreateByUser(t)
           \/ \E d \in Deletions : CallDelete(d, t)
  PROVE  TypeInv'
<1> USE DEF storage, actor, execution, deleting, closing, history, TypeInv, BusyHasTurn
<1>1. CASE Begin(t)
  <2> DEFINE n == current[t] + 1
  <2>1. current[t] \in Nat /\ n \in TurnsOf(t)
    BY <1>1, Numbers, Operations DEF Begin, Begins, LifecycleTypeOK
  <2>2. Stage(t, n, "preparing") /\ Record(t, n, "active")
    BY <1>1 DEF Begin
  <2>3. /\ DOMAIN worker' = Threads /\ DOMAIN journal' = Threads
        /\ \A u \in Threads : worker'[u] \in [TurnsOf(u) -> Stages]
        /\ \A u \in Threads : journal'[u] \in [TurnsOf(u) -> Outcomes]
    BY <2>1, <2>2, StageUpdate, RecordUpdate DEF Stages, Outcomes
  <2>4. current' = [current EXCEPT ![t] = n] /\ busy' = [busy EXCEPT ![t] = TRUE]
    BY <1>1 DEF Begin
  <2>5. /\ busy' \in [Threads -> BOOLEAN] /\ DOMAIN current' = Threads
        /\ \A u \in Threads : current'[u] \in 0..Turns[u] /\ (busy'[u] => current'[u] # 0)
    <3>1. busy' \in [Threads -> BOOLEAN]
      BY <2>4 DEF LifecycleTypeOK
    <3>2. n \in 0..Turns[t] /\ n # 0
      BY <2>1, Numbers, Operations
    <3> HIDE DEF n
    <3>3. \A u \in Threads : current'[u] = (IF u = t THEN n ELSE current[u])
      BY <2>4 DEF LifecycleTypeOK
    <3>4. QED
      BY <2>4, <3>1, <3>2, <3>3 DEF LifecycleTypeOK
  <2>6. slipped' \subseteq AllTurns
    BY <1>1, <2>1, TurnNames DEF Begin, LifecycleTypeOK
  <2>7. UNCHANGED <<stored, fence, cancelled, due, lock, waits, deletion, target,
                    host, left, settling, missed>> /\ asked' \subseteq asked
    BY <1>1 DEF Begin
  <2>8. QED
    BY <2>3, <2>5, <2>6, <2>7 DEF LifecycleTypeOK, Outcomes
<1>2. CASE StopNow(t)
  <2>1. current[t] \in TurnsOf(t) /\ <<t, current[t]>> \in AllTurns
    BY <1>2, CurrentTurn DEF StopNow, Stops, Owns
  <2>2. Record(t, current[t], "stopped") /\ cancelled' = cancelled \cup {<<t, current[t]>>}
        /\ due' = due \cup {<<t, current[t]>>}
    BY <1>2 DEF StopNow
  <2>3. /\ DOMAIN journal' = Threads
        /\ \A u \in Threads : journal'[u] \in [TurnsOf(u) -> Outcomes]
    BY <2>1, <2>2, RecordUpdate DEF Outcomes
  <2>4. QED
    BY <1>2, <2>1, <2>2, <2>3 DEF StopNow, LifecycleTypeOK, Outcomes
<1>3. CASE Refuse(t) \/ Ask(t) \/ CreateByUser(t)
  BY <1>3 DEF Refuse, Ask, CreateByUser, LifecycleTypeOK
<1>4. CASE \E d \in Deletions : CallDelete(d, t)
  BY <1>4 DEF CallDelete, LifecycleTypeOK
<1>5. QED
  BY <1>1, <1>2, <1>3, <1>4

LEMMA DeletionType ==
  ASSUME TypeInv, NEW d \in Deletions, Fence(d) \/ CommitDelete(d) \/ RefuseDelete(d)
  PROVE  TypeInv'
<1> USE DEF storage, actor, execution, deleting, closing, history, TypeInv, BusyHasTurn
<1>1. CASE Fence(d)
  <2> DEFINE tree == Subtree(target[d])
  <2>1. tree \subseteq Threads
    BY DEF Subtree
  <2>2. UNION {Joins(t) : t \in tree} \in SUBSET Channels
    BY <2>1, JoinsTyped
  <2>3. {<<t, current[t]>> : t \in {u \in tree : busy[u]}} \in SUBSET AllTurns
    BY <2>1, CurrentTurn
  <2>4. \/ /\ deletion' = [deletion EXCEPT ![d] = "refused"]
           /\ UNCHANGED <<fence, waits, cancelled, lock>>
        \/ /\ deletion' = [deletion EXCEPT ![d] = "draining"] /\ lock' = d
           /\ fence' = [t \in Threads |-> IF t \in tree THEN "deleting" ELSE fence[t]]
           /\ waits' = [waits EXCEPT ![d] = UNION {Joins(t) : t \in tree}]
           /\ cancelled' = cancelled \cup {<<t, current[t]>> : t \in {u \in tree : busy[u]}}
    BY <1>1 DEF Fence
  <2>5. UNCHANGED <<storage, busy, current, asked, worker, due, target, closing, history>>
    BY <1>1 DEF Fence
  <2> DEFINE channels == UNION {Joins(t) : t \in tree}
             stopped == {<<t, current[t]>> : t \in {u \in tree : busy[u]}}
  <2> HIDE DEF tree, channels, stopped
  <2>6. /\ waits' \in [Deletions \cup {"shutdown"} -> SUBSET Channels]
        /\ cancelled' \subseteq AllTurns
        /\ fence' \in [Threads -> {"open", "deleting", "deleted", "closed"}]
        /\ deletion' \in [Deletions -> {"idle", "waiting", "draining", "deleted", "refused"}]
        /\ lock' \in Deletions \cup {"free", "shutdown"}
    BY <2>2, <2>3, <2>4 DEF LifecycleTypeOK, channels, stopped
  <2>7. QED
    BY <2>5, <2>6 DEF LifecycleTypeOK
<1>2. CASE CommitDelete(d)
  BY <1>2 DEF CommitDelete, LifecycleTypeOK
<1>3. CASE RefuseDelete(d)
  BY <1>3 DEF RefuseDelete, LifecycleTypeOK
<1>4. QED
  BY <1>1, <1>2, <1>3

LEMMA ShutdownType ==
  ASSUME TypeInv, CallShutdown \/ Closing
  PROVE  TypeInv'
<1> USE DEF storage, actor, execution, deleting, closing, history, TypeInv, BusyHasTurn
<1>1. CASE CallShutdown \/ BeginClose \/ FinishClose
  BY <1>1 DEF CallShutdown, BeginClose, FinishClose, LifecycleTypeOK
<1>2. CASE \E t \in Threads : Visit(t)
  <2>1. PICK t \in Threads : Visit(t)
    BY <1>2
  <2>2. waits' = [waits EXCEPT !["shutdown"] = waits["shutdown"] \cup Joins(t)]
    BY <2>1 DEF Visit
  <2>3. waits' \in [Deletions \cup {"shutdown"} -> SUBSET Channels]
    BY <2>2, JoinsTyped DEF LifecycleTypeOK
  <2>4. settling' \in AllTurns \cup {NoTurn}
    BY <2>1, CurrentTurn DEF Visit
  <2>5. QED
    BY <2>1, <2>3, <2>4 DEF Visit, LifecycleTypeOK
<1>3. CASE SettleTurn
  <2>1. settling \in AllTurns /\ settling' = NoTurn
    BY <1>3 DEF SettleTurn, LifecycleTypeOK
  <2>2. PICK t \in Threads : \E m \in TurnsOf(t) : settling = <<t, m>>
    BY <2>1, AllTurnsAre
  <2>3. PICK n \in TurnsOf(t) : settling = <<t, n>>
    BY <2>2
  <2>4. \/ Record(t, n, "stopped") /\ Settle(t, n)
        \/ UNCHANGED <<journal, actor, history>>
    BY <1>3, <2>3 DEF SettleTurn
  <2>5. /\ DOMAIN journal' = Threads
        /\ \A u \in Threads : journal'[u] \in [TurnsOf(u) -> Outcomes]
    BY <2>4, RecordUpdate DEF Outcomes, LifecycleTypeOK
  <2>6. /\ busy' \in [Threads -> BOOLEAN] /\ missed' \subseteq AllTurns
        /\ \A u \in Threads : busy'[u] => busy[u]
        /\ UNCHANGED <<current, fence, slipped>>
    BY <2>4, SettleType DEF LifecycleTypeOK
  <2>7. /\ cancelled' \subseteq AllTurns
        /\ UNCHANGED <<stored, asked, worker, due, lock, waits, deletion, target, host, left>>
    BY <1>3, <2>1 DEF SettleTurn, LifecycleTypeOK
  <2>8. QED
    BY <2>1, <2>5, <2>6, <2>7 DEF LifecycleTypeOK, Outcomes
<1>4. QED
  BY <1>1, <1>2, <1>3 DEF Closing

LEMMA StepType == TypeInv /\ [LifecycleNext]_lifecycleVars => TypeInv'
<1>1. TypeInv /\ UNCHANGED lifecycleVars => TypeInv'
  BY DEF TypeInv, BusyHasTurn, LifecycleTypeOK, lifecycleVars, storage, actor, execution,
     deleting, closing, history
<1>2. QED
  BY <1>1, WorkType, UserType, DeletionType, ShutdownType
     DEF LifecycleNext, Requests, Deleting, Outside

\* The state of the host is well formed whatever threads do, and a busy actor
\* has a turn.
THEOREM LifecycleTyped == LifecycleSpec => []TypeInv
  BY InitType, StepType, PTL DEF LifecycleSpec

-----------------------------------------------------------------------------
(* The lock, the fences and the host: one deletion or the shutdown at a     *)
(* time, each with its fences.                                              *)

Fenced(t) ==
  /\ fence[t] = "deleted" => stored[t] = "deleted"
  /\ fence[t] = "closed" <=> host = "closed" /\ fence[t] # "deleted"
  /\ fence[t] = "deleting" => lock \in Deletions

Locked ==
  /\ \A d \in Deletions : deletion[d] = "draining" <=> lock = d
  /\ lock = "shutdown" <=> host = "settling"
  /\ settling # NoTurn => host = "settling" /\ settling[1] \notin left

HostInv == Locked /\ \A t \in Threads : Fenced(t)

LEMMA InitHost == LifecycleInit => HostInv
  BY Operations DEF LifecycleInit, HostInv, Locked, Fenced

\* Whatever works on turns leaves the lock, the fences and the host alone, and
\* nothing brings a deleted thread back.
Unlocked ==
  /\ UNCHANGED <<fence, lock, deletion, target, host, left, settling>>
  /\ \A t \in Threads : stored[t] = "deleted" => stored'[t] = "deleted"

LEMMA TurnsUnlocked ==
  ASSUME TypeInv, NEW t \in Threads
  PROVE  /\ \A n \in TurnsOf(t) : Work(t, n) => Unlocked
         /\ Begin(t) \/ Refuse(t) \/ Ask(t) \/ StopNow(t) \/ CreateByUser(t) => Unlocked
<1> USE DEF storage, actor, execution, deleting, closing, history
<1>1. ASSUME NEW n \in TurnsOf(t), Work(t, n)
      PROVE  Unlocked
  <2>1. CASE Create(t, n)
    BY <2>1 DEF Create, Unlocked, TypeInv, LifecycleTypeOK
  <2>2. CASE FinishSend(t, n) \/ FinishStop(t, n)
    BY <2>2 DEF FinishSend, FinishStop, Settle, Unlocked
  <2>3. QED
    BY <1>1, <2>1, <2>2 DEF Work, Prepare, LosePreparation, Execute, Abort, ClaimEffect, CallCreate,
       ReturnEffect, End, FallbackStops, FallbackFails, Unlocked
<1>2. ASSUME CreateByUser(t) PROVE Unlocked
  BY <1>2 DEF CreateByUser, Unlocked, TypeInv, LifecycleTypeOK
<1>3. ASSUME Begin(t) \/ Refuse(t) \/ Ask(t) \/ StopNow(t) PROVE Unlocked
  BY <1>3 DEF Begin, Refuse, Ask, StopNow, Unlocked
<1>4. QED
  BY <1>1, <1>2, <1>3

LEMMA UnlockedHost == HostInv /\ Unlocked => HostInv'
  BY DEF HostInv, Locked, Fenced, Unlocked

LEMMA DeletionHost ==
  ASSUME TypeInv, HostInv, NEW d \in Deletions,
         Fence(d) \/ CommitDelete(d) \/ RefuseDelete(d) \/ \E t \in Threads : CallDelete(d, t)
  PROVE  HostInv'
<1> USE DEF storage, actor, execution, deleting, closing, history
<1>1. \A e \in Deletions : e # "free" /\ e # "shutdown"
  BY Operations
<1>2. deletion \in [Deletions -> {"idle", "waiting", "draining", "deleted", "refused"}]
  BY DEF TypeInv, LifecycleTypeOK
<1>3. CASE Fence(d)
  <2> DEFINE tree == Subtree(target[d])
  <2>1. UNCHANGED <<stored, host, left, settling>> /\ deletion[d] = "waiting" /\ lock = "free"
    BY <1>3 DEF Fence
  <2>2. CASE tree = {} \/ \E t \in tree : fence[t] = "closed"
    <3>1. deletion' = [deletion EXCEPT ![d] = "refused"] /\ UNCHANGED <<fence, lock>>
      BY <1>3, <2>2 DEF Fence
    <3>2. QED
      BY <1>1, <1>2, <2>1, <3>1 DEF HostInv, Locked, Fenced
  <2>3. CASE ~(tree = {} \/ \E t \in tree : fence[t] = "closed")
    <3>1. /\ deletion' = [deletion EXCEPT ![d] = "draining"] /\ lock' = d
          /\ fence' = [t \in Threads |-> IF t \in tree THEN "deleting" ELSE fence[t]]
      BY <1>3, <2>3 DEF Fence
    <3>2. Locked'
      BY <1>1, <1>2, <2>1, <3>1 DEF HostInv, Locked
    <3>3. PICK v \in tree : fence[v] # "closed"
      BY <2>3
    <3>4. v \in Threads /\ stored[v] = "live"
      BY DEF Subtree
    <3>5. host # "closed"
      BY <3>3, <3>4 DEF HostInv, Fenced
    <3>6. ASSUME NEW t \in Threads PROVE Fenced(t)'
      BY <2>1, <3>1, <3>5 DEF HostInv, Fenced
    <3>7. QED
      BY <3>2, <3>6 DEF HostInv
  <2>4. QED
    BY <2>2, <2>3
<1>4. ASSUME deletion[d] = "draining" PROVE lock = d /\ host # "settling" /\ settling = NoTurn
  BY <1>1, <1>4 DEF HostInv, Locked
<1>5. CASE CommitDelete(d)
  <2> DEFINE tree == Subtree(target[d])
  <2>1. /\ deletion[d] = "draining" /\ deletion' = [deletion EXCEPT ![d] = "deleted"]
        /\ lock' = "free" /\ UNCHANGED <<host, left, settling>>
        /\ stored' = [t \in Threads |-> IF t \in tree THEN "deleted" ELSE stored[t]]
        /\ fence' = [t \in Threads |-> IF fence[t] # "deleting" THEN fence[t]
                                       ELSE IF t \in tree THEN "deleted" ELSE "open"]
    BY <1>5 DEF CommitDelete
  <2>2. Locked'
    BY <1>1, <1>2, <1>4, <2>1 DEF HostInv, Locked
  <2>3. ASSUME NEW t \in Threads PROVE Fenced(t)'
    BY <2>1, <2>3 DEF HostInv, Fenced
  <2>4. QED
    BY <2>2, <2>3 DEF HostInv
<1>6. CASE RefuseDelete(d)
  <2>1. /\ deletion[d] = "draining" /\ deletion' = [deletion EXCEPT ![d] = "refused"]
        /\ lock' = "free" /\ UNCHANGED <<host, left, settling, stored>>
        /\ fence' = [t \in Threads |-> IF fence[t] = "deleting" THEN "open" ELSE fence[t]]
    BY <1>6 DEF RefuseDelete
  <2>2. Locked'
    BY <1>1, <1>2, <1>4, <2>1 DEF HostInv, Locked
  <2>3. ASSUME NEW t \in Threads PROVE Fenced(t)'
    BY <2>1, <2>3 DEF HostInv, Fenced
  <2>4. QED
    BY <2>2, <2>3 DEF HostInv
<1>7. CASE \E t \in Threads : CallDelete(d, t)
  <2>1. /\ deletion[d] = "idle" /\ deletion' = [deletion EXCEPT ![d] = "waiting"]
        /\ UNCHANGED <<fence, lock, host, left, settling, stored>>
    BY <1>7 DEF CallDelete
  <2>2. QED
    BY <1>2, <2>1 DEF HostInv, Locked, Fenced
<1>8. QED
  BY <1>3, <1>5, <1>6, <1>7

LEMMA ShutdownHost ==
  ASSUME TypeInv, HostInv, CallShutdown \/ Closing
  PROVE  HostInv'
<1> USE DEF storage, actor, execution, deleting, closing, history
<1>1. \A e \in Deletions : e # "free" /\ e # "shutdown"
  BY Operations
<1>2. CASE CallShutdown \/ BeginClose
  BY <1>1, <1>2 DEF CallShutdown, BeginClose, HostInv, Locked, Fenced
<1>3. CASE \E t \in Threads : Visit(t)
  <2>1. PICK t \in Threads : Visit(t)
    BY <1>3
  <2>2. settling' # NoTurn => settling'[1] = t
    BY <2>1 DEF Visit
  <2>3. host = "settling" /\ left' = left \ {t} /\ UNCHANGED <<stored, fence, lock, deletion, host>>
    BY <2>1 DEF Visit
  <2>4. QED
    BY <2>2, <2>3 DEF HostInv, Locked, Fenced
<1>4. CASE SettleTurn
  <2>1. settling' = NoTurn /\ UNCHANGED <<stored, fence, lock, deletion, host, left>>
    BY <1>4 DEF SettleTurn, Settle
  <2>2. QED
    BY <2>1 DEF HostInv, Locked, Fenced
<1>5. CASE FinishClose
  <2>1. /\ host = "settling" /\ settling = NoTurn /\ host' = "closed" /\ lock' = "free"
        /\ fence' = [t \in Threads |-> IF fence[t] = "deleted" THEN "deleted" ELSE "closed"]
        /\ UNCHANGED <<stored, deletion, left, settling>>
    BY <1>5 DEF FinishClose
  <2>2. Locked'
    BY <1>1, <2>1 DEF HostInv, Locked
  <2>3. ASSUME NEW t \in Threads PROVE Fenced(t)'
    BY <2>1, <2>3 DEF HostInv, Fenced
  <2>4. QED
    BY <2>2, <2>3 DEF HostInv
<1>6. QED
  BY <1>2, <1>3, <1>4, <1>5 DEF Closing

-----------------------------------------------------------------------------
(* A turn: its record, its worker and its actor.                            *)

Ending == {"ending", "lateEnding"}
Alive == Stages \ ({"none"} \cup Ending)

\* Nothing exists of a turn that has not begun; a turn recorded as active is
\* the one its actor has, and a worker that has not ended its turn finds it
\* active or stopped.
Recorded(t, n) ==
  /\ stored[t] = "absent" \/ n > current[t] =>
       worker[t][n] = "none" /\ journal[t][n] = "none"
  /\ stored[t] # "deleted" /\ journal[t][n] = "active" => Owns(t, n)
  /\ stored[t] # "deleted" /\ journal[t][n] = "active" /\ worker[t][n] \in Ending =>
       host = "closed"
  /\ stored[t] # "deleted" /\ Owns(t, n) => journal[t][n] # "none"
  /\ worker[t][n] \in Alive => journal[t][n] \in {"active", "stopped"}
  /\ <<t, n>> \in due => journal[t][n] = "stopped"

\* Who goes on with the turn an actor has.
Attended(t, n) ==
  stored[t] # "deleted" /\ Owns(t, n) /\ <<t, n>> \notin missed \cup slipped =>
    /\ journal[t][n] = "active" => worker[t][n] \in Alive
    /\ fence[t] # "closed" /\ journal[t][n] = "stopped" =>
         worker[t][n] \in Ending \/ <<t, n>> \in due
    /\ fence[t] # "closed" /\ journal[t][n] = "ended" => worker[t][n] \in Ending

\* The shutdown has passed: a turn that is still active began behind its back.
Passed(t) == host = "closed" \/ (host = "settling" /\ t \notin left)
Shut(t, n) ==
  Passed(t) /\ stored[t] # "deleted" /\ journal[t][n] = "active" /\ settling # <<t, n>> =>
    <<t, n>> \in slipped

TurnSafe(t, n) == Recorded(t, n) /\ Attended(t, n) /\ Shut(t, n)
Idle == \A t \in Threads : stored[t] = "absent" => ~busy[t]
TurnInv == Idle /\ \A t \in Threads : \A n \in TurnsOf(t) : TurnSafe(t, n)

LEMMA InitTurn == LifecycleInit => TurnInv
  BY Numbers DEF LifecycleInit, TurnInv, Idle, TurnSafe, Recorded, Attended, Shut, Owns, Ending,
     Alive, Passed

LEMMA TurnParts == ASSUME TypeInv, TurnInv PROVE NoTurnAbandoned
<1> SUFFICES ASSUME NEW t \in Threads, NEW n \in TurnsOf(t), stored[t] = "live", Abandoned(t, n),
                    <<t, n>> \notin missed \cup slipped
             PROVE  FALSE
  BY DEF NoTurnAbandoned
<1>1. TurnSafe(t, n) /\ worker[t][n] = "none" /\ <<t, n>> \notin due
  BY DEF TurnInv, Abandoned
<1>2. journal[t][n] \in Outcomes
  BY DEF TypeInv, LifecycleTypeOK, Outcomes
<1>3. Owns(t, n)
  BY <1>1 DEF TurnSafe, Recorded, Abandoned
<1>4. CASE journal[t][n] = "active"
  BY <1>1, <1>3, <1>4 DEF TurnSafe, Attended, Alive
<1>5. CASE journal[t][n] # "active"
  BY <1>1, <1>2, <1>3, <1>5 DEF TurnSafe, Attended, Recorded, Abandoned, Outcomes, Ending
<1>6. QED
  BY <1>4, <1>5

-----------------------------------------------------------------------------
(* Steps that leave a turn as it is.                                        *)

\* Histories grow, a fence closes with the host for good, and the shutdown does
\* not pass the thread in this step.
Beside(u, m) ==
  /\ UNCHANGED <<worker[u][m], journal[u][m]>>
  /\ m > current'[u] => m > current[u]
  /\ <<u, m>> \in due' <=> <<u, m>> \in due
  /\ missed \subseteq missed' /\ slipped \subseteq slipped'
  /\ fence[u] = "closed" => fence'[u] = "closed"
  /\ host = "closed" => host' = "closed"
  /\ Passed(u)' => Passed(u)
  /\ settling = <<u, m>> => settling' = <<u, m>>

\* The actor of u keeps or loses its turn, but not turn m.
Keeps(u, m) == Owns(u, m)' <=> Owns(u, m)

LEMMA BesideSafe ==
  ASSUME NEW u \in Threads, NEW m \in TurnsOf(u), TurnSafe(u, m), Beside(u, m), Keeps(u, m),
         stored'[u] = stored[u]
  PROVE  TurnSafe(u, m)'
<1>1. Recorded(u, m)'
  BY DEF TurnSafe, Recorded, Beside, Keeps
<1>2. Attended(u, m)'
  BY DEF TurnSafe, Attended, Beside, Keeps
<1>3. Shut(u, m)'
  BY DEF TurnSafe, Shut, Beside
<1>4. QED
  BY <1>1, <1>2, <1>3 DEF TurnSafe

\* A thread that comes into being has no turn, and one that goes leaves none.
LEMMA BornSafe ==
  ASSUME NEW u \in Threads, NEW m \in TurnsOf(u), TurnSafe(u, m), Idle, Beside(u, m),
         stored[u] = "absent", stored'[u] = "live", busy'[u] = busy[u]
  PROVE  TurnSafe(u, m)'
<1>1. journal'[u][m] = "none" /\ worker'[u][m] = "none" /\ ~Owns(u, m)'
  BY DEF TurnSafe, Recorded, Beside, Idle, Owns
<1>2. Recorded(u, m)'
  BY <1>1 DEF TurnSafe, Recorded, Beside, Ending, Alive
<1>3. QED
  BY <1>1, <1>2 DEF TurnSafe, Attended, Shut

LEMMA GoneSafe ==
  ASSUME NEW u \in Threads, NEW m \in TurnsOf(u), TurnSafe(u, m), Beside(u, m),
         stored[u] = "live", stored'[u] = "deleted"
  PROVE  TurnSafe(u, m)'
<1>1. Recorded(u, m)'
  BY DEF TurnSafe, Recorded, Beside
<1>2. QED
  BY <1>1 DEF TurnSafe, Attended, Shut

-----------------------------------------------------------------------------
(* Work on one turn leaves the others as they are.                          *)

Born(u) == stored[u] = "absent" /\ stored'[u] = "live" /\ busy'[u] = busy[u]

Alone(t, n) ==
  /\ Unlocked /\ UNCHANGED current
  /\ missed \subseteq missed' /\ slipped \subseteq slipped'
  /\ \A u \in Threads : (stored'[u] = stored[u] /\ (busy'[u] => busy[u])) \/ Born(u)
  /\ \A u \in Threads : \A m \in TurnsOf(u) : u # t \/ m # n =>
       /\ UNCHANGED <<worker[u][m], journal[u][m]>>
       /\ <<u, m>> \in due' <=> <<u, m>> \in due
       /\ Keeps(u, m)

LEMMA AloneInv ==
  ASSUME TurnInv, NEW t \in Threads, NEW n \in TurnsOf(t), Alone(t, n), TurnSafe(t, n)'
  PROVE  TurnInv'
<1>1. ASSUME NEW u \in Threads, NEW m \in TurnsOf(u), u # t \/ m # n
      PROVE  TurnSafe(u, m)'
  <2>1. Beside(u, m) /\ Keeps(u, m) /\ TurnSafe(u, m) /\ Idle
    BY <1>1 DEF Alone, Unlocked, Beside, Passed, TurnInv
  <2>2. CASE Born(u)
    BY <2>1, <2>2, BornSafe DEF Born
  <2>3. CASE stored'[u] = stored[u]
    BY <2>1, <2>3, BesideSafe
  <2>4. QED
    BY <2>2, <2>3 DEF Alone
<1>2. Idle'
  BY DEF Alone, Born, TurnInv, Idle
<1>3. QED
  BY <1>1, <1>2 DEF TurnInv

\* The turn whose worker goes from one stage to another before its end.
LEMMA AliveSafe ==
  ASSUME NEW t \in Threads, NEW n \in TurnsOf(t), TurnSafe(t, n), Unlocked,
         worker[t][n] \in Alive, worker'[t][n] \in Alive,
         UNCHANGED <<journal[t][n], current, busy, due, missed, slipped>>,
         stored'[t] = stored[t]
  PROVE  TurnSafe(t, n)'
<1>1. Recorded(t, n)'
  BY DEF TurnSafe, Recorded, Unlocked, Owns, Alive, Ending
<1>2. Attended(t, n)'
  BY DEF TurnSafe, Attended, Unlocked, Owns, Alive, Ending
<1>3. Shut(t, n)'
  BY DEF TurnSafe, Shut, Passed, Unlocked
<1>4. QED
  BY <1>1, <1>2, <1>3 DEF TurnSafe

LEMMA SettleKeeps ==
  ASSUME TypeInv, NEW t \in Threads, NEW n \in TurnsOf(t), Settle(t, n)
  PROVE  /\ \A u \in Threads : \A m \in TurnsOf(u) : u # t \/ m # n => Keeps(u, m)
         /\ \A u \in Threads : busy'[u] => busy[u]
         /\ Owns(t, n)' => Owns(t, n) /\ fence[t] # "open"
         /\ Owns(t, n) /\ fence[t] = "deleting" => <<t, n>> \in missed'
         /\ missed \subseteq missed' /\ UNCHANGED <<current, fence, slipped>>
  BY DEF Settle, Keeps, Owns, TypeInv, LifecycleTypeOK

LEMMA WorkAlone ==
  ASSUME TypeInv, TurnInv, NEW t \in Threads, NEW n \in TurnsOf(t), Work(t, n)
  PROVE  Alone(t, n)
<1> USE DEF storage, actor, execution, deleting, closing, history
<1>1. Unlocked
  BY TurnsUnlocked
<1>2. LifecycleTypeOK
  BY DEF TypeInv
<1>3. CASE \/ Prepare(t, n) \/ LosePreparation(t, n) \/ Execute(t, n) \/ Abort(t, n)
           \/ ClaimEffect(t, n) \/ CallCreate(t, n) \/ ReturnEffect(t, n)
  BY <1>1, <1>2, <1>3, StageUpdate DEF Prepare, LosePreparation, Execute, Abort, ClaimEffect,
     CallCreate, ReturnEffect, Stages, Alone, Keeps, Owns
<1>4. CASE Create(t, n)
  <2>1. \A u \in Threads : stored'[u] = stored[u] \/ (stored[u] = "absent" /\ stored'[u] = "live")
    BY <1>2, <1>4 DEF Create, LifecycleTypeOK
  <2>2. Stage(t, n, "created") /\ UNCHANGED <<busy, current, journal, due, missed, slipped>>
    BY <1>4 DEF Create
  <2>3. QED
    BY <1>1, <1>2, <2>1, <2>2, StageUpdate DEF Alone, Born, Keeps, Owns, Stages
<1>5. CASE End(t, n) \/ FallbackFails(t, n)
  BY <1>1, <1>2, <1>5, StageUpdate, RecordUpdate
     DEF End, FallbackFails, Stages, Outcomes, Alone, Keeps, Owns
<1>6. CASE FallbackStops(t, n)
  BY <1>1, <1>2, <1>6, StageUpdate, RecordUpdate
     DEF FallbackStops, Stages, Outcomes, Alone, Keeps, Owns
<1>7. CASE FinishSend(t, n)
  <2>1. Settle(t, n) /\ Stage(t, n, "none") /\ "none" \in Stages
        /\ UNCHANGED <<stored, journal, due>>
    BY <1>7 DEF FinishSend, Stages
  <2>2. \A u \in Threads : \A m \in TurnsOf(u) : u # t \/ m # n => worker'[u][m] = worker[u][m]
    BY <1>2, <2>1, StageUpdate
  <2>3. /\ \A u \in Threads : \A m \in TurnsOf(u) : u # t \/ m # n => Keeps(u, m)
        /\ \A u \in Threads : busy'[u] => busy[u]
        /\ missed \subseteq missed' /\ UNCHANGED <<current, fence, slipped>>
    BY <2>1, SettleKeeps
  <2>4. QED
    BY <1>1, <2>1, <2>2, <2>3 DEF Alone
<1>8. CASE FinishStop(t, n)
  BY <1>1, <1>2, <1>8, SettleKeeps DEF FinishStop, Alone
<1>9. QED
  BY <1>3, <1>4, <1>5, <1>6, <1>7, <1>8 DEF Work

-----------------------------------------------------------------------------
(* The turn that is worked on.                                              *)

\* A fence that is up on a thread that exists belongs to a deletion or to the
\* closed host.
LEMMA FenceMeans ==
  ASSUME HostInv, NEW t \in Threads, stored[t] # "deleted"
  PROVE  /\ fence[t] # "deleted"
         /\ fence[t] = "closed" <=> host = "closed"
         /\ host = "settling" => fence[t] # "deleting"
  BY Operations DEF HostInv, Locked, Fenced

\* Behind a closed store only turns that slipped in are on record as active.
LEMMA ClosedTurn ==
  ASSUME HostInv, NEW t \in Threads, NEW n \in TurnsOf(t), TurnSafe(t, n), host = "closed",
         stored[t] # "deleted", journal[t][n] = "active"
  PROVE  <<t, n>> \in slipped
<1>1. settling = NoTurn
  BY DEF HostInv, Locked
<1>2. settling # <<t, n>>
  BY <1>1, TurnNames
<1>3. QED
  BY <1>2 DEF TurnSafe, Shut, Passed

LEMMA WorkSafe ==
  ASSUME TypeInv, HostInv, TurnInv, NEW t \in Threads, NEW n \in TurnsOf(t), Work(t, n)
  PROVE  TurnSafe(t, n)'
<1> USE DEF storage, actor, execution, deleting, closing, history
<1>1. Unlocked /\ Alone(t, n)
  BY WorkAlone DEF Alone
<1>2. TurnSafe(t, n) /\ Idle
  BY DEF TurnInv
<1>3. LifecycleTypeOK /\ fence[t] \in {"open", "deleting", "deleted", "closed"}
  BY DEF TypeInv, LifecycleTypeOK
<1>4. CASE \/ Prepare(t, n) \/ LosePreparation(t, n) \/ Execute(t, n) \/ Abort(t, n)
           \/ ClaimEffect(t, n) \/ CallCreate(t, n) \/ ReturnEffect(t, n)
  <2>1. /\ worker[t][n] \in Alive
        /\ \E stage \in Alive : Stage(t, n, stage)
        /\ UNCHANGED <<stored, journal, busy, current, due, missed, slipped>>
    BY <1>4 DEF Prepare, LosePreparation, Execute, Abort, ClaimEffect, CallCreate, ReturnEffect,
       Alive, Ending, Stages
  <2>2. worker'[t][n] \in Alive
    BY <1>3, <2>1, StageUpdate DEF Alive
  <2>3. QED
    BY <1>1, <1>2, <2>1, <2>2, AliveSafe
<1>5. CASE Create(t, n)
  <2>1. /\ worker[t][n] \in Alive /\ Stage(t, n, "created") /\ "created" \in Alive
        /\ UNCHANGED <<journal, busy, current, due, missed, slipped>>
    BY <1>5 DEF Create, Alive, Ending, Stages
  <2>2. worker'[t][n] \in Alive
    BY <1>3, <2>1, StageUpdate DEF Alive
  <2>3. stored'[t] = stored[t]
    BY <1>5 DEF Create, TypeInv, LifecycleTypeOK
  <2>4. QED
    BY <1>1, <1>2, <2>1, <2>2, <2>3, AliveSafe
<1>6. CASE End(t, n)
  <2>1. /\ worker[t][n] \in Alive /\ Stage(t, n, "ending") /\ "ending" \in Stages
        /\ UNCHANGED <<stored, busy, current, due, missed, slipped, host, fence, settling, left>>
    BY <1>6 DEF End, Alive, Ending, Stages
  <2>2. worker'[t][n] = "ending"
    BY <1>3, <2>1, StageUpdate
  <2>3. CASE Writable(t, n)
    <3>1. journal'[t][n] = "ended" /\ journal[t][n] = "active"
      BY <1>3, <1>6, <2>3, RecordUpdate DEF End, Outcomes, Writable
    <3>2. Recorded(t, n)'
      BY <1>2, <2>1, <2>2, <3>1 DEF TurnSafe, Recorded, Owns, Alive, Ending
    <3>3. QED
      BY <2>2, <3>1, <3>2 DEF TurnSafe, Attended, Shut, Ending
  <2>4. CASE ~Writable(t, n)
    <3>1. journal' = journal
      BY <1>6, <2>4 DEF End
    <3>2. journal[t][n] = "active" => stored[t] = "deleted" \/ host = "closed"
      BY <1>2, <1>3, <2>1, <2>4 DEF Writable, TurnSafe, Recorded, Alive, LifecycleTypeOK
    <3>3. journal[t][n] = "active" /\ stored[t] # "deleted" => <<t, n>> \in slipped
      BY <1>2, <3>2, ClosedTurn
    <3>4. Recorded(t, n)'
      BY <1>2, <2>1, <2>2, <3>1, <3>2 DEF TurnSafe, Recorded, Owns, Alive, Ending
    <3>5. Attended(t, n)'
      BY <1>2, <2>1, <2>2, <3>1, <3>3 DEF Attended, Ending
    <3>6. QED
      BY <1>2, <2>1, <3>1, <3>4, <3>5 DEF TurnSafe, Shut, Passed
  <2>5. QED
    BY <2>3, <2>4
<1>7. CASE FinishSend(t, n)
  <2>1. /\ worker[t][n] \in Ending /\ Stage(t, n, "none") /\ "none" \in Stages /\ Settle(t, n)
        /\ UNCHANGED <<stored, journal, due, host, settling, left>>
    BY <1>7 DEF FinishSend, Ending, Stages
  <2>2. worker'[t][n] = "none"
    BY <1>3, <2>1, StageUpdate
  <2>3. /\ Owns(t, n)' => Owns(t, n) /\ fence[t] # "open"
        /\ Owns(t, n) /\ fence[t] = "deleting" => <<t, n>> \in missed'
        /\ missed \subseteq missed' /\ UNCHANGED <<current, fence, slipped>>
    BY <2>1, SettleKeeps
  <2>4. journal[t][n] = "active" /\ stored[t] # "deleted" => Owns(t, n)' /\ fence[t] = "closed"
    <3>1. SUFFICES ASSUME journal[t][n] = "active", stored[t] # "deleted"
                   PROVE  Owns(t, n)' /\ fence[t] = "closed"
      OBVIOUS
    <3>2. host = "closed" /\ Owns(t, n)
      BY <1>2, <2>1, <3>1 DEF TurnSafe, Recorded
    <3>3. fence[t] = "closed"
      BY <3>1, <3>2, FenceMeans
    <3>4. busy'[t] = busy[t] /\ current' = current
      BY <1>3, <2>1, <3>3 DEF Settle, LifecycleTypeOK
    <3>5. QED
      BY <3>2, <3>3, <3>4 DEF Owns
  <2>5. Recorded(t, n)'
    BY <1>2, <2>1, <2>2, <2>3, <2>4 DEF TurnSafe, Recorded, Alive, Ending
  <2>6. Attended(t, n)'
    <3>1. SUFFICES ASSUME stored[t] # "deleted", Owns(t, n)', <<t, n>> \notin missed' \cup slipped
                   PROVE  fence[t] = "closed" /\ journal[t][n] # "active"
      BY <2>1, <2>3 DEF Attended
    <3>2. fence[t] = "closed"
      BY <1>3, <2>3, <3>1, FenceMeans
    <3>3. journal[t][n] # "active"
      BY <1>2, <2>1, <2>3, <3>1 DEF TurnSafe, Attended, Alive
    <3>4. QED
      BY <3>2, <3>3
  <2>7. Shut(t, n)'
    BY <1>2, <2>1, <2>3 DEF TurnSafe, Shut, Passed
  <2>8. QED
    BY <2>5, <2>6, <2>7 DEF TurnSafe
<1>8. CASE FallbackStops(t, n)
  <2>1. /\ worker[t][n] \in Alive /\ worker[t][n] \in {"late", "aborting"}
        /\ UNCHANGED <<stored, busy, current, due, slipped, host, fence, settling, left>>
        /\ missed \subseteq missed'
    BY <1>8 DEF FallbackStops, Alive, Ending, Stages
  <2>2. CASE Stops(t, n)
    <3>1. /\ Record(t, n, "stopped") /\ "stopped" \in Outcomes
          /\ \E stage \in Ending : stage \in Stages /\ Stage(t, n, stage)
      BY <1>8, <2>2 DEF FallbackStops, Stops, Outcomes, Ending, Stages
    <3>2. journal'[t][n] = "stopped" /\ worker'[t][n] \in Ending
      BY <1>3, <3>1, StageUpdate, RecordUpdate
    <3>3. Recorded(t, n)'
      BY <1>2, <2>1, <3>2 DEF TurnSafe, Recorded, Owns, Alive, Ending
    <3>4. QED
      BY <3>2, <3>3 DEF TurnSafe, Attended, Shut
  <2>3. CASE ~Stops(t, n)
    <3>1. /\ Stage(t, n, "none") /\ "none" \in Stages /\ journal' = journal
          /\ fence[t] = "deleting" /\ Owns(t, n) => <<t, n>> \in missed'
      BY <1>8, <2>3 DEF FallbackStops, Stops, Stages
    <3>2. worker'[t][n] = "none"
      BY <1>3, <3>1, StageUpdate
    <3>3. Recorded(t, n)'
      BY <1>2, <2>1, <3>1, <3>2 DEF TurnSafe, Recorded, Owns, Alive, Ending
    <3>4. Attended(t, n)'
      <4>1. SUFFICES ASSUME stored[t] # "deleted", Owns(t, n), <<t, n>> \notin missed' \cup slipped
                     PROVE  fence[t] = "closed" /\ journal[t][n] \notin {"active", "ended"}
        BY <2>1, <3>1 DEF Attended, Owns
      <4>2. journal[t][n] # "ended"
        BY <1>2, <2>1 DEF TurnSafe, Recorded
      <4>3. fence[t] # "open" /\ fence[t] # "deleting" /\ fence[t] # "deleted"
        BY <2>3, <3>1, <4>1, <4>2, FenceMeans DEF Stops
      <4>4. host = "closed"
        BY <1>3, <4>1, <4>3, FenceMeans
      <4>5. QED
        BY <1>2, <1>3, <4>1, <4>2, <4>3, <4>4, ClosedTurn
    <3>5. QED
      BY <1>2, <2>1, <3>1, <3>3, <3>4 DEF TurnSafe, Shut, Passed
  <2>4. QED
    BY <2>2, <2>3
<1>9. CASE FallbackFails(t, n)
  <2>1. /\ worker[t][n] \in Alive /\ worker[t][n] = "late"
        /\ UNCHANGED <<stored, busy, current, due, missed, slipped, host, fence, settling, left>>
    BY <1>9 DEF FallbackFails, Alive, Ending, Stages
  <2>2. CASE Writable(t, n)
    <3>1. Record(t, n, "ended") /\ Stage(t, n, "lateEnding")
      BY <1>9, <2>2 DEF FallbackFails
    <3>2. journal'[t][n] = "ended" /\ journal[t][n] = "active" /\ worker'[t][n] = "lateEnding"
      BY <1>3, <2>2, <3>1, StageUpdate, RecordUpdate DEF Writable, Stages, Outcomes
    <3>3. Recorded(t, n)'
      BY <1>2, <2>1, <3>2 DEF TurnSafe, Recorded, Owns, Alive, Ending
    <3>4. QED
      BY <3>2, <3>3 DEF TurnSafe, Attended, Shut, Ending
  <2>3. CASE ~Writable(t, n)
    <3>1. Stage(t, n, "none") /\ "none" \in Stages /\ journal' = journal
      BY <1>9, <2>3 DEF FallbackFails, Stages
    <3>2. worker'[t][n] = "none"
      BY <1>3, <3>1, StageUpdate
    <3>3. journal[t][n] = "active" /\ stored[t] # "deleted" => <<t, n>> \in slipped
      <4>1. journal[t][n] = "active" => stored[t] = "deleted" \/ host = "closed"
        BY <1>2, <1>3, <2>1, <2>3 DEF Writable, TurnSafe, Recorded, Alive, LifecycleTypeOK
      <4>2. QED
        BY <1>2, <4>1, ClosedTurn
    <3>4. Recorded(t, n)'
      BY <1>2, <2>1, <3>1, <3>2 DEF TurnSafe, Recorded, Owns, Alive, Ending
    <3>5. Attended(t, n)'
      BY <1>2, <2>1, <3>1, <3>3 DEF TurnSafe, Recorded, Attended, Owns, Ending
    <3>6. QED
      BY <1>2, <2>1, <3>1, <3>4, <3>5 DEF TurnSafe, Shut, Passed
  <2>4. QED
    BY <2>2, <2>3
<1>10. CASE FinishStop(t, n)
  <2>1. /\ <<t, n>> \in due /\ Settle(t, n) /\ due' = due \ {<<t, n>>}
        /\ UNCHANGED <<stored, journal, worker, host, settling, left>>
    BY <1>10 DEF FinishStop
  <2>2. /\ Owns(t, n)' => Owns(t, n) /\ fence[t] # "open"
        /\ Owns(t, n) /\ fence[t] = "deleting" => <<t, n>> \in missed'
        /\ missed \subseteq missed' /\ UNCHANGED <<current, fence, slipped>>
    BY <2>1, SettleKeeps
  <2>3. journal[t][n] = "stopped"
    BY <1>2, <2>1 DEF TurnSafe, Recorded
  <2>4. Recorded(t, n)'
    BY <1>2, <2>1, <2>2, <2>3 DEF TurnSafe, Recorded
  <2>5. Attended(t, n)'
    BY <1>3, <2>1, <2>2, <2>3, FenceMeans DEF Attended
  <2>6. QED
    BY <2>1, <2>3, <2>4, <2>5 DEF TurnSafe, Shut
<1>11. QED
  BY <1>4, <1>5, <1>6, <1>7, <1>8, <1>9, <1>10 DEF Work

-----------------------------------------------------------------------------
(* Requests, stops, deletions and the shutdown.                             *)

LEMMA BeginTurn ==
  ASSUME TypeInv, HostInv, TurnInv, NEW t \in Threads, Begin(t)
  PROVE  TurnInv'
<1> USE DEF storage, actor, execution, deleting, closing, history
<1>1. LifecycleTypeOK /\ Idle
  BY DEF TypeInv, TurnInv
<1> current[t] + 1 \in TurnsOf(t)
  BY <1>1, Numbers, Operations DEF Begin, Begins, LifecycleTypeOK
<1> PICK n \in TurnsOf(t) : n = current[t] + 1
  OBVIOUS
<1>2. current[t] \in Nat /\ n \in Nat /\ n \in TurnsOf(t)
  BY <1>1, Numbers, Operations DEF LifecycleTypeOK
<1>3. /\ Record(t, n, "active") /\ Stage(t, n, "preparing")
      /\ current' = [current EXCEPT ![t] = n] /\ busy' = [busy EXCEPT ![t] = TRUE]
      /\ slipped' = IF host = "settling" /\ t \notin left THEN slipped \cup {<<t, n>>}
                    ELSE slipped
      /\ stored[t] = "live" /\ fence[t] = "open" /\ ~busy[t]
      /\ UNCHANGED <<stored, fence, due, missed, host, left, settling>>
  BY DEF Begin, Begins
<1>4. worker'[t][n] = "preparing" /\ journal'[t][n] = "active"
  BY <1>1, <1>2, <1>3, StageUpdate, RecordUpdate DEF Stages, Outcomes
<1>5. \A u \in Threads : \A m \in TurnsOf(u) : u # t \/ m # n =>
        worker'[u][m] = worker[u][m] /\ journal'[u][m] = journal[u][m]
  BY <1>1, <1>2, <1>3, StageUpdate, RecordUpdate DEF Stages, Outcomes
<1>6. /\ current'[t] = n /\ busy'[t] = TRUE
      /\ \A u \in Threads : u # t => current'[u] = current[u] /\ busy'[u] = busy[u]
  BY <1>1, <1>3 DEF LifecycleTypeOK
<1>7. n > current[t] /\ current[t] # n
  BY <1>2
<1>8. TurnSafe(t, n)'
  <2>1. TurnSafe(t, n) /\ journal[t][n] = "none"
    BY <1>2, <1>7 DEF TurnInv, TurnSafe, Recorded
  <2>2. Recorded(t, n)'
    BY <1>2, <1>3, <1>4, <1>6, <2>1 DEF TurnSafe, Recorded, Owns, Ending
  <2>3. Attended(t, n)'
    BY <1>4 DEF Attended, Alive, Ending, Stages
  <2>4. host # "closed"
    BY <1>3, FenceMeans
  <2>5. Shut(t, n)'
    BY <1>3, <2>4 DEF Shut, Passed
  <2>6. QED
    BY <2>2, <2>3, <2>5 DEF TurnSafe
<1>9. ASSUME NEW m \in TurnsOf(t), m # n PROVE TurnSafe(t, m)'
  <2>1. m > current'[t] => m > current[t]
    BY <1>2, <1>6, <1>7, Numbers
  <2>2. Beside(t, m)
    BY <1>3, <1>5, <1>9, <2>1 DEF Beside, Passed
  <2>3. Keeps(t, m)
    BY <1>3, <1>6, <1>9 DEF Keeps, Owns
  <2>4. QED
    BY <1>3, <2>2, <2>3, BesideSafe DEF TurnInv
<1>10. ASSUME NEW u \in Threads, u # t, NEW m \in TurnsOf(u) PROVE TurnSafe(u, m)'
  <2>1. Beside(u, m)
    BY <1>3, <1>5, <1>6, <1>10 DEF Beside, Passed
  <2>2. Keeps(u, m)
    BY <1>6, <1>10 DEF Keeps, Owns
  <2>3. QED
    BY <1>3, <2>1, <2>2, BesideSafe DEF TurnInv
<1>11. Idle'
  BY <1>1, <1>3, <1>6 DEF Idle
<1>12. QED
  BY <1>8, <1>9, <1>10, <1>11 DEF TurnInv

LEMMA StopNowTurn ==
  ASSUME TypeInv, HostInv, TurnInv, NEW t \in Threads, StopNow(t)
  PROVE  TurnInv'
<1> USE DEF storage, actor, execution, deleting, closing, history
<1> PICK n \in TurnsOf(t) : n = current[t]
  BY CurrentTurn DEF StopNow, Stops, Owns
<1>1. LifecycleTypeOK /\ Idle /\ Unlocked
  BY TurnsUnlocked DEF TypeInv, TurnInv
<1>2. n \in TurnsOf(t) /\ n \in Nat
  BY CurrentTurn, Numbers DEF StopNow, Stops, Owns
<1>3. /\ Record(t, n, "stopped") /\ due' = due \cup {<<t, n>>} /\ busy[t]
      /\ UNCHANGED <<stored, busy, current, worker, missed, slipped>>
  BY DEF StopNow, Stops, Owns
<1>4. /\ journal'[t][n] = "stopped"
      /\ \A u \in Threads : \A m \in TurnsOf(u) : u # t \/ m # n => journal'[u][m] = journal[u][m]
  BY <1>1, <1>2, <1>3, RecordUpdate DEF Outcomes
<1>5. ~(n > current[t]) /\ stored[t] # "absent"
  BY <1>1, <1>2, <1>3 DEF Idle
<1>6. Alone(t, n)
  BY <1>1, <1>3, <1>4 DEF Alone, Keeps, Owns
<1>7. TurnSafe(t, n)'
  <2>1. TurnSafe(t, n)
    BY <1>2 DEF TurnInv
  <2>2. Recorded(t, n)'
    BY <1>3, <1>4, <1>5, <2>1 DEF TurnSafe, Recorded
  <2>3. QED
    BY <1>3, <1>4, <2>2 DEF TurnSafe, Attended, Shut
<1>8. QED
  BY <1>2, <1>6, <1>7, AloneInv

\* Steps that touch no turn.
LEMMA AllBeside ==
  ASSUME TurnInv, UNCHANGED <<stored, busy, current>>,
         \A u \in Threads : \A m \in TurnsOf(u) : Beside(u, m)
  PROVE  TurnInv'
<1>1. \A u \in Threads : \A m \in TurnsOf(u) : Keeps(u, m)
  BY DEF Keeps, Owns
<1>2. \A u \in Threads : \A m \in TurnsOf(u) : TurnSafe(u, m)'
  BY <1>1, BesideSafe DEF TurnInv
<1>3. QED
  BY <1>2 DEF TurnInv, Idle

LEMMA QuietTurn ==
  ASSUME TypeInv, HostInv, TurnInv,
         \/ \E t \in Threads : Refuse(t) \/ Ask(t)
         \/ \E d \in Deletions : \E t \in Threads : CallDelete(d, t)
         \/ CallShutdown \/ BeginClose \/ FinishClose
  PROVE  TurnInv'
<1> USE DEF storage, actor, execution, deleting, closing, history
<1>1. /\ UNCHANGED <<stored, busy, current, worker, journal, due, missed, slipped, settling>>
      /\ \A u \in Threads : fence[u] = "closed" => fence'[u] = "closed"
      /\ host = "closed" => host' = "closed"
  BY DEF Refuse, Ask, CallDelete, CallShutdown, BeginClose, FinishClose
<1>2. \A u \in Threads : Passed(u)' => Passed(u)
  BY DEF Refuse, Ask, CallDelete, CallShutdown, BeginClose, FinishClose, Passed
<1>3. \A u \in Threads : \A m \in TurnsOf(u) : Beside(u, m)
  BY <1>1, <1>2 DEF Beside
<1>4. QED
  BY <1>1, <1>3, AllBeside

LEMMA CreateByUserTurn ==
  ASSUME TypeInv, TurnInv, NEW c \in Threads, CreateByUser(c)
  PROVE  TurnInv'
<1> USE DEF storage, actor, execution, deleting, closing, history
<1>1. /\ UNCHANGED <<busy, current, worker, journal, due, missed, slipped, settling, fence, host,
                     left>>
      /\ \A u \in Threads : stored'[u] = stored[u] \/ (stored[u] = "absent" /\ stored'[u] = "live")
  BY DEF CreateByUser, TypeInv, LifecycleTypeOK
<1>2. ASSUME NEW u \in Threads, NEW m \in TurnsOf(u) PROVE TurnSafe(u, m)'
  <2>1. Beside(u, m) /\ Keeps(u, m) /\ TurnSafe(u, m) /\ Idle
    BY <1>1 DEF Beside, Keeps, Owns, Passed, TurnInv
  <2>2. QED
    BY <1>1, <2>1, BesideSafe, BornSafe
<1>3. QED
  BY <1>1, <1>2 DEF TurnInv, Idle

LEMMA DeletionTurn ==
  ASSUME TypeInv, HostInv, TurnInv, NEW d \in Deletions,
         Fence(d) \/ RefuseDelete(d) \/ CommitDelete(d)
  PROVE  TurnInv'
<1> USE DEF storage, actor, execution, deleting, closing, history
<1>1. CASE Fence(d) \/ RefuseDelete(d)
  <2>1. /\ UNCHANGED <<stored, busy, current, worker, journal, due, missed, slipped, settling, host,
                       left>>
        /\ \A u \in Threads : fence[u] = "closed" => fence'[u] = "closed"
    BY <1>1 DEF Fence, RefuseDelete
  <2>2. \A u \in Threads : \A m \in TurnsOf(u) : Beside(u, m)
    BY <2>1 DEF Beside, Passed
  <2>3. QED
    BY <2>1, <2>2, AllBeside
<1>2. CASE CommitDelete(d)
  <2> DEFINE tree == Subtree(target[d])
  <2>1. /\ UNCHANGED <<current, worker, journal, due, missed, slipped, settling, host, left>>
        /\ \A u \in Threads : fence[u] = "closed" => fence'[u] = "closed"
        /\ \A u \in Threads : stored'[u] = IF u \in tree THEN "deleted" ELSE stored[u]
        /\ \A u \in Threads : u \notin tree => (busy'[u] <=> busy[u])
        /\ \A u \in Threads : busy'[u] => busy[u]
    BY <1>2 DEF CommitDelete
  <2>2. \A u \in tree : stored[u] = "live"
    BY DEF Subtree
  <2> HIDE DEF tree
  <2>3. ASSUME NEW u \in Threads, NEW m \in TurnsOf(u) PROVE TurnSafe(u, m)'
    <3>1. Beside(u, m) /\ TurnSafe(u, m)
      BY <2>1 DEF Beside, Passed, TurnInv
    <3>2. CASE u \in tree
      BY <2>1, <2>2, <3>1, <3>2, GoneSafe
    <3>3. CASE u \notin tree
      <4>1. Keeps(u, m) /\ stored'[u] = stored[u]
        BY <2>1, <3>3 DEF Keeps, Owns
      <4>2. QED
        BY <3>1, <4>1, BesideSafe
    <3>4. QED
      BY <3>2, <3>3
  <2>4. Idle'
    BY <2>1 DEF TurnInv, Idle
  <2>5. QED
    BY <2>3, <2>4 DEF TurnInv
<1>3. QED
  BY <1>1, <1>2

LEMMA VisitTurn ==
  ASSUME TypeInv, HostInv, TurnInv, NEW t \in Threads, Visit(t)
  PROVE  TurnInv'
<1> USE DEF storage, actor, execution, deleting, closing, history
<1>1. /\ UNCHANGED <<stored, busy, current, worker, journal, fence, due, missed, slipped, host>>
      /\ host = "settling" /\ settling = NoTurn /\ left' = left \ {t}
      /\ fence[t] = "open" /\ busy[t] => settling' = <<t, current[t]>>
  BY DEF Visit
<1>2. ASSUME NEW u \in Threads, u # t, NEW m \in TurnsOf(u) PROVE TurnSafe(u, m)'
  <2>1. Beside(u, m)
    BY <1>1, <1>2, TurnNames DEF Beside, Passed
  <2>2. Keeps(u, m)
    BY <1>1 DEF Keeps, Owns
  <2>3. QED
    BY <1>1, <2>1, <2>2, BesideSafe DEF TurnInv
<1>3. ASSUME NEW m \in TurnsOf(t) PROVE TurnSafe(t, m)'
  <2>1. TurnSafe(t, m)
    BY DEF TurnInv
  <2>2. Recorded(t, m)' /\ Attended(t, m)'
    BY <1>1, <2>1 DEF TurnSafe, Recorded, Attended, Owns
  <2>3. ASSUME stored[t] # "deleted", journal[t][m] = "active" PROVE settling' = <<t, m>>
    <3>1. Owns(t, m)
      BY <2>1, <2>3 DEF TurnSafe, Recorded
    <3>2. fence[t] = "open"
      BY <1>1, <2>3, FenceMeans DEF TypeInv, LifecycleTypeOK
    <3>3. QED
      BY <1>1, <3>1, <3>2 DEF Owns
  <2>4. Shut(t, m)'
    BY <1>1, <2>3 DEF Shut
  <2>5. QED
    BY <2>2, <2>4 DEF TurnSafe
<1>4. QED
  BY <1>1, <1>2, <1>3 DEF TurnInv, Idle

LEMMA SettleTurnTurn ==
  ASSUME TypeInv, HostInv, TurnInv, SettleTurn
  PROVE  TurnInv'
<1> USE DEF storage, actor, execution, deleting, closing, history
<1>1. settling \in AllTurns /\ settling # NoTurn /\ host = "settling" /\ LifecycleTypeOK
  BY DEF SettleTurn, HostInv, Locked, TypeInv, LifecycleTypeOK
<1>2. PICK t \in Threads : \E m \in TurnsOf(t) : settling = <<t, m>>
  BY <1>1, AllTurnsAre
<1>3. PICK n \in TurnsOf(t) : settling = <<t, n>>
  BY <1>2
<1>4. /\ UNCHANGED <<stored, worker, due, host, left>> /\ settling' = NoTurn
      /\ IF Stops(t, n) THEN Record(t, n, "stopped") /\ Settle(t, n)
         ELSE UNCHANGED <<journal, busy, current, fence, missed, slipped>>
  BY <1>3 DEF SettleTurn
<1>5. \A u \in Threads : \A m \in TurnsOf(u) : u # t \/ m # n => settling # <<u, m>>
  BY <1>3
<1>6. TurnSafe(t, n)
  BY DEF TurnInv
<1>7. CASE Stops(t, n)
  <2>1. /\ journal'[t][n] = "stopped"
        /\ \A u \in Threads : \A m \in TurnsOf(u) : u # t \/ m # n => journal'[u][m] = journal[u][m]
    BY <1>1, <1>4, <1>7, RecordUpdate DEF Outcomes
  <2>2. /\ \A u \in Threads : \A m \in TurnsOf(u) : u # t \/ m # n => Keeps(u, m)
        /\ \A u \in Threads : busy'[u] => busy[u]
        /\ ~Owns(t, n)'
        /\ missed \subseteq missed' /\ UNCHANGED <<current, fence, slipped>>
    BY <1>4, <1>7, SettleKeeps DEF Stops
  <2>3. ASSUME NEW u \in Threads, NEW m \in TurnsOf(u), u # t \/ m # n PROVE TurnSafe(u, m)'
    <3>1. Beside(u, m)
      BY <1>4, <1>5, <2>1, <2>2, <2>3 DEF Beside, Passed
    <3>2. QED
      BY <1>4, <2>2, <2>3, <3>1, BesideSafe DEF TurnInv
  <2>4. Recorded(t, n)'
    <3>1. stored[t] # "absent" /\ ~(n > current[t])
      BY <1>1, <1>7, Numbers DEF Stops, Owns, TurnInv, Idle, LifecycleTypeOK
    <3>2. QED
      BY <1>4, <1>6, <2>1, <2>2, <3>1 DEF TurnSafe, Recorded
  <2>5. TurnSafe(t, n)'
    BY <2>1, <2>2, <2>4 DEF TurnSafe, Attended, Shut
  <2>6. Idle'
    BY <1>4, <2>2 DEF TurnInv, Idle
  <2>7. QED
    BY <2>3, <2>5, <2>6 DEF TurnInv
<1>8. CASE ~Stops(t, n)
  <2>1. UNCHANGED <<journal, busy, current, fence, missed, slipped>>
    BY <1>4, <1>8
  <2>2. ASSUME NEW u \in Threads, NEW m \in TurnsOf(u), u # t \/ m # n PROVE TurnSafe(u, m)'
    <3>1. Beside(u, m)
      BY <1>4, <1>5, <2>1, <2>2 DEF Beside, Passed
    <3>2. Keeps(u, m)
      BY <2>1 DEF Keeps, Owns
    <3>3. QED
      BY <1>4, <3>1, <3>2, BesideSafe DEF TurnInv
  <2>3. stored[t] # "deleted" => journal[t][n] # "active"
    <3>1. SUFFICES ASSUME stored[t] # "deleted", journal[t][n] = "active"
                   PROVE  FALSE
      OBVIOUS
    <3>2. Owns(t, n)
      BY <1>6, <3>1 DEF TurnSafe, Recorded
    <3>3. fence[t] = "open"
      BY <1>1, <3>1, FenceMeans DEF LifecycleTypeOK
    <3>4. QED
      BY <1>8, <3>1, <3>2, <3>3 DEF Stops
  <2>4. Recorded(t, n)' /\ Attended(t, n)'
    BY <1>4, <1>6, <2>1 DEF TurnSafe, Recorded, Attended, Owns
  <2>5. TurnSafe(t, n)'
    BY <1>4, <2>1, <2>3, <2>4 DEF TurnSafe, Shut
  <2>6. QED
    BY <1>4, <2>1, <2>2, <2>5 DEF TurnInv, Idle
<1>9. QED
  BY <1>7, <1>8

LifecycleInv == TypeInv /\ HostInv /\ TurnInv

LEMMA StepTurn == LifecycleInv /\ [LifecycleNext]_lifecycleVars => LifecycleInv'
<1> SUFFICES ASSUME TypeInv, HostInv, TurnInv, [LifecycleNext]_lifecycleVars
             PROVE  HostInv' /\ TurnInv'
  BY StepType DEF LifecycleInv
<1>1. ASSUME NEW t \in Threads, NEW n \in TurnsOf(t), Work(t, n)
      PROVE  HostInv' /\ TurnInv'
  BY <1>1, TurnsUnlocked, UnlockedHost, WorkAlone, WorkSafe, AloneInv
<1>2. ASSUME NEW t \in Threads, Begin(t) \/ Refuse(t) \/ Ask(t) \/ StopNow(t) \/ CreateByUser(t)
      PROVE  HostInv' /\ TurnInv'
  <2>1. HostInv'
    BY <1>2, TurnsUnlocked, UnlockedHost
  <2>2. QED
    BY <1>2, <2>1, BeginTurn, QuietTurn, StopNowTurn, CreateByUserTurn
<1>3. ASSUME NEW d \in Deletions,
             Fence(d) \/ CommitDelete(d) \/ RefuseDelete(d) \/ \E t \in Threads : CallDelete(d, t)
      PROVE  HostInv' /\ TurnInv'
  BY <1>3, DeletionHost, DeletionTurn, QuietTurn
<1>4. ASSUME CallShutdown \/ Closing
      PROVE  HostInv' /\ TurnInv'
  <2>1. HostInv'
    BY <1>4, ShutdownHost
  <2>2. TurnInv'
    BY <1>4, QuietTurn, VisitTurn, SettleTurnTurn DEF Closing
  <2>3. QED
    BY <2>1, <2>2
<1>5. CASE UNCHANGED lifecycleVars
  BY <1>5 DEF lifecycleVars, storage, actor, execution, deleting, closing, history, HostInv, Locked,
     Fenced, TurnInv, Idle, TurnSafe, Recorded, Attended, Shut, Passed, Owns
<1>6. QED
  BY <1>1, <1>2, <1>3, <1>4, <1>5 DEF LifecycleNext, Requests, Deleting, Outside

\* Turns are brought to their end through stops, shutdown and refused deletions,
\* except those whose end came while a deletion's fence was up and those that
\* began behind the shutdown's back, for every forest and number of turns.
THEOREM NoTurnIsAbandoned == LifecycleSpec => []NoTurnAbandoned
<1>1. LifecycleInit => LifecycleInv
  BY InitType, InitHost, InitTurn DEF LifecycleInv
<1>2. LifecycleInv => NoTurnAbandoned
  BY TurnParts DEF LifecycleInv
<1>3. QED
  BY <1>1, <1>2, StepTurn, PTL DEF LifecycleSpec

-----------------------------------------------------------------------------
(* What a deletion and the shutdown wait for.                               *)

Starting == {"ready", "running"}

\* The tree of a deletion that drains is fenced, and whoever has a handler at
\* work holds the deletion up.
Swept(d) ==
  deletion[d] = "draining" =>
    \A t \in Subtree(target[d]) :
      fence[t] = "deleting" /\ (Handling(t) # {} => <<t, 0>> \in waits[d])

\* So it is with the shutdown and the threads it has visited, where the turn
\* that could still call a handler is waited for as well.
Visited(t) ==
  host = "settling" /\ t \notin left =>
    \A n \in TurnsOf(t) :
      /\ n \in Handling(t) => <<t, 0>> \in waits["shutdown"] \/ <<t, n>> \in waits["shutdown"]
      /\ n = current[t] /\ worker[t][n] \in Starting => <<t, n>> \in waits["shutdown"]

DrainInv == QuietEnd /\ (\A d \in Deletions : Swept(d)) /\ \A t \in Threads : Visited(t)

LEMMA InitDrain == LifecycleInit => DrainInv
  BY DEF LifecycleInit, DrainInv, QuietEnd, Swept, Visited, Handling, InEffect, Starting

\* What turns and users do to the drains: a handler is called in a live thread
\* without a fence, a channel closes when what it stands for is over, and no
\* thread comes into being while the lock is held.
Drains ==
  /\ \A u \in Threads : stored'[u] = "deleted" => stored[u] = "deleted"
  /\ lock # "free" => UNCHANGED stored
  /\ \A u \in Threads : \A m \in TurnsOf(u) :
       /\ worker'[u][m] \in InEffect =>
            worker[u][m] \in InEffect
              \/ (worker[u][m] = "running" /\ fence[u] = "open" /\ Writable(u, m))
       /\ m = current'[u] /\ worker'[u][m] \in Starting =>
            host = "open" \/ (m = current[u] /\ worker[u][m] \in Starting)
       /\ \A op \in Deletions \cup {"shutdown"} :
            /\ worker'[u][m] \in InEffect /\ <<u, 0>> \in waits[op] => <<u, 0>> \in waits'[op]
            /\ worker'[u][m] \in InEffect \cup Starting /\ <<u, m>> \in waits[op] =>
                 <<u, m>> \in waits'[op]

LEMMA HandlingTurns ==
  \A t \in Threads : \A n \in TurnsOf(t) : n \in Handling(t) <=> worker[t][n] \in InEffect
  BY DEF Handling

LEMMA DrainsInv ==
  ASSUME HostInv, TurnInv, DrainInv, Unlocked, Drains
  PROVE  DrainInv'
<1>1. QuietEnd'
  <2>1. SUFFICES ASSUME NEW t \in Threads, (stored[t] = "deleted" \/ host = "closed")',
                        NEW n \in Handling(t)'
                 PROVE  FALSE
    BY DEF QuietEnd
  <2>2. n \in TurnsOf(t) /\ worker'[t][n] \in InEffect
    BY DEF Handling
  <2>3. stored[t] = "deleted" \/ host = "closed"
    BY <2>1 DEF Drains, Unlocked
  <2>4. worker[t][n] \notin InEffect
    BY <2>2, <2>3 DEF DrainInv, QuietEnd, Handling
  <2>5. Writable(t, n)
    BY <2>2, <2>4 DEF Drains
  <2>6. QED
    BY <2>3, <2>5 DEF Writable
<1>2. ASSUME NEW d \in Deletions PROVE Swept(d)'
  <2>1. SUFFICES ASSUME deletion[d] = "draining", NEW t \in Subtree(target[d])'
                 PROVE  fence[t] = "deleting" /\ (Handling(t)' # {} => <<t, 0>> \in waits'[d])
    BY DEF Swept, Unlocked
  <2>2. lock = d /\ d # "free"
    BY <2>1, Operations DEF HostInv, Locked
  <2>3. t \in Subtree(target[d]) /\ t \in Threads
    BY <2>1, <2>2 DEF Drains, Unlocked, Subtree
  <2>4. fence[t] = "deleting" /\ (Handling(t) # {} => <<t, 0>> \in waits[d])
    BY <2>1, <2>3 DEF DrainInv, Swept
  <2>5. ASSUME NEW n \in Handling(t)' PROVE <<t, 0>> \in waits'[d]
    <3>1. n \in TurnsOf(t) /\ worker'[t][n] \in InEffect
      BY DEF Handling
    <3>2. worker[t][n] \in InEffect
      BY <2>3, <2>4, <3>1 DEF Drains
    <3>3. <<t, 0>> \in waits[d]
      BY <2>4, <3>1, <3>2 DEF Handling
    <3>4. QED
      BY <2>3, <3>1, <3>3 DEF Drains
  <2>6. QED
    BY <2>4, <2>5
<1>3. ASSUME NEW t \in Threads PROVE Visited(t)'
  <2>1. SUFFICES ASSUME host = "settling", t \notin left, NEW n \in TurnsOf(t)
                 PROVE  /\ worker'[t][n] \in InEffect =>
                              <<t, 0>> \in waits'["shutdown"] \/ <<t, n>> \in waits'["shutdown"]
                        /\ n = current'[t] /\ worker'[t][n] \in Starting =>
                              <<t, n>> \in waits'["shutdown"]
    BY DEF Visited, Unlocked, Handling
  <2>2. /\ worker[t][n] \in InEffect =>
             <<t, 0>> \in waits["shutdown"] \/ <<t, n>> \in waits["shutdown"]
        /\ n = current[t] /\ worker[t][n] \in Starting => <<t, n>> \in waits["shutdown"]
    BY <2>1 DEF DrainInv, Visited, Handling
  <2>3. ASSUME n = current'[t], worker'[t][n] \in Starting PROVE <<t, n>> \in waits'["shutdown"]
    <3>1. <<t, n>> \in waits["shutdown"]
      BY <2>1, <2>2, <2>3 DEF Drains
    <3>2. QED
      BY <2>3, <3>1 DEF Drains
  <2>4. ASSUME worker'[t][n] \in InEffect
        PROVE  <<t, 0>> \in waits'["shutdown"] \/ <<t, n>> \in waits'["shutdown"]
    <3>1. CASE worker[t][n] \in InEffect
      BY <2>2, <2>4, <3>1 DEF Drains
    <3>2. CASE worker[t][n] \notin InEffect
      <4>1. worker[t][n] = "running" /\ Writable(t, n)
        BY <2>4, <3>2 DEF Drains
      <4>2. n = current[t]
        BY <4>1 DEF Writable, TurnInv, TurnSafe, Recorded, Owns
      <4>3. <<t, n>> \in waits["shutdown"]
        BY <2>2, <4>1, <4>2 DEF Starting
      <4>4. QED
        BY <2>4, <4>3 DEF Drains
    <3>3. QED
      BY <3>1, <3>2
  <2>5. QED
    BY <2>3, <2>4
<1>4. QED
  BY <1>1, <1>2, <1>3 DEF DrainInv

\* A worker that goes to another stage, with the channels it may close.
LEMMA StageDrains ==
  ASSUME TypeInv, NEW t \in Threads, NEW n \in TurnsOf(t), NEW stage \in Stages,
         Stage(t, n, stage), UNCHANGED current,
         \A u \in Threads : stored'[u] = "deleted" => stored[u] = "deleted",
         lock # "free" => UNCHANGED stored,
         stage \in InEffect =>
           worker[t][n] \in InEffect
             \/ (worker[t][n] = "running" /\ fence[t] = "open" /\ Writable(t, n)),
         stage \in Starting => host = "open" \/ worker[t][n] \in Starting,
         \/ UNCHANGED waits
         \/ Closes({<<t, n>>}) /\ stage \notin InEffect \cup Starting
         \/ Closes({<<t, 0>>}) /\ stage \notin InEffect /\ Handling(t) = {n}
  PROVE  Drains
<1>1. /\ worker'[t][n] = stage
      /\ \A u \in Threads : \A m \in TurnsOf(u) : u # t \/ m # n => worker'[u][m] = worker[u][m]
  BY StageUpdate DEF TypeInv
<1>2. \A m \in TurnsOf(t) : m # 0
  BY Numbers
<1>3. \A op \in Deletions \cup {"shutdown"} : \A channels :
        Closes(channels) => waits'[op] = waits[op] \ channels
  BY DEF Closes, TypeInv, LifecycleTypeOK
<1>4. ASSUME NEW u \in Threads, NEW m \in TurnsOf(u), NEW op \in Deletions \cup {"shutdown"}
      PROVE  /\ worker'[u][m] \in InEffect /\ <<u, 0>> \in waits[op] => <<u, 0>> \in waits'[op]
             /\ worker'[u][m] \in InEffect \cup Starting /\ <<u, m>> \in waits[op] =>
                  <<u, m>> \in waits'[op]
  <2>1. CASE UNCHANGED waits
    BY <2>1
  <2>2. CASE Closes({<<t, n>>}) /\ stage \notin InEffect \cup Starting
    <3>1. waits'[op] = waits[op] \ {<<t, n>>}
      BY <1>3, <2>2
    <3>2. <<u, 0>> # <<t, n>>
      BY <1>2
    <3>3. worker'[u][m] \in InEffect \cup Starting => <<u, m>> # <<t, n>>
      BY <1>1, <2>2
    <3>4. QED
      BY <3>1, <3>2, <3>3
  <2>3. CASE Closes({<<t, 0>>}) /\ stage \notin InEffect /\ Handling(t) = {n}
    <3>1. waits'[op] = waits[op] \ {<<t, 0>>}
      BY <1>3, <2>3
    <3>2. <<u, m>> # <<t, 0>>
      BY Numbers
    <3>3. worker'[u][m] \in InEffect => u # t
      BY <1>1, <2>3 DEF Handling
    <3>4. QED
      BY <3>1, <3>2, <3>3
  <2>4. QED
    BY <2>1, <2>2, <2>3
<1>5. ASSUME NEW u \in Threads, NEW m \in TurnsOf(u)
      PROVE  /\ worker'[u][m] \in InEffect =>
                   worker[u][m] \in InEffect
                     \/ (worker[u][m] = "running" /\ fence[u] = "open" /\ Writable(u, m))
             /\ m = current'[u] /\ worker'[u][m] \in Starting =>
                   host = "open" \/ (m = current[u] /\ worker[u][m] \in Starting)
  <2>1. CASE u = t /\ m = n
    BY <1>1, <2>1
  <2>2. CASE u # t \/ m # n
    BY <1>1, <2>2
  <2>3. QED
    BY <2>1, <2>2
<1>6. QED
  BY <1>4, <1>5 DEF Drains

LEMMA WorkDrains ==
  ASSUME TypeInv, NEW t \in Threads, NEW n \in TurnsOf(t), Work(t, n)
  PROVE  Drains
<1> USE DEF storage, actor, execution, deleting, closing, history
<1>1. CASE Prepare(t, n)
  BY <1>1, StageDrains DEF Prepare, Stages, InEffect, Starting
<1>2. CASE LosePreparation(t, n)
  BY <1>2, StageDrains DEF LosePreparation, Stages, InEffect, Starting
<1>3. CASE Execute(t, n)
  BY <1>3, StageDrains DEF Execute, Stages, InEffect, Starting
<1>4. CASE Abort(t, n)
  BY <1>4, StageDrains DEF Abort, Stages, InEffect, Starting
<1>5. CASE ClaimEffect(t, n)
  BY <1>5, StageDrains DEF ClaimEffect, Stages, InEffect, Starting
<1>6. CASE CallCreate(t, n)
  BY <1>6, StageDrains DEF CallCreate, Stages, InEffect, Starting
<1>7. CASE Create(t, n)
  <2>1. /\ \A u \in Threads : stored'[u] = "deleted" => stored[u] = "deleted"
        /\ lock # "free" => UNCHANGED stored
    BY <1>7 DEF Create, TypeInv, LifecycleTypeOK
  <2>2. Stage(t, n, "created") /\ worker[t][n] = "creating" /\ UNCHANGED <<current, waits>>
    BY <1>7 DEF Create
  <2>3. QED
    BY <2>1, <2>2, StageDrains DEF Stages, InEffect, Starting
<1>8. CASE ReturnEffect(t, n)
  BY <1>8, StageDrains DEF ReturnEffect, Stages, InEffect, Starting
<1>9. CASE End(t, n)
  BY <1>9, StageDrains DEF End, Stages, InEffect, Starting
<1>10. CASE FinishSend(t, n)
  <2>1. Stage(t, n, "none") /\ Closes({<<t, n>>}) /\ UNCHANGED <<current, stored>>
    BY <1>10 DEF FinishSend, Settle
  <2>2. QED
    BY <2>1, StageDrains DEF Stages, InEffect, Starting
<1>11. CASE FallbackStops(t, n)
  <2>1. UNCHANGED <<current, stored>>
    BY <1>11 DEF FallbackStops
  <2>2. \/ Stage(t, n, "lateEnding") /\ UNCHANGED waits
        \/ Stage(t, n, "ending") /\ UNCHANGED waits
        \/ Stage(t, n, "none") /\ Closes({<<t, n>>})
    BY <1>11 DEF FallbackStops
  <2>3. QED
    BY <2>1, <2>2, StageDrains DEF Stages, InEffect, Starting
<1>12. CASE FallbackFails(t, n)
  <2>1. UNCHANGED <<current, stored, waits>>
        /\ (Stage(t, n, "lateEnding") \/ Stage(t, n, "none"))
    BY <1>12 DEF FallbackFails
  <2>2. QED
    BY <2>1, StageDrains DEF Stages, InEffect, Starting
<1>13. CASE FinishStop(t, n)
  BY <1>13 DEF FinishStop, Settle, Drains
<1>14. QED
  BY <1>1, <1>2, <1>3, <1>4, <1>5, <1>6, <1>7, <1>8, <1>9, <1>10, <1>11, <1>12, <1>13 DEF Work

LEMMA UserDrains ==
  ASSUME TypeInv, NEW t \in Threads,
         Begin(t) \/ Refuse(t) \/ Ask(t) \/ StopNow(t) \/ CreateByUser(t)
  PROVE  Drains
<1> USE DEF storage, actor, execution, deleting, closing, history
<1>1. CASE Refuse(t) \/ Ask(t) \/ StopNow(t)
  BY <1>1 DEF Refuse, Ask, StopNow, Drains
<1>2. CASE CreateByUser(t)
  BY <1>2 DEF CreateByUser, Drains, TypeInv, LifecycleTypeOK
<1>3. CASE Begin(t)
  <2>1. current[t] + 1 \in TurnsOf(t)
    BY <1>3, Numbers, Operations DEF Begin, Begins, TypeInv, LifecycleTypeOK
  <2>2. PICK n \in TurnsOf(t) : n = current[t] + 1
    BY <2>1
  <2>3. /\ Stage(t, n, "preparing") /\ current' = [current EXCEPT ![t] = n]
        /\ UNCHANGED <<stored, waits>>
    BY <1>3, <2>2 DEF Begin
  <2>4. /\ worker'[t][n] = "preparing"
        /\ \A u \in Threads : \A m \in TurnsOf(u) : u # t \/ m # n => worker'[u][m] = worker[u][m]
    BY <2>3, StageUpdate DEF Stages, TypeInv
  <2>5. current'[t] = n /\ \A u \in Threads : u # t => current'[u] = current[u]
    BY <2>3 DEF TypeInv, LifecycleTypeOK
  <2>6. QED
    BY <2>3, <2>4, <2>5 DEF Drains, InEffect, Starting
<1>4. QED
  BY <1>1, <1>2, <1>3

\* What neither moves a worker nor anything that waits for one.
LEMMA StillDrain ==
  ASSUME DrainInv,
         UNCHANGED <<stored, worker, current, fence, waits, deletion, target, host, left>>
  PROVE  DrainInv'
  BY DEF DrainInv, QuietEnd, Swept, Visited, Handling, Subtree

LEMMA DeletionDrain ==
  ASSUME TypeInv, HostInv, DrainInv, NEW d \in Deletions,
         Fence(d) \/ CommitDelete(d) \/ RefuseDelete(d) \/ \E t \in Threads : CallDelete(d, t)
  PROVE  DrainInv'
<1> USE DEF storage, actor, execution, deleting, closing, history
<1>1. \A e \in Deletions : e # "free" /\ e # "shutdown"
  BY Operations
<1>2. /\ deletion \in [Deletions -> {"idle", "waiting", "draining", "deleted", "refused"}]
      /\ target \in [Deletions -> Threads \cup {NoThread}]
      /\ waits \in [Deletions \cup {"shutdown"} -> SUBSET Channels]
  BY DEF TypeInv, LifecycleTypeOK
<1>3. /\ \A e \in Deletions : deletion[e] = "draining" <=> lock = e
      /\ lock = "shutdown" <=> host = "settling"
  BY DEF HostInv, Locked
<1>4. /\ UNCHANGED <<worker, current, host, left>>
      /\ \A t \in Threads : UNCHANGED Handling(t)
  BY DEF Fence, CommitDelete, RefuseDelete, CallDelete, Handling
<1>5. CASE Fence(d) \/ CommitDelete(d) \/ RefuseDelete(d)
  <2>1. host # "settling" /\ \A e \in Deletions : e # d => deletion'[e] # "draining"
    BY <1>1, <1>2, <1>3, <1>5 DEF Fence, CommitDelete, RefuseDelete
  <2>2. \A t \in Threads : Visited(t)'
    BY <1>4, <2>1 DEF Visited
  <2>3. QuietEnd'
    <3>1. CASE CommitDelete(d)
      <4>1. deletion[d] = "draining" /\ waits[d] = {}
        BY <3>1 DEF CommitDelete
      <4>2. \A t \in Subtree(target[d]) : Handling(t) = {}
        BY <4>1 DEF DrainInv, Swept
      <4>3. \A t \in Threads : stored'[t] = "deleted" => stored[t] = "deleted" \/ t \in Subtree(target[d])
        BY <3>1 DEF CommitDelete
      <4>4. QED
        BY <1>4, <4>2, <4>3 DEF DrainInv, QuietEnd
    <3>2. CASE Fence(d) \/ RefuseDelete(d)
      BY <1>4, <3>2 DEF Fence, RefuseDelete, DrainInv, QuietEnd
    <3>3. QED
      BY <1>5, <3>1, <3>2
  <2>4. Swept(d)'
    <3>1. SUFFICES ASSUME deletion'[d] = "draining" PROVE Swept(d)'
      BY DEF Swept
    <3>2. Fence(d)
      BY <1>2, <1>5, <3>1 DEF CommitDelete, RefuseDelete
    <3> DEFINE tree == Subtree(target[d])
    <3>3. UNCHANGED <<stored, target>> /\ tree \subseteq Threads
      BY <3>2 DEF Fence, Subtree
    <3>4. ~(tree = {} \/ \E t \in tree : fence[t] = "closed")
      BY <1>2, <3>1, <3>2 DEF Fence
    <3>5. /\ fence' = [t \in Threads |-> IF t \in tree THEN "deleting" ELSE fence[t]]
          /\ waits' = [waits EXCEPT ![d] = UNION {Joins(t) : t \in tree}]
      BY <3>2, <3>4 DEF Fence
    <3>6. waits'[d] = UNION {Joins(t) : t \in tree}
      BY <1>2, <3>5
    <3>7. \A t \in tree : Handling(t) # {} => <<t, 0>> \in Joins(t)
      BY DEF Joins
    <3>8. \A t \in tree : Handling(t) # {} => <<t, 0>> \in waits'[d]
      BY <3>6, <3>7
    <3>9. tree' = tree
      BY <3>3 DEF Subtree
    <3>10. QED
      BY <1>4, <3>3, <3>5, <3>8, <3>9 DEF Swept
  <2>5. QED
    BY <2>1, <2>2, <2>3, <2>4 DEF DrainInv, Swept
<1>6. CASE \E t \in Threads : CallDelete(d, t)
  <2>1. /\ UNCHANGED <<stored, fence, waits>> /\ deletion'[d] = "waiting"
        /\ \A e \in Deletions : e # d => deletion'[e] = deletion[e] /\ target'[e] = target[e]
    BY <1>2, <1>6 DEF CallDelete
  <2>2. ASSUME NEW e \in Deletions PROVE Swept(e)'
    <3>1. CASE e = d
      BY <2>1, <3>1 DEF Swept
    <3>2. CASE e # d
      BY <1>4, <2>1, <3>2 DEF DrainInv, Swept, Subtree, Handling
    <3>3. QED
      BY <3>1, <3>2
  <2>3. QuietEnd' /\ \A t \in Threads : Visited(t)'
    BY <1>4, <2>1 DEF DrainInv, QuietEnd, Visited
  <2>4. QED
    BY <2>2, <2>3 DEF DrainInv
<1>7. QED
  BY <1>5, <1>6

LEMMA ShutdownDrain ==
  ASSUME TypeInv, HostInv, DrainInv, CallShutdown \/ Closing
  PROVE  DrainInv'
<1> USE DEF storage, actor, execution, deleting, closing, history
<1>1. \A e \in Deletions : e # "free" /\ e # "shutdown"
  BY Operations
<1>2. /\ \A e \in Deletions : deletion[e] = "draining" <=> lock = e
      /\ lock = "shutdown" <=> host = "settling"
  BY DEF HostInv, Locked
<1>3. CASE SettleTurn
  <2>1. UNCHANGED <<stored, worker, current, fence, waits, deletion, target, host, left>>
    BY <1>3 DEF SettleTurn, Settle
  <2>2. QED
    BY <2>1, StillDrain
<1>4. /\ CallShutdown \/ BeginClose \/ FinishClose \/ (\E t \in Threads : Visit(t)) =>
           /\ UNCHANGED <<stored, worker, current, deletion, target>>
           /\ \A t \in Threads : UNCHANGED Handling(t)
  BY DEF CallShutdown, BeginClose, Visit, FinishClose, Handling
<1>5. CASE CallShutdown
  <2>1. UNCHANGED <<fence, waits>> /\ host = "open" /\ host' = "closing"
    BY <1>5 DEF CallShutdown
  <2>2. QED
    BY <1>4, <1>5, <2>1 DEF DrainInv, QuietEnd, Swept, Visited, Subtree
<1>6. CASE BeginClose
  <2>1. UNCHANGED <<fence, waits>> /\ host = "closing" /\ host' = "settling" /\ left' = Threads
    BY <1>6 DEF BeginClose
  <2>2. QED
    BY <1>4, <1>6, <2>1 DEF DrainInv, QuietEnd, Swept, Visited, Subtree
<1>7. ASSUME host = "settling" PROVE \A e \in Deletions : deletion[e] # "draining"
  BY <1>1, <1>2, <1>7
<1>8. CASE \E t \in Threads : Visit(t)
  <2>1. PICK t \in Threads : Visit(t)
    BY <1>8
  <2>2. /\ UNCHANGED <<fence, host>> /\ host = "settling" /\ left' = left \ {t}
        /\ waits'["shutdown"] = waits["shutdown"] \cup Joins(t)
    BY <2>1 DEF Visit, TypeInv, LifecycleTypeOK
  <2>3. /\ Handling(t) # {} => <<t, 0>> \in Joins(t)
        /\ \A n \in TurnsOf(t) : n = current[t] /\ worker[t][n] \in Starting => <<t, n>> \in Joins(t)
    BY DEF Joins, Done, Undrained, Starting
  <2>4. Visited(t)'
    BY <1>4, <1>8, <2>2, <2>3 DEF Visited
  <2>5. ASSUME NEW u \in Threads, u # t PROVE Visited(u)'
    BY <1>4, <1>8, <2>2, <2>5 DEF DrainInv, Visited
  <2>6. QuietEnd' /\ \A d \in Deletions : Swept(d)'
    BY <1>4, <1>7, <1>8, <2>2 DEF DrainInv, QuietEnd, Swept
  <2>7. QED
    BY <2>4, <2>5, <2>6 DEF DrainInv
<1>9. CASE FinishClose
  <2>1. host = "settling" /\ host' = "closed" /\ left = {} /\ waits["shutdown"] = {}
    BY <1>9 DEF FinishClose
  <2>2. \A t \in Threads : Handling(t) = {}
    BY <2>1 DEF DrainInv, Visited, Handling
  <2>3. QED
    BY <1>4, <1>7, <1>9, <2>1, <2>2 DEF DrainInv, QuietEnd, Swept, Visited
<1>10. QED
  BY <1>3, <1>5, <1>6, <1>8, <1>9 DEF Closing

LEMMA StepDrain == LifecycleInv /\ DrainInv /\ [LifecycleNext]_lifecycleVars => DrainInv'
<1> SUFFICES ASSUME TypeInv, HostInv, TurnInv, DrainInv, [LifecycleNext]_lifecycleVars
             PROVE  DrainInv'
  BY DEF LifecycleInv
<1>1. ASSUME NEW t \in Threads, NEW n \in TurnsOf(t), Work(t, n) PROVE DrainInv'
  BY <1>1, TurnsUnlocked, WorkDrains, DrainsInv
<1>2. ASSUME NEW t \in Threads, Begin(t) \/ Refuse(t) \/ Ask(t) \/ StopNow(t) \/ CreateByUser(t)
      PROVE  DrainInv'
  BY <1>2, TurnsUnlocked, UserDrains, DrainsInv
<1>3. CASE UNCHANGED lifecycleVars
  BY <1>3, StillDrain DEF lifecycleVars, storage, actor, execution, deleting, closing
<1>4. QED
  BY <1>1, <1>2, <1>3, DeletionDrain, ShutdownDrain DEF LifecycleNext, Requests, Deleting, Outside

\* No handler works for a thread that is deleted, nor behind a store that is
\* closed, for every forest of threads and every number of turns.
THEOREM HandlersEndFirst == LifecycleSpec => []QuietEnd
<1>1. LifecycleInit => LifecycleInv /\ DrainInv
  BY InitType, InitHost, InitTurn, InitDrain DEF LifecycleInv
<1>2. DrainInv => QuietEnd
  BY DEF DrainInv
<1>3. QED
  BY <1>1, <1>2, StepTurn, StepDrain, PTL DEF LifecycleSpec
=============================================================================
