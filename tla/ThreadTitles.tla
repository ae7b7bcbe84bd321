---------------------------- MODULE ThreadTitles ----------------------------
(***************************************************************************)
(* The title of a thread: a fallback taken from the first user message,    *)
(* one that a background worker generates beside the turn's execution, or  *)
(* one that the host sets.  The title is thread metadata; every change of  *)
(* it is one transaction that looks at the title's generation and token.   *)
(*                                                                         *)
(* workers are goroutines of the process and end with it; the first        *)
(* harness of a process (recovered) fails the titles that the process      *)
(* before left pending.  A failed or cancelled execution joins its worker  *)
(* before it ends, which only makes that worker fail sooner.               *)
(***************************************************************************)
EXTENDS ThreadGoals

CONSTANTS Keys,          \* request keys of SetTitle
          NoKey,
          MaxGeneration  \* bound on the title changes of a behaviour

ASSUME TitleAssumption == NoKey \notin Keys /\ MaxGeneration \in Nat

VARIABLES
  title,      \* status, source, generation, token (the turn) and host key
  workers,    \* claims that a worker of this process generates a title for
  recovered,  \* titleRecoveryDone
  found,      \* the pending claim that the recovery has read, or NoClaim
  lost        \* history: claims whose outcome storage did not take

titleRecords == <<title, workers, recovered, found, lost>>
titleVars == <<goalVars, titleRecords>>

NoClaim == <<0, NoTurn>>
Claim(record) == <<record.generation, record.token>>

Titles == [status : {"unset", "pending", "ready", "failed"},
           source : {"none", "fallback", "host", "provider"},
           generation : Nat, token : Turns \cup {NoTurn}, key : Keys \cup {NoKey}]

TitleTypeOK ==
  /\ GoalTypeOK
  /\ title \in Titles
  /\ workers \subseteq Nat \X Turns
  /\ recovered \in BOOLEAN
  /\ found \in (Nat \X Turns) \cup {NoClaim}
  /\ lost \subseteq Nat \X Turns

TitleInit ==
  /\ GoalInit
  /\ title = [status |-> "unset", source |-> "none", generation |-> 0,
              token |-> NoTurn, key |-> NoKey]
  /\ workers = {} /\ recovered = FALSE /\ found = NoClaim /\ lost = {}
-----------------------------------------------------------------------------
\* The first user message gives an untitled thread its fallback title, in the
\* transaction that admits the turn.
AcceptTitledInput(t, r) ==
  /\ AcceptInput(t, r) \/ SubmitGoal(t, r)
  /\ title' = IF title.status # "unset" THEN title
              ELSE [title EXCEPT !.status = "ready", !.source = "fallback",
                                 !.generation = @ + 1]
  /\ UNCHANGED <<workers, recovered, found, lost>>

\* The host names the thread.  A repeated key, or the title as it is, changes
\* nothing; only the latest key is remembered.
SetTitle(k) ==
  /\ title.generation < MaxGeneration
  /\ title.key # k
  /\ title' = [status |-> "ready", source |-> "host",
               generation |-> title.generation + 1, token |-> NoTurn, key |-> k]
  /\ UNCHANGED <<goalVars, workers, recovered, found, lost>>

\* The execution of the turn with the latest user message begins a title; it
\* may have been overtaken by the end of that turn.  One generation at a time
\* is pending, and a turn whose title has failed begins none again.
MayBegin(t) ==
  \/ title.status = "ready" /\ title.source = "fallback"
  \/ title.status = "failed" /\ title.token # t

BeginTitle(t) ==
  /\ recovered /\ input = t
  /\ MayBegin(t)
  /\ title.generation < MaxGeneration
  /\ title' = [title EXCEPT !.status = "pending", !.generation = @ + 1,
                            !.token = t, !.key = NoKey]
  /\ workers' = workers \cup {Claim(title')}
  /\ UNCHANGED <<goalVars, recovered, found, lost>>

\* Mutant: the transaction does not look whose title it decides.
HoldsAny(claim) == title.status # "unset"

\* A transaction that is about to decide a claim finds it pending.
Holds(claim) == title.status = "pending" /\ Claim(title) = claim

\* GenerateTitle returned a title; a claim that has ended is dropped.
CompleteTitle(claim) ==
  /\ claim \in workers
  /\ title' = IF Holds(claim)
              THEN [title EXCEPT !.status = "ready", !.source = "provider", !.key = NoKey]
              ELSE title
  /\ workers' = workers \ {claim}
  /\ UNCHANGED <<goalVars, recovered, found, lost>>

\* It returned an error, ran into its timeout or was cancelled.
FailTitle(claim) ==
  /\ claim \in workers
  /\ title' = IF Holds(claim) THEN [title EXCEPT !.status = "failed", !.key = NoKey]
              ELSE title
  /\ workers' = workers \ {claim}
  /\ UNCHANGED <<goalVars, recovered, found, lost>>

\* Storage takes neither the title nor its failure: the host is told
\* (ReportBackgroundError) and the title stays pending until a restart.
LoseTitle(claim) ==
  /\ claim \in workers
  /\ workers' = workers \ {claim}
  /\ lost' = lost \cup {claim}
  /\ UNCHANGED <<goalVars, title, recovered, found>>

\* The process ends, and with it its workers.
Restart ==
  /\ workers' = {} /\ recovered' = FALSE /\ found' = NoClaim
  /\ UNCHANGED <<goalVars, title, lost>>

\* Mutant: the recovery is done once it has looked.
FindPendingOnce ==
  /\ ~recovered /\ found = NoClaim
  /\ recovered' = TRUE
  /\ UNCHANGED <<goalVars, title, workers, found, lost>>

\* RecoverPendingAutomaticThreadTitles lists what is pending ...
FindPending ==
  /\ ~recovered /\ found = NoClaim
  /\ IF title.status = "pending"
     THEN found' = Claim(title) /\ UNCHANGED recovered
     ELSE recovered' = TRUE /\ UNCHANGED found
  /\ UNCHANGED <<goalVars, title, workers, lost>>

\* ... and fails it.  If the host has renamed the thread in between, the
\* recovery ends in an error and the next harness repeats it.
RecoverPending ==
  /\ found # NoClaim
  /\ IF Holds(found)
     THEN /\ title' = [title EXCEPT !.status = "failed", !.key = NoKey]
          /\ recovered' = TRUE
     ELSE UNCHANGED <<title, recovered>>
  /\ found' = NoClaim
  /\ UNCHANGED <<goalVars, workers, lost>>
-----------------------------------------------------------------------------
TitleStep(t) ==
  \/ \E k \in Keys : SetTitle(k)
  \/ BeginTitle(t)
  \/ \E claim \in workers : CompleteTitle(claim) \/ FailTitle(claim) \/ LoseTitle(claim)
  \/ Restart
  \/ FindPending
  \/ RecoverPending

TitleNext ==
  \E t \in Turns :
    \/ \E r \in Runs : AcceptTitledInput(t, r)
    \/ (UserSetsGoal \/ UserDeletesGoal \/ ModelStep(t) \/ HostStep(t))
         /\ UNCHANGED titleRecords
    \/ TitleStep(t)

TitleSpec == TitleInit /\ [][TitleNext]_titleVars
-----------------------------------------------------------------------------
(* Properties.                                                             *)

\* A pending title has a worker that will decide it, or the first harness of
\* this process is still to fail it; only an outcome that storage did not take
\* leaves it pending, through restarts and a recovery that was overtaken.
PendingTitleOwned ==
  title.status = "pending" => Claim(title) \in workers \cup lost \/ ~recovered

\* A title never goes back, whoever is late: within a generation it is decided
\* once, nothing but another title of the host replaces the host's, and no step
\* leaves a pending title with nobody to decide it.
TitlesInOrder ==
  [][/\ PendingTitleOwned'
     /\ title'.generation >= title.generation
     /\ title.source = "host" => title'.source = "host"
     /\ title' # title /\ title'.generation = title.generation =>
          title.status = "pending" /\ title'.status \in {"ready", "failed"}]_titleVars
=============================================================================
