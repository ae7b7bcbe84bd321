---------------------------- MODULE TurnContract ----------------------------
(***************************************************************************)
(* What the journal of a thread promises its hosts about turns and about   *)
(* the tool effects they run, with no run identities, markers or entries:  *)
(*   - one turn is open at a time and a closed turn stays as it closed;    *)
(*   - an effect starts at most once, never after a stop request;          *)
(*   - a stop has been asked for, and success never answers a request;     *)
(*   - closing a turn gives every effect its final word in the same step:  *)
(*     what had not started never will, what was running is uncertain, and *)
(*     the verdict says so exactly then.                                   *)
(***************************************************************************)
CONSTANTS Turns, Effects, TurnOf   \* TurnOf[e]: the turn that runs effect e

VARIABLES turn, stop, verdict, effect
vars == <<turn, stop, verdict, effect>>

EffectStates == {"absent", "reserved", "running", "done", "dropped", "uncertain"}
Verdicts == {"success", "failure", "abort", "stop", "uncertain"}

Init ==
  /\ turn = [t \in Turns |-> "idle"]
  /\ stop = [t \in Turns |-> FALSE]
  /\ verdict = [t \in Turns |-> "none"]
  /\ effect = [e \in Effects |-> "absent"]

Open(t) ==
  /\ turn[t] = "idle"
  /\ \A u \in Turns : turn[u] # "open"
  /\ turn' = [turn EXCEPT ![t] = "open"]
  /\ UNCHANGED <<stop, verdict, effect>>

AskStop(t) ==
  /\ turn[t] = "open"
  /\ stop' = [stop EXCEPT ![t] = TRUE]
  /\ UNCHANGED <<turn, verdict, effect>>

Move(e, from, to) ==
  /\ turn[TurnOf[e]] = "open"
  /\ effect[e] = from
  /\ effect' = [effect EXCEPT ![e] = to]
  /\ UNCHANGED <<turn, stop, verdict>>

Reserve(e) == ~stop[TurnOf[e]] /\ Move(e, "absent", "reserved")
Start(e)   == ~stop[TurnOf[e]] /\ Move(e, "reserved", "running")
Drop(e)    == Move(e, "reserved", "dropped")
Settle(e)  == Move(e, "running", "done")

\* Waiting for the user gives up what had not started.
Pause(t) ==
  /\ turn[t] = "open"
  /\ ~stop[t]
  /\ \A e \in Effects : TurnOf[e] = t => effect[e] # "running"
  /\ effect' = [e \in Effects |->
                  IF TurnOf[e] = t /\ effect[e] = "reserved" THEN "dropped"
                  ELSE effect[e]]
  /\ UNCHANGED <<turn, stop, verdict>>

Close(t, v, stopped) ==
  /\ turn[t] = "open"
  /\ turn' = [turn EXCEPT ![t] = "closed"]
  /\ v = "success" => ~stop[t]
  /\ v = "stop" => stop[t] \/ stopped
  /\ stopped => v \in {"stop", "uncertain"}
  /\ v = "uncertain" <=>
       \E e \in Effects : TurnOf[e] = t /\ effect[e] = "running"
  /\ verdict' = [verdict EXCEPT ![t] = v]
  /\ stop' = [stop EXCEPT ![t] = @ \/ stopped]
  /\ effect' = [e \in Effects |->
                  CASE TurnOf[e] = t /\ effect[e] = "reserved" -> "dropped"
                    [] TurnOf[e] = t /\ effect[e] = "running" -> "uncertain"
                    [] OTHER -> effect[e]]

Next ==
  \/ \E t \in Turns : Open(t) \/ AskStop(t) \/ Pause(t)
  \/ \E t \in Turns, v \in Verdicts, stopped \in BOOLEAN : Close(t, v, stopped)
  \/ \E e \in Effects : Reserve(e) \/ Start(e) \/ Drop(e) \/ Settle(e)

Spec == Init /\ [][Next]_vars
=============================================================================
