---------------------------- MODULE MCTurnRecovery ----------------------------
(* TLC instances of TurnRecovery.                                             *)
EXTENDS TurnRecovery

CONSTANT Extra   \* calls and instructions that only an unbroken process meets

Steered  == \E s \in Steers : steer[<<Turn, s>>] # "none"
Asked    == \E c \in Approvals : ask[<<Turn, c>>] # "none"
Enquired == \E q \in Inputs : ask[<<Turn, q>>] # "none"

\* A state constraint: a turn whose process was lost, or which puts a question,
\* has not met the extra call, nor the extra instruction after a loss; a second
\* loss meets a turn with an instruction or one with an approval; two passes at
\* once meet a turn without an instruction, once.
CoreAfterLoss ==
  /\ crashes > 0 \/ Enquired =>
       \A c \in Calls \cap Extra : call[<<Turn, c>>] = "none" /\ ask[<<Turn, c>>] = "none"
  /\ crashes > 0 => \A s \in Steers \cap Extra : steer[<<Turn, s>>] = "none"
  /\ crashes = 2 => ~(Steered /\ Asked)
  /\ crowded => crashes = 1 /\ ~Steered
=============================================================================
