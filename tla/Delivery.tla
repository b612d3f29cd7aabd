------------------------------ MODULE Delivery ------------------------------
(***************************************************************************)
(* What the client of the engine is given.  Engine ends with the buffers   *)
(* of the sessions; step_decode returns the token it takes from one, and   *)
(* here the client keeps it: given is the answer as the client has it,     *)
(* since the last call that began one.  Both variables only record: they   *)
(* are in no guard.                                                        *)
(***************************************************************************)
EXTENDS Engine

VARIABLES
  given,  \* given[s]: what step_decode has returned of the present answer of s
  since   \* since[s]: next_pos[s] when that answer began

deliveryVars == <<vars, given, since>>

DeliveryInit ==
  /\ Init
  /\ given = [s \in Session |-> << >>]
  /\ since = [s \in Session |-> 0]

(* The calls that clear pending_out: what was buffered is not delivered    *)
(* any more, and what is decoded from here on is another answer.           *)
BeginsAnswer(s) ==
  /\ CancelSession(s) \/ ResetSession(s) \/ \E ts \in Prompts : Submit(s, ts)
  /\ given' = [given EXCEPT ![s] = << >>]
  /\ since' = [since EXCEPT ![s] = next_pos'[s]]

(* step_decode returns Some((id, token)) when it finds a buffered token,   *)
(* before a burst or after one, and None otherwise.                        *)
Answers ==
  /\ StepDelivers \/ StepEnds
  /\ given' = IF Hits(rr, Scan, Deliverable) = {} THEN given
              ELSE LET s == Nth(rr, Calls(rr, Scan, Deliverable))
                   IN  [given EXCEPT ![s] = Append(@, Head(pending_out[s]))]
  /\ UNCHANGED since

(* Nothing is returned while a burst is under way, nor by the other calls. *)
GivesNothing ==
  /\ \/ StepStartsBurst
     \/ FairDecode
     \/ FairPickFails
     \/ ListDecode
     \/ CreateSession
     \/ \E s \in Session : SuspendSession(s) \/ ResumeSession(s)
     \/ \E level \in ThermalLevels : SetThermalLevel(level)
     \/ \E p \in Policies : SetSchedulingPolicy(p)
  /\ UNCHANGED <<given, since>>

DeliveryNext ==
  \/ \E s \in Session : BeginsAnswer(s)
  \/ Answers
  \/ GivesNothing

DeliverySpec == DeliveryInit /\ [][DeliveryNext]_deliveryVars

-----------------------------------------------------------------------------
(* What the client was given and what still waits are together all that    *)
(* was decoded since the answer began, in the order it was decoded: no     *)
(* token is dropped, repeated or out of order, through bursts that break   *)
(* off, sessions in turn, suspensions and a stop token.                    *)
NothingLost ==
  \A s \in live :
    given[s] \o pending_out[s] =
      SubSeq(Append(recent[s], last_token[s]), since[s] + 2, next_pos[s] + 1)
=============================================================================
