----------------------------- MODULE DecodeLoop -----------------------------
(***************************************************************************)
(* The client's decode loop: sessions have been created and submitted to,  *)
(* and from here on the client only calls step_decode, over and over,      *)
(* while the platform reports thermal levels.  What the engine must do for *)
(* every session in the end is stated here; what it may never do is in     *)
(* Engine.                                                                 *)
(***************************************************************************)
EXTENDS Engine

CONSTANTS
  Busy,            \* the sessions a prompt was submitted to
  Prompt           \* that prompt

ASSUME LoopAssumption == Busy \subseteq Session /\ Prompt \in Prompts

(* Every session created, and Prompt submitted to those of Busy, one after *)
(* the other in some order, with some token sampled; nothing decoded yet.  *)
SetUp ==
  LET n == Len(Prompt)
      entries == Stepped(Prefilled(<< >>, 0, Body(Prompt)), n - 1, << LastOf(Prompt) >>)
      busy(x, y) == [s \in Session |-> IF s \in Busy THEN x ELSE y]
  IN  /\ next_session_id = MaxSessions + 1
      /\ live = Session
      /\ state = busy("Decoding", "Queued")
      /\ kv = busy(entries, << >>)
      /\ free = TotalBlocks - Cardinality(Busy) * BlocksFor(n)
      /\ free >= 0
      /\ next_pos = busy(n, 0)
      /\ recent = busy(Prompt, << >>)
      /\ pending_out = busy(<< >>, << >>)
      /\ \E tok \in Token :
           /\ last_token = busy(tok, None)
           /\ snapshot = busy([prompt |-> Prompt, next_pos |-> n,
                               last_token |-> tok, recent |-> Prompt], None)
      /\ rr \in SetToSeqs(Busy)
      /\ thermal \in ThermalLevels
      /\ policy \in Policies
      /\ burst = Idle

Loop == StepDecode \/ \E level \in ThermalLevels : SetThermalLevel(level)

(* The client keeps calling step_decode, and a call under way goes on.     *)
LoopSpec == SetUp /\ [][Loop]_vars /\ WF_vars(StepDecode)

-----------------------------------------------------------------------------
(* It is s that the burst under way decodes next.                          *)
Turn(s) ==
  /\ burst # Idle
  /\ burst.left > 0
  /\ IF burst.policy = "Fair"
     THEN /\ Hits(rr, Scan, Decodable) # {}
          /\ Nth(rr, Calls(rr, Scan, Decodable)) = s
     ELSE s \in burst.todo

(* policy.rs on Fair: "Every session in the decode set gets one token per  *)
(* scheduling round".  So a session that stays in the decode set, decode   *)
(* not being paused, gets its turn again and again, whatever the burst     *)
(* budget, the errors of other sessions and their stop tokens.             *)
NoStarvation ==
  \A s \in Session :
    []<>(state[s] # "Decoding" \/ ShouldPause(thermal) \/ Turn(s))

(* policy.rs on LatencyFirst: "Among decode sessions, the youngest session *)
(* (fewest generated tokens) gets priority".  So with sessions to decode   *)
(* and decode not paused some session gets a turn.                         *)
SomeoneDecodes ==
  []<>(\/ \A s \in Session : state[s] # "Decoding"
       \/ ShouldPause(thermal)
       \/ \E s \in Session : Turn(s))

(* What has been decoded for a session that goes on decoding reaches the   *)
(* client: its buffer is empty again and again, so that the next burst can *)
(* only start once every buffered token is delivered.                      *)
BufferDrains ==
  \A s \in Session :
    []<>(state[s] # "Decoding" \/ ShouldPause(thermal) \/ pending_out[s] = << >>)

(* The decode loop of cellm-wasm's documentation breaks on the stop token: *)
(* "if (token === 2) break; // EOS".  So the tokens of a session that a    *)
(* stop token has ended are delivered, the stop token included.            *)
StopTokenDelivered ==
  \A s \in Session :
    (state[s] = "Terminal" /\ pending_out[s] # << >>) ~>
      (pending_out[s] = << >> \/ ShouldPause(thermal))
=============================================================================
