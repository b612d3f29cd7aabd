----------------------------- MODULE Scheduler -----------------------------
(***************************************************************************)
(* The pieces of cellm-scheduler the engine is built from, as operators:   *)
(* the session state machine (session.rs), the round-robin ring (rr.rs),   *)
(* the thermal policy (thermal.rs) and the size of a decode burst that the *)
(* engine derives from it.                                                 *)
(***************************************************************************)
EXTENDS Integers, Sequences

(* Session states                                                          *)

States == {"Queued", "Prefill", "Decoding", "Suspended", "Terminal"}

(* session.rs can_transition.                                              *)
CanTransition(from, to) ==
  \/ to = "Queued"
  \/ from = to
  \/ from = "Queued"    /\ to \in {"Prefill", "Suspended", "Terminal"}
  \/ from = "Prefill"   /\ to \in {"Decoding", "Suspended", "Terminal"}
  \/ from = "Decoding"  /\ to \in {"Suspended", "Terminal"}
  \/ from = "Suspended" /\ to \in {"Prefill", "Decoding", "Terminal"}

-----------------------------------------------------------------------------
(* The round-robin ring: a queue of ids, next() moves the head to the back *)

InRing(q, id) == \E i \in DOMAIN q : q[i] = id

(* RoundRobinScheduler::add.                                               *)
RingAdd(q, id) == IF InRing(q, id) THEN q ELSE Append(q, id)

(* RoundRobinScheduler::remove.                                            *)
RingRemove(q, id) ==
  IF InRing(q, id)
  THEN LET i == CHOOSE i \in DOMAIN q : q[i] = id
       IN  SubSeq(q, 1, i - 1) \o SubSeq(q, i + 1, Len(q))
  ELSE q

(* Mutant: the head is not moved to the back.                              *)
RotateNot(q, k) == q

(* The ring after k calls of RoundRobinScheduler::next ...                 *)
Rotate(q, k) ==
  IF q = << >> THEN q
  ELSE LET r == k % Len(q) IN SubSeq(q, r + 1, Len(q)) \o SubSeq(q, 1, r)

(* ... and the id the k-th of those calls returns.                         *)
Nth(q, k) == q[((k - 1) % Len(q)) + 1]

(***************************************************************************)
(* The loop of pop_pending_scheduled and pick_next_decodable_fair: call    *)
(* next() up to n times and stop at the first id of S.  Hits are the calls *)
(* that could stop it, Calls is how many it makes.                         *)
(***************************************************************************)
Hits(q, n, S) == {k \in 1..n : q # << >> /\ Nth(q, k) \in S}

Calls(q, n, S) ==
  IF Hits(q, n, S) = {} THEN n
  ELSE CHOOSE k \in Hits(q, n, S) : \A j \in Hits(q, n, S) : k <= j

-----------------------------------------------------------------------------
(* Thermal policy                                                          *)

Levels == {"Nominal", "Elevated", "Critical", "Emergency"}

(* ThermalPolicy::should_pause_decode.                                     *)
ShouldPause(level) == level = "Emergency"

(* ThermalPolicy::max_active_decode_sessions, for n sessions: Nominal has  *)
(* no limit (usize::MAX).                                                  *)
MaxActive(level, n) ==
  CASE level = "Nominal"   -> n
    [] level = "Elevated"  -> 2
    [] level = "Critical"  -> 1
    [] level = "Emergency" -> 0

SmallerOf(a, b) == IF a <= b THEN a ELSE b
LargerOf(a, b) == IF a <= b THEN b ELSE a

(* Engine::decode_burst_budget with sessions in the ring and decode not    *)
(* paused; n counts every live session, backendCap is 2 on the CPU and 4   *)
(* on Metal and WebGpu.                                                    *)
BurstBudget(level, n, backendCap) ==
  LargerOf(1, SmallerOf(SmallerOf(MaxActive(level, n), n), backendCap))
=============================================================================
