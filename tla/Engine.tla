------------------------------- MODULE Engine -------------------------------
(***************************************************************************)
(* The serving engine of cellm-sdk (Engine in lib.rs): sessions, their     *)
(* decode state and prefill snapshot, the round-robin ring, and the K/V    *)
(* cache they share.  Every public method takes &mut self, under the mutex *)
(* of the FFI layer, so each is one step here, except step_decode: its     *)
(* decode burst is a step per decoded token, and while it lasts (burst #   *)
(* Idle) no other method runs.                                             *)
(*                                                                         *)
(* The K/V cache is used through the contract of KvStore, which PagedKv    *)
(* implements: a sequence of entries per session and a count of free       *)
(* blocks.  The model runner is external data flow: it turns a run of      *)
(* tokens into K/V entries and answers any token, or fails.                *)
(***************************************************************************)
EXTENDS Scheduler, FiniteSets, Functions, SequencesExt

CONSTANTS
  MaxSessions,     \* bound: sessions the client creates
  Token,           \* the vocabulary
  Eos,             \* the runner's stop token
  Prompts,         \* what the client submits: nonempty sequences of tokens
  TotalBlocks,     \* EngineConfig::total_blocks
  TokensPerBlock,  \* EngineConfig::tokens_per_block
  BackendCap,      \* decodes per burst: 2 on the CPU, 4 on Metal and WebGpu
  BatchPrefill,    \* TRUE: Qwen's prefill; FALSE: the other runners' prefill
  RunnerFaults,    \* TRUE: a runner or the sampler may fail after a K/V write
  CarefulClient,   \* TRUE: a failed submit is answered by reset or cancel only
  ThermalLevels,   \* the levels the client reports
  Policies,        \* the scheduling policies the client selects
  None, Idle       \* no token, no snapshot; no burst

ASSUME EngineAssumption ==
  /\ MaxSessions \in Nat \ {0}
  /\ TotalBlocks \in Nat
  /\ TokensPerBlock \in Nat \ {0}
  /\ BackendCap \in Nat \ {0}
  /\ Eos \in Token /\ None \notin Token
  /\ Prompts \subseteq Seq(Token) \ {<< >>}
  /\ {BatchPrefill, RunnerFaults, CarefulClient} \subseteq BOOLEAN
  /\ ThermalLevels \subseteq Levels /\ "Nominal" \in ThermalLevels
  /\ Policies \subseteq {"Fair", "LatencyFirst", "ThroughputFirst"}
  /\ "Fair" \in Policies

VARIABLES
  next_session_id, \* Engine::next_session_id
  live,            \* the keys of Engine::sessions and Engine::session_meta
  state,           \* state[s]: SchedSession::state
  kv,              \* kv[s]: the session's K/V entries, by position
  free,            \* free blocks of the shared allocator
  next_pos,        \* EngineSession fields, by session ...
  last_token,
  recent,
  pending_out,
  snapshot,        \* ... cached_prompt, _next_pos, _last_token and _recent
  rr,              \* Engine::rr
  thermal,         \* Engine::thermal
  policy,          \* PolicyExecutor::policy
  burst            \* the burst under way inside step_decode, or Idle

sessionVars == <<kv, free, next_pos, last_token, recent, pending_out, snapshot>>
vars == <<next_session_id, live, state, kv, free, next_pos, last_token, recent,
          pending_out, snapshot, rr, thermal, policy, burst>>

Session == 1..MaxSessions

(* What a K/V entry remembers: the token it was computed from and how many *)
(* positions the attention that computed it covered; None if not written.  *)
Entry == [tok : Token \cup {None}, span : Nat]
Unwritten == [tok |-> None, span |-> 0]

Snapshots ==
  [prompt : Seq(Token), next_pos : Nat, last_token : Token, recent : Seq(Token)]

Bursts == [policy : Policies, left : Nat, todo : SUBSET Session]

TypeOK ==
  /\ next_session_id \in 1..(MaxSessions + 1)
  /\ live \subseteq 1..(next_session_id - 1)
  /\ state \in [Session -> States]
  /\ kv \in [Session -> Seq(Entry)]
  /\ free \in Nat
  /\ next_pos \in [Session -> Nat]
  /\ last_token \in [Session -> Token \cup {None}]
  /\ recent \in [Session -> Seq(Token)]
  /\ pending_out \in [Session -> Seq(Token)]
  /\ snapshot \in [Session -> Snapshots \cup {None}]
  /\ rr \in Seq(Session)
  /\ thermal \in ThermalLevels
  /\ policy \in Policies
  /\ burst \in Bursts \cup {Idle}

-----------------------------------------------------------------------------
(* The K/V cache and the model runner                                      *)

BlocksFor(n) == (n + TokensPerBlock - 1) \div TokensPerBlock

(* Mutant: truncation and free_all do not give blocks back.                *)
SetKvNeverFrees(s, es) ==
  /\ kv' = [kv EXCEPT ![s] = es]
  /\ free' = free - LargerOf(0, BlocksFor(Len(es)) - BlocksFor(Len(kv[s])))

(* Session s gets the entries es; the allocator takes or gives blocks.     *)
SetKv(s, es) ==
  /\ kv' = [kv EXCEPT ![s] = es]
  /\ free' = free + BlocksFor(Len(kv[s])) - BlocksFor(Len(es))

(* Mutant: the positions beyond the snapshot stay.                         *)
NotTruncated(es, n) == es

(* PageTable::truncate_tokens: a no-op at or beyond the present count.     *)
Truncated(es, n) == SubSeq(es, 1, SmallerOf(n, Len(es)))

(* The positions session s can reach before alloc() answers OutOfBlocks.   *)
Room(s) == (BlocksFor(Len(kv[s])) + free) * TokensPerBlock

(***************************************************************************)
(* The entries after a runner has processed the tokens ts one by one from  *)
(* position p <= Len(es): step_inner appends a position only when p is the *)
(* token count, writes at p, and lets the token attend to every position   *)
(* of the page table.                                                      *)
(***************************************************************************)
Stepped(es, p, ts) ==
  [i \in 1..LargerOf(Len(es), p + Len(ts)) |->
     IF i \in (p + 1)..(p + Len(ts))
     THEN [tok |-> ts[i - p], span |-> LargerOf(Len(es), i)]
     ELSE es[i]]

(* Mutant: prefill writes where it appends, not at start_pos.              *)
BatchedAtEnd(es, p, ts, m) ==
  LET n == LargerOf(Len(es), p + Len(ts))
  IN  [i \in 1..n |->
         IF i \in (Len(es) + 1)..(Len(es) + m) THEN [tok |-> ts[i - Len(es)], span |-> n]
         ELSE IF i <= Len(es) THEN es[i]
         ELSE Unwritten]

(***************************************************************************)
(* The entries after Qwen's prefill has appended positions for all of ts,  *)
(* and then processed the first m of them.                                 *)
(***************************************************************************)
Batched(es, p, ts, m) ==
  LET n == LargerOf(Len(es), p + Len(ts))
  IN  [i \in 1..n |->
         IF i \in (p + 1)..(p + m) THEN [tok |-> ts[i - p], span |-> n]
         ELSE IF i <= Len(es) THEN es[i]
         ELSE Unwritten]

(* Mutant: the runner does not stop at OutOfBlocks.                        *)
FitAll(s, p, n) == n

(* How many of n tokens from position p get a K/V slot.                    *)
Fit(s, p, n) == SmallerOf(n, Room(s) - p)

(* After how many of n tokens, fit of which have a slot, a run may fail.   *)
(* A token whose step fails has taken its slot, written or not: it counts, *)
(* since of what lies beyond next_pos only the number of positions matters. *)
FailPoints(n, fit) ==
  IF RunnerFaults THEN 0..fit ELSE IF fit < n THEN {fit} ELSE {}

(* The entries a failed run of ts may leave, one token at a time ...       *)
SteppedFailures(s, es, p, ts) ==
  {Stepped(es, p, SubSeq(ts, 1, m)) : m \in FailPoints(Len(ts), Fit(s, p, Len(ts)))}

(* ... and in Qwen's prefill, which needs every slot before the first step. *)
BatchedFailures(s, es, p, ts) ==
  LET fit == Fit(s, p, Len(ts))
      points == FailPoints(Len(ts), fit)
  IN  {Batched(es, p, SubSeq(ts, 1, m), 0) : m \in points}
        \cup {Batched(es, p, ts, m) : m \in {k \in points : fit = Len(ts)}}

(* Runner::prefill, when it succeeds and when it fails.                    *)
Prefilled(es, p, ts) ==
  IF BatchPrefill THEN Batched(es, p, ts, Len(ts)) ELSE Stepped(es, p, ts)

PrefillFailures(s, es, p, ts) ==
  IF BatchPrefill THEN BatchedFailures(s, es, p, ts)
  ELSE SteppedFailures(s, es, p, ts)

-----------------------------------------------------------------------------
(* Sessions                                                                *)

Init ==
  /\ next_session_id = 1
  /\ live = {}
  /\ state = [s \in Session |-> "Queued"]
  /\ kv = [s \in Session |-> << >>]
  /\ free = TotalBlocks
  /\ next_pos = [s \in Session |-> 0]
  /\ last_token = [s \in Session |-> None]
  /\ recent = [s \in Session |-> << >>]
  /\ pending_out = [s \in Session |-> << >>]
  /\ snapshot = [s \in Session |-> None]
  /\ rr = << >>
  /\ thermal = "Nominal"
  /\ policy = "Fair"
  /\ burst = Idle

(* Engine::create_session: ids are never reused.                           *)
CreateSession ==
  /\ burst = Idle
  /\ next_session_id <= MaxSessions
  /\ live' = live \cup {next_session_id}
  /\ next_session_id' = next_session_id + 1
  /\ UNCHANGED <<state, sessionVars, rr, thermal, policy, burst>>

(* Mutant: the session is dropped without free_all.                        *)
CancelLeaks(s) ==
  /\ burst = Idle
  /\ s \in live
  /\ rr' = RingRemove(rr, s)
  /\ live' = live \ {s}
  /\ kv' = [kv EXCEPT ![s] = << >>]
  /\ state' = [state EXCEPT ![s] = "Queued"]
  /\ pending_out' = [pending_out EXCEPT ![s] = << >>]
  /\ UNCHANGED <<next_session_id, free, next_pos, last_token, recent, snapshot,
                 thermal, policy, burst>>

(* Engine::cancel_session: the fields of a dead session are cleared.       *)
CancelSession(s) ==
  /\ burst = Idle
  /\ s \in live
  /\ rr' = RingRemove(rr, s)
  /\ live' = live \ {s}
  /\ SetKv(s, << >>)
  /\ state' = [state EXCEPT ![s] = "Queued"]
  /\ next_pos' = [next_pos EXCEPT ![s] = 0]
  /\ last_token' = [last_token EXCEPT ![s] = None]
  /\ recent' = [recent EXCEPT ![s] = << >>]
  /\ pending_out' = [pending_out EXCEPT ![s] = << >>]
  /\ snapshot' = [snapshot EXCEPT ![s] = None]
  /\ UNCHANGED <<next_session_id, thermal, policy, burst>>

Fresh == [prompt |-> << >>, next_pos |-> 0, last_token |-> None, recent |-> << >>]

(* Mutant: the rewind forgets that there is a snapshot.                    *)
NotRewound(s) == Fresh

(* The decode state to go back to: the snapshot's, or a fresh one.         *)
Rewound(s) == IF snapshot[s] # None THEN snapshot[s] ELSE Fresh

(* What a cache hit and reset_session have in common.                      *)
RestoreSnapshot(s) ==
  /\ SetKv(s, Truncated(kv[s], Rewound(s).next_pos))
  /\ next_pos' = [next_pos EXCEPT ![s] = Rewound(s).next_pos]
  /\ last_token' = [last_token EXCEPT ![s] = Rewound(s).last_token]
  /\ recent' = [recent EXCEPT ![s] = Rewound(s).recent]
  /\ pending_out' = [pending_out EXCEPT ![s] = << >>]

(* Engine::reset_session: any state may become Queued (Decoding through    *)
(* Suspended), so on a live session it always succeeds.                    *)
ResetSession(s) ==
  /\ burst = Idle
  /\ s \in live
  /\ rr' = RingRemove(rr, s)
  /\ RestoreSnapshot(s)
  /\ state' = [state EXCEPT ![s] = "Queued"]
  /\ UNCHANGED <<next_session_id, live, snapshot, thermal, policy, burst>>

(* A careful client answers a failed submit, which leaves the session in   *)
(* Prefill, with reset_session or cancel_session.                          *)
MayUse(s) == CarefulClient => state[s] # "Prefill"

(* Mutant: rr.remove is forgotten.                                         *)
SuspendKeepsRing(s) ==
  /\ burst = Idle
  /\ s \in live
  /\ MayUse(s)
  /\ CanTransition(state[s], "Suspended")
  /\ state' = [state EXCEPT ![s] = "Suspended"]
  /\ UNCHANGED <<next_session_id, live, sessionVars, rr, thermal, policy, burst>>

(* Engine::suspend_session.                                                *)
SuspendSession(s) ==
  /\ burst = Idle
  /\ s \in live
  /\ MayUse(s)
  /\ CanTransition(state[s], "Suspended")
  /\ state' = [state EXCEPT ![s] = "Suspended"]
  /\ rr' = RingRemove(rr, s)
  /\ UNCHANGED <<next_session_id, live, sessionVars, thermal, policy, burst>>

ResumeTarget(s) == IF last_token[s] # None THEN "Decoding" ELSE "Queued"

(* Engine::resume_session.                                                 *)
ResumeSession(s) ==
  /\ burst = Idle
  /\ s \in live
  /\ MayUse(s)
  /\ CanTransition(state[s], ResumeTarget(s))
  /\ state' = [state EXCEPT ![s] = ResumeTarget(s)]
  /\ rr' = IF last_token[s] # None THEN RingAdd(rr, s) ELSE rr
  /\ UNCHANGED <<next_session_id, live, sessionVars, thermal, policy, burst>>

-----------------------------------------------------------------------------
(* submit_tokens_cached (submit_tokens is the same without the flag)       *)

MaySubmit(s) ==
  /\ burst = Idle
  /\ s \in live
  /\ MayUse(s)
  /\ CanTransition(state[s], "Prefill")

(* The prompt is the one the snapshot was taken after.                     *)
CacheHit(s, ts) ==
  /\ snapshot[s] # None
  /\ snapshot[s].prompt = ts
  /\ Len(kv[s]) >= snapshot[s].next_pos

(* A hit rewinds the session to its snapshot and starts decoding.          *)
SubmitHit(s, ts) ==
  /\ MaySubmit(s)
  /\ CacheHit(s, ts)
  /\ RestoreSnapshot(s)
  /\ state' = [state EXCEPT ![s] = "Decoding"]
  /\ rr' = RingAdd(rr, s)
  /\ UNCHANGED <<next_session_id, live, snapshot, thermal, policy, burst>>

(* Mutant: the prefill takes the last token too.                           *)
WholeBody(ts) == ts

(* A miss appends the prompt: all of it but the last token is prefilled,   *)
(* the last one is stepped to sample from.                                 *)
Body(ts) == SubSeq(ts, 1, Len(ts) - 1)
LastOf(ts) == ts[Len(ts)]

(* The prefill fails: next_pos and recent stay behind the page table.      *)
SubmitPrefillFails(s, ts) ==
  /\ MaySubmit(s)
  /\ ~CacheHit(s, ts)
  /\ Body(ts) # << >>
  /\ \E es \in PrefillFailures(s, kv[s], next_pos[s], Body(ts)) : SetKv(s, es)
  /\ state' = [state EXCEPT ![s] = "Prefill"]
  /\ pending_out' = [pending_out EXCEPT ![s] = << >>]
  /\ UNCHANGED <<next_session_id, live, next_pos, last_token, recent, snapshot,
                 rr, thermal, policy, burst>>

PrefillFits(s, ts) == Fit(s, next_pos[s], Len(Body(ts))) = Len(Body(ts))

(* The prefill succeeds and the step of the last token, or its sampler, fails. *)
SubmitStepFails(s, ts) ==
  /\ MaySubmit(s)
  /\ ~CacheHit(s, ts)
  /\ PrefillFits(s, ts)
  /\ LET es == Prefilled(kv[s], next_pos[s], Body(ts))
         pos == next_pos[s] + Len(Body(ts))
     IN  /\ \E fs \in SteppedFailures(s, es, pos, << LastOf(ts) >>) : SetKv(s, fs)
         /\ next_pos' = [next_pos EXCEPT ![s] = pos]
  /\ recent' = [recent EXCEPT ![s] = @ \o Body(ts)]
  /\ state' = [state EXCEPT ![s] = "Prefill"]
  /\ pending_out' = [pending_out EXCEPT ![s] = << >>]
  /\ UNCHANGED <<next_session_id, live, last_token, snapshot, rr, thermal, policy, burst>>

(* The whole prompt is processed: tok is sampled and returned to the       *)
(* caller, the snapshot is taken, and the session joins the ring.          *)
SubmitSucceeds(s, ts, tok) ==
  /\ MaySubmit(s)
  /\ ~CacheHit(s, ts)
  /\ Fit(s, next_pos[s], Len(ts)) = Len(ts)
  /\ LET es == Prefilled(kv[s], next_pos[s], Body(ts))
         pos == next_pos[s] + Len(Body(ts))
     IN  /\ SetKv(s, Stepped(es, pos, << LastOf(ts) >>))
         /\ next_pos' = [next_pos EXCEPT ![s] = pos + 1]
         /\ recent' = [recent EXCEPT ![s] = @ \o ts]
         /\ last_token' = [last_token EXCEPT ![s] = tok]
         /\ snapshot' = [snapshot EXCEPT ![s] =
              [prompt |-> ts, next_pos |-> pos + 1,
               last_token |-> tok, recent |-> recent[s] \o ts]]
  /\ pending_out' = [pending_out EXCEPT ![s] = << >>]
  /\ state' = [state EXCEPT ![s] = "Decoding"]
  /\ rr' = RingAdd(rr, s)
  /\ UNCHANGED <<next_session_id, live, thermal, policy, burst>>

Submit(s, ts) ==
  \/ SubmitHit(s, ts)
  \/ SubmitPrefillFails(s, ts)
  \/ SubmitStepFails(s, ts)
  \/ \E tok \in Token : SubmitSucceeds(s, ts, tok)

-----------------------------------------------------------------------------
(* step_decode                                                             *)

(* The number of next() calls a scan of the ring may make: sessions.len(). *)
Scan == LargerOf(1, Cardinality(live))

(* Sessions pop_pending_scheduled would take a token from.                 *)
Deliverable ==
  {s \in live : state[s] \notin {"Suspended", "Terminal"} /\ pending_out[s] # << >>}

(* Sessions pick_next_decodable_fair would decode.                         *)
Decodable ==
  {s \in live : state[s] \notin {"Suspended", "Terminal"} /\ last_token[s] # None}

(* Mutant: the state is not looked at.                                     *)
EligibleByToken == {s \in live : last_token[s] # None}

(* Sessions BatchDetector::detect groups.                                  *)
Eligible == {s \in live : state[s] = "Decoding" /\ last_token[s] # None}

(* PolicyExecutor::decode_order: the engine never calls add, so the plan   *)
(* of a LatencyFirst tick is empty.                                        *)
LatencyPlan == {}

(* What a burst of the current policy sets out to decode.                  *)
BurstTodo ==
  CASE policy = "Fair"            -> {}
    [] policy = "LatencyFirst"    -> LatencyPlan
    [] policy = "ThroughputFirst" -> Eligible

MayStep ==
  /\ burst = Idle
  /\ ~ShouldPause(thermal)
  /\ rr # << >>

(* Mutant: front() for pop_front().                                        *)
PopPendingPeeks ==
  /\ Hits(rr, Scan, Deliverable) # {}
  /\ rr' = Rotate(rr, Calls(rr, Scan, Deliverable))
  /\ UNCHANGED pending_out

(* Mutant: drain() for pop_front().                                        *)
PopPendingDrains ==
  /\ Hits(rr, Scan, Deliverable) # {}
  /\ LET k == Calls(rr, Scan, Deliverable)
     IN  /\ rr' = Rotate(rr, k)
         /\ pending_out' = [pending_out EXCEPT ![Nth(rr, k)] = << >>]

(* pop_pending_scheduled finds a token: rr turns, the token is returned.   *)
PopPending ==
  /\ Hits(rr, Scan, Deliverable) # {}
  /\ LET k == Calls(rr, Scan, Deliverable)
     IN  /\ rr' = Rotate(rr, k)
         /\ pending_out' = [pending_out EXCEPT ![Nth(rr, k)] = Tail(@)]

(* step_decode answers from the tokens an earlier burst has buffered ...   *)
StepDelivers ==
  /\ MayStep
  /\ PopPending
  /\ UNCHANGED <<next_session_id, live, state, kv, free, next_pos, last_token,
                 recent, snapshot, thermal, policy, burst>>

(* ... or starts a burst, the vain scan having turned the ring.            *)
StepStartsBurst ==
  /\ MayStep
  /\ Hits(rr, Scan, Deliverable) = {}
  /\ rr' = Rotate(rr, Scan)
  /\ burst' = [policy |-> policy, todo |-> BurstTodo,
               left |-> BurstBudget(thermal, Scan, BackendCap)]
  /\ UNCHANGED <<next_session_id, live, state, sessionVars, thermal, policy>>

(* decode_one_for_session samples tok: it is buffered, and a stop token    *)
(* ends the session.                                                       *)
DecodeSucceeds(s, tok) ==
  /\ Fit(s, next_pos[s], 1) = 1
  /\ SetKv(s, Stepped(kv[s], next_pos[s], << last_token[s] >>))
  /\ recent' = [recent EXCEPT ![s] = Append(@, last_token[s])]
  /\ last_token' = [last_token EXCEPT ![s] = tok]
  /\ next_pos' = [next_pos EXCEPT ![s] = @ + 1]
  /\ pending_out' = [pending_out EXCEPT ![s] = Append(@, tok)]
  /\ state' = [state EXCEPT ![s] =
       IF tok = Eos /\ CanTransition(@, "Terminal") THEN "Terminal" ELSE @]
  /\ burst' = [burst EXCEPT !.left = @ - 1, !.todo = @ \ {s}]

(* decode_one_for_session fails: step_decode returns the error and leaves  *)
(* the rest of the burst undone.                                           *)
DecodeFails(s) ==
  /\ \E es \in SteppedFailures(s, kv[s], next_pos[s], << last_token[s] >>) : SetKv(s, es)
  /\ burst' = Idle
  /\ UNCHANGED <<state, next_pos, last_token, recent, pending_out>>

DecodeOne(s) ==
  /\ DecodeFails(s) \/ \E tok \in Token : DecodeSucceeds(s, tok)
  /\ UNCHANGED <<next_session_id, live, snapshot, thermal, policy>>

(* pump_decode_burst under Fair: the ring picks the next session.          *)
FairDecode ==
  /\ burst # Idle
  /\ burst.policy = "Fair" /\ burst.left > 0
  /\ Hits(rr, Scan, Decodable) # {}
  /\ LET k == Calls(rr, Scan, Decodable)
     IN  rr' = Rotate(rr, k) /\ DecodeOne(Nth(rr, k))

(* Nothing in the ring can be decoded: the burst breaks off.               *)
FairPickFails ==
  /\ burst # Idle
  /\ burst.policy = "Fair" /\ burst.left > 0
  /\ Hits(rr, Scan, Decodable) = {}
  /\ rr' = Rotate(rr, Scan)
  /\ burst' = [burst EXCEPT !.left = 0]
  /\ UNCHANGED <<next_session_id, live, state, sessionVars, thermal, policy>>

(* The other policies go through their list; ThroughputFirst's is in the   *)
(* order of a HashMap.                                                     *)
ListDecode ==
  /\ burst # Idle
  /\ burst.policy # "Fair" /\ burst.left > 0
  /\ \E s \in burst.todo : DecodeOne(s)
  /\ UNCHANGED rr

BurstOver ==
  \/ burst.left = 0
  \/ burst.policy # "Fair" /\ burst.todo = {}

(* After the burst step_decode answers with a buffered token, or None.     *)
StepEnds ==
  /\ burst # Idle
  /\ BurstOver
  /\ burst' = Idle
  /\ \/ PopPending
     \/ /\ Hits(rr, Scan, Deliverable) = {}
        /\ rr' = Rotate(rr, Scan)
        /\ UNCHANGED pending_out
  /\ UNCHANGED <<next_session_id, live, state, kv, free, next_pos, last_token,
                 recent, snapshot, thermal, policy>>

StepDecode ==
  \/ StepDelivers
  \/ StepStartsBurst
  \/ FairDecode
  \/ FairPickFails
  \/ ListDecode
  \/ StepEnds

-----------------------------------------------------------------------------
(* Engine::set_thermal_level.                                              *)
SetThermalLevel(level) ==
  /\ burst = Idle
  /\ thermal' = level
  /\ UNCHANGED <<next_session_id, live, state, sessionVars, rr, policy, burst>>

(* Engine::set_scheduling_policy.                                          *)
SetSchedulingPolicy(p) ==
  /\ burst = Idle
  /\ policy' = p
  /\ UNCHANGED <<next_session_id, live, state, sessionVars, rr, thermal, burst>>

Client ==
  \/ CreateSession
  \/ \E s \in Session :
       \/ CancelSession(s)
       \/ ResetSession(s)
       \/ SuspendSession(s)
       \/ ResumeSession(s)
       \/ \E ts \in Prompts : Submit(s, ts)
  \/ \E level \in ThermalLevels : SetThermalLevel(level)
  \/ \E p \in Policies : SetSchedulingPolicy(p)

Next == Client \/ StepDecode

Spec == Init /\ [][Next]_vars

-----------------------------------------------------------------------------
(* The ring and the session states agree: no id twice, only live sessions  *)
(* that have a token to decode from, every Decoding session in, and of the *)
(* others only those a stop token has ended (they leave it at a reset).    *)
RingMatchesStates ==
  /\ \A i, j \in DOMAIN rr : rr[i] = rr[j] => i = j
  /\ \A i \in DOMAIN rr :
       /\ rr[i] \in live
       /\ state[rr[i]] \in {"Decoding", "Terminal"}
       /\ last_token[rr[i]] # None
  /\ \A s \in live : state[s] = "Decoding" => InRing(rr, s)

(* The live sessions and the free count own every block: no sequence of    *)
(* calls, errors and cancelled sessions included, loses or doubles one.    *)
KvAccounted ==
  free + SumFunctionOnSet([s \in Session |-> BlocksFor(Len(kv[s]))], live) = TotalBlocks

(* The cursor, the token history and the page table move together: what a  *)
(* session has consumed is what its K/V entries were computed from.  What  *)
(* a failed step or prefill has left in the table lies beyond the cursor,  *)
(* and nothing is said of how much that is.                                *)
KvHoldsHistory ==
  \A s \in live :
    /\ next_pos[s] = Len(recent[s])
    /\ next_pos[s] <= Len(kv[s])
    /\ \A i \in 1..next_pos[s] : kv[s][i].tok = recent[s][i]

(* Causality: the attention that computed the entry of a position covered  *)
(* the positions up to it and none beyond.                                 *)
CausalAttention ==
  \A s \in live : \A i \in 1..next_pos[s] : kv[s][i].span = i

(* A cache hit or a reset can rewind: the entries below the snapshot's     *)
(* cursor are those of the snapshot's history, whatever was decoded,       *)
(* appended or failed since.                                               *)
SnapshotIntact ==
  \A s \in live : snapshot[s] # None =>
    /\ snapshot[s].next_pos = Len(snapshot[s].recent)
    /\ snapshot[s].next_pos <= next_pos[s]
    /\ SubSeq(recent[s], 1, snapshot[s].next_pos) = snapshot[s].recent

Store == INSTANCE KvStore

(* The engine uses the K/V cache as its contract allows.                   *)
KeepsStoreContract == Store!Spec

(* A suspended session is left alone by everything but calls on it: its    *)
(* context and its undelivered tokens wait for resume.                     *)
SuspendedUntouched ==
  [][\A s \in live :
       state[s] = "Suspended" /\ StepDecode =>
         kv'[s] = kv[s] /\ pending_out'[s] = pending_out[s] /\ state'[s] = state[s]]_vars
=============================================================================
