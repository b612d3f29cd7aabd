# A verification project for cellm

cellm is an on-device LLM runtime: a Rust engine that serves several chat sessions from one loaded
model, with a paged K/V cache, cooperative decode scheduling and thermal back-off, Metal and WebGPU
backends, image and audio input, a converter for its model files, and C, JNI and WebAssembly
interfaces. This directory holds TLA+ modules of it, the TLC configurations that check them and the
proofs TLAPS checks.

## 1. The system

### Components

Paths are relative to `src/crates/` unless they begin with `src/`.

| Component | Source | State | Operations | Modelled by |
|---|---|---|---|---|
| Block allocator | `cellm-cache/src/allocator.rs` | `free_list`, `is_free`, `in_use` | `new`, `alloc`, `free` | `PagedKv` |
| Page table, one per session | `cellm-cache/src/pagetable.rs` | `blocks`, `token_count` | `append_token`, `truncate_tokens`, `free_all`, `block_for_token`, `offset_in_block` | `PagedKv` |
| K/V slab | `cellm-cache/src/kvcache.rs`, `cellm-core/src/kv_cache.rs` | one flat buffer for K, one for V | `write_token`, the gather of attention | `PagedKv` (a cell per block and offset) |
| Session state machine, ring, thermal policy | `cellm-scheduler/src/{session,rr,thermal}.rs` | `state`; `q`; `level` | `transition`; `add`, `remove`, `next`; `set_level`, `max_active_decode_sessions` | `Scheduler`, `Engine` |
| Policies and batches | `cellm-scheduler/src/{policy,batch}.rs` | `policy`, `decode_order` | `tick`, `detect` | `Engine`, as far as the engine reaches them |
| Serving engine | `cellm-sdk/src/lib.rs` | sessions, ring, policy, level, cache | create, submit, step, suspend, resume, reset, cancel | `Engine`, `Delivery`, `DecodeLoop` |
| Text runners | `cellm-model/src/{llama,gemma,qwen,lfm}.rs`, `llama_graph.rs`, `gemma_graph.rs` | weights, address buffers, GPU caches, recurrent and convolution state | `step_topk`, `prefill`, `enable_metal_*` | `LlamaPass`, `GemmaPass`, `QwenPass`, `LfmPass`, `GraphBases`, `LruWeights` |
| Kernels and their dispatch | `cellm-kernels/src/{metal,webgpu,cpu_kernels}.rs` | weight cache, named and scratch buffers with their mutexes, memory of a group | one dispatch per operation | `Threadgroup`, `TiledMatmul`, `GpuGrid`, `MetalOps` |
| Model files and converter | `cellm-model/src/cellm_file.rs`, `src/tools/convert/src/main.rs` | the file, the header | plan, write, load | `CellmLayout`, `WeightPlan` |
| Vision and audio | `cellm-sdk/src/vlm.rs` | views, features, the prompt with placeholders | describe an image or a recording | `VlmPrompt`, `VisionTower`, `AudioTower`, `VlmDecode` |
| C and JNI interfaces | `cellm-sdk/src/{ffi,jni}.rs` | a mutex around the engine, or none; the last error; tokenizer files | one function per method | `Callers`, `TokenizerFiles` |
| WebAssembly interface | `cellm-wasm/src/lib.rs` | engine, tokenizer, GPU handle | one method per method | its decode loop (`DecodeLoop`), its image prompt (`VlmPrompt`) |
| Chat clients | `src/bindings/ios/CellmDemo/ConcurrentChatView.swift`, `src/bindings/kotlin/.../ChatViewModel.kt` | lists of messages, tasks and jobs, the engine in use | send, delete, reset, load, the decode loop | `ConcurrentChat`, `AndroidChat` |
| Arena and tensors, unused runners, wrappers, tools | see `PROJECT.json` | | | no (section 8) |

### How they interact

A client (an app, through one of the interfaces) creates sessions, submits a prompt to each, and then
calls `step_decode` over and over; each call returns at most one token and says whose it is.

- `submit_tokens_cached` compares the prompt with the session's snapshot. A *hit* rewinds page table,
  cursor, last token and history to the snapshot. A *miss* appends the prompt to what the session has:
  the runner processes all tokens but the last (`prefill`), then the last one, and a first token is
  sampled; the state after it becomes the new snapshot. Either way the session enters the ring.
- `step_decode` first looks for a token decoded earlier (`pop_pending_scheduled`, which turns the ring
  as it looks). If there is none it decodes a *burst*: up to a budget of sessions, the budget set by the
  thermal level, the number of sessions and the backend, the order by the policy. It buffers the tokens
  and returns one of them.
- A runner appends a position to the session's page table when it needs one, which may take a block
  from the shared allocator or fail with `OutOfBlocks`; it writes the token's K/V entry there and
  attends to every position of the table. Each runner has several implementations of one step (fused
  Metal graph, per-operation Metal kernels, WebGPU batch, CPU) and hands the step from one to the next
  when one gives up, in the middle of the work if need be. The fused graphs keep buffers of slot
  addresses from one step to the next; Qwen and LFM keep state that the page table knows nothing of.
- Images and recordings become rows of features, and the prompt gets one placeholder per row; the
  multimodal decoder drives the same runners without the engine.
- `suspend_session`, `resume_session`, `reset_session` and `cancel_session` move a session in and out
  of the ring. Only reset, cancel and a cache hit give blocks back.

The engine is one `&mut self` object behind the mutex of `ffi.rs`. Concurrency inside it is therefore
the interleaving of *sessions*, by calls of the client and by the order in which bursts and deliveries
visit them. Threads meet at four other places: at that mutex and the error cell beside it, at the JNI
functions, which have no mutex, in the chat clients, whose tasks interleave with the main actor, and
in the kernels, whose lanes meet at barriers.

### What is hard

Two records of one fact that must move together (page table, cursor and token history; state machine
and ring; allocator flags and tables; slot addresses and page tables; recurrent state and positions);
failures in the middle of a prompt, a burst or a layer; rewinding to a snapshot after any number of
calls; a shared pool that runs out; a scan whose length is not the length of what it scans; tokens
buffered across suspensions, resets and stop tokens; paths that must compute one function; formats
that two programs choose by name; barriers; tasks that act on what they read before they waited.
`PROJECT.json` lists each such hazard at its line, with the properties that cover it or the reason why
none does.

### What makes each component correct

- *Allocator and tables*: every block is free exactly once or in exactly one place of one table; a table
  has the blocks its tokens need; `free` never meets an id it must refuse; what a position maps to never
  changes under appends and truncations; a fused graph attends to the slots the table gives now.
- *Ring and states*: a decoding session is in the ring, once; a suspended or cancelled one is not.
- *Engine*: what a session has consumed is what its K/V entries hold; a rewind restores exactly the
  snapshot; attention is causal; blocks are never lost; tokens are delivered in order, none twice.
- *Scheduling*: a decoding session gets its turn, and its tokens reach the client, in the end.
- *Runners*: K/V, recurrent state and logits are the model's, on every path, after every hand-over.
- *Kernels*: an output is what the loop of the processor computes, whatever the order of the lanes; a
  call of `MetalOps` returns the result of its own inputs; its mutexes are never waited for in a circle.
- *Files*: what the converter writes, the reader finds and the runner reads; half a file is refused.
- *Vision and audio*: features stand at their placeholders; a vector is made of its own view; a
  recording is heard whole and in order.
- *Clients*: a session that was given out is known; a token is shown in the answer it belongs to, in
  order; every call and every answer ends.

## 2. The modules

```
KvStore        what the cache promises: a sequence of entries per session, a paid-for free count
   ^  implemented by (INSTANCE WITH a refinement mapping: TLC and TLAPS)
PagedKv        allocator + page tables + slab
   ^  EXTENDS
GraphBases     the slot addresses fused graphs keep
   ^  EXTENDS
PagedKvProofs (TLAPS: both)

Scheduler      ring, session states, thermal policy, burst budget: operators only
   ^  EXTENDS
Engine         the serving engine, its cache seen through KvStore (TLC and TLAPS: KeepsStoreContract)
   ^  EXTENDS                    ^  EXTENDS
DecodeLoop     liveness          Delivery       what the client is given
                                    ^  EXTENDS
                                 EngineProofs (TLAPS: both)

Terms          what runners compute, as terms over symbolic tensors
   ^  EXTENDS
LlamaPass                QwenPass    LfmPass      GemmaPass    VlmPrompt         MetalOps
   ^  EXTENDS               ^  EXTENDS  ^ INSTANCE   ^ INSTANCE   ^  EXTENDS
LlamaPassProofs (TLAPS)  HybridPassProofs (TLAPS) GemmaProofs (TLAPS)

LruWeights (in HybridPassProofs)    VlmDecode (in GemmaProofs)    VisionTower  AudioTower
CellmLayout  WeightPlan
Threadgroup    TiledMatmul  GpuGrid
               TiledMatmulProofs (TLAPS)
               Filter        what a list filter leaves
                 ^  EXTENDS
Callers        ConcurrentChat  AndroidChat      TokenizerFiles
   ^  EXTENDS    ^  INSTANCE     ^  INSTANCE
CallersProofs (TLAPS: all three)

Induction      lemmas: least counterexamples, sums over finite sets (TLAPS; used by six proof modules)
```

A proof module may hold the theorems of several specifications, one extended and others instantiated:
`HybridPassProofs` those of the two runners that mix attention with another memory and of LFM's decoded
weights, `GemmaProofs` those of Gemma's images, of its runner and of the decoding with features,
`CallersProofs` those of the engine's callers, the C interface's threads
and the two apps. The variables and theorems of each are apart; what they share are lemmas.

`MCPagedKv`, `MCDelivery` (the engine with its client), `MCEngine` (without), `MCDecodeLoop`, `MCModels`,
`MCKernels`, `MCImages` and `MCClients` give the
constants values for TLC. The last four, and `MCPagedKv`, hold several instances of several modules: a
variable `part` says which one a behaviour is of, and the variables of the others are `Off`. A part is
a system of its own; what parts share is only the run.

**KvStore** has two variables: `kv[s]`, the entries of a session by position, and `free`. Its one action
lets one session's sequence become any other sequence, provided that no other session's changes and the
free count pays for the blocks of the change.

**PagedKv** keeps the fields of the Rust structs by name. `AppendInPlace` and `AppendNewBlock` are the
two branches of `append_token`; `TruncateTokens` and `FreeAll` free ids one after the other in the
code's order (`Popped`: last block first), which matters because `alloc` hands out the oldest free id.
A call that returns an error before it changes anything is no step. `fault` latches a `free` that
answered `DoubleFree` or `InvalidBlockId`; `NoFault` says that it never does.

**GraphBases** adds the buffer of slot addresses of a fused graph: `bases`, `stride`, and the session
and length it was last built for (Llama, Gemma) or a single count of populated entries (Qwen,
`Watermark`). A step appends, refreshes the buffer as the code does, and attends; `misread` is the set
of positions it read from another slot than the page table's. `MaxStride` bounds the doubling of the
buffer; it is some doubling of the smallest stride that holds the pool, so that it never stops a growth
the code would do.

**Scheduler** defines the pieces the engine calls. The loop "call `next()` up to n times, stop at the
first session that qualifies" appears twice in `lib.rs`; it is `Calls`, with `Rotate` for what it does to
the ring.

**Engine** has an action per public method, with the error paths that change state:

| Code | Actions |
|---|---|
| `submit_tokens_cached` | `SubmitHit`, `SubmitPrefillFails`, `SubmitStepFails`, `SubmitSucceeds` |
| `step_decode` | `StepDelivers`; or `StepStartsBurst`, then `FairDecode` / `FairPickFails` / `ListDecode`, then `StepEnds` |
| `decode_one_for_session` | `DecodeSucceeds`, `DecodeFails` (inside `FairDecode`, `ListDecode`) |
| the other methods | one action each |

A call of `step_decode` is a sequence of steps, one per decoded token; `burst # Idle` while it lasts and
every other method waits, as the mutex makes it. The fields `cached_*` of a session are the record
`snapshot`. A K/V entry remembers the token it was computed from and the number of positions the
attention behind it covered, which is what the properties need of it. `Stepped` is a run of
`step_inner`, `Batched` the two-pass prefill of Qwen; the constant `BatchPrefill` chooses. `RunnerFaults`
lets any step of a runner, or the sampler, return an error. A runner that fails in the middle of a token
has already appended its position; the model counts the token as processed, because only the number of
positions beyond `next_pos` matters. Any token may be sampled.

**Delivery** adds what the client keeps: `given[s]`, the tokens `step_decode` has returned of the present
answer of `s`, and `since[s]`, the cursor when that answer began, which is at every call that clears
`pending_out`. Both only record. `NothingLost` says of them that no token is dropped on its way; the
tokens that a session has in its buffer when it ends stay there (finding 4).

**DecodeLoop** starts after the submits and leaves the client only `step_decode` and changes of the
thermal level. `Turn(s)` says that the burst under way decodes `s` next.

**LlamaPass**, **GemmaPass**, **QwenPass**, **LfmPass** compute a step layer by layer over terms
(**Terms**): a vector is the tree of operations and weights that made it, so that two paths agree
exactly when they apply the same operations to the same weights in the same order, and a stale buffer, a
skipped layer, a wrong rotation or a weight read in another format than it is stored in shows. The address
rows of Qwen's graph name the session whose slot they point to; `GiveBack` says what the slots of a session
that is rewound or cancelled may become, and no row is written again. A
constant `Backends` says what was enabled; a path may fail where the code has an error path, and what it
has written stays. The reference is the model as the CPU loop defines it, written as one recursive
function per module. Rounding is not seen.

**LruWeights** is LFM's cache of decoded weights and the list of its keys. `Mixer` says which matrices each
layer asks for before the three of its feed-forward block; `layer` and `at` are the loop's place. A
product through `linear_i4_out_in` moves the key it hits to the end of the list, the prefetch of the
feed-forward block on Metal does not; a pass may fail between any two matrices.

**CellmLayout** plans offsets in the converter's three rounds, writes header and tensors, may stop half
way, and loads the result; sizes are byte counts of real models, the JSON is its length.
**WeightPlan** is the converter's choice of a format for every tensor, with every option, and on the
other side the formats each runner and tower reads.

**Threadgroup** interleaves the lanes of a group between barriers, **TiledMatmul** does so for the
tiled product, **GpuGrid** has every kernel of one thread per output with its grid, packing and index
arithmetic. **MetalOps** gives each operation a program of steps, one for each mutex it takes and each
command buffer it commits, over the named buffers, scratch buffers and the weight cache.

**VlmPrompt** goes from the hints in the files beside a model and the size of an image to views, rows
and the prompt; **VisionTower** and **AudioTower** compute features symbolically; **VlmDecode** is the
multimodal prefill in its three forms, and generation with its stop rules. `Depth(p)` is in how many layers
a position is right when generation starts: in all, but from an image with the two-sided prefill on in two,
and in three behind it.

**Callers** has threads that call the C or the JNI interface, a decode that takes its session out of the
maps while the runner works, panics that unwind, and the error cell. `SessionsAreTheClients` collects what
the mutex is for: with it, and without panics, no client is told that a session it has is unknown, the
ring and the pool are those of the clients' sessions, and not even a panic gives a living session's
blocks away. **TokenizerFiles** edits a tokenizer file through the temporary directory and encodes a text
with added tokens. **ConcurrentChat** has the main actor, a task per message and the decode loop of the
iOS view, with engines that are built, fail to build and replace each other, and steps that fail
(`MaxFails` times, or for ever if the cache `Fills`); **AndroidChat** the main thread and the job of a
message, which both read and write the list of messages and its counter. A job that has published its end
is in `late` until it has counted its message; a user who is `Quick` sends before that. Both modules
filter lists; **Filter** says what is left of one by counting, which
is `SelectSeq` without its recursion and can be proved about.

## 3. The runs

| Run | Checks | Distinct states |
|---|---|---|
| `paged_kv` | `TypeOK`, `FreeListExact`, `NoSharing`, `OwnedIffAllocated`, `TablesFit`, `NoFault`, `AttendsOwnSlots`, `KeepsStoreContract`, `KeptPositionsKeepEntries` | 882,824 |
| `engine` | `TypeOK`, `RingMatchesStates`, `KvAccounted`, `KvHoldsHistory`, `CausalAttention`, `SnapshotIntact`, `NothingLost`, `KeepsStoreContract`, `SuspendedUntouched` | 144,334 |
| `engine_careless` | `KvHoldsHistory`, `SnapshotIntact` | 678,914 |
| `decode_loop` | `NoStarvation`, `BufferDrains` | 15,888 |
| `models` | `FileIsReadAsWritten`, `FileRuns`, `UnwrapFinds`, `CacheIsTheModels`, `AnswerIsTheModels`, `StateIsThePast` | 228,682 |
| `images` | `WithinBudget`, `PromptMatchesFeatures`, `VectorsAreTheModels`, `RecordingIsHeard`, `GenerationIsTheModels` | 431,456 |
| `kernels` | `ExactResult`, `OwnResult`, `NoCircle` | 164,547 |
| `clients` | `SessionsAreTheClients`, `TokenizerIsTheFiles`, `ShownWhereItBelongs`, `EverythingEnds` | 341,450 |
| `qwen_prefill` | `CausalAttention` | violated: finding 1 |
| `starvation` | `NoStarvation` | violated: finding 2 |
| `latency_first` | `SomeoneDecodes` | violated: finding 3 |
| `stop_token` | `StopTokenDelivered` | violated: finding 4 |

Bounds, and why they are enough to meet the interesting cases:

- `paged_kv`, part `cache`: two sessions, three blocks of two positions, one entry value. A table crosses
  a block boundary, both sessions compete for the last block, blocks return in another order than they
  left and are handed to the other session with old entries in them. Parts `graph_steps` and
  `graph_prefills`: the address buffer of a fused graph over three blocks of one position, so that every
  append takes a block and a rewound session may get back another one than it had. Part
  `graph_watermark`: Qwen's count of populated entries, with two blocks (with three it fails, section 7).
- `engine`: two sessions, a vocabulary of one ordinary token and the stop token, prompts of one and of
  three tokens (with and without a prefill), three blocks of two positions. The pool bounds the run: six
  positions are enough for a prompt, a second turn, several decodes and an exhausted pool. All policies
  and three thermal levels. `CarefulClient` is TRUE: a failed submit is answered by reset or cancel.
- `engine_careless`: `CarefulClient` is FALSE and `BatchPrefill` TRUE, under Nominal and two policies: Fair
  and ThroughputFirst, which goes through its list in any order. It leaves out `CausalAttention`, which
  neither this client nor this prefill can keep (finding 1; positions left by a failed submit are attended
  to by the next one).
- `decode_loop`: three sessions, all decoding, six blocks of one position: three decodes fit and every
  later one fails with `OutOfBlocks` without ending the session, so that the behaviours are infinite
  while the state space is finite; three sessions and a burst of two do not divide each other.
- `models`: parts `layout` and `weights` (the converter), `lru_cpu` and `lru_metal`, and one or more parts
  per runner: `llama` (CPU, linear Metal and full Metal, each able to fail), `llama_graph`, `llama_web`,
  `gemma3`, `gemma4`, `gemma`, `qwen`, `qwen_graph`, `qwen35`, `qwen35_faults`, `lfm`, `lfm_faults`. Two
  to four layers (one of each kind the model has, so that a layer can see what a neighbour left), two to
  five positions (a sliding window that slides, a convolution window that fills), and two sessions in
  `gemma3`, `qwen`, `qwen35`, `qwen35_faults` and `lfm_faults` (the last without convolutions). Sessions are
  cancelled in all parts of Qwen but `qwen_graph`, and rewound in `qwen` and `lfm_faults`.
- `images`: `patches`, `browser`, `prefix`, `split`, `every_tile` (sizes of images against patch sizes,
  hints and budgets), `onnx`, `tower_cpu`, `tower_metal`, `tower_gemma` (every grid of up to six
  patches, up to three views, pooling by two, Gemma's padded rows), `audio` (up to 48 samples: several
  frames, chunks and blocks), `llama`, `gemma`, `gemma_deep` (four layers under the two-sided prefill),
  `features_first`, `stop` (prompts with up to three placeholders; generation up to its limit, with its
  rules for repeated tokens). In `onnx` images are 3, 8 and 11 to 14 wide by 1 to 8 high, with tiles
  of 2: fewer than six tiles, six, and seven.
- `kernels`: `rms_web`, `rms_metal`, `softmax`, `attention` (four lanes; lengths 1, 3, 4 and 6, which are
  shorter than, equal to and no multiple of the group; two tiles), `matmul` (3 x 3 x 3 with a tile of 2),
  `products`, `nibbles`, `places` (every grid against every size up to its edges), `metal_one`,
  `metal_two` (one and two threads in `MetalOps`).
- `clients`: `callers` (two threads, two sessions), `callers_panic` (a panic in any call),
  `callers_alone` (one thread, every method of the interface, six calls), `tokenizer` (texts of up to
  five letters, added tokens that overlap), `chat_one`, `chat_two`, `chat_ends`, `chat_reload`
  (an engine per choice, a user who waits), `chat_choose` (one or two per choice, and choices while they
  are built), `phone` (a patient user), `phone_reset` (resets and a quick user). Tokenizer, runner and
  builds may fail in all of the chats (a step `MaxFails` times in a loop: once, or not at all in `chat_two`
  and `chat_choose`); `Fills` is FALSE in all, since an answer then does not end (section 7).

`CHECK_DEADLOCK FALSE` stands in `paged_kv`, `models`, `images`, `kernels` and `clients` only, whose parts
end: a pass is over, a file is loaded, a chat is answered. In `engine` and `decode_loop` a call can
always be made, and deadlock is checked. A part whose end matters has a liveness property
(`EverythingEnds`).

Every property has a mutant in `PROJECT.json`, a plausible bug in one definition under which the same
run finds the property violated. The mutants' operators stand before the definition they replace.

## 4. Fairness

`DecodeLoop!LoopSpec` has one assumption: `WF_vars(StepDecode)`. Between calls it says that the client
keeps calling `step_decode`, which is the documented loop (`cellm-wasm/src/lib.rs:36-42`); inside a call
it says that a Rust function that has begun goes on. Nothing is assumed of which session is picked, of
thermal levels (a platform may report any level at any time; the properties excuse an Emergency, which
pauses decode by design) or of which token is sampled. `NoStarvation` and `BufferDrains` excuse a
session that leaves the Decoding state.

`clients` assumes weak fairness of what runs by itself once it has been started, and of nothing a user
does: a thread inside a call goes on (`callers_panic`); a Swift task goes on, the building of an engine,
the sending of a message and a decode loop each (`chat_ends`); the job of a message on its dispatcher goes
on, its last two steps included (`phone_reset`). Weak fairness is enough, because a step of a task is
taken away only by a step of that task, or by the mutex, whose holder goes on.

## 5. What is proved

TLAPS proves of `PagedKv`, for every set of sessions and entries, every number of blocks and every block
size (`SizeAssumption`: natural numbers, the block size not zero, which `KVCache::new` and
`PageTable::new` enforce):

| Theorem | Statement |
|---|---|
| `PagedKvProofs!Invariant` | `Spec => []IInv` |
| `TypeCorrect` | `Spec => []TypeOK` |
| `Isolation` | `Spec => []NoSharing` |
| `NoLeak` | `Spec => []OwnedIffAllocated` |
| `AllocatorConsistent` | `Spec => []FreeListExact` |
| `TablesExact` | `Spec => []TablesFit` |
| `FreeNeverRefuses` | `Spec => []NoFault` |
| `ImplementsStore` | `Spec => KeepsStoreContract`: the cache implements `KvStore` |
| `KeptEntries` | `Spec => KeptPositionsKeepEntries` |

The inductive invariant `IInv` is the conjunction of the six invariants. None of them is inductive
alone, and they lean on each other in a circle: `NoFault` needs `OwnedIffAllocated` (an id in a table is
allocated) and `NoSharing` (it is not freed twice by one call); `NoSharing` survives an allocation
because `FreeListExact` and `OwnedIffAllocated` put the new id in no table; `in_use` does not saturate
because `NoSharing` bounds the length of a table by the number of allocated blocks (lemma `PoolBound`, a
pigeonhole fact). `TablesFit` is arithmetic (`KeepBlocksIsCeiling`: the count of `truncate_tokens` is the
least number of blocks that holds the positions) and gives the refinement that the free count pays
exactly. `truncate_tokens` and `free_all` share the lemma `GiveBackIInv`: a suffix of a table, in any
order, goes back.

The refinement maps `kv[s]` to what attention would gather (`Logical`) and `free` to the length of the
free list. Each call changes one session's sequence because its blocks are in no other table
(`WriteTokenUpdates`); the free count follows from `ChargedBlocks`.

Of `Engine`, for every set of sessions and tokens, all prompts, every pool, policy and level, for both
prefills, with runners that fail at any step and with clients that ignore errors (`EngineAssumption`
types the constants, and asks that Nominal and Fair, where the engine starts, are among the levels and
policies and that no prompt is empty):

| Theorem | Statement |
|---|---|
| `EngineProofs!Invariant` | `Spec => []IInv` |
| `TypeCorrect` | `Spec => []TypeOK` |
| `RingSafe` | `Spec => []RingMatchesStates` |
| `HistoryHeld` | `Spec => []KvHoldsHistory` |
| `SnapshotsHold` | `Spec => []SnapshotIntact` |
| `PendingInOrder` | `DeliverySpec => []NothingLost` |
| `SuspendedSafe` | `Spec => SuspendedUntouched` |
| `BlocksAccounted` | `Spec => []KvAccounted` |
| `StoreContractKept` | `Spec => KeepsStoreContract`: the engine uses the cache by its contract alone |
| `Causality` | `Spec => []CausalAttention`, if `CarefulClient` and not `BatchPrefill` |

Its `IInv` has a part per session, `Good`: the cursor is the length of the history and no larger than the
number of entries; every entry below the cursor holds the token of the history at its place; the snapshot
is a prefix of the history; the buffer of decoded tokens is the end of the history followed by the last
token. With what `Delivery` records it is all of it since the answer began (`NothingLost`, which is
inductive above `IInv`). Around it stand `RingOK` (the ring has every Decoding session once, and beside
them only live Terminal ones, all with a last token) and `BurstOK` (what a burst under way has still to
decode is in the Decoding state and has a last token, although a `FairPickFails` may end it at any step).
The invariants checked by TLC are not inductive: the history clause needs that positions left behind by a
failed prompt lie beyond the cursor and are overwritten before the cursor passes them, and the snapshot
clause needs that `reset` and a hit go back to a prefix. A session's part changes only with the session
(`Good` takes the fields as arguments, so that the other sessions' parts are carried over as they are);
`RoomFacts` keeps the free count natural. Each action has a lemma of its own.

The accounting is on top of that. Every step changes the entries of one live session and pays for it, or
those of none (`KvSteps`, read off the actions one by one); the sum of the blocks over the live sessions
then changes as the free count does (`SumSplit` of `Induction` takes the session out of the sum), and a
session that is not live has no entries, so that creating one adds nothing and cancelling one gives
everything back. `StoreContractKept` follows: the same change is `KvStore`'s `Update`, whose charge is the
difference of two sums. With `ImplementsStore` this is the whole chain from `lib.rs` to the allocator.

`CausalAttention` is kept by its own invariant, `CausalOK`: an entry at position i was computed over
exactly i positions, and a table has at most one position beyond the cursor, the one a failed step leaves
and the next one uses, unless a submit has failed and left the session in Prefill. The two hypotheses
are the ones without which it is false: a batched prefill looks ahead (finding 1), and a client that
submits again after a failed prompt has its tokens attend to
what the failure left.

Of `GraphBases`, on top of `PagedKv`'s `IInv`, for every pool, every smallest stride and both kinds of
prefill (`GraphAssumption`):

| Theorem | Statement |
|---|---|
| `PagedKvProofs!OwnSlotsAttended` | `~Watermark => (GraphSpec => []AttendsOwnSlots)` |
| `GraphTypeCorrect` | `GraphSpec => []GraphTypeOK`, for all three graphs |

Its invariant `GraphInv` says what the fast path of `llama_graph.rs` and `gemma_graph.rs` tests only in
part. The buffer has the slots of the session it was last built for, as far as it was built, *unless the
session has been rewound below that length or given up since* (`BasesKept`). Such a session comes back
with a length other than `last_seq + 1`, or under another id, and is rebuilt from its table. The driver
is never more than one position behind a table (`Driven`), which is what makes the test on the length
exact. Qwen's test, a count of positions for all sessions, does not protect the buffer (section 7).

Of `LlamaPass`, for every number of layers and positions, every choice of backends that may be enabled,
paths that fail and are handed over in the middle of a layer, and calls that fail and are repeated
(`LlamaAssumption`):

| Theorem | Statement |
|---|---|
| `LlamaPassProofs!CacheExact` | `ExactFormats /\ OneTokenLoops => (Spec => []CacheIsTheModels)` |
| `AnswerExact` | `ExactFormats /\ OneTokenLoops => (Spec => []AnswerIsTheModels)` |

The hypotheses leave out the combinations that fail, the rows under `LlamaPass` in section 7.
`ExactFormats` leaves out the weights that a path reads in another format than they are stored in, and a
graph that runs more layers than the others. `OneTokenLoops` leaves out the fallback that handles several
tokens one by one after all have been appended. The three instances of the run `models` satisfy both. The
invariant `LInv` says at each point of the loop what the buffers hold: the model's normalised vector
before the projections, its query, key and value behind them, its residual behind the attention
(`LoopState`); every finished position of every layer has the model's K/V (`Finished`), and the one
position that a failed call may have left appended lies at the cursor and is written again (`Counted`).
A path may therefore stop anywhere and the next one start from the layer's input. The model is a
recursive function; what the proof needs of it is its value one layer up (`HiddenFacts`), which is proved
by the least layer at which it would fail.

The other three runners are proved in the same way. Each theorem has the hypotheses without which it is
false: each leaves out rows of its module in section 7, and the instances of the run `models` satisfy
them. A specification has a type invariant of its own (`QwenTyped`, `LfmTyped`, `GemmaTyped`), which
needs none of them, and on top of it what is held (`QwenHeld`, `LfmHeld`, `GemmaHeld`). That the mark for
"no call" is no call (`IdleIsNoQwenCall` and its like) is asked of the constant `Idle` throughout.

Of `QwenPass`, for every number and arrangement of layers with full and linear attention
(`QwenAssumption`):

| Theorem | Statement |
|---|---|
| `HybridPassProofs!QwenTypeCorrect` | `Spec => []TypeOK` |
| `FaultsStayApart` | `Spec => []FaultsStayInTheirSession`, with kernels that fail |
| `QwenCacheExact` | `Spec => []CacheIsTheModels`, without faults |
| `RecurrentExact` | `Spec => []StateIsThePast`, without faults |
| `QwenAnswerExact` | `Spec => []AnswerIsTheModels`, without faults, where the head is tied |

`GraphOfOne`: where the graph is taken, one session runs that is neither rewound nor cancelled (its rows are
filled in once for all sessions and keep the slots they were filled with), and no weight is i4 (i4 goes to
the f16 kernel); so of the graph the theorems say what `qwen_graph` checks, for every number of layers and
positions, and of several sessions only what the loop does. `LoopRotates`: the loop runs no Qwen2, and no
partial rotation on Metal. `LoopPrefills`: prompts go in one token at a time, or the loop prefills only a
Qwen3.5 whose full attention is in the last layer, where looking ahead changes nothing that is kept
(finding 1). `StatesGoOn`: a model with recurrent states is not rewound; its sessions may be cancelled, which
removes the states. `HeadIsTied`: where the graph is taken the model has no head of its own, since it takes
the embedding. `QwenHeld` is relative to `Healthy(s)`, a session in which no step failed: a fault leaves a
recurrent state advanced, and the invariant says that it stays in its session, which is what
`FaultsStayApart` states.

Of `LfmPass`, for every width of the convolution window:

| Theorem | Statement |
|---|---|
| `HybridPassProofs!LfmTypeCorrect` | `Lfm!Spec => []Lfm!TypeOK` |
| `LfmCacheExact` | `Lfm!Spec => []Lfm!CacheIsTheModels` |
| `WindowExact` | `Lfm!Spec => []Lfm!WindowIsThePast`: a window holds the last products, oldest first |
| `LfmAnswerExact` | `Lfm!Spec => []Lfm!AnswerIsTheModels` |

`OwnWindows`: if a layer convolves, and in an LFM some do, nothing fails, nothing is reset and one session
runs, because the windows belong to the runner; with a second session, a reset or a retry the answer goes
wrong (section 7), so of an LFM the theorems speak of one session that only goes on. `RetryByToken`: a step
that may be repeated is of one token. A model of attention layers alone, which is no LFM, needs no
`OwnWindows`.

Of `LruWeights`, for every number of layers, every list of matrices per layer, every capacity and any number
of passes, complete or not (`LruAssumption`: a layer's names differ from each other):

| Theorem | Statement |
|---|---|
| `HybridPassProofs!LruTypeCorrect` | `Lru!Spec => []Lru!ListIsTheMap` |
| `LruOrder` | `Lru!Spec => []Lru!OrderIsByUse`, on the CPU |
| `UnwrapSafe` | `Lru!Spec => []Lru!UnwrapFinds`, if `RoomForALayer` |

`RoomForALayer`: the matrices of any one layer are at most `MAX_CACHE_ENTRIES` (in the code seven against
128). On Metal the list is not in the order of use (section 7), so that the oldest key may well have been
used a moment ago, and the obvious argument for `UnwrapFinds` fails. What holds instead is said of the
places of a pass: which of them are held, and which keys stand before which (`Shape`, nine conjuncts). A
gap means that keys have been evicted (`MissingIsEvicted`); what is left of a former pass is older than the
projections of this one (`ComingIsOlder`); a feed-forward key can stand before its time only across a gap
(`GapWhereTurned`). From these the key in front of a full list is none that the layer at
hand has been at (`LayeredReplaced`): if it were, and everything held were of this layer too, there would
be room; and if a key of another layer is held, it can only be a projection that a feed-forward key of
this layer stands before, and while that is so a matrix of the first feed-forward block is held
(`FirstBlockIsHeld`), which is older than both.

Of `GemmaPass`, for every window, pattern, and number of layers that share K/V (`GemmaAssumption`):

| Theorem | Statement |
|---|---|
| `GemmaProofs!GemmaTypeCorrect` | `G!Spec => []G!TypeOK` |
| `GemmaCacheExact` | `G!Spec => []G!CacheIsTheModels` |
| `GemmaAnswerExact` | `G!Spec => []G!AnswerIsTheModels`, if also `CapsOnce` |

`BatchOfOne`: where the batched command buffer is taken one session runs (its K/V buffers are one per
layer). `CapsNoScore`: a Gemma 4 in i4 is not run by the batch, nor on Metal by the loop, which caps the
attention scores; it may be run by a graph that does not fail. `GraphKnowsLayers`: where the graph is taken
for a Gemma 4, it has no per-layer input and no scales (they share one buffer), and every layer that
shares K/V has an earlier one of its kind. `CapsOnce`: the graph is not taken for Gemma 4, whose logits it
caps twice. The invariant says of the store what each session has passed (`Passed`: all layers of its
finished positions, the layers behind it of the one under way); of the buffers of the batch that they
have the finished positions, for a session whose steps all go through the batch or fail; and of a step
under way that its vector is the model's at its layer. A step that fails leaves its position in the table
and takes it back from what the session was fed (`GemmaCounted`), so the next step writes the same slot.
That a layer which shares K/V reads from one that keeps its own (`SourceFacts`) needs the maximum of a
set of layers, from the least counterexample again.

Of `Callers`, for every number of threads, sessions, calls and blocks (`CallersAssumption`: finitely many
threads, typed constants, and a mark for "no call" that is no call):

| Theorem | Statement |
|---|---|
| `CallersProofs!SessionsKept` | `Spec => []SessionsAreTheClients` |
| `MutexIsReturned` | `Interface = "c" => (Spec => []HeldByACall)`: who holds the mutex is in a call, past the door |

`CInv` is about the sessions that *exist*, in the maps or in the hand of a decode: they are the clients'
(without panics), the ring names no others, and the pool's count is the sum of their tables. Since the
mutex lets one thread inside at a time (`Exclusive`), at most one session is in hand, and taking it out
and putting it back changes nothing that exists. A panic takes it out of the sum and not out of the
count, hence `>=`. `Room` is about the bound on ids only: each call that is to create a session has one
kept for it.

Of `AndroidChat`, for every capacity, every length of a message and every number of messages
(`AndroidAssumption`: typed constants, and a mark for "no job" that is no job):

| Theorem | Statement |
|---|---|
| `CallersProofs!PhoneTypeCorrect` | `Phone!Spec => []Phone!TypeOK` |
| `PhoneChatIsWhole` | `Phone!Spec => []Phone!ChatIsWhole`, if `MaxResets = 0` and `~Quick` |

The job reads the list, filters the answer under way out of it and writes it back one step later. That the
list it read is still the list (`PhoneNumbers`) is what makes this safe, and it holds because the screen
takes no message before a job has published its end, and then only from a user who leaves the job the
moment to count its message (`~Quick`: without it a number is used twice, section 7); a reset in between
breaks it too. `PhoneTypeCorrect` needs neither hypothesis. The answer under
way is found by its number: no other message has it, and no other answer is of the same turn. What a
filter leaves is the list through an increasing map of places (`KeptIs`), so order and completeness carry
over.

Of `ConcurrentChat`, for any set of chats and every limit and number of messages, engines and loops
(`ChatAssumption`: typed constants):

| Theorem | Statement |
|---|---|
| `CallersProofs!ChatTypeCorrect` | `Chat!Spec => []Chat!TypeOK` |
| `ChatTextIsOwn` | `Chat!Spec => []Chat!TextIsOwn`, if `Reloads = {}` |
| `ChatNoOrphanSession` | `Chat!Spec => []Chat!NoOrphanSession /\ []Chat!ThreadsShareEngine`, if `Patient` and `Reloads \subseteq {1}` |
| `ChatEngineIsTheChats` | `Chat!Spec => []Chat!EngineIsTheChats`, whatever is chosen while engines are built |
| `ChatAnswersInOrder` | `Chat!Spec => []Chat!TextInOrder /\ []Chat!AnswerWithinLimit`, if `Reloads = {}` and there is one chat |

`Reloads = {}`: the engine of the start is the only one. `Reloads \subseteq {1}` and `Patient`: a choice,
and the view's appearance, builds one engine, and the user waits for it. The view enforces neither: the
picker's handler and its `onChange` build one each (`ConcurrentChatView.swift:75`, `:103`), a preset's two
assignments do (`:480`), and the menu stays enabled meanwhile. What is left in those cases is
`EngineIsTheChats`, which `ChatEngineIsTheChats` proves without hypotheses: the engine that is in use
keeps no session of a chat that is gone; an engine that was replaced may (section 7). One chat: with two,
`AnswerWithinLimit` fails (section 7). `TextInv` rests on tasks that know the session of their chat
(`SendsKnow`): an identity is never used again, so a chat found by it after a wait is the chat that was
meant. `OrphanInv` says whose the living sessions are (`LiveAreShown`). `AnswerInv` orders the two writers
of an answer: the first token is shown before there is a loop (`FirstToken`), there is one loop, and the
token it has in hand is the one after all that are shown (`Numbers`). Most steps are *quiet* (`Quietly`):
they show nothing and decode nothing, which is proved once to keep all of it. The bounds `MaxSends`,
`MaxBuilds` and `MaxLoops` are any numbers; of `MaxSaid`, from which on a token's number stands for every
later one, the theorem says so: two tokens beyond it count as in order (`TextInOrder`), so the order is
that of the first `MaxSaid` tokens, for every `MaxSaid`.

Of `TiledMatmul`, for every size of the tile and of the factors and every order of the lanes:

| Theorem | Statement |
|---|---|
| `TiledMatmulProofs!ProductExact` | `Spec => []ExactProduct` |
| `TileWhole` | `Spec => []WholeTile` |
| `BarriersOpen` | until all lanes are done, one is not at a barrier or its barrier is open |

The invariant's heart is `InStep`, what the two barriers of a round give: a lane is at most one round
ahead, of lanes that have added, and has not added itself; no lane adds while another still has to load.
So what a lane multiplies was brought in its own round (`Brought`), and it has added the pairs up to the
end of it, each once (`Added`).

`GemmaProofs!GemmaWithinBudget` (`Spec => []WithinBudget`) proves for every size of image and every
budget that the resize for Gemma gives at most as many rows as the budget has: the factor is a root
rounded down, both sides are rounded down to whole patches, and the product of the two is bounded by the
product under the root.

Of `VlmDecode`, for every prompt and number of features, layers and tokens, either runner and any lengths
of the loops that end generation (`VlmDecodeAssumption`: finitely many prompts and numbers of features, so
that the cache has a size):

| Theorem | Statement |
|---|---|
| `GemmaProofs!DecodeTypeCorrect` | `D!Spec => []D!TypeOK` |
| `PrefillExact` | `D!Spec => []D!PrefillIsTheModels` |
| `TokensExact` | `D!Spec => []D!TokensAreSampled` |
| `FeaturesStand` | `D!Spec => []D!FeaturesMatch` |
| `GenerationStops` | `D!Spec => []D!StopsInTime` |

The limits are in the properties. `PrefillIsTheModels` claims a position in the layers below `Depth`: in all
of them under Llama, Gemma's plain scan, features that go first, and for the text before an image. Under
the two-sided prefill the replay makes one more layer right than the first pass and runs the placeholders
only: it reaches two layers, from an unbroken image on, and the text behind the image three, whatever the
depth of the model; of a broken run of placeholders nothing is claimed. `TokensAreSampled` holds where
that is enough (`InReach`: two layers, an unbroken image or none, a prompt that ends in text); a real
Gemma 4 has more layers, and of its tokens behind an image neither theorem says anything, since they are
not the model's (section 7). Of Gemma's other prefills it says that the first token is zero and stems from
nothing, and that the others are sampled in their order. A step is a recursion
over the layers and a batch one over positions: `Recursion` constructs both, and `Layered` and `Batched`
say what they are. `Counts` ties the scan's place, the position, the page table and the features used to
each other in every phase; `Values` says how far the cache is the model's, layer by layer while the image
is run (`ImageValues`); `SampledFrom` what the token at hand was sampled from; `Turns` that nothing before
the last token said stop.

## 6. What is only model-checked

- *Liveness* (`NoStarvation`, `BufferDrains`, `EverythingEnds`): TLAPS has no proof rules for fairness
  here. `NoCircle`, the absence of a circle of mutexes in `MetalOps`, is stated with ENABLED, which the
  provers do not have either.
- *`VisionTower` and `AudioTower`*. Recursion is no obstacle in itself: the installed provers
  cannot instantiate the library's induction theorems, whose parameter is an operator, but the least
  counterexample (`LeastNatural`, `Climb` and `LeastSet` of `Induction`) does the same for one definition
  at a time, as the proofs of the four runners do for a model, `Induction` for sums and `Recursion` for
  the layers of `VlmDecode`; the towers would be next.
- *The runners under the constants that the hypotheses of section 5 leave out*: there the properties
  fail, and section 7 names the runs of the code for which they do.
- *`MetalOps`* (`OwnResult`) and *`GpuGrid`*: a program per operation and a kernel per shape, whose proofs
  would be evaluations of each; *`Threadgroup`*: the tree of additions.
- *`CellmLayout`, `WeightPlan` and `TokenizerFiles`*, and of `VlmPrompt` all but
  `WithinBudget`: not proved yet, or, for tables of names and formats, nothing but cases.
- *The chat clients under the constants that section 5 leaves out*: resets on Android (where the run
  checks that an answer ends), and on iOS the order of the answers of several chats.
- *With the JNI interface*, which has no mutex, `SessionsAreTheClients` says nothing; what happens there is
  in section 7.

Terms decide equality of the operations applied, not of numbers: two paths that differ in rounding only
are equal here, and two that would happen to give the same number by different operations are not.

## 7. Findings

Four disagreements between the code and what its documents say of it are runs of their own:

1. **Qwen's prefill looks ahead** (`qwen.rs:424`). All positions of the prompt are appended before the
   first is processed, and each step attends to the whole table, so a prompt token attends to later
   positions that are not written yet.
2. **Fair can starve a session** (`lib.rs:819`). The scan for buffered tokens turns the ring
   `sessions.len()` places, not the ring's length. With one live session outside the ring and one decode
   per burst, the same session is picked for ever. When every live session is in the ring a vain scan is
   a full turn, and `decode_loop` shows that no session starves.
3. **LatencyFirst never decodes** (`lib.rs:866`). Nothing calls `PolicyExecutor::add`, so the plan is
   always empty.
4. **The stop token is not delivered** (`lib.rs:827`). The session is Terminal by the time its last
   tokens are looked for, and delivery skips Terminal sessions.

### Divergences under other constants

The passing runs instantiate the modules where the code keeps its promise. Each row below names the
constants under which the same module and property fail, and the line that makes them.

| Module | Property | Constants | Line | What happens |
|---|---|---|---|---|
| `GraphBases` | `AttendsOwnSlots` | `Watermark`, three blocks | `qwen.rs:1537` | only positions from the watermark on are filled in, whichever session runs: a second session reads the first one's slots |
| `LlamaPass` | `CacheIsTheModels` | graph and faults | `llama.rs:630` | the per-token fallback of a batched prefill attends to slots the batch has not written |
| `LlamaPass` | `AnswerIsTheModels` | graph, i4 weights | `llama.rs:209` | columns are counted in bytes, so half of every matrix is missing |
| `LlamaPass` | `AnswerIsTheModels` | graph, f32 weights | `llama.rs:237` | f32 bytes are uploaded and read by the f16 kernels |
| `LlamaPass` | `AnswerIsTheModels` | graph, `max_layers` | `llama_graph.rs:462` | the graph runs all layers, the other paths the first `max_layers` |
| `LlamaPass` | `CacheIsTheModels` | WebGPU, f16 norms | `llama.rs:433` | the batch reads the norm weights as f32 |
| `GemmaPass` | `AnswerIsTheModels` | two sessions, batched path | `gemma.rs:719` | its K/V buffers are one per layer for all sessions |
| `GemmaPass` | `CacheIsTheModels` | dense Gemma 4, batched path | `gemma.rs:480` | a Gemma 4 without shared K/V is taken and run without V norm, per-layer rope and scale |
| `GemmaPass` | `CacheIsTheModels` | graph, layer scales | `gemma_graph.rs:457` | one scale buffer is overwritten for every layer while the commands are encoded, and read after the commit |
| `GemmaPass` | `AnswerIsTheModels` | graph, logit cap | `gemma_graph.rs:846` | the logits are capped twice |
| `GemmaPass` | `AnswerIsTheModels` | Metal attention, logit cap | `gemma.rs:2643` | the cap of the final logits is applied to attention scores |
| `QwenPass` | `AnswerIsTheModels` | graph, a session cancelled or rewound, or a second one | `qwen.rs:1537` | rows below the count are not filled in again: they keep the slots of the table that filled them |
| `QwenPass` | `CacheIsTheModels` | Qwen2, CPU | `qwen.rs:1974` | adjacent pairs are rotated for every model |
| `QwenPass` | `CacheIsTheModels` | partial rotation, Metal loop | `qwen.rs:616` | the whole head is rotated |
| `QwenPass` | `AnswerIsTheModels` | graph, untied i8 head | `qwen.rs:1573` | the head's type is asked for under a name that is not resolved |
| `QwenPass` | `CacheIsTheModels` | graph, i4 weights | `qwen.rs:1773` | every type but one-bit and i8 goes to the f16 kernel |
| `QwenPass` | `AnswerIsTheModels` | Qwen3.5, a failed step repeated | `qwen.rs:1086` | the recurrent state has advanced and is not put back |
| `QwenPass` | `AnswerIsTheModels` | Qwen3.5, reset | `cellm-sdk lib.rs:613` | reset rewinds the page table and not the recurrent state |
| `LfmPass` | `AnswerIsTheModels` | two sessions | `lfm.rs:1184` | the convolution windows belong to the runner |
| `LfmPass` | `AnswerIsTheModels` | reset, or a new session | `lfm.rs:891` | nothing clears the windows |
| `LfmPass` | `AnswerIsTheModels` | a failed step repeated | `lfm.rs:1193` | a window is shifted before what may fail |
| `LruWeights` | `OrderIsByUse` | Metal | `lfm.rs:1457` | a hit does not move the key |
| `Callers` | `KnownSessions` | C, panics | `cellm-sdk lib.rs:932` | a panic in a decode drops the session that was taken out of the maps, with its blocks |
| `Callers` | `MessageIsMine` | two threads | `ffi.rs:21` | the last error is one cell, documented as thread-local |
| `Callers` | `KnownSessions` | JNI, two threads | `jni.rs:407` | no mutex: a cancel in the middle of a decode is lost |
| `Callers` | `TokenIsNamed` | JNI | `jni.rs:388` | `nativeStepDecode` ignores its output arrays |
| `TokenizerFiles` | `TokenizerIsTheFiles` | two threads | `ffi.rs:551` | one temporary file per process |
| `VlmDecode` | `TokensAreSampled`, without `InReach` | two-sided prefill, three layers | `vlm.rs:1080` | the replay of the image reads, above the second layer, what the first pass left: the cache is right to `Depth` only |
| `VlmDecode` | none: stated in `TokensAreSampled` | Gemma, not two-sided | `vlm.rs:1297` | generation starts from token 0, which is sampled from nothing |
| `VlmPrompt` | none: stated in `TagsTellTheTile` | an image not six tiles wide | `vlm.rs:4189`, `vlm-onnx-infer main.rs:501` | tags are counted six to a row in the SDK and in the tool: behind the first row they name another tile |
| `VlmPrompt` | none: stated in `RefusedForAReason` | Gemma 4, a configured length | `vlm.rs:299` | the rows must equal the length, and are usually fewer: the image is refused |
| `VisionTower` | `VectorsAreTheModels` | Metal, padded rows | `vlm.rs:4053` | a fully masked row is not a number, and spreads |
| `VisionTower` | `Encoded` | BLAS, a short score buffer | `vlm.rs:3824` | the buffer holds one row, the branch writes a square per head |
| `AudioTower` | `WholeRecording` | a chunk of odd length | `vlm.rs:2422` | the pad byte is not skipped |
| `AudioTower` | `DistanceDirect` | long contexts | `vlm.rs:2987` | distances beyond the table share its last entry |
| `Threadgroup` | `ExactResult` | part of fused attention, two lanes | `metal.rs:1098` | no barrier between the last read of the maximum and the first write of the sums |
| `ConcurrentChat` | `NoOrphanSession`, `ThreadsShareEngine` | two builds per choice, or no `Patient` | `ConcurrentChatView.swift:75` | the engine is built twice and chats keep sessions of the first |
| `ConcurrentChat` | `TurnsAccepted` | two messages | `ConcurrentChatView.swift:326` | the second prompt is refused: the session is not back in a state that takes one |
| `ConcurrentChat` | `AnswerWithinLimit` | two chats | `ConcurrentChatView.swift:336` | the count is set to 1 after the loop has counted; a chat whose session met the stop token never ends |
| `ConcurrentChat` | `AnswerEnds` | `Fills` | `ConcurrentChatView.swift:388` | a step that fails sets the error of the view only; with a full cache every step fails, the chats go on generating and no answer ends |
| `AndroidChat` | `ChatIsWhole` | `Quick` | `ChatViewModel.kt:142` | the end is published before the counter moves on: a message sent in between gives an id away twice, and an answer is shown twice or a message lost |
| `AndroidChat` | `EveryMessageAnswered` | two messages | `ChatViewModel.kt:110` | the refusal of the second prompt is not looked at |
| `AndroidChat` | `AnswerFromFirst` | any | `ChatViewModel.kt:110` | the first token is dropped |
| `AndroidChat` | `ResetClearsContext` | reset | `ChatViewModel.kt:161` | reset goes back to the end of the last prompt, not to the beginning |
| `CellmLayout` | `LengthStabilizes` | sizes near a power of ten | `convert main.rs:471` | three rounds, whether or not the length is stable |
| `CellmLayout` | `WriterReachesOffsets` | thousands of small tensors | `convert main.rs:471` | the writer then stops at its first tensor |
| `WeightPlan` | `FileRuns` | fp8 | `convert main.rs:3497` | no reader of Gemma has the format |
| `WeightPlan` | `FileRuns` | one bit, Gemma | `convert main.rs:3474` | as above |
| `WeightPlan` | `TextOnlyKeepsText` | text only | `convert main.rs:3331` | the prefix `model.` is unknown: nearly all tensors are dropped |
| `WeightPlan` | `PackedLfmConverted` | packed LFM | `convert main.rs:334` | the exception lets the model in, the plan refuses its weights |
| `WeightPlan` | `OneModePerFile` | one bit and i4 | `convert main.rs:357` | the check of the options leaves one bit out |
| `WeightPlan` | `QuantizedWhenAsked` | LFM, i8 | `convert main.rs:347` | accepted, and nothing is quantized |
| `WeightPlan` | `VisionStaysFull` | SmolVLM, i8 | `convert main.rs:3350` | the rule for names matches the image tower too |

Seen while reading, and in no module: `gemma.rs` finds the layer of a fused i4 MLP by `nth(3)` of the
tensor's name, on a path nothing reaches; the result of `gpu_project_qkv_norm_rope` is discarded;
`describe_image` of the WebAssembly interface takes the GPU out of its cell and does not put it back on
an error, and `generate` drops the token that submit sampled; the reader of model files converts 64-bit
lengths `as usize`; the header's length is not compared with what 32 bits hold; the writer for GGUF input
(`main.rs:1406`) has the loop of `main.rs:471`; LFM's fused graph (`lfm.rs:66-742`) is built and dropped.

## 8. What is not modelled, and the plan

Not modelled: the WebAssembly kernels' SIMD and Vulkan (`wasm.rs`, `vulkan.rs`) and the numerics of the CPU
kernels, which the models take as the reference; samplers; K/V encodings (TurboQuant among them) and the
address arithmetic of `KvCacheLayout`; `deepseek_v4.rs`, `granite.rs` and `batched.rs`, which no engine
calls; GGUF import; the ONNX tool but for its prompt; arena, tensors and the backend traits of `cellm-core`,
which the engine does not use; the single chats of the iOS demo (`ChatView.swift`, `LLMView.swift`); thin
wrappers, benchmarks and research. `PROJECT.json` gives the reason per component.

Next, in this order:

1. **More proofs**: `Threadgroup` (the tree for any power of two), and `VlmPrompt`'s refusals and
   placeholders, which need facts about flattened sequences.
2. **PolicyExecutor**: `decode_order` with `add`, `remove` and `tick` under the three policies, and
   `split_by_max_batch`, against the order their documentation gives, as the engine would use them if it
   called `add`.
3. **KvCacheLayout**: distinct block, layer and offset have disjoint ranges, proved.
4. **A cached engine**: submit, decode, reset and cancel of `Engine` on `PagedKv` instead of `KvStore`.
   The theorems on both sides of `KvStore` (`ImplementsStore`, `StoreContractKept`) compose by reading
   today; this would compose them in TLC.
