------------------------------ MODULE MetalOps ------------------------------
(***************************************************************************)
(* MetalOps (metal.rs): the operations of the Metal backend over the       *)
(* buffers it keeps between calls: a cache of weights by key, named        *)
(* buffers that only grow, two scratch buffers, each behind its mutex.     *)
(*                                                                         *)
(* An operation is a program of steps, one for each time it takes a mutex  *)
(* or commits a command buffer.  Values are terms: a kernel applied to its *)
(* inputs and its weight.  A buffer holds the value last written and its   *)
(* length, for a longer buffer keeps a tail that is not part of it.        *)
(***************************************************************************)
EXTENDS Integers, Sequences, SequencesExt

CONSTANTS
  Threads,   \* threads that call
  Ops,       \* operations they call
  Layers,    \* layers 1 .. Layers, each larger than the one before
  MaxCalls,  \* calls of a thread
  None

VARIABLES
  cache,   \* tensor_cache: key -> weight
  heap,    \* buffer -> [cap, n, val]
  slot,    \* x_buf, out_buf, named_bufs: name -> buffer
  lock,    \* mutex -> the thread that holds it, or None
  thread,  \* what each thread is at
  results  \* calls that have returned: {[call, got]}

vars == <<cache, heap, slot, lock, thread, results>>

Mutexes == {"cache", "named", "x", "out"}

(* The state of a convolution is kept in the cache of the weights.         *)
ConvState(l) == "lfm.state." \o ToString(l)

Guard(s) ==
  IF s \in {"x", "out"} THEN s
  ELSE IF s \in {ConvState(l) : l \in 1 .. Layers} THEN "cache" ELSE "named"

----------------------------------------------------------------------------
(* Sizes and weights.                                                      *)

Hidden == 1
Wide(l) == 1 + l      \* q_dim, kv_dim and ffn_dim of a layer
Weight(role, l) == <<role, l>>

(* Every key ends with the name of the tensor, which names the layer.      *)
Key(role, l) == <<role, l>>

Apply(f, ins, w) == <<f, ins, w>>

----------------------------------------------------------------------------
(* Steps.                                                                  *)

Need(roles) == [do |-> "need", roles |-> roles]       \* insert what is absent
Bind(roles) == [do |-> "bind", roles |-> roles]       \* clone what is there
Look(role) == [do |-> "look", roles |-> {role}]       \* contains_key, alone
Insert(role) == [do |-> "insert", roles |-> {role}]   \* if it was not
Lock(m) == [do |-> "lock", at |-> m]
Ensure(s, n) == [do |-> "ensure", at |-> s, n |-> n]
Write(s, n, v) == [do |-> "write", at |-> s, n |-> n, val |-> v]  \* write_named_buf
Read(s, n) == [do |-> "read", at |-> s, n |-> n]                  \* read_named_buf
Handle(s) == [do |-> "handle", at |-> s]                          \* get_named_buf
Fill(s, n, v) == [do |-> "fill", at |-> s, n |-> n, val |-> v]    \* write_f32
Take(s, n) == [do |-> "take", at |-> s, n |-> n]                  \* read_f32
Run(es) == [do |-> "run", es |-> es]
Release == [do |-> "release"]

(* One kernel of a command buffer: out[0..n] from inputs of given lengths. *)
Enc(f, out, n, ins, role) == [f |-> f, out |-> out, n |-> n, ins |-> ins, role |-> role]

Ensures(ss) == [i \in 1 .. Len(ss) |-> Ensure(ss[i][1], ss[i][2])]
Handles(ss) == [i \in 1 .. Len(ss) |-> Handle(ss[i][1])]

----------------------------------------------------------------------------
(* Programs.  x is the input of the call, l its layer.                     *)

(* The scratch buffers, held from the write of the input to the read of    *)
(* the result.                                                             *)
Scratch(n, x, m, f, role) ==
  << Ensure("x", n), Ensure("out", m), Lock("x"), Lock("out"), Fill("x", n, x),
     Run(<<Enc(f, "out", m, <<<<"x", n>>>>, role)>>), Take("out", m), Release >>

(* Mutant: the scratch buffers are locked first.                           *)
RmsNormLate(l, x) ==
  << Ensure("x", Hidden), Ensure("out", Hidden), Lock("x"), Lock("out"),
     Need({"rmsnorm.w"}), Bind({"rmsnorm.w"}), Fill("x", Hidden, x),
     Run(<<Enc("rms", "out", Hidden, <<<<"x", Hidden>>>>, "rmsnorm.w")>>),
     Take("out", Hidden), Release >>

(* Mutant: the scratch buffers are let go before the kernel runs.          *)
RmsNormUnheld(l, x) ==
  << Need({"rmsnorm.w"}), Bind({"rmsnorm.w"}), Ensure("x", Hidden), Ensure("out", Hidden),
     Lock("x"), Lock("out"), Fill("x", Hidden, x), Release,
     Run(<<Enc("rms", "out", Hidden, <<<<"x", Hidden>>>>, "rmsnorm.w")>>), Take("out", Hidden) >>

RmsNorm(l, x) ==
  <<Need({"rmsnorm.w"}), Bind({"rmsnorm.w"})>> \o Scratch(Hidden, x, Hidden, "rms", "rmsnorm.w")

Rope(l, x) ==
  << Ensure("x", Wide(l)), Lock("x"), Fill("x", Wide(l), x),
     Run(<<Enc("rope", "x", Wide(l), <<<<"x", Wide(l)>>>>, None)>>), Take("x", Wide(l)), Release >>

(* The state of the layer is uploaded before and copied back after.        *)
Conv(l, x) ==
  << Need({"lfm.k"}), Bind({"lfm.k"}), Ensure(ConvState(l), Wide(l)),
     Handle(ConvState(l)), Fill(ConvState(l), Wide(l), <<"state", x>>),
     Ensure("x", Hidden), Ensure("out", Hidden), Lock("x"), Lock("out"), Fill("x", Hidden, x),
     Run(<<Enc("shift", ConvState(l), Wide(l), <<<<ConvState(l), Wide(l)>>, <<"x", Hidden>>>>, None),
           Enc("taps", "out", Hidden, <<<<ConvState(l), Wide(l)>>>>, "lfm.k")>>),
     Take(ConvState(l), Wide(l)), Take("out", Hidden), Release >>

(* The cache stays locked to the end; the first look is a lock of its own. *)
LogitsOne(l, x, role) ==
  <<Look(role), Insert(role), Lock("cache"), Bind({role})>> \o
  Scratch(Hidden, x, Wide(l), "mv", role)

(* The scales are inserted only with the weights.                          *)
LogitsI8(l, x) ==
  <<Look("logits.w"), Insert("logits.w"), Insert("logits.s"), Lock("cache"),
    Bind({"logits.w", "logits.s"})>> \o Scratch(Hidden, x, Wide(l), "mv", "logits.w")

LogitsI4(l, x) ==
  <<Look("logits.w"), Insert("logits.w"), Look("logits.s"), Insert("logits.s"), Lock("cache"),
    Bind({"logits.w", "logits.s"})>> \o Scratch(Hidden, x, Wide(l), "mv", "logits.w")

(* Several products of one input, each into a buffer of its own.           *)
BatchMv(l, x) ==
  << Need({"logits.w0"}), Bind({"logits.w0"}), Need({"logits.w1"}), Bind({"logits.w1"}),
     Ensure("x", Hidden), Ensure("batch0", Wide(l)), Ensure("batch1", Hidden),
     Lock("x"), Fill("x", Hidden, x), Release, Handle("batch0"), Handle("batch1"), Lock("x"),
     Run(<<Enc("mv", "batch0", Wide(l), <<<<"x", Hidden>>>>, "logits.w0"),
           Enc("mv", "batch1", Hidden, <<<<"x", Hidden>>>>, "logits.w1")>>),
     Release, Read("batch0", Wide(l)), Read("batch1", Hidden) >>

(* Attention over keys and values gathered by the caller, then o_proj.     *)
AttendRun(q, k, v, l, len, attn, proj) ==
  Run(<<Enc("attend", attn, Wide(l),
            <<<<q, Wide(l)>>, <<k, len * Wide(l)>>, <<v, len * Wide(l)>>>>, None),
        Enc("mv", proj, Hidden, <<<<attn, Wide(l)>>>>, "attn.o_proj")>>)

Attention(l, x, len) ==
  LET bufs == <<<<"attn_q", Wide(l)>>, <<"attn_k", len * Wide(l)>>, <<"attn_v", len * Wide(l)>>,
                <<"attn_out", Wide(l)>>, <<"attn_proj_out", Hidden>>>>
  IN  <<Need({"attn.o_proj"})>> \o Ensures(bufs) \o
      << Write("attn_q", Wide(l), x), Write("attn_k", len * Wide(l), <<"keys", x>>),
         Write("attn_v", len * Wide(l), <<"values", x>>), Bind({"attn.o_proj"}) >> \o
      Handles(bufs) \o
      << AttendRun("attn_q", "attn_k", "attn_v", l, len, "attn_out", "attn_proj_out"),
         Read("attn_proj_out", Hidden) >>

(* The query stays in "attn_block_q"; keys and values go to the caller.    *)
Project(l, x) ==
  LET bufs == <<<<"attn_block_x", Hidden>>, <<"attn_block_q", Wide(l)>>,
                <<"attn_block_k", Wide(l)>>, <<"attn_block_v", Wide(l)>>>>
      from(b, role) == Enc("mv", b, Wide(l), <<<<"attn_block_x", Hidden>>>>, role)
      inPlace(f, b, role) == Enc(f, b, Wide(l), <<<<b, Wide(l)>>>>, role)
  IN  << Need({"attn.q", "attn.k", "attn.v"}), Need({"attn.q_norm"}), Need({"attn.k_norm"}) >> \o
      Ensures(bufs) \o
      << Write("attn_block_x", Hidden, x),
         Bind({"attn.q", "attn.k", "attn.v", "attn.q_norm", "attn.k_norm"}) >> \o
      Handles(bufs) \o
      << Run(<<from("attn_block_q", "attn.q"), from("attn_block_k", "attn.k"),
               from("attn_block_v", "attn.v"), inPlace("rms", "attn_block_q", "attn.q_norm"),
               inPlace("rms", "attn_block_k", "attn.k_norm"),
               inPlace("rope", "attn_block_q", None), inPlace("rope", "attn_block_k", None)>>),
         Read("attn_block_k", Wide(l)), Read("attn_block_v", Wide(l)) >>

Preloaded(l, x, len) ==
  LET bufs == <<<<"attn_k_preload", len * Wide(l)>>, <<"attn_v_preload", len * Wide(l)>>,
                <<"attn_out_preload", Wide(l)>>, <<"attn_proj_out_preload", Hidden>>>>
  IN  <<Handle("attn_block_q")>> \o Ensures(bufs) \o
      << Write("attn_k_preload", len * Wide(l), <<"keys", x>>),
         Write("attn_v_preload", len * Wide(l), <<"values", x>>) >> \o
      Handles(bufs) \o
      << Need({"attn.o_proj"}), Bind({"attn.o_proj"}),
         AttendRun("attn_block_q", "attn_k_preload", "attn_v_preload", l, len,
                   "attn_out_preload", "attn_proj_out_preload"),
         Read("attn_proj_out_preload", Hidden) >>

(* The keys and values of the layer are buffers the caller holds.          *)
Persistent(l, x, len) ==
  << Ensure("attn_q", Wide(l)), Write("attn_q", Wide(l), x), Handle("attn_q"),
     Ensure("attn_out_persistent", Wide(l)), Handle("attn_out_persistent"),
     Need({"o_proj_w"}), Bind({"o_proj_w"}), Ensure("attn_proj_out_persistent", Hidden),
     Ensure("attn_proj_out_persistent", 1), Handle("attn_proj_out_persistent"),
     Run(<<Enc("attend", "attn_out_persistent", Wide(l), <<<<"attn_q", Wide(l)>>>>, None),
           Enc("mv", "attn_proj_out_persistent", Hidden,
               <<<<"attn_out_persistent", Wide(l)>>>>, "o_proj_w")>>),
     Read("attn_proj_out_persistent", Hidden) >>

(* gate and up, the activation in place, down, and the residual; with a    *)
(* norm after it if the layer has one.                                     *)
MlpRun(b, in, res, g, normed) ==
  << Enc("mv", b \o "_gate", g, <<<<in, Hidden>>>>, b \o ".gate"),
     Enc("mv", b \o "_up", g, <<<<in, Hidden>>>>, b \o ".up"),
     Enc("gelu_mul", b \o "_gate", g, <<<<b \o "_gate", g>>, <<b \o "_up", g>>>>, None),
     Enc("mv", b \o "_down", Hidden, <<<<b \o "_gate", g>>>>, b \o ".down") >> \o
  IF normed
    THEN << Enc("rms", b \o "_down_normed", Hidden, <<<<b \o "_down", Hidden>>>>, b \o ".post"),
            Enc("add", res, Hidden, <<<<res, Hidden>>, <<b \o "_down_normed", Hidden>>>>, None) >>
    ELSE << Enc("add", res, Hidden, <<<<res, Hidden>>, <<b \o "_down", Hidden>>>>, None) >>

MlpRoles(b) == {b \o ".gate", b \o ".up", b \o ".down"}
MlpBufs(b, g, normed) ==
  <<<<b \o "_gate", g>>, <<b \o "_up", g>>, <<b \o "_down", Hidden>>>> \o
  IF normed THEN <<<<b \o "_down_normed", Hidden>>>> ELSE <<>>

FusedMlp(l, x, normed) ==
  LET bufs == <<<<"mlp_in", Hidden>>, <<"mlp_residual", Hidden>>>> \o MlpBufs("mlp", Wide(l), normed)
      post == IF normed THEN {"mlp.post"} ELSE {}
  IN  << Need(MlpRoles("mlp")), Need(post) >> \o Ensures(bufs) \o
      << Write("mlp_in", Hidden, x), Write("mlp_residual", Hidden, <<"res", x>>),
         Bind(MlpRoles("mlp") \cup post) >> \o Handles(bufs) \o
      << Run(MlpRun("mlp", "mlp_in", "mlp_residual", Wide(l), normed)),
         Read("mlp_residual", Hidden) >>

FusedTail(l, x, normed) ==
  LET bufs == <<<<"tail_attn_proj", Hidden>>, <<"tail_x", Hidden>>, <<"tail_post_attn", Hidden>>,
                <<"tail_mlp_in", Hidden>>>> \o MlpBufs("tail", Wide(l), normed)
      post == IF normed THEN {"tail.post"} ELSE {}
      all == MlpRoles("tail") \cup {"tail.pa", "tail.pf"}
  IN  << Need(all), Need(post) >> \o Ensures(bufs) \o
      << Write("tail_attn_proj", Hidden, x), Write("tail_x", Hidden, <<"res", x>>),
         Bind(all \cup post) >> \o Handles(bufs) \o
      << Run(<<Enc("rms", "tail_post_attn", Hidden, <<<<"tail_attn_proj", Hidden>>>>, "tail.pa"),
               Enc("add", "tail_x", Hidden,
                   <<<<"tail_x", Hidden>>, <<"tail_post_attn", Hidden>>>>, None),
               Enc("rms", "tail_mlp_in", Hidden, <<<<"tail_x", Hidden>>>>, "tail.pf")>> \o
             MlpRun("tail", "tail_mlp_in", "tail_x", Wide(l), normed)),
         Read("tail_x", Hidden) >>

Program(c) ==
  CASE c.op = "rms_norm_f16w" -> RmsNorm(c.l, c.x)
    [] c.op = "rope_half_f32" -> Rope(c.l, c.x)
    [] c.op = "lfm_conv" -> Conv(c.l, c.x)
    [] c.op = "logits_f16" -> LogitsOne(c.l, c.x, "logits_f16")
    [] c.op = "logits_q1" -> LogitsOne(c.l, c.x, "logits_q1")
    [] c.op = "logits_f32" -> LogitsOne(c.l, c.x, "logits_f32")
    [] c.op = "logits_i8" -> LogitsI8(c.l, c.x)
    [] c.op = "logits_i4" -> LogitsI4(c.l, c.x)
    [] c.op = "batch_mv_i4" -> BatchMv(c.l, c.x)
    [] c.op = "attention_and_proj_i4" -> Attention(c.l, c.x, c.v)
    [] c.op = "project_qkv_norm_rope_i4" -> Project(c.l, c.x)
    [] c.op = "preloaded_q" -> Preloaded(c.l, c.x, c.v)
    [] c.op = "persistent_kv" -> Persistent(c.l, c.x, c.v)
    [] c.op = "fused_mlp_i4" -> FusedMlp(c.l, c.x, c.v = 1)
    [] c.op = "fused_tail_i4" -> FusedTail(c.l, c.x, c.v = 1)

----------------------------------------------------------------------------
(* Threads.                                                                *)

Idle == [call |-> None, steps |-> <<>>, absent |-> FALSE, bound |-> << >>, held |-> << >>,
         got |-> <<>>, calls |-> 0, last |-> None]

Init ==
  /\ cache = << >>
  /\ heap = <<>>
  /\ slot = << >>
  /\ lock = [m \in Mutexes |-> None]
  /\ thread = [t \in Threads |-> Idle]
  /\ results = {}

(* A function with one more argument, or another value there.              *)
With(f, k, v) == [j \in DOMAIN f \cup {k} |-> IF j = k THEN v ELSE f[j]]

(* The query is only taken from the device right after it was left there   *)
(* for the same layer.                                                     *)
MayCall(t, op, l) ==
  op = "preloaded_q" =>
    /\ thread[t].last # None
    /\ thread[t].last.op = "project_qkv_norm_rope_i4" /\ thread[t].last.l = l

Call(t, op, l, v) ==
  /\ thread[t].call = None
  /\ thread[t].calls < MaxCalls
  /\ MayCall(t, op, l)
  /\ LET c == [op |-> op, l |-> l, v |-> v, x |-> <<"in", t, thread[t].calls>>,
               prev |-> IF thread[t].last = None THEN None ELSE thread[t].last.x]
     IN  thread' = [thread EXCEPT ![t].call = c, ![t].steps = Program(c), ![t].got = <<>>,
                                  ![t].bound = << >>, ![t].held = << >>,
                                  ![t].calls = @ + 1]
  /\ UNCHANGED <<cache, heap, slot, lock, results>>

Now(t) == thread[t].steps[1]
At(t, do) == thread[t].steps # <<>> /\ Now(t).do = do
Free(t, m) == lock[m] = None
FreeOrOwn(t, m) == lock[m] \in {None, t}
Done(t) == [thread[t] EXCEPT !.steps = Tail(@)]

Inserted(roles, l) ==
  [k \in DOMAIN cache \cup {Key(r, l) : r \in roles} |->
     IF k \in DOMAIN cache THEN cache[k]
     ELSE Weight((CHOOSE r \in roles : Key(r, l) = k), l)]

NeedWeights(t) ==
  /\ At(t, "need") /\ Free(t, "cache")
  /\ cache' = Inserted(Now(t).roles, thread[t].call.l)
  /\ thread' = [thread EXCEPT ![t] = Done(t)]
  /\ UNCHANGED <<heap, slot, lock, results>>

LookUp(t) ==
  /\ At(t, "look") /\ Free(t, "cache")
  /\ thread' = [thread EXCEPT ![t] = [Done(t) EXCEPT !.absent =
                  \E r \in Now(t).roles : Key(r, thread[t].call.l) \notin DOMAIN cache]]
  /\ UNCHANGED <<cache, heap, slot, lock, results>>

InsertSeenAbsent(t) ==
  /\ At(t, "insert") /\ (thread[t].absent => Free(t, "cache"))
  /\ cache' = IF thread[t].absent THEN Inserted(Now(t).roles, thread[t].call.l) ELSE cache
  /\ thread' = [thread EXCEPT ![t] = Done(t)]
  /\ UNCHANGED <<heap, slot, lock, results>>

BindWeights(t) ==
  /\ At(t, "bind") /\ FreeOrOwn(t, "cache")
  /\ \A r \in Now(t).roles : Key(r, thread[t].call.l) \in DOMAIN cache
  /\ thread' = [thread EXCEPT ![t] = [Done(t) EXCEPT !.bound =
                  [r \in DOMAIN @ \cup Now(t).roles |->
                     IF r \in Now(t).roles THEN cache[Key(r, thread[t].call.l)] ELSE @[r]]]]
  /\ UNCHANGED <<cache, heap, slot, lock, results>>

(* A guard on a scratch buffer also names the buffer it is in.             *)
TakeLock(t) ==
  /\ At(t, "lock") /\ Free(t, Now(t).at)
  /\ lock' = [lock EXCEPT ![Now(t).at] = t]
  /\ thread' = [thread EXCEPT ![t] =
                  IF Now(t).at = "cache" THEN Done(t)
                  ELSE [Done(t) EXCEPT !.held = With(@, Now(t).at, slot[Now(t).at])]]
  /\ UNCHANGED <<cache, heap, slot, results>>

Enough(s, n) == s \in DOMAIN slot /\ heap[slot[s]].cap >= n

EnsureBuf(t) ==
  /\ At(t, "ensure") /\ Free(t, Guard(Now(t).at))
  /\ IF Enough(Now(t).at, Now(t).n) THEN UNCHANGED <<heap, slot>>
     ELSE /\ heap' = Append(heap, [cap |-> Now(t).n, n |-> 0, val |-> None])
          /\ slot' = With(slot, Now(t).at, Len(heap) + 1)
  /\ thread' = [thread EXCEPT ![t] = Done(t)]
  /\ UNCHANGED <<cache, lock, results>>

Stored(h, b, n, v) == [h EXCEPT ![b].n = n, ![b].val = v]
Loaded(h, b, n) == IF h[b].n = n THEN h[b].val ELSE <<"stale", h[b].val>>

WriteBuf(t) ==
  /\ At(t, "write") /\ Free(t, "named")
  /\ heap' = Stored(heap, slot[Now(t).at], Now(t).n, Now(t).val)
  /\ thread' = [thread EXCEPT ![t] = Done(t)]
  /\ UNCHANGED <<cache, slot, lock, results>>

ReadBuf(t) ==
  /\ At(t, "read") /\ Free(t, "named")
  /\ thread' = [thread EXCEPT ![t] = [Done(t) EXCEPT !.got =
                  Append(@, Loaded(heap, slot[Now(t).at], Now(t).n))]]
  /\ UNCHANGED <<cache, heap, slot, lock, results>>

HandleBuf(t) ==
  /\ At(t, "handle") /\ Free(t, Guard(Now(t).at))
  /\ thread' = [thread EXCEPT ![t] = [Done(t) EXCEPT !.held = With(@, Now(t).at, slot[Now(t).at])]]
  /\ UNCHANGED <<cache, heap, slot, lock, results>>

FillBuf(t) ==
  /\ At(t, "fill")
  /\ heap' = Stored(heap, thread[t].held[Now(t).at], Now(t).n, Now(t).val)
  /\ thread' = [thread EXCEPT ![t] = Done(t)]
  /\ UNCHANGED <<cache, slot, lock, results>>

TakeBuf(t) ==
  /\ At(t, "take")
  /\ thread' = [thread EXCEPT ![t] = [Done(t) EXCEPT !.got =
                  Append(@, Loaded(heap, thread[t].held[Now(t).at], Now(t).n))]]
  /\ UNCHANGED <<cache, heap, slot, lock, results>>

(* The kernels of a command buffer, one after the other.                   *)
Execute(t, h, e) ==
  LET held(r) == thread[t].held[r]
      ins == [i \in 1 .. Len(e.ins) |-> Loaded(h, held(e.ins[i][1]), e.ins[i][2])]
      w == IF e.role = None THEN None ELSE thread[t].bound[e.role]
  IN  Stored(h, held(e.out), e.n, Apply(e.f, ins, w))

RunBatch(t) ==
  /\ At(t, "run")
  /\ heap' = FoldLeft(LAMBDA h, e : Execute(t, h, e), heap, Now(t).es)
  /\ thread' = [thread EXCEPT ![t] = Done(t)]
  /\ UNCHANGED <<cache, slot, lock, results>>

DropGuards(t) ==
  /\ At(t, "release")
  /\ lock' = [m \in Mutexes |-> IF lock[m] = t THEN None ELSE lock[m]]
  /\ thread' = [thread EXCEPT ![t] = Done(t)]
  /\ UNCHANGED <<cache, heap, slot, results>>

Return(t) ==
  /\ thread[t].call # None /\ thread[t].steps = <<>>
  /\ results' = results \cup {[call |-> thread[t].call, got |-> thread[t].got]}
  /\ thread' = [thread EXCEPT ![t].call = None, ![t].last = thread[t].call]
  /\ UNCHANGED <<cache, heap, slot, lock>>

Step(t) ==
  \/ NeedWeights(t) \/ LookUp(t) \/ InsertSeenAbsent(t) \/ BindWeights(t) \/ TakeLock(t)
  \/ EnsureBuf(t) \/ WriteBuf(t) \/ ReadBuf(t) \/ HandleBuf(t) \/ FillBuf(t) \/ TakeBuf(t)
  \/ RunBatch(t) \/ DropGuards(t) \/ Return(t)

Next ==
  \/ \E t \in Threads, op \in Ops, l \in 1 .. Layers, v \in 1 .. 2 : Call(t, op, l, v)
  \/ \E t \in Threads : Step(t)

Spec == Init /\ [][Next]_vars

----------------------------------------------------------------------------
(* Properties.                                                             *)

(* What each operation is for, in terms of its own inputs and layer.       *)
Expected(c) ==
  LET w(r) == Weight(r, c.l)
      mv(x, r) == Apply("mv", <<x>>, w(r))
      rms(x, r) == Apply("rms", <<x>>, w(r))
      rope(x) == Apply("rope", <<x>>, None)
      attend(q) == Apply("attend", <<q, <<"keys", c.x>>, <<"values", c.x>>>>, None)
      add(a, b) == Apply("add", <<a, b>>, None)
      mlp(x, b) == mv(Apply("gelu_mul", <<mv(x, b \o ".gate"), mv(x, b \o ".up")>>, None), b \o ".down")
      post(x, b) == IF c.v = 1 THEN rms(x, b \o ".post") ELSE x
      mid == add(<<"res", c.x>>, rms(c.x, "tail.pa"))
      shifted == Apply("shift", <<<<"state", c.x>>, c.x>>, None)
  IN  CASE c.op = "rms_norm_f16w" -> <<rms(c.x, "rmsnorm.w")>>
        [] c.op = "rope_half_f32" -> <<rope(c.x)>>
        [] c.op = "lfm_conv" -> <<shifted, Apply("taps", <<shifted>>, w("lfm.k"))>>
        [] c.op \in {"logits_f16", "logits_q1", "logits_f32"} -> <<mv(c.x, c.op)>>
        [] c.op \in {"logits_i8", "logits_i4"} -> <<mv(c.x, "logits.w")>>
        [] c.op = "batch_mv_i4" -> <<mv(c.x, "logits.w0"), mv(c.x, "logits.w1")>>
        [] c.op = "attention_and_proj_i4" -> <<mv(attend(c.x), "attn.o_proj")>>
        [] c.op = "project_qkv_norm_rope_i4" ->
             <<rope(rms(mv(c.x, "attn.k"), "attn.k_norm")), mv(c.x, "attn.v")>>
        [] c.op = "preloaded_q" ->
             <<mv(attend(rope(rms(mv(c.prev, "attn.q"), "attn.q_norm"))), "attn.o_proj")>>
        [] c.op = "persistent_kv" -> <<mv(Apply("attend", <<c.x>>, None), "o_proj_w")>>
        [] c.op = "fused_mlp_i4" -> <<add(<<"res", c.x>>, post(mlp(c.x, "mlp"), "mlp"))>>
        [] c.op = "fused_tail_i4" ->
             <<add(mid, post(mlp(rms(mid, "tail.pf"), "tail"), "tail"))>>

(* A call returns the result of its own inputs and its own layer, whatever *)
(* earlier calls, of other layers, sizes and threads, have left in the     *)
(* buffers and the cache.                                                  *)
OwnResult == \A r \in results : r.got = Expected(r.call)

(* No buffer is written beyond its end.                                    *)
InsideBuffers == \A b \in DOMAIN heap : heap[b].n <= heap[b].cap

(* Threads that call at the same time never wait for each other's mutexes  *)
(* in a circle: one of those in a call can always go on.                   *)
NoCircle ==
  (\E t \in Threads : thread[t].call # None) =>
    \E t \in Threads : ENABLED Step(t)
============================================================================
