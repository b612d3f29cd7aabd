--------------------------- MODULE ConcurrentChat ---------------------------
(***************************************************************************)
(* ConcurrentChatView of the iOS demo: chats that share an engine.  The    *)
(* main actor runs what the user does and the blocks the background tasks  *)
(* send it; a task per message submits its prompt and shows the first      *)
(* token; a loop decodes for all chats.  A step of a task ends where the   *)
(* task waits, so that anything may happen between two of its steps.       *)
(*                                                                         *)
(* The engine is what Engine says of it, seen from the client: a session   *)
(* takes one prompt, then decodes in ring order.  A token is the engine,   *)
(* the session and the token's number in the session.                      *)
(***************************************************************************)
EXTENDS Integers, Sequences, FiniteSets, FiniteSetsExt, SequencesExt, Filter

CONSTANTS
  Chats,           \* identities of chats
  MaxTok,          \* maxTok: tokens of an answer
  Reloads,         \* how many engines a choice of model or backend builds
  Stops,           \* TRUE: the model may sample its stop token
  Patient,         \* TRUE: the user chooses no engine while one is being built
  Faults,          \* TRUE: the tokenizer, the runner and a build may fail
  Fills,           \* TRUE: the K/V cache may be full, and steps fail without end
  MaxSends,        \* bound: messages sent
  MaxBuilds,       \* bound: engines built
  MaxLoops,        \* bound: decode loops started
  MaxFails,        \* bound: steps of a loop that give nothing to show
  MaxSaid,         \* bound: this number stands for every later token too
  None             \* no token; no error

ChatAssumption ==
  /\ {MaxTok, MaxSends, MaxBuilds, MaxLoops, MaxSaid} \subseteq Nat \ {0}
  /\ MaxFails \in Nat /\ Reloads \subseteq Nat \ {0}
  /\ {Stops, Patient, Faults, Fills} \subseteq BOOLEAN

VARIABLES
  threads,         \* the chats on the screen, in order
  born,            \* identities used so far
  engine,          \* the engine of the view, or 0
  building,        \* engines being built
  built,           \* engines built so far
  decodeTask,      \* the loop the view knows of, or 0
  sends,           \* the tasks of the messages sent
  loops,           \* the decode loops ever started
  state,           \* per engine: the state of each of its sessions
  count,           \* per engine: tokens of each of its sessions
  rr               \* per engine: its ring

view == <<threads, born, engine, building, built, decodeTask>>
tasks == <<sends, loops>>
engines == <<state, count, rr>>
vars == <<view, tasks, engines>>

(* The view appears with a model chosen earlier, for which onAppear calls  *)
(* initEngine, and onChange may again.                                      *)
Init ==
  /\ threads = << >> /\ born = {} /\ engine = 0 /\ building \in {1} \cup Reloads /\ built = 0
  /\ decodeTask = 0 /\ sends = << >> /\ loops = << >>
  /\ state = << >> /\ count = << >> /\ rr = << >>

-----------------------------------------------------------------------------
(* The engine.                                                             *)
CreateSession(e) ==
  /\ state' = [state EXCEPT ![e] = Append(@, "Queued")]
  /\ count' = [count EXCEPT ![e] = Append(@, 0)]
  /\ UNCHANGED rr

Known(e, s) == e # 0 /\ s \in DOMAIN state[e] /\ state[e][s] # "Gone"

(* cancel_session of every session of S; one that is unknown is an error   *)
(* nobody looks at.                                                         *)
Cancel(e, S) ==
  IF e = 0
  THEN UNCHANGED <<state, rr>>
  ELSE /\ state' = [state EXCEPT ![e] = [s \in DOMAIN @ |-> IF s \in S THEN "Gone" ELSE @[s]]]
       /\ rr' = [rr EXCEPT ![e] = Kept(@, Range(@) \ S)]

(* submit_tokens_cached on a session that has no answer yet: what it       *)
(* returns is the first token.                                              *)
Submitted(e, s) ==
  /\ state' = [state EXCEPT ![e][s] = "Decoding"]
  /\ count' = [count EXCEPT ![e][s] = 1]
  /\ rr' = [rr EXCEPT ![e] = Append(@, s)]

Decodes(e) == {i \in DOMAIN rr[e] : state[e][rr[e][i]] = "Decoding"}

-----------------------------------------------------------------------------
(* The main actor.                                                         *)
At(id) == CHOOSE i \in DOMAIN threads : threads[i].id = id
Shown(id) == \E i \in DOMAIN threads : threads[i].id = id

CreateThread(id) ==
  /\ engine # 0 /\ id \in Chats \ born
  /\ threads' = Append(threads, [id |-> id, eng |-> engine, sid |-> Len(state[engine]) + 1,
                                 generating |-> FALSE, tokCount |-> 0, text |-> << >>, err |-> None])
  /\ born' = born \cup {id}
  /\ CreateSession(engine)
  /\ UNCHANGED <<engine, building, built, decodeTask, tasks>>

Delete(id) ==
  /\ Shown(id)
  /\ threads' = RemoveAt(threads, At(id))
  /\ Cancel(engine, {threads[At(id)].sid})
  /\ UNCHANGED <<born, engine, building, built, decodeTask, tasks, count>>

(* The button is there while an answer is generated.  The chat keeps the   *)
(* number of its session.                                                   *)
Stop(id) ==
  /\ Shown(id) /\ threads[At(id)].generating
  /\ threads' = [threads EXCEPT ![At(id)].generating = FALSE]
  /\ Cancel(engine, {threads[At(id)].sid})
  /\ UNCHANGED <<born, engine, building, built, decodeTask, tasks, count>>

(* A task takes the message from here, with the engine and the session of  *)
(* now; the place of the chat is not kept.                                  *)
Send(id) ==
  /\ Shown(id) /\ ~threads[At(id)].generating /\ engine # 0 /\ Len(sends) < MaxSends
  /\ threads' = [threads EXCEPT ![At(id)] =
                   [@ EXCEPT !.generating = TRUE, !.tokCount = 0, !.text = << >>, !.err = None]]
  /\ sends' = Append(sends, [id |-> id, place |-> At(id), eng |-> engine,
                             sid |-> threads[At(id)].sid, at |-> "submit", got |-> None, err |-> None])
  /\ UNCHANGED <<born, engine, building, built, decodeTask, loops, engines>>

(* The tokenizer fails: the message stands there with an error.             *)
SendFails(id) ==
  /\ Faults /\ Shown(id) /\ ~threads[At(id)].generating /\ engine # 0
  /\ threads' = [threads EXCEPT ![At(id)] = [@ EXCEPT !.tokCount = 0, !.text = << >>, !.err = "tokenize"]]
  /\ UNCHANGED <<born, engine, building, built, decodeTask, tasks, engines>>

Cancelled(l) == [loops EXCEPT ![l].cancelled = TRUE]

(* invalidate: the sessions of the chats are cancelled and forgotten, and  *)
(* so are the loop and the engine.                                          *)
Invalidate ==
  /\ Cancel(engine, {threads[i].sid : i \in DOMAIN threads})
  /\ threads' = [i \in DOMAIN threads |-> [threads[i] EXCEPT !.sid = 0, !.generating = FALSE]]
  /\ loops' = IF decodeTask = 0 THEN loops ELSE Cancelled(decodeTask)
  /\ decodeTask' = 0

(* The user picks another backend, which builds one engine, a model or a   *)
(* tokenizer, for which both the picker and onChange call initEngine, or a *)
(* preset, for which onChange calls it twice more.                          *)
Reload(n) ==
  /\ built + building + n <= MaxBuilds /\ (Patient => building = 0)
  /\ Invalidate
  /\ engine' = 0
  /\ building' = building + n
  /\ UNCHANGED <<born, built, sends, count>>

(* A build of initEngine is done: the engine becomes that of the view,     *)
(* whatever the view had.                                                   *)
EngineBuilt ==
  /\ building > 0
  /\ building' = building - 1 /\ built' = built + 1 /\ engine' = built + 1
  /\ state' = Append(state, << >>) /\ count' = Append(count, << >>) /\ rr' = Append(rr, << >>)
  /\ UNCHANGED <<threads, born, decodeTask, tasks>>

(* Or it fails, and the view keeps what it has.                             *)
BuildFails ==
  /\ Faults /\ building > 0
  /\ building' = building - 1
  /\ UNCHANGED <<threads, born, engine, built, decodeTask, tasks, engines>>

Build == EngineBuilt \/ BuildFails

-----------------------------------------------------------------------------
(* The task of a message.                                                  *)

(* The prompt is in and the first token there, or there and without text   *)
(* that the tokenizer knows; or the runner fails, or the session takes no   *)
(* prompt.                                                                  *)
Submit(k) ==
  /\ sends[k].at = "submit"
  /\ LET e == sends[k].eng  s == sends[k].sid IN
       \/ /\ Known(e, s) /\ state[e][s] \in {"Queued", "Prefill"}
          /\ Submitted(e, s)
          /\ sends' = [sends EXCEPT ![k].at = "show", ![k].got = <<e, s, 1>>]
       \/ /\ Faults /\ Known(e, s) /\ state[e][s] \in {"Queued", "Prefill"}
          /\ Submitted(e, s)
          /\ sends' = [sends EXCEPT ![k].at = "error", ![k].err = "failed"]
       \/ /\ Faults /\ Known(e, s) /\ state[e][s] \in {"Queued", "Prefill"}
          /\ state' = [state EXCEPT ![e][s] = "Prefill"]
          /\ sends' = [sends EXCEPT ![k].at = "error", ![k].err = "failed"]
          /\ UNCHANGED <<count, rr>>
       \/ /\ ~(Known(e, s) /\ state[e][s] \in {"Queued", "Prefill"})
          /\ sends' = [sends EXCEPT ![k].at = "error",
                                    ![k].err = IF Known(e, s) THEN "refused" ELSE "unknown"]
          /\ UNCHANGED engines
  /\ UNCHANGED <<view, loops>>

(* Mutant: the loop is started before the first token is shown.             *)
ShowLate(k) ==
  /\ sends[k].at \in {"show", "done"} /\ sends[k].got # None
  /\ LET id == sends[k].id IN
       threads' = IF ~Shown(id) \/ sends[k].at = "show" THEN threads
                  ELSE [threads EXCEPT ![At(id)] = [@ EXCEPT !.text = Append(@, sends[k].got)]]
  /\ sends' = [sends EXCEPT ![k] = IF @.at = "show" THEN [@ EXCEPT !.at = "ensure"]
                                   ELSE [@ EXCEPT !.got = None]]
  /\ UNCHANGED <<born, engine, building, built, decodeTask, loops, engines>>

(* The first token is shown in the chat's last message, if there is still  *)
(* such a chat.                                                             *)
Show(k) ==
  /\ sends[k].at = "show"
  /\ \E stop \in {FALSE, Stops} :
       LET id == sends[k].id
           t == threads[At(id)] IN
         threads' = IF ~Shown(id) THEN threads
                    ELSE [threads EXCEPT ![At(id)] =
                            [t EXCEPT !.text = Append(t.text, sends[k].got), !.tokCount = 1,
                                      !.generating = t.generating /\ ~stop /\ MaxTok > 1]]
  /\ sends' = [sends EXCEPT ![k].at = "ensure"]
  /\ UNCHANGED <<born, engine, building, built, decodeTask, loops, engines>>

ShowError(k) ==
  /\ sends[k].at = "error"
  /\ LET id == sends[k].id IN
       threads' = IF ~Shown(id) THEN threads
                  ELSE [threads EXCEPT ![At(id)] = [@ EXCEPT !.err = sends[k].err, !.generating = FALSE]]
  /\ sends' = [sends EXCEPT ![k].at = "done"]
  /\ UNCHANGED <<born, engine, building, built, decodeTask, loops, engines>>

(* ensureLoop looks at decodeTask and at the engine on the task's thread   *)
(* ...                                                                      *)
EnsureLoop(k) ==
  /\ sends[k].at = "ensure"
  /\ sends' = [sends EXCEPT ![k] =
       IF (decodeTask = 0 \/ loops[decodeTask].cancelled) /\ engine # 0
       THEN [@ EXCEPT !.at = "spawn", !.eng = engine]
       ELSE [@ EXCEPT !.at = "done"]]
  /\ UNCHANGED <<view, loops, engines>>

(* ... and sets decodeTask a moment later.                                  *)
SpawnLoop(k) ==
  /\ sends[k].at = "spawn" /\ Len(loops) < MaxLoops
  /\ loops' = Append(loops, [eng |-> sends[k].eng, at |-> "check", cancelled |-> FALSE, fails |-> 0,
                           got |-> None])
  /\ decodeTask' = Len(loops) + 1
  /\ sends' = [sends EXCEPT ![k].at = "done"]
  /\ UNCHANGED <<threads, born, engine, building, built, engines>>

-----------------------------------------------------------------------------
(* The decode loop.                                                        *)
Active == \E i \in DOMAIN threads : threads[i].generating

(* A loop that is not cancelled waits for a chat that generates.            *)
Check(l) ==
  /\ loops[l].at = "check" /\ (loops[l].cancelled \/ Active)
  /\ loops' = [loops EXCEPT ![l].at = IF loops[l].cancelled THEN "ended" ELSE "step"]
  /\ UNCHANGED <<view, sends, engines>>

(* step_decode gives the next token of the next session of the ring that   *)
(* decodes.  The stop token ends the session and is not given out.  A step *)
(* that fails, and a token that the tokenizer does not know, leave the chat *)
(* generating.                                                              *)
StepDecode(l) ==
  /\ loops[l].at = "step"
  /\ LET e == loops[l].eng IN
       IF Decodes(e) = {}
       THEN /\ loops' = [loops EXCEPT ![l].at = "check"]
            /\ UNCHANGED engines
       ELSE LET i == CHOOSE i \in Decodes(e) : \A j \in Decodes(e) : i <= j
                s == rr[e][i]
                n == Min({MaxSaid, count[e][s] + 1}) IN
            /\ rr' = [rr EXCEPT ![e] = SubSeq(@, i + 1, Len(@)) \o SubSeq(@, 1, i)]
            /\ \/ /\ count' = [count EXCEPT ![e][s] = n]
                  /\ loops' = [loops EXCEPT ![l].at = "append", ![l].got = <<e, s, n>>]
                  /\ UNCHANGED state
               \/ /\ Stops
                  /\ state' = [state EXCEPT ![e][s] = "Terminal"]
                  /\ loops' = [loops EXCEPT ![l].at = "check"]
                  /\ UNCHANGED count
               \/ /\ Faults /\ (Fills \/ loops[l].fails < MaxFails)
                  /\ loops' = [loops EXCEPT ![l].at = "check",
                                 ![l].fails = IF @ < MaxFails THEN @ + 1 ELSE @]
                  /\ UNCHANGED count \/ count' = [count EXCEPT ![e][s] = n]
                  /\ UNCHANGED state
  /\ UNCHANGED <<view, sends>>

Listening(tok) == {i \in DOMAIN threads : threads[i].sid = tok[2] /\ threads[i].generating}

Full(c) == c >= MaxTok

(* The token is shown in the first generating chat whose session has its   *)
(* number, if there is one.                                                 *)
ShowToken(l) ==
  /\ loops[l].at = "append"
  /\ LET tok == loops[l].got
         L == Listening(tok) IN
       IF L = {} THEN UNCHANGED threads
       ELSE LET i == CHOOSE i \in L : \A j \in L : i <= j
                t == threads[i] IN
            \E stop \in {FALSE, Stops} :
              threads' = [threads EXCEPT ![i] =
                [t EXCEPT !.text = Append(t.text, tok), !.tokCount = t.tokCount + 1,
                          !.generating = ~stop /\ ~Full(t.tokCount + 1)]]
  /\ loops' = [loops EXCEPT ![l].at = "check", ![l].got = None]
  /\ UNCHANGED <<born, engine, building, built, decodeTask, sends, engines>>

-----------------------------------------------------------------------------
User ==
  \/ \E id \in Chats : CreateThread(id) \/ Delete(id) \/ Stop(id) \/ Send(id) \/ SendFails(id)
  \/ \E n \in Reloads : Reload(n)

SendTask(k) == Submit(k) \/ Show(k) \/ ShowError(k) \/ EnsureLoop(k) \/ SpawnLoop(k)
Loop(l) == Check(l) \/ StepDecode(l) \/ ShowToken(l)

Next ==
  \/ User
  \/ Build
  \/ \E k \in DOMAIN sends : SendTask(k)
  \/ \E l \in DOMAIN loops : Loop(l)

(* Tasks and the main actor go on; nothing is assumed of the user.          *)
Spec ==
  /\ Init /\ [][Next]_vars /\ WF_vars(Build)
  /\ \A k \in 1..MaxSends : WF_vars(k \in DOMAIN sends /\ SendTask(k))
  /\ \A l \in 1..MaxLoops : WF_vars(l \in DOMAIN loops /\ Loop(l))

-----------------------------------------------------------------------------
TypeOK ==
  /\ born \subseteq Chats /\ engine \in 0..built /\ decodeTask \in 0..Len(loops)
  /\ \A i \in DOMAIN threads : threads[i].id \in born /\ threads[i].eng \in 1..built
  /\ DOMAIN state = 1..built

(* What a chat shows was said in its own session: chats come and go while  *)
(* tokens are under way, and none ends in another's answer.                 *)
TextIsOwn ==
  \A i \in DOMAIN threads : \A j \in DOMAIN threads[i].text :
     <<threads[i].text[j][1], threads[i].text[j][2]>> = <<threads[i].eng, threads[i].sid>>

(* The tokens of an answer stand in the order in which the model said      *)
(* them, although two tasks write them.                                     *)
TextInOrder ==
  \A i \in DOMAIN threads : \A j, k \in DOMAIN threads[i].text :
     j < k => \/ threads[i].text[j][3] < threads[i].text[k][3]
              \/ threads[i].text[j][3] = MaxSaid /\ threads[i].text[k][3] = MaxSaid

(* "Maximum tokens the model will generate per response", says the         *)
(* settings sheet of the limit.                                             *)
AnswerWithinLimit == \A i \in DOMAIN threads : Len(threads[i].text) <= MaxTok

(* Every session the view's engine keeps is that of a chat: what a chat    *)
(* that went away, or a view that changed its engine, had in the cache is   *)
(* given back.                                                              *)
NoOrphanSession ==
  \A e \in 1..built : \A s \in DOMAIN state[e] :
     state[e][s] # "Gone" =>
        \E i \in DOMAIN threads : threads[i].eng = e /\ threads[i].sid = s

(* Whatever the user chooses while engines are being built, a session that *)
(* the engine of the view keeps is that of a chat on the screen.            *)
EngineIsTheChats ==
  engine # 0 =>
     \A s \in DOMAIN state[engine] :
        state[engine][s] # "Gone" =>
           \E i \in DOMAIN threads : threads[i].eng = engine /\ threads[i].sid = s

(* "create multiple chat threads sharing one engine", says the view: the   *)
(* session of every chat is one of the engine it has.                       *)
ThreadsShareEngine ==
  \A i \in DOMAIN threads : threads[i].sid # 0 => threads[i].eng = engine

(* "submit_tokens(...) shows how prompts/turns extend the cache", says     *)
(* docs/phase2-foundation.md: a session that answered takes the next turn.  *)
TurnsAccepted == \A i \in DOMAIN threads : threads[i].err # "refused"

(* An answer that has begun ends, at its limit, by an error of its task or *)
(* by the user, as long as the steps do not fail for ever.                  *)
Generating(id) == Shown(id) /\ threads[At(id)].generating
AnswerEnds == \A id \in Chats : Generating(id) ~> ~Generating(id)
=============================================================================
