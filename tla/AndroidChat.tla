---------------------------- MODULE AndroidChat ----------------------------
(***************************************************************************)
(* ChatViewModel of the Android library: one model, one session, one chat. *)
(* The main thread runs sendMessage and resetSession; the job of a message *)
(* runs on the IO dispatcher, submits the text, decodes until nothing      *)
(* comes, and publishes the list of messages after every token.  Both      *)
(* write the list by reading it, changing it and writing it back.          *)
(*                                                                         *)
(* The session is seen from the client, as Engine describes it; a call of  *)
(* the engine is one step.  A token names the answer it belongs to and its *)
(* number in it.  What a prompt that fails half way leaves in the page     *)
(* table is Engine's matter, and messages are taken to differ.              *)
(***************************************************************************)
EXTENDS Integers, Sequences, FiniteSets, SequencesExt, Filter

CONSTANTS
  MaxMessages,     \* bound: messages sent
  MaxResets,       \* bound: resets
  Capacity,        \* tokens the K/V cache has room for
  MaxPrompt,       \* bound: tokens of a message
  Ends,            \* how the model may end an answer: "stop" with its stop token,
                   \* "listed" with one of the three tokens the job looks for
  Faults,          \* TRUE: the tokenizer may throw
  Quick,           \* TRUE: the user may send again before the last job is quite over
  None             \* no job; nothing read

(* A token names its answer and its number in it; a message that is not of *)
(* the assistant says nothing here.  A job knows how far it is, the answer *)
(* it has, the id it read for it and the list it read.                      *)
TokenRecord == [of : Nat, n : Nat]
Message == [id : Nat, role : {"system", "user", "assistant"}, of : Nat, text : Seq(TokenRecord)]
JobRecord ==
  [at : {"submit", "step", "read", "write", "finish"}, of : Nat, text : Seq(TokenRecord),
   id : Nat, read : Seq(Message) \cup {None}]

AndroidAssumption ==
  /\ {MaxMessages, Capacity, MaxPrompt} \subseteq Nat \ {0} /\ MaxResets \in Nat
  /\ None \notin JobRecord
  /\ Ends \subseteq {"stop", "listed"} /\ {Faults, Quick} \subseteq BOOLEAN

VARIABLES
  messages,        \* UiState.messages
  isGenerating,    \* UiState.isGenerating
  messageIdCounter,
  error,           \* TRUE: UiState.error is set
  job,             \* the job that has still to publish its end, or None
  late,            \* the jobs that have, and have still to count: what they read to do so
  sent, resets,    \* messages sent and resets so far
  since,           \* messages sent before the last reset
  state, answer,   \* the session: its state, the answer it decodes
  said,            \* tokens said in that answer
  cached,          \* tokens in the session's K/V cache
  context,         \* the messages they stem from
  snapshot         \* what submit keeps to come back to: both of them

ui == <<messages, isGenerating, messageIdCounter, error>>
session == <<state, answer, said, cached, context, snapshot>>
vars == <<ui, job, late, sent, resets, since, session>>

(* loadModel has published its note and made the session.                   *)
Init ==
  /\ messages = << [id |-> 0, role |-> "system", of |-> 0, text |-> << >>] >>
  /\ messageIdCounter = 1 /\ isGenerating = FALSE /\ error = FALSE
  /\ job = None /\ late = {} /\ sent = 0 /\ resets = 0 /\ since = 0
  /\ state = "Queued" /\ answer = 0 /\ said = 0 /\ cached = 0 /\ context = {}
  /\ snapshot = [cached |-> 0, context |-> {}]

-----------------------------------------------------------------------------

NextId == messageIdCounter + 1

(* The text field and the button are off while an answer is generated,     *)
(* which is not as long as its job runs.                                    *)
SendMessage ==
  /\ ~isGenerating /\ sent < MaxMessages
  /\ late = {} \/ Quick
  /\ sent' = sent + 1
  /\ messages' = Append(messages, [id |-> messageIdCounter, role |-> "user", of |-> sent + 1,
                                    text |-> << >>])
  /\ messageIdCounter' = NextId
  /\ isGenerating' = TRUE
  /\ job' = [at |-> "submit", of |-> sent + 1, text |-> << >>, id |-> 0, read |-> None]
  /\ UNCHANGED <<error, late, resets, since, session>>

(* resetSession: the engine takes the session back to where its last       *)
(* prompt was done and has it wait for another; the screen is emptied.      *)
ResetSession ==
  /\ resets < MaxResets
  /\ resets' = resets + 1
  /\ since' = sent
  /\ state' = "Queued" /\ said' = 0 /\ answer' = 0
  /\ cached' = snapshot.cached /\ context' = snapshot.context
  /\ messages' = << >> /\ messageIdCounter' = 0
  /\ UNCHANGED <<isGenerating, error, job, late, sent, snapshot>>

-----------------------------------------------------------------------------
Throws == job' = None /\ isGenerating' = FALSE /\ error' = TRUE

(* submitTokens gives -1 when the engine refuses or has no room, and its   *)
(* first token otherwise; the job looks at neither.                         *)
Submit ==
  /\ job # None /\ job.at = "submit"
  /\ \/ /\ \E n \in 1..MaxPrompt :
             IF state \in {"Queued", "Prefill"} /\ cached + n <= Capacity
             THEN /\ state' = "Decoding" /\ answer' = job.of /\ said' = 1
                  /\ cached' = cached + n /\ context' = context \cup {job.of}
                  /\ snapshot' = [cached |-> cached', context |-> context']
             ELSE /\ state' = IF state = "Queued" THEN "Prefill" ELSE state
                  /\ UNCHANGED <<answer, said, cached, context, snapshot>>
        /\ job' = [job EXCEPT !.at = "step"]
        /\ UNCHANGED <<isGenerating, error>>
     \/ Faults /\ Throws /\ UNCHANGED session
  /\ UNCHANGED <<messages, messageIdCounter, late, sent, resets, since>>

Token == [of |-> answer, n |-> said + 1]
Decode == said' = said + 1 /\ cached' = cached + 1 /\ UNCHANGED <<answer, context, snapshot>>

(* stepDecode is null when there is nothing to decode, when the engine     *)
(* failed, and when the token is the stop token, which ends the session.    *)
Null == job' = [job EXCEPT !.at = "finish"]

(* A token without text is passed over.                                     *)
StepDecode ==
  /\ job # None /\ job.at = "step"
  /\ \/ /\ state # "Decoding" \/ cached = Capacity
        /\ Null /\ UNCHANGED <<session, isGenerating, error>>
     \/ /\ state = "Decoding" /\ cached < Capacity
        /\ \/ "stop" \in Ends /\ state' = "Terminal" /\ Decode /\ Null /\ UNCHANGED <<isGenerating, error>>
           \/ "listed" \in Ends /\ Decode /\ UNCHANGED <<state, isGenerating, error>>
              /\ job' = [job EXCEPT !.at = "finish"]
           \/ Decode /\ UNCHANGED <<state, isGenerating, error, job>>
           \/ Decode /\ UNCHANGED <<state, isGenerating, error>>
              /\ job' = [job EXCEPT !.at = "read", !.text = Append(@, Token)]
           \/ Faults /\ Decode /\ Throws /\ UNCHANGED state
  /\ UNCHANGED <<messages, messageIdCounter, late, sent, resets, since>>

(* The job reads the counter, for an id, and the list ...                   *)
ReadMessages ==
  /\ job # None /\ job.at = "read"
  /\ job' = [job EXCEPT !.at = "write", !.id = messageIdCounter, !.read = messages]
  /\ UNCHANGED <<ui, late, sent, resets, since, session>>

Others(list) == Kept(list, {x \in Range(list) : x.id # messageIdCounter})

(* ... and writes it with the answer so far in place of the one before,    *)
(* which is the one that has the counter's id now.                          *)
WriteMessages ==
  /\ job # None /\ job.at = "write"
  /\ messages' = Append(Others(job.read),
       [id |-> job.id, role |-> "assistant", of |-> job.of, text |-> job.text])
  /\ job' = [job EXCEPT !.at = "step", !.read = None]
  /\ UNCHANGED <<isGenerating, messageIdCounter, error, late, sent, resets, since, session>>

(* The job publishes that it is over, and then counts its message: it      *)
(* reads the counter ...                                                    *)
Finish ==
  /\ job # None /\ job.at = "finish"
  /\ isGenerating' = FALSE
  /\ job' = None
  /\ late' = late \cup {[of |-> job.of, got |-> None]}
  /\ UNCHANGED <<messages, messageIdCounter, error, sent, resets, since, session>>

ReadCounter(r) ==
  /\ r.got = None
  /\ late' = (late \ {r}) \cup {[r EXCEPT !.got = messageIdCounter]}
  /\ UNCHANGED <<ui, job, sent, resets, since, session>>

(* ... and writes what comes after it.                                      *)
WriteCounter(r) ==
  /\ r.got # None
  /\ messageIdCounter' = r.got + 1
  /\ late' = late \ {r}
  /\ UNCHANGED <<messages, isGenerating, error, job, sent, resets, since, session>>

Job ==
  \/ Submit \/ StepDecode \/ ReadMessages \/ WriteMessages \/ Finish
  \/ \E r \in late : ReadCounter(r) \/ WriteCounter(r)

Next == SendMessage \/ ResetSession \/ Job

(* The dispatcher runs the job; nothing is assumed of the user.             *)
Spec == Init /\ [][Next]_vars /\ WF_vars(Job)

-----------------------------------------------------------------------------
(* An answer is generated exactly as long as a job has still to publish    *)
(* its end.                                                                 *)
TypeOK ==
  /\ isGenerating = (job # None)
  /\ \A r \in late : r.of \in 1..sent
  /\ state \in {"Queued", "Prefill", "Decoding", "Terminal"}
  /\ cached \in 0..Capacity /\ said <= cached + 1

(* The chat reads as it was held: every message of the user is there, in   *)
(* order, and what follows one is an answer to it, not to another, and is  *)
(* there once.  So it is unless the user is quick.                          *)
ChatIsWhole ==
  /\ \A i \in 1..sent : \E j \in DOMAIN messages : messages[j].role = "user" /\ messages[j].of = i
  /\ \A i, j \in DOMAIN messages : i < j => messages[i].of <= messages[j].of
  /\ \A i, j \in DOMAIN messages : messages[i].role = "assistant" /\ messages[j].role = "assistant"
                                     /\ messages[i].of = messages[j].of => i = j

(* There is no limit of tokens here: an answer ends because the cache has  *)
(* an end.                                                                  *)
GenerationEnds == isGenerating ~> ~isGenerating

(* "Send a user message and generate an assistant response", says           *)
(* sendMessage: when it is over, without an error, there is one.            *)
EveryMessageAnswered ==
  ~isGenerating /\ ~error =>
    \A i \in DOMAIN messages : messages[i].role = "user" =>
       \E j \in DOMAIN messages : messages[j].role = "assistant" /\ messages[j].of = messages[i].of
         /\ \A k \in DOMAIN messages[j].text : messages[j].text[k].of = messages[i].of

(* "Submit a text prompt and get the first generated token", says           *)
(* CellmSession of submitTokens: an answer begins with that token.          *)
AnswerFromFirst ==
  \A i \in DOMAIN messages : messages[i].role = "assistant" /\ messages[i].text # << >> =>
     messages[i].text[1].n = 1

(* "Reset the current session (clears context)": a message that was there  *)
(* before a reset is no part of what the model sees after it.               *)
ResetClearsContext == answer > since => \A i \in context : i > since
=============================================================================
