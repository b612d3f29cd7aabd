----------------------------- MODULE MCClients ------------------------------
(* The clients of the engine, one part at a time: threads that call the C   *)
(* interface (Callers), with and without panics, and one that asks for its  *)
(* errors; a tokenizer file with both features that have to be edited       *)
(* (TokenizerFiles); the iOS view of chats that share an engine, with one   *)
(* chat, with two, with a model that says no stop token, with an engine     *)
(* that is replaced and with engines chosen while others are being built    *)
(* (ConcurrentChat); and the Android chat, without and with resets          *)
(* (AndroidChat).                                                           *)
EXTENDS Integers, Sequences, TLC

CONSTANTS None, Off, a, b, f, g

VARIABLES
  part,  \* which of the parts below the behaviour is of
  holder, call, calls, outcome, sessions, rr, owned, used, next_session_id, last_error,
  mine, alive,
  tmp, place, src, seen, tok, string, pos, chunk_start, pieces,
  threads, born, engine, building, built, decodeTask, sends, loops, states, count, rings,
  messages, isGenerating, messageIdCounter, error, job, late, sent, resets, since, state,
  answer, said, cached, context, snapshot

callVars == <<holder, call, calls, outcome, sessions, rr, owned, used, next_session_id,
              last_error, mine, alive>>
fileVars == <<tmp, place, src, seen, tok, string, pos, chunk_start, pieces>>
chatVars == <<threads, born, engine, building, built, decodeTask, sends, loops, states,
              count, rings>>
phoneVars == <<messages, isGenerating, messageIdCounter, error, job, late, sent, resets, since,
               state, answer, said, cached, context, snapshot>>

(* A part that is not under way holds nothing.                              *)
NoCall ==
  /\ holder = Off /\ call = Off /\ calls = Off /\ outcome = Off /\ sessions = Off
  /\ rr = Off /\ owned = Off /\ used = Off /\ next_session_id = Off /\ last_error = Off
  /\ mine = Off /\ alive = Off
NoFile ==
  /\ tmp = Off /\ place = Off /\ src = Off /\ seen = Off /\ tok = Off /\ string = Off
  /\ pos = Off /\ chunk_start = Off /\ pieces = Off
NoChat ==
  /\ threads = Off /\ born = Off /\ engine = Off /\ building = Off /\ built = Off
  /\ decodeTask = Off /\ sends = Off /\ loops = Off /\ states = Off /\ count = Off
  /\ rings = Off
NoPhone ==
  /\ messages = Off /\ isGenerating = Off /\ messageIdCounter = Off /\ error = Off
  /\ job = Off /\ late = Off /\ sent = Off /\ resets = Off /\ since = Off /\ state = Off /\ answer = Off
  /\ said = Off /\ cached = Off /\ context = Off /\ snapshot = Off

EngineOps == {"session_create", "session_cancel", "submit_tokens", "step_decode"}

Letters == {"a", "b"}
Strings == UNION {[1..n -> Letters] : n \in 0..5}
AddedTokens == {<<"a", "b">>, <<"a", "b", "b">>, <<"b", "b", "a", "b">>}

(* The parts, each with its constants.                                      *)
TwoCallers == INSTANCE Callers WITH
  Threads <- {a, b}, Interface <- "c", Ops <- EngineOps, MaxSessions <- 2, MaxCalls <- 2,
  MaxBlocks <- 2, Panics <- FALSE, Failures <- TRUE
Panicking == INSTANCE Callers WITH
  Threads <- {a, b}, Interface <- "c", Ops <- EngineOps, MaxSessions <- 1, MaxCalls <- 2,
  MaxBlocks <- 2, Panics <- TRUE, Failures <- TRUE
OneCaller == INSTANCE Callers WITH
  Threads <- {a}, Interface <- "c", Ops <- TwoCallers!AllOps, MaxSessions <- 2,
  MaxCalls <- 6, MaxBlocks <- 2, Panics <- TRUE, Failures <- TRUE
Tokenizer == INSTANCE TokenizerFiles WITH
  Threads <- {a}, Files <- {f, g}, FileOf <- [t \in {a} |-> f], Virtual <- {f},
  Pairs <- {f}, Texts <- Strings, Specials <- AddedTokens, at <- place, text <- string,
  i <- pos, out <- pieces
OneChat == INSTANCE ConcurrentChat WITH
  Chats <- {a}, MaxTok <- 3, Reloads <- {}, Stops <- TRUE, Patient <- TRUE, Faults <- TRUE,
  Fills <- FALSE, MaxSends <- 3, MaxBuilds <- 1, MaxLoops <- 2, MaxFails <- 1, MaxSaid <- 6,
  state <- states, rr <- rings
TwoChats == INSTANCE ConcurrentChat WITH
  Chats <- {a, b}, MaxTok <- 2, Reloads <- {}, Stops <- TRUE, Patient <- TRUE,
  Faults <- TRUE, Fills <- FALSE, MaxSends <- 2, MaxBuilds <- 1, MaxLoops <- 2,
  MaxFails <- 0, MaxSaid <- 3, state <- states, rr <- rings
Ending == INSTANCE ConcurrentChat WITH
  Chats <- {a, b}, MaxTok <- 2, Reloads <- {}, Stops <- FALSE, Patient <- TRUE,
  Faults <- TRUE, Fills <- FALSE, MaxSends <- 2, MaxBuilds <- 1, MaxLoops <- 2,
  MaxFails <- 1, MaxSaid <- 2, state <- states, rr <- rings
Reloaded == INSTANCE ConcurrentChat WITH
  Chats <- {a, b}, MaxTok <- 2, Reloads <- {1}, Stops <- FALSE, Patient <- TRUE,
  Faults <- TRUE, Fills <- FALSE, MaxSends <- 1, MaxBuilds <- 2, MaxLoops <- 2,
  MaxFails <- 1, MaxSaid <- 3, state <- states, rr <- rings
Choosing == INSTANCE ConcurrentChat WITH
  Chats <- {a, b}, MaxTok <- 2, Reloads <- {1, 2}, Stops <- FALSE, Patient <- FALSE,
  Faults <- TRUE, Fills <- FALSE, MaxSends <- 1, MaxBuilds <- 2, MaxLoops <- 1,
  MaxFails <- 0, MaxSaid <- 2, state <- states, rr <- rings
Phone == INSTANCE AndroidChat WITH
  MaxMessages <- 3, MaxResets <- 0, Capacity <- 6, MaxPrompt <- 2,
  Ends <- {"stop", "listed"}, Faults <- TRUE, Quick <- FALSE
PhoneReset == INSTANCE AndroidChat WITH
  MaxMessages <- 2, MaxResets <- 1, Capacity <- 5, MaxPrompt <- 2,
  Ends <- {"stop", "listed"}, Faults <- TRUE, Quick <- TRUE

ASSUME PartsAssumption ==
  /\ TwoCallers!CallersAssumption
  /\ Panicking!CallersAssumption
  /\ OneCaller!CallersAssumption
  /\ Tokenizer!TokenizerFilesAssumption
  /\ OneChat!ChatAssumption
  /\ TwoChats!ChatAssumption
  /\ Ending!ChatAssumption
  /\ Reloaded!ChatAssumption
  /\ Choosing!ChatAssumption
  /\ Phone!AndroidAssumption
  /\ PhoneReset!AndroidAssumption

Init ==
  \/ part = "callers" /\ TwoCallers!Init /\ NoFile /\ NoChat /\ NoPhone
  \/ part = "callers_panic" /\ Panicking!Init /\ NoFile /\ NoChat /\ NoPhone
  \/ part = "callers_alone" /\ OneCaller!Init /\ NoFile /\ NoChat /\ NoPhone
  \/ part = "tokenizer" /\ Tokenizer!Init /\ NoCall /\ NoChat /\ NoPhone
  \/ part = "chat_one" /\ OneChat!Init /\ NoCall /\ NoFile /\ NoPhone
  \/ part = "chat_two" /\ TwoChats!Init /\ NoCall /\ NoFile /\ NoPhone
  \/ part = "chat_ends" /\ Ending!Init /\ NoCall /\ NoFile /\ NoPhone
  \/ part = "chat_reload" /\ Reloaded!Init /\ NoCall /\ NoFile /\ NoPhone
  \/ part = "chat_choose" /\ Choosing!Init /\ NoCall /\ NoFile /\ NoPhone
  \/ part = "phone" /\ Phone!Init /\ NoCall /\ NoFile /\ NoChat
  \/ part = "phone_reset" /\ PhoneReset!Init /\ NoCall /\ NoFile /\ NoChat

Next ==
  \/ part = "callers" /\ TwoCallers!Next /\ UNCHANGED <<part, fileVars, chatVars, phoneVars>>
  \/ part = "callers_panic" /\ Panicking!Next /\ UNCHANGED <<part, fileVars, chatVars, phoneVars>>
  \/ part = "callers_alone" /\ OneCaller!Next /\ UNCHANGED <<part, fileVars, chatVars, phoneVars>>
  \/ part = "tokenizer" /\ Tokenizer!Next /\ UNCHANGED <<part, callVars, chatVars, phoneVars>>
  \/ part = "chat_one" /\ OneChat!Next /\ UNCHANGED <<part, callVars, fileVars, phoneVars>>
  \/ part = "chat_two" /\ TwoChats!Next /\ UNCHANGED <<part, callVars, fileVars, phoneVars>>
  \/ part = "chat_ends" /\ Ending!Next /\ UNCHANGED <<part, callVars, fileVars, phoneVars>>
  \/ part = "chat_reload" /\ Reloaded!Next /\ UNCHANGED <<part, callVars, fileVars, phoneVars>>
  \/ part = "chat_choose" /\ Choosing!Next /\ UNCHANGED <<part, callVars, fileVars, phoneVars>>
  \/ part = "phone" /\ Phone!Next /\ UNCHANGED <<part, callVars, fileVars, chatVars>>
  \/ part = "phone_reset" /\ PhoneReset!Next /\ UNCHANGED <<part, callVars, fileVars, chatVars>>

Spec == Init /\ [][Next]_<<part, callVars, fileVars, chatVars, phoneVars>> /\
  (* The threads of a process, the tasks of a view and the job of a message *)
  (* go on; nothing is assumed of the users.                                *)
  /\ \A t \in {a, b} : WF_callVars(part = "callers_panic" /\ Panicking!Step(t))
  /\ WF_chatVars(part = "chat_ends" /\ Ending!Build)
  /\ \A k \in 1..2 : WF_chatVars(part = "chat_ends" /\ k \in DOMAIN sends /\ Ending!SendTask(k))
  /\ \A l \in 1..2 : WF_chatVars(part = "chat_ends" /\ l \in DOMAIN loops /\ Ending!Loop(l))
  /\ WF_phoneVars(part = "phone_reset" /\ PhoneReset!Job)

-----------------------------------------------------------------------------
(* Callers, ConcurrentChat: what the engine keeps for its clients is theirs.*)
(* A thread that calls on a session it was given and has not cancelled is   *)
(* never told that there is none, although a decode of another thread takes *)
(* it out of the maps for a while; ring and pool are those of the sessions  *)
(* that exist after every order of calls that succeed and fail; a panic     *)
(* loses sessions but gives back no block that is in use; and the sessions  *)
(* of every engine are those of the chats, after deletions and, where a     *)
(* choice builds one engine and the user waits for it, after the engine was *)
(* replaced; the engine of the view has no others even when a choice builds *)
(* two and the user goes on (ffi.rs, ConcurrentChatView.swift).             *)
SessionsAreTheClients ==
  /\ part = "callers" => TwoCallers!TypeOK /\ TwoCallers!SessionsAreTheClients
  /\ part = "callers_panic" => Panicking!SessionsAreTheClients
  /\ part = "chat_two" => TwoChats!NoOrphanSession
  /\ part = "chat_ends" => Ending!NoOrphanSession
  /\ part = "chat_reload" => Reloaded!NoOrphanSession
  /\ part = "chat_choose" => Choosing!EngineIsTheChats

(* TokenizerFiles: a tokenizer is the client's file with both edits, the    *)
(* second of which reads what the first has written, and a file that the    *)
(* edits can cope with loads; nothing of a text is lost or said twice, the  *)
(* longest added token is found at every place and none inside a piece.     *)
TokenizerIsTheFiles ==
  part = "tokenizer" =>
    /\ Tokenizer!TokenizerIsTheFiles /\ Tokenizer!GoodFilesLoad
    /\ Tokenizer!TextIsKept /\ Tokenizer!TextIsSegmented

(* ConcurrentChat, AndroidChat, Callers: what a client shows belongs where  *)
(* it is shown.  No token ends in another chat's answer, while chats come   *)
(* and go between its decoding and its display; the two tasks that write    *)
(* one answer keep its order and its limit, if there is one chat; every     *)
(* message of a user who waits for the job to be over is in the Android     *)
(* list, in order and followed by at most one answer, its own; and a thread *)
(* alone reads the message of its own last failure.                         *)
ShownWhereItBelongs ==
  /\ part = "chat_one" => OneChat!TextInOrder /\ OneChat!AnswerWithinLimit
  /\ part = "chat_two" => TwoChats!TypeOK /\ TwoChats!TextIsOwn
  /\ part = "chat_ends" => Ending!TextIsOwn
  /\ part = "phone" => Phone!TypeOK /\ Phone!ChatIsWhole
  /\ part = "callers_alone" => OneCaller!MessageIsMine

Waiting(t) == part = "callers_panic" /\ call[t] # None
Answering(id) == part = "chat_ends" /\ Ending!Generating(id)
Busy == part = "phone_reset" /\ isGenerating

(* Callers!EveryCallReturns, ConcurrentChat!AnswerEnds and                  *)
(* AndroidChat!GenerationEnds: nobody waits for the mutex for ever, not     *)
(* even after a panic of its holder; an answer on iOS ends, at its limit,   *)
(* by an error or by the user, when the model does not say its stop token,  *)
(* unless every step fails from some time on; and the Android loop, which   *)
(* has no limit, ends because the cache does, resets and quick users or     *)
(* not.                                                                     *)
EverythingEnds ==
  /\ \A t \in {a, b} : Waiting(t) ~> ~Waiting(t)
  /\ \A id \in {a, b} : Answering(id) ~> ~Answering(id)
  /\ Busy ~> ~Busy
==============================================================================
