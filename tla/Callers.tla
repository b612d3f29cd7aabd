------------------------------ MODULE Callers ------------------------------
(***************************************************************************)
(* Threads that call the engine through the C interface, whose handle is a *)
(* Mutex<Engine>, or through the JNI interface, whose handle is the engine *)
(* itself.  A method of the engine is a step, except step_decode, which    *)
(* takes a session out of the maps and puts it back when the runner is     *)
(* done.  Failures go to one error cell, which cellm_last_error_message    *)
(* empties.                                                                 *)
(*                                                                         *)
(* Two JNI calls at once race on the engine's memory; only the mildest     *)
(* outcome is modelled, in which each access to a map is whole.            *)
(***************************************************************************)
EXTENDS Integers, Sequences, FiniteSets, Functions

CONSTANTS
  Threads,
  Interface,       \* "c" or "jni"
  Ops,             \* what the threads call
  MaxSessions,     \* bound: sessions created
  MaxCalls,        \* bound: calls of a thread
  MaxBlocks,       \* bound: blocks of a session
  Panics,          \* TRUE: the runner may panic
  Failures,        \* TRUE: the runner may fail
  None             \* nobody; no call; no message

AllOps == {"session_create", "session_cancel", "submit_tokens", "step_decode", "last_error_message"}

(* A call under way: what was called for which session, how far it is, what *)
(* it will return, and whether its session was its client's at the end.     *)
CallRecord ==
  [op : AllOps \ {"last_error_message"}, sid : 0..MaxSessions,
   at : {"door", "inside", "hand", "result"},
   rc : {"ok", "unknown", "nothing", "failed", "panicked"}, live : BOOLEAN]

CallersAssumption ==
  /\ IsFiniteSet(Threads) /\ None \notin Threads /\ None \notin CallRecord
  /\ Interface \in {"c", "jni"} /\ Ops \subseteq AllOps
  /\ {MaxSessions, MaxCalls, MaxBlocks} \subseteq Nat \ {0}
  /\ {Panics, Failures} \subseteq BOOLEAN

VARIABLES
  holder,          \* the thread that holds the engine's mutex, or None
  call,            \* per thread: the call under way, or None
  calls,           \* per thread: calls begun
  outcome,         \* per thread: what its last call returned, or None
  sessions,        \* keys of Engine::sessions and Engine::session_meta
  rr,              \* members of Engine::rr
  owned,           \* per session: blocks of its page table
  used,            \* blocks the allocator has given out
  next_session_id,
  last_error,      \* the call LAST_ERROR tells of, or None
  mine,            \* per thread: what a cell of its own would tell of
  alive            \* sessions created and not cancelled

engine == <<sessions, rr, owned, used, next_session_id, alive>>
errors == <<last_error, mine>>
vars == <<holder, call, calls, outcome, engine, errors>>

Ids == 1..MaxSessions
Id(t) == <<t, calls[t]>>
Caught(op) == op \in {"session_create", "submit_tokens", "step_decode"}

Init ==
  /\ holder = None
  /\ call = [t \in Threads |-> None] /\ calls = [t \in Threads |-> 0]
  /\ outcome = [t \in Threads |-> None]
  /\ sessions = {} /\ rr = {} /\ owned = [s \in Ids |-> 0] /\ used = 0
  /\ next_session_id = 1
  /\ last_error = None /\ mine = [t \in Threads |-> None]
  /\ alive = {}

Creating == Cardinality({t \in Threads : call[t] # None /\ call[t].op = "session_create"
                                          /\ call[t].at \in {"door", "inside"}})

(* A client only names sessions it was given and has not cancelled.         *)
Begin(t, op, sid) ==
  /\ call[t] = None /\ calls[t] < MaxCalls
  /\ op \in Ops \ {"last_error_message"}
  /\ op = "session_create" => next_session_id + Creating <= MaxSessions
  /\ op \in {"session_cancel", "submit_tokens"} => sid \in alive
  /\ op \in {"session_create", "step_decode"} => sid = 0
  /\ calls' = [calls EXCEPT ![t] = @ + 1]
  /\ call' = [call EXCEPT ![t] = [op |-> op, sid |-> sid, at |-> "door", rc |-> "ok", live |-> TRUE]]
  /\ UNCHANGED <<holder, outcome, engine, errors>>

(* engine_guard waits for the mutex and takes no notice of poison; the JNI *)
(* functions walk in.                                                       *)
Enter(t) ==
  /\ call[t] # None /\ call[t].at = "door"
  /\ Interface = "c" => holder = None
  /\ holder' = IF Interface = "c" THEN t ELSE None
  /\ call' = [call EXCEPT ![t].at = "inside"]
  /\ UNCHANGED <<calls, outcome, engine, errors>>

(* The method is over.  The functions that catch panics drop the guard     *)
(* with the closure and look at the result afterwards; the others still    *)
(* hold it.                                                                 *)
Leave(t, sid, rc) ==
  /\ holder' = IF holder = t /\ Caught(call[t].op) THEN None ELSE holder
  /\ call' = [call EXCEPT ![t] = [@ EXCEPT !.sid = sid, !.at = "result", !.rc = rc,
                                           !.live = sid \in alive]]

Inside(t, op) == call[t] # None /\ call[t].at = "inside" /\ call[t].op = op

CreateSession(t) ==
  /\ Inside(t, "session_create")
  /\ sessions' = sessions \cup {next_session_id}
  /\ alive' = alive \cup {next_session_id}
  /\ next_session_id' = next_session_id + 1
  /\ Leave(t, next_session_id, "ok")
  /\ UNCHANGED <<calls, outcome, rr, owned, used, errors>>

(* Mutant: the blocks are given back before the session is looked for, and *)
(* again with it.                                                           *)
CancelTwice(t) ==
  /\ Inside(t, "session_cancel")
  /\ LET s == call[t].sid IN
       /\ rr' = rr \ {s}
       /\ IF s \in sessions
          THEN /\ sessions' = sessions \ {s} /\ alive' = alive \ {s}
               /\ used' = used - 2 * owned[s] /\ owned' = [owned EXCEPT ![s] = 0]
               /\ Leave(t, s, "ok")
          ELSE UNCHANGED <<sessions, alive, used, owned>> /\ Leave(t, s, "unknown")
  /\ UNCHANGED <<calls, outcome, next_session_id, errors>>

(* cancel_session leaves the ring before it looks for the session.          *)
CancelSession(t) ==
  /\ Inside(t, "session_cancel")
  /\ LET s == call[t].sid IN
       /\ rr' = rr \ {s}
       /\ IF s \in sessions
          THEN /\ sessions' = sessions \ {s} /\ alive' = alive \ {s}
               /\ used' = used - owned[s] /\ owned' = [owned EXCEPT ![s] = 0]
               /\ Leave(t, s, "ok")
          ELSE UNCHANGED <<sessions, alive, used, owned>> /\ Leave(t, s, "unknown")
  /\ UNCHANGED <<calls, outcome, next_session_id, errors>>

Grown(s, n) ==
  /\ owned' = [owned EXCEPT ![s] = @ + n]
  /\ used' = used + n

(* submit_tokens works on the session in its place, and joins the ring     *)
(* when the prompt has been processed.                                      *)
Submit(t) ==
  /\ Inside(t, "submit_tokens")
  /\ LET s == call[t].sid IN
       \/ /\ s \notin sessions /\ Leave(t, s, "unknown") /\ UNCHANGED <<owned, used, rr>>
       \/ /\ s \in sessions /\ owned[s] < MaxBlocks
          /\ Grown(s, 1) /\ rr' = rr \cup {s} /\ Leave(t, s, "ok")
       \/ /\ s \in sessions
          /\ \E rc \in (IF Failures THEN {"failed"} ELSE {}) \cup (IF Panics THEN {"panicked"} ELSE {}) :
               Leave(t, s, rc)
          /\ \E n \in {0, 1} : owned[s] + n <= MaxBlocks /\ Grown(s, n)
          /\ UNCHANGED rr
  /\ UNCHANGED <<calls, outcome, sessions, next_session_id, alive, errors>>

(* decode_one_for_session takes a session of the ring out of both maps, or *)
(* there is nothing to decode.                                              *)
Take(t) ==
  /\ Inside(t, "step_decode")
  /\ IF rr \cap sessions = {}
     THEN Leave(t, 0, "nothing") /\ UNCHANGED sessions
     ELSE \E s \in rr \cap sessions :
            /\ sessions' = sessions \ {s}
            /\ call' = [call EXCEPT ![t].sid = s, ![t].at = "hand"]
            /\ UNCHANGED holder
  /\ UNCHANGED <<calls, outcome, rr, owned, used, next_session_id, alive, errors>>

InHand(t) == call[t] # None /\ call[t].at = "hand"

(* The runner is done, with or without a token: the session goes back.      *)
PutBack(t) ==
  /\ InHand(t)
  /\ LET s == call[t].sid IN
       \E rc \in {"ok"} \cup (IF Failures THEN {"failed"} ELSE {}), n \in {0, 1} :
          /\ owned[s] + n <= MaxBlocks /\ Grown(s, n)
          /\ sessions' = sessions \cup {s}
          /\ Leave(t, s, rc)
  /\ UNCHANGED <<calls, outcome, rr, next_session_id, alive, errors>>

(* Mutant: the panic ends the call with the mutex taken.                    *)
PanicKeepsLock(t) ==
  /\ InHand(t) /\ Panics /\ Interface = "c"
  /\ call' = [call EXCEPT ![t] = None]
  /\ UNCHANGED <<holder, calls, outcome, engine, errors>>

(* The runner panics: the closure unwinds, the session it held is dropped  *)
(* with its page table, and the blocks stay taken.                          *)
Panic(t) ==
  /\ InHand(t) /\ Panics /\ Interface = "c"
  /\ Leave(t, call[t].sid, "panicked")
  /\ UNCHANGED <<calls, outcome, engine, errors>>

IsError(rc) == rc \in {"unknown", "failed", "panicked"}

(* set_last_error, in the C interface only.                                 *)
Record(t) ==
  IF IsError(call[t].rc) /\ Interface = "c"
  THEN last_error' = Id(t) /\ mine' = [mine EXCEPT ![t] = Id(t)]
  ELSE UNCHANGED errors

(* The session a step_decode tells of: the JNI function writes neither of  *)
(* its output arrays.                                                       *)
Named(t) == IF Interface = "jni" /\ call[t].op = "step_decode" THEN 0 ELSE call[t].sid

Return(t) ==
  /\ call[t] # None /\ call[t].at = "result"
  /\ Record(t)
  /\ outcome' = [outcome EXCEPT ![t] =
       [op |-> call[t].op, rc |-> call[t].rc, sid |-> call[t].sid, live |-> call[t].live,
        out |-> Named(t), about |-> None, expected |-> None]]
  /\ holder' = IF holder = t THEN None ELSE holder
  /\ call' = [call EXCEPT ![t] = None]
  /\ UNCHANGED <<calls, engine>>

(* cellm_last_error_message takes the message out of the cell.              *)
LastErrorMessage(t) ==
  /\ call[t] = None /\ calls[t] < MaxCalls /\ "last_error_message" \in Ops
  /\ calls' = [calls EXCEPT ![t] = @ + 1]
  /\ outcome' = [outcome EXCEPT ![t] =
       [op |-> "last_error_message", rc |-> "ok", sid |-> 0, live |-> TRUE, out |-> 0,
        about |-> last_error, expected |-> mine[t]]]
  /\ last_error' = None
  /\ mine' = [mine EXCEPT ![t] = None]
  /\ UNCHANGED <<holder, call, engine>>

Step(t) ==
  \/ Enter(t) \/ CreateSession(t) \/ CancelSession(t) \/ Submit(t)
  \/ Take(t) \/ PutBack(t) \/ Panic(t) \/ Return(t)

Next ==
  \/ \E t \in Threads, op \in Ops, sid \in 0..MaxSessions : Begin(t, op, sid)
  \/ \E t \in Threads : LastErrorMessage(t)
  \/ \E t \in Threads : Step(t)

Spec == Init /\ [][Next]_vars /\ \A t \in Threads : WF_vars(Step(t))

-----------------------------------------------------------------------------
Held == {call[t].sid : t \in {u \in Threads : InHand(u)}}
Total(S) == SumFunctionOnSet(owned, S)

TypeOK ==
  /\ holder \in Threads \cup {None}
  /\ sessions \cup rr \subseteq Ids /\ alive \subseteq 1..(next_session_id - 1)
  /\ used \in Nat
  /\ call \in [Threads -> CallRecord \cup {None}]

(* A call on a session its client was given and has not cancelled is never *)
(* told that there is no such session, whatever other threads do.           *)
KnownSessions == \A t \in Threads : outcome[t] # None /\ outcome[t].rc = "unknown" => ~outcome[t].live

(* A session that was cancelled is not decoded for again: the ring names   *)
(* only sessions that exist.                                                *)
RingIsOfSessions == rr \subseteq sessions \cup Held

(* The blocks the allocator has given out are those of the sessions that   *)
(* exist: none is lost with a session, none is counted twice.               *)
BlocksAccounted == used = Total(sessions \cup Held)

(* Even when sessions are lost, no block is given back while a session     *)
(* still uses it.                                                           *)
BlocksNeverTakenBack == used >= Total(sessions \cup Held)

(* Behind the mutex the engine is its clients': what it answers, the ring  *)
(* and the pool are those of the sessions they were given, as long as the  *)
(* runner does not panic; and a panic takes no block back.                  *)
SessionsAreTheClients ==
  Interface = "c" =>
    /\ ~Panics => KnownSessions /\ RingIsOfSessions /\ BlocksAccounted
    /\ BlocksNeverTakenBack

(* A message is about the caller's own last failure, as it would be if     *)
(* every thread had a cell of its own.                                      *)
MessageIsMine ==
  \A t \in Threads : outcome[t] # None /\ outcome[t].op = "last_error_message" =>
     outcome[t].about = outcome[t].expected

(* A token that was produced is handed out under its session.               *)
TokenIsNamed ==
  \A t \in Threads : outcome[t] # None /\ outcome[t].op = "step_decode" /\ outcome[t].rc = "ok" =>
     outcome[t].out = outcome[t].sid

(* Every call returns: nobody waits for ever, not even after a panic of    *)
(* whoever held the mutex.                                                  *)
EveryCallReturns == \A t \in Threads : call[t] # None ~> call[t] = None
=============================================================================
