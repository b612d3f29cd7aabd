--------------------------- MODULE CallersProofs ----------------------------
(***************************************************************************)
(* The callers of the engine.                                              *)
(*                                                                         *)
(* Any number of threads may call the C interface at once: the mutex keeps *)
(* the engine's sessions, ring and pool those of its clients, although a   *)
(* decode takes a session out of the maps while it runs.                   *)
(*                                                                         *)
(* The Android chat, while no session is reset and no message is sent      *)
(* before the last job has counted its answer, is a whole conversation:    *)
(* every question once sent, in order, each with one answer at most.       *)
(*                                                                         *)
(* The iOS chats, while the engine is not chosen anew, show in each chat   *)
(* what was said in its own session, and a view with one chat shows it in  *)
(* order and no longer than the limit.  Whatever engines are chosen, that  *)
(* of the view keeps no session but the chats'; where each choice builds   *)
(* one and the user waits for it, none keeps a session that no chat can    *)
(* give back.                                                              *)
(***************************************************************************)
EXTENDS Callers, Induction, Filter

CONSTANTS MaxMessages, MaxResets, Capacity, MaxPrompt, Ends, Faults, Quick

VARIABLES messages, isGenerating, messageIdCounter, error, job, late, sent, resets, since, state,
  answer, said, cached, context, snapshot

(* The Android app.                                                        *)
Phone == INSTANCE AndroidChat

CONSTANTS Chats, MaxTok, Reloads, Stops, Patient, Fills, MaxSends, MaxBuilds, MaxLoops, MaxFails,
  MaxSaid

VARIABLES threads, born, current, building, built, decodeTask, sends, loops, states, count, rings

(* The iOS app; the states and the rings are those of its engines.         *)
Chat == INSTANCE ConcurrentChat WITH engine <- current, state <- states, rr <- rings

(* Sessions of the maps or in a decode's hand, and the calls that may yet  *)
(* create one.                                                             *)
Existing == sessions \cup Held
Creators == {t \in Threads : call[t] # None /\ call[t].op = "session_create"
                               /\ call[t].at \in {"door", "inside"}}

-----------------------------------------------------------------------------
(* The inductive invariant                                                 *)

(* What the variables range over.                                          *)
Typed ==
  /\ call \in [Threads -> CallRecord \cup {None}]
  /\ DOMAIN outcome = Threads
  /\ owned \in [Ids -> Nat] /\ used \in Int
  /\ next_session_id \in Nat \ {0}

(* Who is inside the engine holds its mutex.                               *)
Exclusive ==
  \A t \in Threads : call[t] # None /\ call[t].at \in {"inside", "hand"} => holder = t

(* Each call that is to create a session has an id left.                   *)
Room == next_session_id + Cardinality(Creators) <= MaxSessions + 1

(* What is in the maps or in a decode's hand is what clients were given;   *)
(* only a panic loses a session.  Ids not given yet own nothing.           *)
Clients ==
  /\ Existing \subseteq alive /\ alive \subseteq 1..(next_session_id - 1)
  /\ \A s \in Ids : s >= next_session_id => owned[s] = 0
  /\ ~Panics => alive \subseteq Existing /\ rr \subseteq Existing

(* A client that is told of no session has cancelled it.                   *)
Told ==
  ~Panics =>
    /\ \A t \in Threads :
         call[t] # None /\ call[t].at = "result" /\ call[t].rc = "unknown" => ~call[t].live
    /\ KnownSessions

(* The pool counts the blocks of the sessions; only a panic may lose some. *)
Accounts ==
  /\ used >= Total(Existing)
  /\ ~Panics => used = Total(Existing)

(* The invariant of any number of callers.                                 *)
CInv == Typed /\ Exclusive /\ Room /\ Clients /\ Told /\ Accounts

-----------------------------------------------------------------------------
(* Who has a session in hand                                               *)

(* What the constants are.                                                 *)
LEMMA Facts ==
  ASSUME CallersAssumption
  PROVE  /\ IsFiniteSet(Threads) /\ None \notin Threads /\ None \notin CallRecord
         /\ MaxSessions \in Nat /\ MaxSessions > 0 /\ Ids = 1..MaxSessions
         /\ IsFiniteSet(Ids)
  BY FS_Interval DEF CallersAssumption, Ids

(* A session is in hand when some thread's decode has taken it.            *)
LEMMA HeldIs == \A s : s \in Held <=> \E t \in Threads : InHand(t) /\ call[t].sid = s
  BY DEF Held

(* A thread that is inside the engine is there alone.                      *)
LEMMA Alone ==
  ASSUME Exclusive, NEW t \in Threads, call[t] # None, call[t].at \in {"inside", "hand"}
  PROVE  /\ holder = t
         /\ \A u \in Threads \ {t} : call[u] # None => call[u].at \notin {"inside", "hand"}
         /\ \A u \in Threads \ {t} : ~InHand(u)
  BY DEF Exclusive, InHand

(* So what is in hand is its session, or nothing.                          *)
LEMMA HeldBefore ==
  ASSUME Exclusive, NEW t \in Threads, call[t] # None, call[t].at \in {"inside", "hand"}
  PROVE  Held = IF call[t].at = "hand" THEN {call[t].sid} ELSE {}
<1>1. \A u \in Threads \ {t} : ~InHand(u)
  BY Alone
<1>2. InHand(t) <=> call[t].at = "hand"
  BY DEF InHand
<1> QED
  BY <1>1, <1>2, HeldIs

(* And after its step as well.                                             *)
LEMMA HeldAfter ==
  ASSUME Exclusive, NEW t \in Threads, call[t] # None, call[t].at \in {"inside", "hand"},
         \A u \in Threads \ {t} : call'[u] = call[u], call'[t] # None
  PROVE  Held' = IF call'[t].at = "hand" THEN {call'[t].sid} ELSE {}
<1>1. \A u \in Threads \ {t} : ~InHand(u)'
  BY Alone DEF InHand
<1>2. InHand(t)' <=> call'[t].at = "hand"
  BY DEF InHand
<1>3. \A s : s \in Held' <=> \E u \in Threads : InHand(u)' /\ call'[u].sid = s
  BY DEF Held
<1> QED
  BY <1>1, <1>2, <1>3

(* A step outside the engine moves no session.                             *)
LEMMA HeldSame ==
  ASSUME NEW t \in Threads, \A u \in Threads \ {t} : call'[u] = call[u],
         ~InHand(t), ~InHand(t)'
  PROVE  Held' = Held
<1>1. \A u \in Threads : /\ InHand(u)' <=> InHand(u)
                         /\ InHand(u) => call'[u].sid = call[u].sid
  BY DEF InHand
<1>2. \A s : s \in Held' <=> \E u \in Threads : InHand(u)' /\ call'[u].sid = s
  BY DEF Held
<1> QED
  BY <1>1, <1>2, HeldIs
-----------------------------------------------------------------------------
(* Sums of blocks                                                          *)

(* A session's blocks are part of the total, and the total without it is   *)
(* what is left.                                                           *)
LEMMA TotalWithout ==
  ASSUME NEW f \in [Ids -> Nat], IsFiniteSet(Ids), NEW S \in SUBSET Ids, NEW s \in S
  PROVE  /\ SumFunctionOnSet(f, S) = f[s] + SumFunctionOnSet(f, S \ {s})
         /\ SumFunctionOnSet(f, S) \in Nat /\ SumFunctionOnSet(f, S \ {s}) \in Nat
<1>1. IsFiniteSet(S) /\ \A x \in S : f[x] \in Nat
  BY FS_Subset
<1> QED
  BY <1>1, SumSplit

(* Blocks that a session gains or loses are gained or lost by the total.   *)
LEMMA TotalWith ==
  ASSUME NEW f \in [Ids -> Nat], IsFiniteSet(Ids), NEW S \in SUBSET Ids, NEW s \in S,
         NEW n \in Nat, NEW g, g = [f EXCEPT ![s] = n]
  PROVE  SumFunctionOnSet(g, S) = SumFunctionOnSet(f, S) - f[s] + n
<1>1. g \in [Ids -> Nat] /\ g[s] = n /\ \A x \in S \ {s} : g[x] = f[x]
  OBVIOUS
<1>2. IsFiniteSet(S \ {s})
  BY FS_Subset
<1>3. SumFunctionOnSet(g, S \ {s}) = SumFunctionOnSet(f, S \ {s})
  <2> DEFINE R == S \ {s}
  <2>1. IsFiniteSet(R) /\ \A x \in R : g[x] = f[x]
    BY <1>1, <1>2
  <2> HIDE DEF R
  <2>2. SumFunctionOnSet(g, R) = SumFunctionOnSet(f, R)
    BY ONLY <2>1, SumSame
  <2> QED
    BY <2>2 DEF R
<1>4. SumFunctionOnSet(g, S) = g[s] + SumFunctionOnSet(g, S \ {s})
  BY ONLY IsFiniteSet(Ids), S \in SUBSET Ids, s \in S, <1>1, TotalWithout
<1>5. /\ SumFunctionOnSet(f, S) = f[s] + SumFunctionOnSet(f, S \ {s})
      /\ SumFunctionOnSet(f, S \ {s}) \in Nat /\ f[s] \in Nat
  BY TotalWithout
<1> QED
  BY <1>1, <1>3, <1>4, <1>5

-----------------------------------------------------------------------------
(* The steps                                                               *)

(* A step that only moves a call outside the engine keeps what is inside.  *)
LEMMA OutsideKeeps ==
  ASSUME CallersAssumption, CInv, NEW t \in Threads, UNCHANGED engine,
         \A u \in Threads \ {t} : call'[u] = call[u], ~InHand(t), ~InHand(t)'
  PROVE  Clients' /\ Accounts' /\ Existing' = Existing
<1>1. Held' = Held /\ UNCHANGED <<sessions, rr, owned, used, next_session_id, alive>>
  BY HeldSame DEF engine
<1>2. Existing' = Existing
  BY <1>1 DEF Existing
<1>3. Total(Existing)' = Total(Existing)
  BY <1>1, <1>2 DEF Total
<1> QED
  BY <1>1, <1>2, <1>3 DEF Clients, Accounts, CInv

(* A method that is over leaves its thread at the result.                  *)
LEMMA LeaveFacts ==
  ASSUME Typed, NEW t \in Threads, call[t] # None, call[t].at \in {"inside", "hand"},
         Exclusive, CallersAssumption,
         NEW sid \in 0..MaxSessions, NEW rc \in {"ok", "unknown", "nothing", "failed", "panicked"},
         Leave(t, sid, rc)
  PROVE  /\ call' \in [Threads -> CallRecord \cup {None}]
         /\ \A u \in Threads \ {t} : call'[u] = call[u]
         /\ call'[t] # None /\ call'[t].at = "result" /\ call'[t].rc = rc
         /\ call'[t].op = call[t].op
         /\ sid \notin alive => ~call'[t].live
         /\ Held' = {}
         /\ Exclusive'
<1>1. call[t] \in CallRecord
  BY DEF Typed
<1> DEFINE b == sid \in alive
           r == [call[t] EXCEPT !.sid = sid, !.at = "result", !.rc = rc, !.live = b]
<1>2. r \in CallRecord /\ r.at = "result" /\ r.rc = rc /\ r.op = call[t].op
      /\ (sid \notin alive => ~r.live)
  <2>1. b \in BOOLEAN /\ (sid \notin alive => ~b)
    OBVIOUS
  <2> HIDE DEF b
  <2> QED
    BY <1>1, <2>1 DEF CallRecord
<1>3. call' = [call EXCEPT ![t] = r]
  BY DEF Leave
<1> HIDE DEF r
<1>4. /\ call' \in [Threads -> CallRecord \cup {None}] /\ call'[t] = r
      /\ \A u \in Threads \ {t} : call'[u] = call[u]
  BY <1>2, <1>3 DEF Typed
<1>5. call'[t] # None
  BY <1>2, <1>4, Facts
<1>6. Held' = {}
  BY <1>2, <1>4, <1>5, HeldAfter
<1>7. Exclusive'
  <2>1. \A u \in Threads \ {t} : call'[u] # None => call'[u].at \notin {"inside", "hand"}
    BY <1>4, Alone
  <2> QED
    BY <1>2, <1>4, <2>1 DEF Exclusive
<1> QED
  BY <1>2, <1>4, <1>5, <1>6, <1>7

(* What a call that is over tells.                                         *)
LEMMA ToldLater ==
  ASSUME Told, NEW t \in Threads, \A u \in Threads \ {t} : call'[u] = call[u],
         UNCHANGED outcome,
         ~Panics => (call'[t] # None /\ call'[t].at = "result" /\ call'[t].rc = "unknown" =>
                       ~call'[t].live)
  PROVE  Told'
  BY DEF Told, KnownSessions

(* Only a call that creates a session takes an id.                         *)
LEMMA RoomKept ==
  ASSUME Room, NEW t \in Threads, \A u \in Threads \ {t} : call'[u] = call[u],
         UNCHANGED next_session_id, t \in Creators <=> t \in Creators'
  PROVE  Room'
<1>1. Creators' = Creators
  BY DEF Creators
<1> QED
  BY <1>1 DEF Room

(* Only finitely many calls are to create a session.                       *)
LEMMA CreatorsFinite ==
  ASSUME CallersAssumption
  PROVE  IsFiniteSet(Creators) /\ Cardinality(Creators) \in Nat
<1>1. Creators \subseteq Threads
  BY DEF Creators
<1> QED
  BY <1>1, Facts, FS_Subset, FS_CardinalityType

(* A call begins: one that is to create a session has been counted in.     *)
LEMMA BeginInv ==
  ASSUME CallersAssumption, CInv, NEW t \in Threads, NEW op \in Ops, NEW sid \in 0..MaxSessions,
         Begin(t, op, sid)
  PROVE  CInv'
<1> DEFINE r == [op |-> op, sid |-> sid, at |-> "door", rc |-> "ok", live |-> TRUE]
<1>1. /\ call[t] = None /\ op \in AllOps \ {"last_error_message"}
      /\ op = "session_create" => next_session_id + Creating <= MaxSessions
      /\ call' = [call EXCEPT ![t] = r]
      /\ UNCHANGED <<holder, outcome, engine, errors>>
  BY DEF Begin, CallersAssumption
<1>2. r \in CallRecord /\ r # None /\ r.at = "door" /\ r.op = op
  <2>1. r \in CallRecord
    BY <1>1 DEF CallRecord
  <2>2. r.at = "door" /\ r.op = op
    OBVIOUS
  <2> HIDE DEF r
  <2> QED
    BY <2>1, <2>2, Facts
<1> HIDE DEF r
<1>3. /\ call' \in [Threads -> CallRecord \cup {None}] /\ call'[t] = r
      /\ \A u \in Threads \ {t} : call'[u] = call[u]
  BY <1>1, <1>2 DEF CInv, Typed
<1>4. Clients' /\ Accounts'
  BY <1>1, <1>2, <1>3, OutsideKeeps DEF InHand
<1>5. Typed' /\ Exclusive'
  BY <1>1, <1>2, <1>3 DEF CInv, Typed, Exclusive, engine
<1>6. Told'
  BY <1>1, <1>2, <1>3, ToldLater DEF CInv
<1>7. Room'
  <2>1. CASE op # "session_create"
    <3>1. t \notin Creators /\ t \notin Creators'
      BY <1>1, <1>2, <1>3, <2>1 DEF Creators
    <3> QED
      BY <1>1, <1>3, <3>1, RoomKept DEF CInv, engine
  <2>2. CASE op = "session_create"
    <3>1. Creators' = Creators \cup {t} /\ t \notin Creators
      BY <1>1, <1>2, <1>3, <2>2 DEF Creators
    <3>2. Cardinality(Creators') = Cardinality(Creators) + 1
      BY <3>1, CreatorsFinite, FS_AddElement
    <3>3. next_session_id + Cardinality(Creators) <= MaxSessions
      BY <1>1, <2>2 DEF Creating, Creators
    <3>4. next_session_id' = next_session_id /\ next_session_id \in Nat
      BY <1>1 DEF CInv, Typed, engine
    <3> QED
      BY <3>2, <3>3, <3>4, CreatorsFinite, Facts DEF Room
  <2> QED
    BY <2>1, <2>2
<1> QED
  BY <1>4, <1>5, <1>6, <1>7 DEF CInv

(* Who enters finds the engine empty.                                      *)
LEMMA EnterInv ==
  ASSUME CallersAssumption, Interface = "c", CInv, NEW t \in Threads, Enter(t)
  PROVE  CInv'
<1>1. /\ call[t] # None /\ call[t].at = "door" /\ holder = None /\ holder' = t
      /\ call' = [call EXCEPT ![t].at = "inside"]
      /\ UNCHANGED <<calls, outcome, engine, errors>>
  BY DEF Enter
<1>2. call[t] \in CallRecord
  BY <1>1 DEF CInv, Typed
<1>3. /\ call' \in [Threads -> CallRecord \cup {None}]
      /\ call'[t] \in CallRecord /\ call'[t].at = "inside" /\ call'[t].op = call[t].op
      /\ \A u \in Threads \ {t} : call'[u] = call[u]
  BY <1>1, <1>2 DEF CInv, Typed, CallRecord
<1>4. call'[t] # None
  BY <1>3, Facts
<1>5. Clients' /\ Accounts'
  BY <1>1, <1>3, <1>4, OutsideKeeps DEF InHand
<1>6. Exclusive'
  <2>1. \A u \in Threads : call[u] # None => call[u].at \notin {"inside", "hand"}
    BY <1>1, Facts DEF CInv, Exclusive
  <2> QED
    BY <1>1, <1>3, <2>1 DEF Exclusive
<1>7. Typed'
  BY <1>1, <1>3 DEF CInv, Typed, engine
<1>8. Told'
  BY <1>1, <1>3, ToldLater DEF CInv
<1>9. Room'
  <2>1. t \in Creators <=> t \in Creators'
    BY <1>1, <1>3, <1>4 DEF Creators
  <2> QED
    BY <1>1, <1>3, <2>1, RoomKept DEF CInv, engine
<1> QED
  BY <1>5, <1>6, <1>7, <1>8, <1>9 DEF CInv
(* What a method inside the engine has to leave behind.                    *)
LEMMA MethodOver ==
  ASSUME CallersAssumption, CInv, NEW t \in Threads,
         call[t] # None, call[t].at \in {"inside", "hand"},
         NEW sid \in 0..MaxSessions, NEW rc \in {"ok", "unknown", "nothing", "failed", "panicked"},
         Leave(t, sid, rc), rc = "unknown" => (~Panics => sid \notin alive),
         UNCHANGED outcome, owned' \in [Ids -> Nat], used' \in Int,
         UNCHANGED next_session_id, call[t].op = "session_create" => call[t].at = "hand",
         Clients', Accounts'
  PROVE  CInv'
<1>1. Typed /\ Exclusive /\ Told /\ Room
  BY DEF CInv
<1>2. /\ call' \in [Threads -> CallRecord \cup {None}]
      /\ \A u \in Threads \ {t} : call'[u] = call[u]
      /\ call'[t] # None /\ call'[t].at = "result" /\ call'[t].rc = rc
      /\ sid \notin alive => ~call'[t].live
      /\ Exclusive'
  BY <1>1, LeaveFacts
<1>3. Typed'
  BY <1>1, <1>2 DEF Typed
<1>4. Told'
  BY <1>1, <1>2, ToldLater
<1>5. Room'
  <2>1. t \notin Creators /\ t \notin Creators'
    BY <1>2 DEF Creators
  <2> QED
    BY <1>1, <1>2, <2>1, RoomKept
<1> QED
  BY <1>2, <1>3, <1>4, <1>5 DEF CInv

(* The sessions that exist have ids.                                       *)
LEMMA IdsExist ==
  ASSUME CallersAssumption, CInv
  PROVE  /\ Existing \subseteq Ids /\ alive \subseteq Ids
         /\ next_session_id \in Nat /\ next_session_id <= MaxSessions + 1
<1>1. Cardinality(Creators) \in Nat
  BY CreatorsFinite
<1>2. next_session_id \in Nat /\ next_session_id <= MaxSessions + 1
  BY <1>1, Facts DEF CInv, Typed, Room
<1> QED
  BY <1>2, Facts DEF CInv, Clients

(* A session that exists gets blocks.                                      *)
LEMMA GrownFacts ==
  ASSUME CallersAssumption, CInv, NEW s \in Existing, NEW n \in {0, 1}, Grown(s, n),
         Existing' = Existing, UNCHANGED <<next_session_id, alive>>, rr' \subseteq rr \cup Existing
  PROVE  Clients' /\ Accounts' /\ owned' \in [Ids -> Nat] /\ used' \in Int
<1>1. /\ s \in Ids /\ Existing \in SUBSET Ids /\ IsFiniteSet(Ids) /\ s \in alive
      /\ owned \in [Ids -> Nat] /\ used \in Int /\ next_session_id \in Nat
      /\ alive \subseteq 1..(next_session_id - 1)
  BY IdsExist, Facts DEF CInv, Typed, Clients
<1> DEFINE m == owned[s] + n
<1>2. owned' = [owned EXCEPT ![s] = m] /\ used' = used + n /\ m \in Nat
  BY <1>1 DEF Grown
<1> HIDE DEF m
<1>3. SumFunctionOnSet(owned', Existing) = SumFunctionOnSet(owned, Existing) - owned[s] + m
  BY ONLY <1>1, <1>2, s \in Existing, TotalWith
<1>4. SumFunctionOnSet(owned, Existing) \in Nat
  BY ONLY <1>1, s \in Existing, TotalWithout
<1>5. Total(Existing)' = Total(Existing) + n /\ Total(Existing) \in Nat
  <2>1. owned[s] \in Nat
    BY <1>1
  <2> QED
    BY <1>3, <1>4, <2>1 DEF Total, m
<1>6. Accounts'
  BY <1>1, <1>2, <1>5 DEF Accounts, CInv
<1>7. Clients'
  BY <1>1, <1>2 DEF Clients, CInv
<1> QED
  BY <1>1, <1>2, <1>6, <1>7

(* A new session gets the id that was kept for it, and owns nothing.       *)
LEMMA CreateInv ==
  ASSUME CallersAssumption, CInv, NEW t \in Threads, CreateSession(t)
  PROVE  CInv'
<1> DEFINE x == next_session_id
<1>1. /\ call[t] # None /\ call[t].at = "inside" /\ call[t].op = "session_create"
      /\ sessions' = sessions \cup {x} /\ alive' = alive \cup {x}
      /\ x' = x + 1 /\ Leave(t, x, "ok")
      /\ UNCHANGED <<calls, outcome, rr, owned, used, errors>>
  BY DEF CreateSession, Inside
<1>2. t \in Creators
  BY <1>1 DEF Creators
<1>3. /\ Cardinality(Creators \ {t}) = Cardinality(Creators) - 1
      /\ Cardinality(Creators) \in Nat /\ Cardinality(Creators \ {t}) \in Nat
  BY <1>2, CreatorsFinite, FS_RemoveElement, FS_CardinalityType, FS_Subset
<1>4. x \in Nat /\ x > 0 /\ x <= MaxSessions /\ x \in Ids
  BY <1>3, Facts DEF CInv, Typed, Room
<1>5. Typed /\ Exclusive /\ Told /\ Room
  BY DEF CInv
<1>6. x \in 0..MaxSessions
  BY <1>4, Facts
<1>7. /\ call' \in [Threads -> CallRecord \cup {None}]
      /\ \A u \in Threads \ {t} : call'[u] = call[u]
      /\ call'[t] # None /\ call'[t].at = "result" /\ call'[t].rc = "ok"
      /\ Held' = {} /\ Exclusive'
  BY <1>1, <1>5, <1>6, LeaveFacts
<1>8. Typed'
  BY <1>1, <1>4, <1>5, <1>7 DEF Typed
<1>9. Told'
  BY <1>1, <1>5, <1>7, ToldLater
<1>10. Room'
  <2>1. Creators' = Creators \ {t}
    BY <1>7 DEF Creators
  <2> QED
    BY <1>1, <1>3, <1>4, <1>5, <2>1, Facts DEF Room
<1>11. Held = {} /\ Existing = sessions /\ Existing' = sessions \cup {x}
  BY <1>1, <1>5, <1>7, HeldBefore DEF Existing
<1>12. Clients'
  <2>1. /\ Existing \subseteq alive /\ alive \subseteq 1..(x - 1)
        /\ \A i \in Ids : i >= x => owned[i] = 0
        /\ ~Panics => alive \subseteq Existing /\ rr \subseteq Existing
    BY DEF CInv, Clients
  <2>2. /\ alive' = alive \cup {x} /\ Existing' = Existing \cup {x} /\ x' = x + 1
        /\ UNCHANGED <<rr, owned>>
    BY <1>1, <1>11
  <2>3. Existing' \subseteq alive' /\ alive' \subseteq 1..(x' - 1)
    BY <1>4, <2>1, <2>2
  <2>4. \A i \in Ids : i >= x' => owned'[i] = 0
    BY <1>4, <2>1, <2>2, Facts
  <2>5. ~Panics => alive' \subseteq Existing' /\ rr' \subseteq Existing'
    BY <2>1, <2>2
  <2> QED
    BY <2>3, <2>4, <2>5 DEF Clients
<1>13. Accounts'
  <2> DEFINE S == sessions \cup {x}
  <2>1. x \notin sessions /\ owned[x] = 0 /\ owned \in [Ids -> Nat] /\ sessions \subseteq Ids
    BY <1>4, <1>11, IdsExist DEF CInv, Clients, Typed
  <2>2. S \in SUBSET Ids /\ x \in S /\ S \ {x} = sessions
    BY <1>4, <2>1
  <2> HIDE DEF S, x
  <2>3. SumFunctionOnSet(owned, S) = owned[x] + SumFunctionOnSet(owned, S \ {x})
    BY <2>1, <2>2, Facts, TotalWithout
  <2>4. SumFunctionOnSet(owned, S \ {x}) \in Nat
    BY <2>1, <2>2, Facts, TotalWithout
  <2>5. SumFunctionOnSet(owned, S) = SumFunctionOnSet(owned, sessions)
    BY <2>1, <2>2, <2>3, <2>4
  <2>6. /\ Total(Existing)' = SumFunctionOnSet(owned, S)
        /\ Total(Existing) = SumFunctionOnSet(owned, sessions)
    BY <1>1, <1>11 DEF Total, S
  <2> QED
    BY <1>1, <2>5, <2>6 DEF CInv, Accounts
<1> QED
  BY <1>7, <1>8, <1>9, <1>10, <1>12, <1>13 DEF CInv

(* A session that is cancelled gives its blocks back; without a panic it   *)
(* is there, because no decode has it in hand.                             *)
LEMMA CancelInv ==
  ASSUME CallersAssumption, CInv, NEW t \in Threads, CancelSession(t)
  PROVE  CInv'
<1> DEFINE s == call[t].sid
<1>1. /\ call[t] # None /\ call[t].at = "inside" /\ call[t].op = "session_cancel"
      /\ rr' = rr \ {s}
      /\ IF s \in sessions
         THEN /\ sessions' = sessions \ {s} /\ alive' = alive \ {s}
              /\ used' = used - owned[s] /\ owned' = [owned EXCEPT ![s] = 0]
              /\ Leave(t, s, "ok")
         ELSE UNCHANGED <<sessions, alive, used, owned>> /\ Leave(t, s, "unknown")
      /\ UNCHANGED <<calls, outcome, next_session_id, errors>>
  BY DEF CancelSession, Inside
<1>2. s \in 0..MaxSessions
  BY <1>1 DEF CInv, Typed, CallRecord
<1>3. Typed /\ Exclusive
  BY DEF CInv
<1>4. \E rc \in {"ok", "unknown"} : Leave(t, s, rc)
  BY <1>1
<1>5. Held = {} /\ Held' = {}
  BY <1>1, <1>2, <1>3, <1>4, HeldBefore, LeaveFacts
<1>6. Existing = sessions /\ Existing' = sessions'
  BY <1>5 DEF Existing
<1>7. /\ owned \in [Ids -> Nat] /\ used \in Int /\ sessions \in SUBSET Ids
      /\ IsFiniteSet(Ids) /\ next_session_id \in Nat
  BY <1>3, <1>6, IdsExist, Facts DEF Typed
<1>8. CASE s \in sessions
  <2>1. owned' \in [Ids -> Nat] /\ used' \in Int /\ s \in Ids /\ owned'[s] = 0
    BY <1>1, <1>7, <1>8
  <2>2. /\ SumFunctionOnSet(owned', sessions) = SumFunctionOnSet(owned, sessions) - owned[s] + 0
        /\ SumFunctionOnSet(owned, sessions) \in Nat
    <3>1. owned' = [owned EXCEPT ![s] = 0] /\ 0 \in Nat
      BY <1>1, <1>8
    <3> HIDE DEF s
    <3>2. SumFunctionOnSet(owned', sessions) = SumFunctionOnSet(owned, sessions) - owned[s] + 0
      BY ONLY <1>7, <1>8, <3>1, TotalWith
    <3> QED
      BY ONLY <1>7, <1>8, <3>2, TotalWithout
  <2>3. /\ SumFunctionOnSet(owned', sessions) = owned'[s] + SumFunctionOnSet(owned', sessions \ {s})
        /\ SumFunctionOnSet(owned', sessions \ {s}) \in Nat
    BY ONLY <1>7, <1>8, <2>1, TotalWithout
  <2>4. owned[s] \in Nat
    BY <1>7, <2>1
  <2>5. Total(Existing)' = Total(Existing) - owned[s] /\ Total(Existing) \in Nat
    <3>1. Existing' = sessions \ {s}
      BY <1>1, <1>6, <1>8
    <3>2. /\ Total(Existing)' = SumFunctionOnSet(owned', sessions \ {s})
          /\ Total(Existing) = SumFunctionOnSet(owned, sessions)
      BY <1>6, <3>1 DEF Total
    <3> HIDE DEF s
    <3> QED
      BY <2>1, <2>2, <2>3, <2>4, <3>2
  <2>6. Accounts'
    BY <1>1, <1>7, <1>8, <2>4, <2>5 DEF CInv, Accounts
  <2>7. Clients'
    BY <1>1, <1>6, <1>7, <1>8, <2>1 DEF CInv, Clients
  <2> HIDE DEF s
  <2> QED
    BY <1>1, <1>2, <1>8, <2>1, <2>6, <2>7, MethodOver
<1>9. CASE s \notin sessions
  <2>1. UNCHANGED <<sessions, alive, used, owned>> /\ Leave(t, s, "unknown")
    BY <1>1, <1>9
  <2>2. ~Panics => s \notin alive
    BY <1>6, <1>9 DEF CInv, Clients
  <2>3. Clients'
    BY <1>1, <1>6, <1>9, <2>1, <2>2 DEF CInv, Clients
  <2>4. Accounts'
    BY <1>6, <2>1 DEF CInv, Accounts, Total
  <2> HIDE DEF s
  <2> QED
    BY <1>1, <1>2, <1>7, <2>1, <2>2, <2>3, <2>4, MethodOver
<1> QED
  BY <1>8, <1>9
(* A step that changes no session, ring or block.                          *)
LEMMA NothingMoved ==
  ASSUME CInv, UNCHANGED <<owned, used, rr, next_session_id, alive>>, Existing' = Existing
  PROVE  Clients' /\ Accounts'
<1>1. Total(Existing)' = Total(Existing)
  BY DEF Total
<1> QED
  BY <1>1 DEF CInv, Clients, Accounts

(* A prompt is worked on in its place, and may fail with its blocks taken. *)
LEMMA SubmitInv ==
  ASSUME CallersAssumption, CInv, NEW t \in Threads, Submit(t)
  PROVE  CInv'
<1> DEFINE s == call[t].sid
<1>1. /\ call[t] # None /\ call[t].at = "inside" /\ call[t].op = "submit_tokens"
      /\ UNCHANGED <<calls, outcome, sessions, next_session_id, alive, errors>>
  BY DEF Submit, Inside
<1>2. s \in 0..MaxSessions
  BY <1>1 DEF CInv, Typed, CallRecord
<1>3. Typed /\ Exclusive /\ owned \in [Ids -> Nat] /\ used \in Int
  BY DEF CInv, Typed
<1>4. \E rc \in {"ok", "unknown", "failed", "panicked"} : Leave(t, s, rc)
  BY DEF Submit
<1>5. Held = {} /\ Held' = {}
  BY <1>1, <1>2, <1>3, <1>4, HeldBefore, LeaveFacts
<1>6. Existing = sessions /\ Existing' = Existing
  BY <1>1, <1>5 DEF Existing
<1>7. CASE s \notin sessions /\ Leave(t, s, "unknown") /\ UNCHANGED <<owned, used, rr>>
  <2>1. ~Panics => s \notin alive
    BY <1>6, <1>7 DEF CInv, Clients
  <2>2. Clients' /\ Accounts'
    BY <1>1, <1>6, <1>7, NothingMoved
  <2> HIDE DEF s
  <2> QED
    BY <1>1, <1>2, <1>3, <1>7, <2>1, <2>2, MethodOver
<1>8. ASSUME s \in sessions, NEW n \in {0, 1}, Grown(s, n), rr' \in {rr, rr \cup {s}},
             NEW rc \in {"ok", "failed", "panicked"}, Leave(t, s, rc)
      PROVE  CInv'
  <2> HIDE DEF s
  <2>1. s \in Existing /\ rr' \subseteq rr \cup Existing
    BY <1>6, <1>8
  <2>2. Clients' /\ Accounts' /\ owned' \in [Ids -> Nat] /\ used' \in Int
    BY <1>1, <1>6, <1>8, <2>1, GrownFacts
  <2> QED
    BY <1>1, <1>2, <1>8, <2>2, MethodOver
<1>9. CASE /\ s \in sessions /\ owned[s] < MaxBlocks
           /\ Grown(s, 1) /\ rr' = rr \cup {s} /\ Leave(t, s, "ok")
  BY <1>8, <1>9
<1>10. CASE /\ s \in sessions
            /\ \E rc \in (IF Failures THEN {"failed"} ELSE {})
                          \cup (IF Panics THEN {"panicked"} ELSE {}) : Leave(t, s, rc)
            /\ \E n \in {0, 1} : owned[s] + n <= MaxBlocks /\ Grown(s, n)
            /\ UNCHANGED rr
  <2>1. PICK rc \in {"failed", "panicked"} : Leave(t, s, rc)
    BY <1>10
  <2>2. PICK n \in {0, 1} : Grown(s, n)
    BY <1>10
  <2> QED
    BY <1>8, <1>10, <2>1, <2>2
<1> QED
  BY <1>7, <1>9, <1>10 DEF Submit

(* A decode takes a session of the ring in hand.                           *)
LEMMA TakeInv ==
  ASSUME CallersAssumption, CInv, NEW t \in Threads, Take(t)
  PROVE  CInv'
<1>1. /\ call[t] # None /\ call[t].at = "inside" /\ call[t].op = "step_decode"
      /\ UNCHANGED <<calls, outcome, rr, owned, used, next_session_id, alive, errors>>
  BY DEF Take, Inside
<1>2. Typed /\ Exclusive /\ Told /\ Room /\ owned \in [Ids -> Nat] /\ used \in Int
  BY DEF CInv, Typed
<1>3. Held = {} /\ Existing = sessions
  BY <1>1, <1>2, HeldBefore DEF Existing
<1>4. CASE rr \cap sessions = {}
  <2>1. Leave(t, 0, "nothing") /\ UNCHANGED sessions
    BY <1>4 DEF Take
  <2>2. 0 \in 0..MaxSessions
    BY Facts
  <2>3. Held' = {}
    BY <1>1, <1>2, <2>1, <2>2, LeaveFacts
  <2>4. Existing' = Existing
    BY <1>3, <2>1, <2>3 DEF Existing
  <2>5. Clients' /\ Accounts'
    BY <1>1, <2>4, NothingMoved
  <2> QED
    BY <1>1, <1>2, <2>1, <2>2, <2>5, MethodOver
<1>5. CASE rr \cap sessions # {}
  <2>1. PICK s \in rr \cap sessions :
            /\ sessions' = sessions \ {s}
            /\ call' = [call EXCEPT ![t].sid = s, ![t].at = "hand"]
            /\ UNCHANGED holder
    BY <1>5 DEF Take
  <2>2. call[t] \in CallRecord /\ s \in 0..MaxSessions
    <3>1. s \in Ids
      BY <1>3, IdsExist
    <3> QED
      BY <1>1, <3>1, Facts DEF CInv, Typed
  <2>3. /\ call' \in [Threads -> CallRecord \cup {None}]
        /\ call'[t] \in CallRecord /\ call'[t].at = "hand" /\ call'[t].sid = s
        /\ \A u \in Threads \ {t} : call'[u] = call[u]
    BY <1>2, <2>1, <2>2 DEF Typed, CallRecord
  <2>4. call'[t] # None
    BY <2>3, Facts
  <2>5. Held' = {s}
    BY <1>1, <1>2, <2>3, <2>4, HeldAfter
  <2>6. Existing' = Existing
    BY <1>3, <2>1, <2>5 DEF Existing
  <2>7. Clients' /\ Accounts'
    BY <1>1, <2>6, NothingMoved
  <2>8. Exclusive'
    <3>1. \A u \in Threads \ {t} : call'[u] # None => call'[u].at \notin {"inside", "hand"}
      BY <1>1, <1>2, <2>3, Alone
    <3>2. holder' = t
      BY <1>1, <1>2, <2>1, Alone
    <3> QED
      BY <3>1, <3>2 DEF Exclusive
  <2>9. Told'
    BY <1>1, <1>2, <2>3, ToldLater
  <2>10. Room'
    <3>1. call'[t].op = call[t].op
      BY <1>2, <2>1, <2>2 DEF Typed, CallRecord
    <3>2. t \notin Creators /\ t \notin Creators'
      BY <1>1, <3>1 DEF Creators
    <3> QED
      BY <1>1, <1>2, <2>3, <3>2, RoomKept
  <2>11. Typed'
    BY <1>1, <1>2, <2>3 DEF Typed
  <2> QED
    BY <2>7, <2>8, <2>9, <2>10, <2>11 DEF CInv
<1> QED
  BY <1>4, <1>5

(* The session goes back, with its blocks.                                 *)
LEMMA PutBackInv ==
  ASSUME CallersAssumption, CInv, NEW t \in Threads, PutBack(t)
  PROVE  CInv'
<1> DEFINE s == call[t].sid
<1>1. /\ call[t] # None /\ call[t].at = "hand"
      /\ UNCHANGED <<calls, outcome, rr, next_session_id, alive, errors>>
  BY DEF PutBack, InHand
<1>2. PICK rc \in {"ok", "failed"}, n \in {0, 1} :
        Grown(s, n) /\ sessions' = sessions \cup {s} /\ Leave(t, s, rc)
  BY DEF PutBack
<1>3. s \in 0..MaxSessions /\ Typed /\ Exclusive
  BY <1>1 DEF CInv, Typed, CallRecord
<1>4. Held = {s} /\ Held' = {}
  BY <1>1, <1>2, <1>3, HeldBefore, LeaveFacts
<1>5. s \in Existing /\ Existing' = Existing
  BY <1>2, <1>4 DEF Existing
<1> HIDE DEF s
<1>6. Clients' /\ Accounts' /\ owned' \in [Ids -> Nat] /\ used' \in Int
  BY <1>1, <1>2, <1>5, GrownFacts
<1> QED
  BY <1>1, <1>2, <1>3, <1>6, MethodOver

(* A panic loses the session in hand, but not its blocks.                  *)
LEMMA PanicInv ==
  ASSUME CallersAssumption, CInv, NEW t \in Threads, Panic(t)
  PROVE  CInv'
<1> DEFINE s == call[t].sid
<1>1. /\ call[t] # None /\ call[t].at = "hand" /\ Panics
      /\ Leave(t, s, "panicked") /\ UNCHANGED <<calls, outcome, engine, errors>>
  BY DEF Panic, InHand
<1>2. UNCHANGED <<sessions, rr, owned, used, next_session_id, alive>>
  BY <1>1 DEF engine
<1>3. /\ s \in 0..MaxSessions /\ Typed /\ Exclusive
      /\ owned \in [Ids -> Nat] /\ used \in Int
  BY <1>1 DEF CInv, Typed, CallRecord
<1>4. Held = {s} /\ Held' = {}
  BY <1>1, <1>3, HeldBefore, LeaveFacts
<1> HIDE DEF s
<1>5. Existing = sessions \cup {s} /\ Existing' = sessions
  BY <1>2, <1>4 DEF Existing
<1>6. Clients'
  BY <1>1, <1>2, <1>5 DEF CInv, Clients
<1>7. Total(Existing)' = SumFunctionOnSet(owned, sessions)
      /\ Total(Existing) = SumFunctionOnSet(owned, sessions \cup {s})
  BY <1>2, <1>5 DEF Total
<1>8. SumFunctionOnSet(owned, sessions) <= SumFunctionOnSet(owned, sessions \cup {s})
      /\ SumFunctionOnSet(owned, sessions) \in Int
      /\ SumFunctionOnSet(owned, sessions \cup {s}) \in Int
  <2> DEFINE S == sessions \cup {s}
  <2>1. S \in SUBSET Ids /\ s \in S /\ IsFiniteSet(Ids)
    BY <1>5, IdsExist, Facts
  <2>2. S \ {s} = sessions \/ S = sessions
    OBVIOUS
  <2> HIDE DEF S
  <2>3. /\ SumFunctionOnSet(owned, S) = owned[s] + SumFunctionOnSet(owned, S \ {s})
        /\ SumFunctionOnSet(owned, S) \in Nat /\ SumFunctionOnSet(owned, S \ {s}) \in Nat
    BY ONLY <1>3, <2>1, TotalWithout
  <2>4. owned[s] \in Nat
    BY <1>3, <2>1
  <2>5. /\ SumFunctionOnSet(owned, sessions) <= SumFunctionOnSet(owned, S)
        /\ SumFunctionOnSet(owned, sessions) \in Int
    <3>1. CASE S = sessions
      BY ONLY <2>3, <3>1
    <3>2. CASE S \ {s} = sessions
      <4> DEFINE Sum(T) == SumFunctionOnSet(owned, T)
      <4>1. Sum(S \ {s}) = Sum(sessions)
        BY <3>2
      <4>2. Sum(S) = owned[s] + Sum(S \ {s}) /\ Sum(S) \in Nat /\ Sum(S \ {s}) \in Nat
        BY <2>3
      <4> HIDE DEF Sum
      <4>3. Sum(sessions) <= Sum(S) /\ Sum(sessions) \in Int
        BY ONLY <2>4, <4>1, <4>2
      <4> QED
        BY ONLY <4>3 DEF Sum
    <3> QED
      BY <2>2, <3>1, <3>2
  <2> QED
    BY <2>3, <2>5 DEF S
<1>9. Accounts'
  BY <1>1, <1>2, <1>3, <1>7, <1>8 DEF CInv, Accounts
<1> QED
  BY <1>1, <1>2, <1>3, <1>6, <1>9, MethodOver

(* The call returns, and gives the mutex back if it still has it.          *)
LEMMA ReturnInv ==
  ASSUME CallersAssumption, CInv, NEW t \in Threads, Return(t)
  PROVE  CInv'
<1>1. /\ call[t] # None /\ call[t].at = "result"
      /\ outcome' = [outcome EXCEPT ![t] =
           [op |-> call[t].op, rc |-> call[t].rc, sid |-> call[t].sid, live |-> call[t].live,
            out |-> Named(t), about |-> None, expected |-> None]]
      /\ holder' = IF holder = t THEN None ELSE holder
      /\ call' = [call EXCEPT ![t] = None]
      /\ UNCHANGED <<calls, engine>>
  BY DEF Return
<1>2. Typed /\ Exclusive /\ Told /\ Room
  BY DEF CInv
<1>3. /\ call' \in [Threads -> CallRecord \cup {None}] /\ call'[t] = None
      /\ \A u \in Threads \ {t} : call'[u] = call[u]
  BY <1>1, <1>2 DEF Typed
<1>4. Clients' /\ Accounts'
  BY <1>1, <1>3, OutsideKeeps DEF InHand
<1>5. /\ DOMAIN outcome' = Threads /\ outcome'[t].rc = call[t].rc /\ outcome'[t].live = call[t].live
      /\ \A u \in Threads \ {t} : outcome'[u] = outcome[u]
  BY <1>1, <1>2 DEF Typed
<1>6. Typed' /\ Exclusive'
  BY <1>1, <1>2, <1>3, <1>5 DEF Typed, Exclusive, engine
<1>7. Told'
  BY <1>1, <1>2, <1>3, <1>5 DEF Told, KnownSessions
<1>8. Room'
  <2>1. t \notin Creators /\ t \notin Creators'
    BY <1>1, <1>3 DEF Creators
  <2> QED
    BY <1>1, <1>2, <1>3, <2>1, RoomKept DEF engine
<1> QED
  BY <1>4, <1>6, <1>7, <1>8 DEF CInv

(* Asking for the last error touches no session.                           *)
LEMMA LastErrorInv ==
  ASSUME CallersAssumption, CInv, NEW t \in Threads, LastErrorMessage(t)
  PROVE  CInv'
<1>1. /\ outcome' = [outcome EXCEPT ![t] =
           [op |-> "last_error_message", rc |-> "ok", sid |-> 0, live |-> TRUE, out |-> 0,
            about |-> last_error, expected |-> mine[t]]]
      /\ call[t] = None /\ UNCHANGED <<holder, call, engine>>
  BY DEF LastErrorMessage
<1>2. Typed /\ Exclusive /\ Told /\ Room
  BY DEF CInv
<1>3. Clients' /\ Accounts'
  BY <1>1, OutsideKeeps DEF InHand
<1>4. /\ DOMAIN outcome' = Threads /\ outcome'[t].rc = "ok"
      /\ \A u \in Threads \ {t} : outcome'[u] = outcome[u]
  BY <1>1, <1>2 DEF Typed
<1>5. Typed' /\ Exclusive'
  BY <1>1, <1>2, <1>4 DEF Typed, Exclusive, engine
<1>6. Told'
  BY <1>1, <1>2, <1>4 DEF Told, KnownSessions
<1>7. Room'
  BY <1>1, <1>2, RoomKept DEF Creators, engine
<1> QED
  BY <1>3, <1>5, <1>6, <1>7 DEF CInv

-----------------------------------------------------------------------------
(* The invariant of the specification                                      *)

(* At first there is no session and no call.                               *)
LEMMA CInvInit ==
  ASSUME CallersAssumption, Init
  PROVE  CInv
<1>1. /\ holder = None /\ call = [t \in Threads |-> None] /\ outcome = [t \in Threads |-> None]
      /\ sessions = {} /\ rr = {} /\ owned = [s \in Ids |-> 0] /\ used = 0
      /\ next_session_id = 1 /\ alive = {}
  BY DEF Init
<1>2. Creators = {} /\ Held = {} /\ Existing = {}
  BY <1>1 DEF Creators, Held, InHand, Existing
<1>3. Room
  BY <1>1, <1>2, FS_EmptySet, Facts DEF Room
<1>4. Accounts
  BY <1>1, <1>2, SumEmpty DEF Accounts, Total
<1>5. Typed /\ Exclusive /\ Clients /\ Told
  BY <1>1, <1>2 DEF Typed, Exclusive, Clients, Told, KnownSessions
<1> QED
  BY <1>3, <1>4, <1>5 DEF CInv

(* One step of any thread.                                                 *)
LEMMA CInvNext ==
  ASSUME CallersAssumption, Interface = "c", CInv, [Next]_vars
  PROVE  CInv'
<1>1. CASE \E t \in Threads, op \in Ops, sid \in 0..MaxSessions : Begin(t, op, sid)
  BY <1>1, BeginInv
<1>2. CASE \E t \in Threads : LastErrorMessage(t)
  BY <1>2, LastErrorInv
<1>3. CASE \E t \in Threads : Step(t)
  <2>1. PICK t \in Threads : Step(t)
    BY <1>3
  <2>2. CASE Enter(t)
    BY <2>2, EnterInv
  <2>3. CASE CreateSession(t)
    BY <2>3, CreateInv
  <2>4. CASE CancelSession(t)
    BY <2>4, CancelInv
  <2>5. CASE Submit(t)
    BY <2>5, SubmitInv
  <2>6. CASE Take(t)
    BY <2>6, TakeInv
  <2>7. CASE PutBack(t)
    BY <2>7, PutBackInv
  <2>8. CASE Panic(t)
    BY <2>8, PanicInv
  <2>9. CASE Return(t)
    BY <2>9, ReturnInv
  <2> QED
    BY <2>1, <2>2, <2>3, <2>4, <2>5, <2>6, <2>7, <2>8, <2>9 DEF Step
<1>4. CASE UNCHANGED vars
  <2>1. UNCHANGED <<holder, call, outcome, engine>>
    BY <1>4 DEF vars
  <2>2. UNCHANGED <<sessions, rr, owned, used, next_session_id, alive>>
    BY <2>1 DEF engine
  <2>3. Held' = Held /\ Creators' = Creators
    BY <2>1 DEF Held, InHand, Creators
  <2>4. Existing' = Existing
    BY <2>2, <2>3 DEF Existing
  <2>5. Clients' /\ Accounts'
    BY <2>2, <2>4, NothingMoved
  <2>6. Typed' /\ Exclusive' /\ Told' /\ Room'
    BY <2>1, <2>2, <2>3 DEF CInv, Typed, Exclusive, Told, KnownSessions, Room
  <2> QED
    BY <2>5, <2>6 DEF CInv
<1> QED
  BY <1>1, <1>2, <1>3, <1>4 DEF Next

(* Behind the mutex of the C interface every answer, the ring and the pool *)
(* are those of the clients' sessions, for any number of threads; a panic  *)
(* loses sessions, but no block of one that lives.                         *)
THEOREM SessionsKept ==
  ASSUME CallersAssumption
  PROVE  Spec => []SessionsAreTheClients
<1>1. CASE Interface # "c"
  <2>1. SessionsAreTheClients
    BY <1>1 DEF SessionsAreTheClients
  <2> QED
    BY <2>1, PTL
<1>2. CASE Interface = "c"
  <2>1. Init => CInv
    BY CInvInit
  <2>2. CInv /\ [Next]_vars => CInv'
    BY <1>2, CInvNext
  <2>3. CInv => SessionsAreTheClients
    BY DEF CInv, Told, Clients, Accounts, SessionsAreTheClients, RingIsOfSessions,
           BlocksAccounted, BlocksNeverTakenBack, Existing
  <2> QED
    BY <2>1, <2>2, <2>3, PTL DEF Spec
<1> QED
  BY <1>1, <1>2

-----------------------------------------------------------------------------
(* The mutex                                                               *)

(* The thread that holds the engine's mutex is in a call, past the door.   *)
HeldByACall ==
  holder # None => holder \in Threads /\ call[holder] # None /\ call[holder].at # "door"

(* The guard is dropped with the closure, or kept until the function       *)
(* returns.                                                                *)
LEMMA LeaveKeepsHolder ==
  ASSUME CallersAssumption, CInv, HeldByACall, NEW t \in Threads,
         call[t] # None, call[t].at \in {"inside", "hand"},
         NEW sid \in 0..MaxSessions, NEW rc \in {"ok", "unknown", "nothing", "failed", "panicked"},
         Leave(t, sid, rc)
  PROVE  HeldByACall'
<1>1. /\ \A u \in Threads \ {t} : call'[u] = call[u]
      /\ call'[t] # None /\ call'[t].at = "result"
  BY LeaveFacts DEF CInv
<1>2. holder' \in {holder, None}
  BY DEF Leave
<1> QED
  BY <1>1, <1>2 DEF HeldByACall

(* A thread past the door ends its method, its decode goes on with the     *)
(* session, or it returns.                                                 *)
LEMMA StepKeepsHolder ==
  ASSUME CallersAssumption, Interface = "c", CInv, HeldByACall, NEW t \in Threads, Step(t)
  PROVE  HeldByACall'
<1>1. /\ Typed
      /\ call[t] # None => call[t] \in CallRecord /\ call[t].sid \in 0..MaxSessions
      /\ None \notin CallRecord
  BY Facts DEF CInv, Typed, CallRecord
<1>2. CASE Enter(t)
  <2>1. /\ call[t] # None /\ holder' = t /\ call' = [call EXCEPT ![t].at = "inside"]
    BY <1>2 DEF Enter
  <2>2. /\ call'[t] = [call[t] EXCEPT !.at = "inside"]
    BY <1>1, <2>1 DEF Typed
  <2>3. call'[t] \in CallRecord /\ call'[t].at = "inside"
    BY <1>1, <2>1, <2>2 DEF CallRecord
  <2> QED
    BY <1>1, <2>1, <2>3 DEF HeldByACall
<1>3. CASE CreateSession(t)
  <2>1. call[t] # None /\ call[t].at = "inside" /\ Leave(t, next_session_id, "ok")
    BY <1>3 DEF CreateSession, Inside
  <2>2. t \in Creators
    BY <1>3 DEF Creators, CreateSession, Inside
  <2>3. Cardinality(Creators \ {t}) = Cardinality(Creators) - 1
        /\ Cardinality(Creators) \in Nat /\ Cardinality(Creators \ {t}) \in Nat
    BY <2>2, CreatorsFinite, FS_RemoveElement, FS_CardinalityType, FS_Subset
  <2>4. next_session_id \in 0..MaxSessions
    BY <2>3, Facts DEF CInv, Typed, Room
  <2> QED
    BY <2>1, <2>4, LeaveKeepsHolder
<1>4. CASE CancelSession(t)
  <2>1. /\ call[t] # None /\ call[t].at = "inside"
        /\ \E rc \in {"ok", "unknown"} : Leave(t, call[t].sid, rc)
    BY <1>4 DEF CancelSession, Inside
  <2> QED
    BY <1>1, <2>1, LeaveKeepsHolder
<1>5. CASE Submit(t)
  <2>1. /\ call[t] # None /\ call[t].at = "inside"
        /\ \E rc \in {"ok", "unknown", "failed", "panicked"} : Leave(t, call[t].sid, rc)
    BY <1>5 DEF Submit, Inside
  <2> QED
    BY <1>1, <2>1, LeaveKeepsHolder
<1>6. CASE Take(t)
  <2>1. call[t] # None /\ call[t].at = "inside"
    BY <1>6 DEF Take, Inside
  <2>2. CASE rr \cap sessions = {}
    <3>1. Leave(t, 0, "nothing")
      BY <1>6, <2>2 DEF Take
    <3>2. 0 \in 0..MaxSessions
      BY Facts
    <3> QED
      BY <2>1, <3>1, <3>2, LeaveKeepsHolder
  <2>3. CASE rr \cap sessions # {}
    <3>1. PICK s \in rr \cap sessions :
            call' = [call EXCEPT ![t].sid = s, ![t].at = "hand"] /\ holder' = holder
      BY <1>6, <2>3 DEF Take
    <3>2. s \in 0..MaxSessions
      BY <3>1, IdsExist, Facts DEF Existing
    <3>3. call'[t] = [call[t] EXCEPT !.sid = s, !.at = "hand"]
          /\ \A u \in Threads \ {t} : call'[u] = call[u]
      BY <1>1, <3>1 DEF Typed
    <3>4. call'[t] \in CallRecord /\ call'[t].at = "hand"
      BY <1>1, <2>1, <3>2, <3>3 DEF CallRecord
    <3> QED
      BY <1>1, <3>1, <3>3, <3>4 DEF HeldByACall
  <2> QED
    BY <2>2, <2>3
<1>7. CASE PutBack(t)
  <2>1. /\ call[t] # None /\ call[t].at = "hand"
        /\ \E rc \in {"ok", "failed"} : Leave(t, call[t].sid, rc)
    BY <1>7 DEF PutBack, InHand
  <2> QED
    BY <1>1, <2>1, LeaveKeepsHolder
<1>8. CASE Panic(t)
  <2>1. /\ call[t] # None /\ call[t].at = "hand" /\ Leave(t, call[t].sid, "panicked")
    BY <1>8 DEF Panic, InHand
  <2> QED
    BY <1>1, <2>1, LeaveKeepsHolder
<1>9. CASE Return(t)
  <2>1. /\ holder' = IF holder = t THEN None ELSE holder
        /\ \A u \in Threads \ {t} : call'[u] = call[u]
    BY <1>1, <1>9 DEF Return, Typed
  <2> QED
    BY <2>1 DEF HeldByACall
<1> QED
  BY <1>2, <1>3, <1>4, <1>5, <1>6, <1>7, <1>8, <1>9 DEF Step

(* No error and no panic leaves the mutex with a thread that has returned: *)
(* who waits at the door waits for a call that is under way.               *)
THEOREM MutexIsReturned ==
  ASSUME CallersAssumption, Interface = "c"
  PROVE  Spec => []HeldByACall
<1>1. Init => CInv /\ HeldByACall
  <2>1. Init => HeldByACall
    BY DEF Init, HeldByACall
  <2> QED
    BY <2>1, CInvInit
<1>2. CInv /\ HeldByACall /\ [Next]_vars => (CInv /\ HeldByACall)'
  <2> SUFFICES ASSUME CInv, HeldByACall, [Next]_vars PROVE HeldByACall'
    BY CInvNext
  <2>1. CASE \E t \in Threads, op \in Ops, sid \in 0..MaxSessions : Begin(t, op, sid)
    <3>1. PICK t \in Threads, op \in Ops, sid \in 0..MaxSessions : Begin(t, op, sid)
      BY <2>1
    <3>2. /\ call[t] = None /\ holder' = holder
          /\ \A u \in Threads \ {t} : call'[u] = call[u]
      BY <3>1 DEF Begin, CInv, Typed
    <3> QED
      BY <3>2 DEF HeldByACall
  <2>2. CASE \E t \in Threads : LastErrorMessage(t)
    BY <2>2 DEF LastErrorMessage, HeldByACall
  <2>3. CASE \E t \in Threads : Step(t)
    BY <2>3, StepKeepsHolder
  <2>4. CASE UNCHANGED vars
    BY <2>4 DEF vars, HeldByACall
  <2> QED
    BY <2>1, <2>2, <2>3, <2>4 DEF Next
<1> QED
  BY <1>1, <1>2, PTL DEF Spec

-----------------------------------------------------------------------------
(* The list a filter leaves                                                *)

(* Up to a place there is one more than up to the place before when this   *)
(* one counts.                                                             *)
LEMMA UpToSteps ==
  ASSUME NEW T, NEW seq \in Seq(T), NEW S
  PROVE  /\ UpTo(seq, S, 0) = 0
         /\ \A i \in 1..Len(seq) :
              /\ UpTo(seq, S, i) \in Nat
              /\ UpTo(seq, S, i - 1) \in Nat
              /\ UpTo(seq, S, i) = UpTo(seq, S, i - 1) + (IF seq[i] \in S THEN 1 ELSE 0)
         /\ UpTo(seq, S, Len(seq)) = Cardinality(Places(seq, S))
         /\ Cardinality(Places(seq, S)) \in Nat
<1> DEFINE P == Places(seq, S)
           D(i) == {j \in P : j <= i}
<1>1. P \subseteq 1..Len(seq) /\ Len(seq) \in Nat /\ P \subseteq Int
  BY DEF Places
<1>2. IsFiniteSet(P)
  BY <1>1, FS_Interval, FS_Subset, 1 \in Int, Len(seq) \in Int
<1>3. \A i : IsFiniteSet(D(i)) /\ UpTo(seq, S, i) = Cardinality(D(i)) /\ Cardinality(D(i)) \in Nat
  BY <1>2, FS_Subset, FS_CardinalityType DEF UpTo
<1>4. D(0) = {}
  BY <1>1
<1>5. D(Len(seq)) = P
  BY <1>1
<1>6. ASSUME NEW i \in 1..Len(seq)
      PROVE  Cardinality(D(i)) = Cardinality(D(i - 1)) + (IF seq[i] \in S THEN 1 ELSE 0)
  <2>1. CASE seq[i] \in S
    <3>1. i \in P /\ i \notin D(i - 1) /\ D(i) = D(i - 1) \cup {i}
      BY <1>1, <2>1 DEF Places
    <3> HIDE DEF D
    <3>2. Cardinality(D(i - 1) \cup {i}) = Cardinality(D(i - 1)) + 1
      BY <3>1, <1>3, FS_AddElement
    <3> QED
      BY <3>1, <3>2, <2>1
  <2>2. CASE seq[i] \notin S
    <3>1. i \notin P
      BY <2>2 DEF Places
    <3>2. D(i) = D(i - 1)
      BY <1>1, <3>1
    <3>3. Cardinality(D(i - 1)) \in Nat
      BY <1>3
    <3> HIDE DEF D
    <3> QED
      BY <3>2, <3>3, <2>2
  <2> QED
    BY <2>1, <2>2
<1> HIDE DEF D
<1> QED
  BY <1>3, <1>4, <1>5, <1>6, FS_EmptySet

(* UpTo rises from each member to the next.                                *)
LEMMA UpToRises ==
  ASSUME NEW T, NEW seq \in Seq(T), NEW S, NEW i \in 0..Len(seq), NEW j \in 1..Len(seq), i < j
  PROVE  /\ UpTo(seq, S, i) \in Nat /\ UpTo(seq, S, j) \in Nat
         /\ UpTo(seq, S, i) <= UpTo(seq, S, j)
         /\ seq[j] \in S => UpTo(seq, S, i) < UpTo(seq, S, j)
<1> DEFINE u(k) == UpTo(seq, S, k)
           R == {k \in Nat : i + k <= Len(seq) => u(i) <= u(i + k)}
<1>1. Len(seq) \in Nat
  OBVIOUS
<1>2. \A k \in 0..Len(seq) : u(k) \in Nat
  BY UpToSteps, <1>1
<1>3. 0 \in R
  BY <1>2
<1>4. \A l \in 0..(Len(seq) - 1) : l \in R => l + 1 \in R
  <2> SUFFICES ASSUME NEW l \in 0..(Len(seq) - 1), l \in R, i + (l + 1) <= Len(seq)
               PROVE  u(i) <= u(i + (l + 1))
    BY <1>1
  <2>1. u(i) <= u(i + l) /\ u(i) \in Nat /\ u(i + l) \in Nat
    BY <1>1, <1>2
  <2>2. i + (l + 1) \in 1..Len(seq) /\ (i + (l + 1)) - 1 = i + l
    BY <1>1
  <2>3. /\ u(i + (l + 1)) \in Nat
        /\ u(i + (l + 1)) = u(i + l) + (IF seq[i + (l + 1)] \in S THEN 1 ELSE 0)
    BY <2>2, UpToSteps
  <2> HIDE DEF u
  <2> QED
    BY <2>1, <2>3
<1>5. 0..Len(seq) \subseteq R
  <2> HIDE DEF R
  <2> QED
    BY <1>1, <1>3, <1>4, Climb
<1>6. u(i) <= u(j) /\ u(i) <= u(j - 1)
  <2>0. /\ j - i \in 0..Len(seq) /\ (j - 1) - i \in 0..Len(seq)
        /\ i + (j - i) = j /\ i + ((j - 1) - i) = j - 1
    BY <1>1
  <2>1. j - i \in R /\ (j - 1) - i \in R
    BY <2>0, <1>5
  <2>2. (i + (j - i) <= Len(seq) => u(i) <= u(i + (j - i)))
        /\ (i + ((j - 1) - i) <= Len(seq) => u(i) <= u(i + ((j - 1) - i)))
    BY <2>1
  <2> HIDE DEF u
  <2> QED
    BY <2>0, <2>2, <1>1
<1> HIDE DEF R
<1>7. /\ u(j) = u(j - 1) + (IF seq[j] \in S THEN 1 ELSE 0)
      /\ u(j) \in Nat /\ u(j - 1) \in Nat
  <2>1. u(j) = u(j - 1) + (IF seq[j] \in S THEN 1 ELSE 0) /\ u(j - 1) \in Nat
    BY UpToSteps
  <2> QED
    BY <1>2, <2>1
<1>8. u(i) \in Nat
  BY <1>2
<1> HIDE DEF u
<1>9. u(i) <= u(j) /\ (seq[j] \in S => u(i) < u(j))
  BY <1>6, <1>7, <1>8
<1> QED
  BY <1>7, <1>8, <1>9 DEF u

(* The members of S have the numbers from one on, each its own.            *)
LEMMA PlaceOf ==
  ASSUME NEW T, NEW seq \in Seq(T), NEW S, NEW m \in 1..Cardinality(Places(seq, S))
  PROVE  \E i \in Places(seq, S) : UpTo(seq, S, i) = m
<1> DEFINE u(k) == UpTo(seq, S, k)
           R == {k \in 1..Len(seq) : u(k) >= m}
<1>1. Len(seq) \in Nat /\ m \in Nat /\ m >= 1
  BY UpToSteps
<1>2. u(Len(seq)) = Cardinality(Places(seq, S)) /\ u(0) = 0
  BY UpToSteps
<1>3. u(Len(seq)) >= m
  BY <1>1, <1>2, UpToSteps
<1>4. Len(seq) # 0
  BY <1>1, <1>2, <1>3
<1>5. R \subseteq Nat /\ Len(seq) \in R
  BY <1>1, <1>3, <1>4
<1>6. PICK i \in R : \A k \in R : i <= k
  <2> HIDE DEF R
  <2> QED
    BY <1>5, LeastNatural
<1>7. i \in 1..Len(seq) /\ u(i) >= m /\ u(i) \in Nat
  BY UpToSteps
<1>8. u(i) = u(i - 1) + (IF seq[i] \in S THEN 1 ELSE 0) /\ u(i - 1) \in Nat
  BY UpToSteps, <1>7
<1>9. u(i - 1) < m
  <2>1. CASE i = 1
    BY <2>1, <1>1, <1>2
  <2>2. CASE i # 1
    <3>1. i - 1 \in 1..Len(seq)
      BY <2>2, <1>7, <1>1
    <3>2. i - 1 \notin R
      BY <1>6, <1>7, <1>1
    <3> QED
      BY <3>1, <3>2, <1>1, <1>8
  <2> QED
    BY <2>1, <2>2
<1> HIDE DEF u
<1>10. seq[i] \in S /\ u(i) = m
  BY <1>1, <1>7, <1>8, <1>9
<1>11. i \in Places(seq, S)
  BY <1>7, <1>10 DEF Places
<1> QED
  BY <1>10, <1>11 DEF u

(* h says where in seq each of those kept is: they are members of S, in    *)
(* the order they have in seq, and no member of S is left out.             *)
KeptBy(kept, seq, S, h) ==
  /\ h \in [DOMAIN kept -> DOMAIN seq]
  /\ \A m \in DOMAIN kept : kept[m] = seq[h[m]] /\ seq[h[m]] \in S
  /\ \A m, n \in DOMAIN kept : m < n => h[m] < h[n]
  /\ \A i \in DOMAIN seq : seq[i] \in S => \E m \in DOMAIN kept : h[m] = i

(* What is kept of a list is a list again, and there is such an h.         *)
LEMMA KeptIs ==
  ASSUME NEW T, NEW seq \in Seq(T), NEW S
  PROVE  Kept(seq, S) \in Seq(T) /\ \E h : KeptBy(Kept(seq, S), seq, S, h)
<1> DEFINE c == Cardinality(Places(seq, S))
           h == [m \in 1..c |-> CHOOSE i \in Places(seq, S) : UpTo(seq, S, i) = m]
<1>1. c \in Nat /\ Len(seq) \in Nat /\ DOMAIN seq = 1..Len(seq)
  BY UpToSteps
<1>2. \A m \in 1..c : h[m] \in Places(seq, S) /\ UpTo(seq, S, h[m]) = m
  BY PlaceOf
<1>3. \A i \in Places(seq, S) : i \in 1..Len(seq) /\ seq[i] \in S /\ seq[i] \in T
  BY <1>1 DEF Places
<1>4. Kept(seq, S) = [m \in 1..c |-> seq[h[m]]]
  BY DEF Kept
<1> HIDE DEF h
<1>5. h \in [1..c -> 1..Len(seq)]
  BY <1>2, <1>3 DEF h
<1>6. Kept(seq, S) \in Seq(T) /\ DOMAIN Kept(seq, S) = 1..c
  <2>1. \A m \in 1..c : seq[h[m]] \in T
    BY <1>2, <1>3
  <2> QED
    BY <1>1, <1>4, <2>1
<1>7. \A m, n \in 1..c : m < n => h[m] < h[n]
  <2> SUFFICES ASSUME NEW m \in 1..c, NEW n \in 1..c, m < n, ~ (h[m] < h[n]) PROVE FALSE
    OBVIOUS
  <2>1. h[m] \in 1..Len(seq) /\ h[n] \in 1..Len(seq) /\ seq[h[m]] \in S
    BY <1>2, <1>3
  <2>2. UpTo(seq, S, h[m]) = m /\ UpTo(seq, S, h[n]) = n
    BY <1>2
  <2>3. CASE h[n] < h[m]
    BY <1>1, <2>1, <2>2, <2>3, UpToRises
  <2>4. CASE h[n] = h[m]
    BY <2>2, <2>4
  <2> QED
    BY <1>1, <2>1, <2>3, <2>4
<1>8. ASSUME NEW i \in DOMAIN seq, seq[i] \in S PROVE \E m \in 1..c : h[m] = i
  <2>1. i \in Places(seq, S) /\ i \in 1..Len(seq)
    BY <1>1, <1>8 DEF Places
  <2> DEFINE m == UpTo(seq, S, i)
  <2>2. m \in Nat
    BY <2>1, UpToSteps
  <2>3. m > 0
    <3>1. UpTo(seq, S, 0) = 0
      BY UpToSteps
    <3> QED
      BY <1>1, <1>8, <2>1, <3>1, UpToRises
  <2>4. m <= c
    <3>1. UpTo(seq, S, Len(seq)) = c
      BY UpToSteps
    <3>2. CASE i = Len(seq)
      BY <3>1, <3>2, <2>2, <1>1
    <3>3. CASE i < Len(seq)
      <4>1. Len(seq) \in 1..Len(seq) /\ i \in 0..Len(seq)
        BY <1>1, <2>1
      <4> QED
        BY <4>1, <3>1, <3>3, UpToRises
    <3> QED
      BY <3>2, <3>3, <1>1, <2>1
  <2>5. m \in 1..c
    BY <2>2, <2>3, <2>4, <1>1
  <2>6. h[m] = i
    <3>1. h[m] \in Places(seq, S) /\ UpTo(seq, S, h[m]) = m
      BY <2>5, <1>2
    <3>2. h[m] \in 1..Len(seq) /\ seq[h[m]] \in S
      BY <3>1, <1>3
    <3>3. CASE h[m] < i
      BY <1>1, <1>8, <2>1, <3>1, <3>2, <3>3, <2>2, UpToRises
    <3>4. CASE i < h[m]
      BY <1>1, <2>1, <3>1, <3>2, <3>4, <2>2, UpToRises
    <3> QED
      BY <1>1, <2>1, <3>2, <3>3, <3>4
  <2> QED
    BY <2>5, <2>6
<1>9. \A m \in 1..c : Kept(seq, S)[m] = seq[h[m]] /\ seq[h[m]] \in S
  BY <1>2, <1>3, <1>4
<1>10. KeptBy(Kept(seq, S), seq, S, h)
  BY <1>1, <1>5, <1>6, <1>7, <1>8, <1>9 DEF KeptBy
<1> QED
  BY <1>6, <1>10

-----------------------------------------------------------------------------
(* The Android chat                                                        *)

(* What its steps are about: lists of messages, a job or none, a session.  *)
PhoneTypes ==
  /\ messages \in Seq(Phone!Message)
  /\ messageIdCounter \in Nat /\ sent \in Nat /\ resets \in Nat
  /\ job \in Phone!JobRecord \cup {None}
  /\ isGenerating \in BOOLEAN /\ (isGenerating <=> job # None)
  /\ job # None => job.of \in 1..sent
  /\ late \subseteq [of : 1..sent, got : Nat \cup {None}]
  /\ state \in {"Queued", "Prefill", "Decoding", "Terminal"}
  /\ answer \in Nat /\ said \in Nat /\ cached \in 0..Capacity /\ said <= cached + 1
  /\ snapshot.cached \in 0..Capacity

(* A message the job is not to replace never has the number of the answer  *)
(* under way, its own answer always does, and what it read is what there   *)
(* is when it writes.  At most one job has still to count, and then no     *)
(* other runs.                                                              *)
PhoneNumbers ==
  /\ resets = 0
  /\ job # None => job.of = sent /\ sent >= 1
  /\ job # None /\ job.at = "write" => job.read = messages /\ job.id = messageIdCounter
  /\ late # {} => job = None
  /\ \A r \in late : r.got \in {None, messageIdCounter}
  /\ \A q, r \in late : q = r
  /\ \A j \in DOMAIN messages : messages[j].id <= messageIdCounter /\ messages[j].of <= sent
  /\ job # None =>
       \A j \in DOMAIN messages :
         /\ messages[j].id = messageIdCounter => messages[j].role = "assistant"
         /\ messages[j].role = "assistant" /\ messages[j].of = sent =>
              messages[j].id = messageIdCounter

(* A job that writes has read a list.                                      *)
HasRead == job # None /\ job.at = "write" => job.read \in Seq(Phone!Message)

(* What the constants are.                                                 *)
LEMMA PhoneFacts ==
  ASSUME Phone!AndroidAssumption
  PROVE  /\ Capacity \in Nat /\ MaxPrompt \in Nat /\ MaxResets \in Nat
         /\ None \notin Phone!JobRecord
  BY DEF Phone!AndroidAssumption

(* What is left of a list without the answer under way is Kept of it.      *)
LEMMA PhoneKept ==
  ASSUME NEW list \in Seq(Phone!Message)
  PROVE  /\ Phone!Others(list) \in Seq(Phone!Message)
         /\ \E h :
              /\ h \in [DOMAIN Phone!Others(list) -> DOMAIN list]
              /\ \A m \in DOMAIN Phone!Others(list) :
                   Phone!Others(list)[m] = list[h[m]] /\ list[h[m]].id # messageIdCounter
              /\ \A m, n \in DOMAIN Phone!Others(list) : m < n => h[m] < h[n]
              /\ \A i \in DOMAIN list : list[i].id # messageIdCounter =>
                   \E m \in DOMAIN Phone!Others(list) : h[m] = i
<1> DEFINE S == {x \in Phone!Range(list) : x.id # messageIdCounter}
<1>1. Phone!Others(list) = Kept(list, S)
  BY DEF Phone!Others, Phone!Kept, Phone!UpTo, Phone!Places, Kept, UpTo, Places,
         Phone!Cardinality, Cardinality
<1>2. \A i \in DOMAIN list : list[i] \in S <=> list[i].id # messageIdCounter
  BY DEF Phone!Range
<1> HIDE DEF S
<1>3. Kept(list, S) \in Seq(Phone!Message)
  BY KeptIs
<1>4. PICK h : KeptBy(Kept(list, S), list, S, h)
  BY KeptIs
<1>5. /\ h \in [DOMAIN Phone!Others(list) -> DOMAIN list]
      /\ \A m \in DOMAIN Phone!Others(list) :
           Phone!Others(list)[m] = list[h[m]] /\ list[h[m]] \in S
      /\ \A m, n \in DOMAIN Phone!Others(list) : m < n => h[m] < h[n]
      /\ \A i \in DOMAIN list : list[i] \in S =>
           \E m \in DOMAIN Phone!Others(list) : h[m] = i
  BY <1>1, <1>4 DEF KeptBy
<1>6. \A m \in DOMAIN Phone!Others(list) : list[h[m]].id # messageIdCounter
  BY <1>2, <1>5
<1>7. \A i \in DOMAIN list : list[i].id # messageIdCounter =>
        \E m \in DOMAIN Phone!Others(list) : h[m] = i
  BY <1>2, <1>5
<1> QED
  BY <1>1, <1>3, <1>5, <1>6, <1>7

(* The app starts with an empty chat and no job.                           *)
LEMMA PhoneInitially ==
  ASSUME Phone!AndroidAssumption, Phone!Init
  PROVE  PhoneTypes /\ HasRead
<1>1. messages \in Seq(Phone!Message)
  BY DEF Phone!Init, Phone!Message
<1>2. [cached |-> 0, context |-> {}].cached = 0
  OBVIOUS
<1>3. snapshot.cached = 0
  BY <1>2 DEF Phone!Init
<1>4. isGenerating \in BOOLEAN /\ (isGenerating <=> job # None)
  BY Zenon DEF Phone!Init
<1>5. job \in Phone!JobRecord \cup {None} /\ ~ (job # None)
  BY DEF Phone!Init
<1>6. /\ messageIdCounter = 1 /\ sent = 0 /\ resets = 0 /\ late = {} /\ state = "Queued"
      /\ answer = 0 /\ said = 0 /\ cached = 0
  BY DEF Phone!Init
<1> QED
  BY <1>1, <1>3, <1>4, <1>5, <1>6, PhoneFacts DEF PhoneTypes, HasRead

(* Every step of the app keeps the types, whatever the job read before.    *)
LEMMA PhoneTypesStep ==
  ASSUME Phone!AndroidAssumption, PhoneTypes, HasRead, [Phone!Next]_(Phone!vars)
  PROVE  PhoneTypes' /\ HasRead'
<1>0. /\ Capacity \in Nat /\ None \notin Phone!JobRecord
  BY PhoneFacts
<1> USE DEF PhoneTypes, HasRead
<1>1. CASE Phone!SendMessage
  <2> DEFINE m == [id |-> messageIdCounter, role |-> "user", of |-> sent + 1, text |-> << >>]
             r == [at |-> "submit", of |-> sent + 1, text |-> << >>, id |-> 0, read |-> None]
  <2>1. m \in Phone!Message
    BY DEF Phone!Message
  <2>2. r \in Phone!JobRecord
    BY DEF Phone!JobRecord
  <2>3. messages' = Append(messages, m) /\ job' = r /\ messageIdCounter' = messageIdCounter + 1
        /\ sent' = sent + 1 /\ isGenerating' = TRUE
        /\ UNCHANGED <<late, resets, state, answer, said, cached, snapshot>>
    BY <1>1 DEF Phone!SendMessage, Phone!NextId, Phone!session
  <2>4. r.at = "submit" /\ r.of = sent + 1
    OBVIOUS
  <2> HIDE DEF m, r
  <2>5. messages' \in Seq(Phone!Message)
    BY <2>1, <2>3
  <2> QED
    BY <1>0, <2>2, <2>3, <2>4, <2>5
<1>2. CASE Phone!ResetSession
  <2>1. << >> \in Seq(Phone!Message)
    OBVIOUS
  <2> QED
    BY <1>0, <1>2, <2>1 DEF Phone!ResetSession
<1>3. CASE Phone!Submit
  <2>1. job \in Phone!JobRecord /\ UNCHANGED <<messages, messageIdCounter, late, sent, resets>>
    BY <1>3 DEF Phone!Submit
  <2>2. \/ job' = [job EXCEPT !.at = "step"] /\ UNCHANGED isGenerating
        \/ job' = None /\ isGenerating' = FALSE
    BY <1>3 DEF Phone!Submit, Phone!Throws
  <2>3. \/ /\ job' \in Phone!JobRecord /\ job'.at = "step" /\ job'.of = job.of
           /\ UNCHANGED isGenerating
        \/ job' = None /\ isGenerating' = FALSE
    <3>1. /\ [job EXCEPT !.at = "step"] \in Phone!JobRecord
          /\ [job EXCEPT !.at = "step"].at = "step" /\ [job EXCEPT !.at = "step"].of = job.of
      BY <2>1 DEF Phone!JobRecord
    <3> QED
      BY <2>2, <3>1
  <2>4. /\ state' \in {"Queued", "Prefill", "Decoding", "Terminal"}
        /\ answer' \in Nat /\ said' \in Nat /\ cached' \in 0..Capacity /\ said' <= cached' + 1
        /\ snapshot'.cached \in 0..Capacity
    <3>1. CASE UNCHANGED Phone!session
      BY <3>1 DEF Phone!session
    <3>3. CASE /\ state' = IF state = "Queued" THEN "Prefill" ELSE state
               /\ UNCHANGED <<answer, said, cached, context, snapshot>>
      BY <3>3
    <3>4. \/ UNCHANGED Phone!session
          \/ \E n \in 1..MaxPrompt :
               IF state \in {"Queued", "Prefill"} /\ cached + n <= Capacity
               THEN /\ state' = "Decoding" /\ answer' = job.of /\ said' = 1
                    /\ cached' = cached + n
                    /\ snapshot' = [cached |-> cached', context |-> context']
               ELSE /\ state' = IF state = "Queued" THEN "Prefill" ELSE state
                    /\ UNCHANGED <<answer, said, cached, context, snapshot>>
      BY <1>3 DEF Phone!Submit
    <3>5. CASE \E n \in 1..MaxPrompt :
                 /\ state \in {"Queued", "Prefill"} /\ cached + n <= Capacity
                 /\ state' = "Decoding" /\ answer' = job.of /\ said' = 1
                 /\ cached' = cached + n
                 /\ snapshot' = [cached |-> cached', context |-> context']
      <4>1. PICK n \in 1..MaxPrompt :
                 /\ state \in {"Queued", "Prefill"} /\ cached + n <= Capacity
                 /\ state' = "Decoding" /\ answer' = job.of /\ said' = 1
                 /\ cached' = cached + n
                 /\ snapshot' = [cached |-> cached', context |-> context']
        BY <3>5
      <4>2. snapshot'.cached = cached'
        BY <4>1
      <4> QED
        BY <1>0, <2>1, <4>1, <4>2, PhoneFacts DEF Phone!JobRecord
    <3> QED
      BY <3>1, <3>3, <3>4, <3>5
  <2> QED
    BY <1>0, <2>1, <2>3, <2>4
<1>4. CASE Phone!StepDecode
  <2>1. job \in Phone!JobRecord /\ UNCHANGED <<messages, messageIdCounter, late, sent, resets>>
    BY <1>4 DEF Phone!StepDecode
  <2>2. /\ state' \in {"Queued", "Prefill", "Decoding", "Terminal"}
        /\ answer' \in Nat /\ said' \in Nat /\ cached' \in 0..Capacity /\ said' <= cached' + 1
        /\ snapshot'.cached \in 0..Capacity
    <3>1. \/ UNCHANGED <<state, answer, said, cached, snapshot>>
          \/ /\ cached < Capacity /\ said' = said + 1 /\ cached' = cached + 1
             /\ UNCHANGED <<answer, snapshot>> /\ state' \in {"Terminal", state}
      BY <1>4 DEF Phone!StepDecode, Phone!Decode, Phone!session
    <3> QED
      BY <1>0, <3>1
  <2>3. \/ job' = [job EXCEPT !.at = "finish"] /\ UNCHANGED isGenerating
        \/ /\ job' = [job EXCEPT !.at = "read", !.text = Append(@, Phone!Token)]
           /\ UNCHANGED isGenerating
        \/ UNCHANGED <<job, isGenerating>> /\ job.at = "step"
        \/ job' = None /\ isGenerating' = FALSE
    BY <1>4 DEF Phone!StepDecode, Phone!Null, Phone!Throws
  <2>4. \/ /\ job' \in Phone!JobRecord /\ job'.at \in {"finish", "read", "step"}
           /\ job'.of = job.of /\ UNCHANGED isGenerating
        \/ job' = None /\ isGenerating' = FALSE
    <3>1. Append(job.text, Phone!Token) \in Seq(Phone!TokenRecord)
      BY <2>1 DEF Phone!JobRecord, Phone!Token, Phone!TokenRecord
    <3>2. /\ [job EXCEPT !.at = "read", !.text = Append(@, Phone!Token)] \in Phone!JobRecord
          /\ [job EXCEPT !.at = "read", !.text = Append(@, Phone!Token)].at = "read"
          /\ [job EXCEPT !.at = "read", !.text = Append(@, Phone!Token)].of = job.of
      BY <2>1, <3>1 DEF Phone!JobRecord
    <3>3. /\ [job EXCEPT !.at = "finish"] \in Phone!JobRecord
          /\ [job EXCEPT !.at = "finish"].at = "finish" /\ [job EXCEPT !.at = "finish"].of = job.of
      BY <2>1 DEF Phone!JobRecord
    <3> QED
      BY <2>1, <2>3, <3>2, <3>3
  <2> QED
    BY <1>0, <2>1, <2>2, <2>4
<1>5. CASE Phone!ReadMessages
  <2>1. job \in Phone!JobRecord
        /\ UNCHANGED <<messages, messageIdCounter, late, sent, resets, isGenerating, state,
                       answer, said, cached, snapshot>>
    BY <1>5 DEF Phone!ReadMessages, Phone!ui, Phone!session
  <2>2. job' = [job EXCEPT !.at = "write", !.id = messageIdCounter, !.read = messages]
    BY <1>5 DEF Phone!ReadMessages
  <2>3. job' \in Phone!JobRecord /\ job'.read = messages /\ job'.of = job.of
    BY <2>1, <2>2 DEF Phone!JobRecord
  <2> QED
    BY <1>0, <2>1, <2>3
<1>6. CASE Phone!WriteMessages
  <2> DEFINE m == [id |-> job.id, role |-> "assistant", of |-> job.of, text |-> job.text]
             rest == Phone!Others(job.read)
  <2>1. job \in Phone!JobRecord /\ job.at = "write" /\ messages' = Append(rest, m)
        /\ UNCHANGED <<messageIdCounter, late, sent, resets, isGenerating, state, answer, said,
                       cached, snapshot>>
        /\ job' = [job EXCEPT !.at = "step", !.read = None]
    BY <1>6 DEF Phone!WriteMessages, Phone!session
  <2>2. m \in Phone!Message
    BY <2>1 DEF Phone!JobRecord, Phone!Message
  <2>3. job.read \in Seq(Phone!Message)
    BY <1>0, <2>1
  <2>4. rest \in Seq(Phone!Message)
    BY <2>3, PhoneKept
  <2> HIDE DEF m, rest
  <2>5. messages' \in Seq(Phone!Message)
    BY <2>1, <2>2, <2>4
  <2>6. job' \in Phone!JobRecord /\ job'.at = "step" /\ job'.of = job.of
    BY <2>1 DEF Phone!JobRecord
  <2> QED
    BY <1>0, <2>1, <2>5, <2>6
<1>7. CASE Phone!Finish
  <2>1. /\ job' = None /\ isGenerating' = FALSE /\ job # None
        /\ late' = late \cup {[of |-> job.of, got |-> None]}
        /\ UNCHANGED <<messages, messageIdCounter, sent, resets, state, answer, said, cached,
                       snapshot>>
    BY <1>7 DEF Phone!Finish, Phone!session
  <2>2. isGenerating' \in BOOLEAN /\ (isGenerating' <=> job' # None)
    BY <2>1, Zenon
  <2>3. job' \in Phone!JobRecord \cup {None} /\ ~ (job' # None)
    BY <2>1
  <2>4. late' \subseteq [of : 1..sent, got : Nat \cup {None}]
    BY <2>1
  <2> QED
    BY <2>1, <2>2, <2>3, <2>4
<1>9. ASSUME NEW r \in late, Phone!ReadCounter(r) PROVE PhoneTypes' /\ HasRead'
  <2>1. /\ late' = (late \ {r}) \cup {[r EXCEPT !.got = messageIdCounter]}
        /\ UNCHANGED <<messages, messageIdCounter, isGenerating, job, sent, resets, state, answer,
                       said, cached, snapshot>>
    BY <1>9 DEF Phone!ReadCounter, Phone!ui, Phone!session
  <2>2. [r EXCEPT !.got = messageIdCounter] \in [of : 1..sent, got : Nat \cup {None}]
    OBVIOUS
  <2>3. late' \subseteq [of : 1..sent', got : Nat \cup {None}]
    BY <2>1, <2>2
  <2> QED
    BY <2>1, <2>3
<1>10. ASSUME NEW r \in late, Phone!WriteCounter(r) PROVE PhoneTypes' /\ HasRead'
  <2>1. /\ r.got # None /\ messageIdCounter' = r.got + 1 /\ late' = late \ {r}
        /\ UNCHANGED <<messages, isGenerating, job, sent, resets, state, answer, said, cached,
                       snapshot>>
    BY <1>10 DEF Phone!WriteCounter, Phone!session
  <2>2. r.got \in Nat
    BY <2>1
  <2> QED
    BY <2>1, <2>2
<1>8. CASE UNCHANGED Phone!vars
  BY <1>8 DEF Phone!vars, Phone!ui, Phone!session
<1> QED
  BY <1>1, <1>2, <1>3, <1>4, <1>5, <1>6, <1>7, <1>8, <1>9, <1>10 DEF Phone!Next, Phone!Job

(* What the list says of its messages, and what of the job.                *)
Numbered(list, c, n) == \A j \in DOMAIN list : list[j].id <= c /\ list[j].of <= n

(* The number c is that of the answer under way, number n, and of no other *)
(* message.                                                                *)
Marked(list, c, n) ==
  \A j \in DOMAIN list :
    /\ list[j].id = c => list[j].role = "assistant"
    /\ list[j].role = "assistant" /\ list[j].of = n => list[j].id = c

(* Every message of the user is there, the list is in order, and no answer *)
(* stands twice.                                                           *)
Whole(list, n) ==
  /\ \A i \in 1..n : \E j \in DOMAIN list : list[j].role = "user" /\ list[j].of = i
  /\ \A i, j \in DOMAIN list : i < j => list[i].of <= list[j].of
  /\ \A i, j \in DOMAIN list :
       list[i].role = "assistant" /\ list[j].role = "assistant" /\ list[i].of = list[j].of => i = j

(* It is what the property says of the app's list.                         *)
LEMMA WholeIs == Phone!ChatIsWhole <=> Whole(messages, sent)
  BY DEF Phone!ChatIsWhole, Whole

(* Where the list stays, it stays whole.                                   *)
LEMMA PhoneQuiet ==
  ASSUME PhoneNumbers, Phone!ChatIsWhole,
         UNCHANGED <<messages, sent, messageIdCounter, late, resets>>,
         \/ job' = None
         \/ /\ job # None /\ job' # None /\ job'.of = job.of
            /\ job'.at = "write" => job'.read = messages /\ job'.id = messageIdCounter
  PROVE  PhoneNumbers' /\ Phone!ChatIsWhole'
  BY DEF PhoneNumbers, Phone!ChatIsWhole

(* A message of the user is the last of the list, its number a new one.    *)
LEMMA SentWhole ==
  ASSUME NEW list \in Seq(Phone!Message), NEW c \in Nat, NEW n \in Nat,
         NEW m \in Phone!Message, m.id = c, m.role = "user", m.of = n + 1,
         Numbered(list, c, n), Whole(list, n)
  PROVE  /\ Numbered(Append(list, m), c + 1, n + 1)
         /\ Marked(Append(list, m), c + 1, n + 1)
         /\ Whole(Append(list, m), n + 1)
<1> DEFINE new == Append(list, m)
           l == Len(list)
<1>1. /\ l \in Nat /\ DOMAIN list = 1..l /\ DOMAIN new = 1..(l + 1)
      /\ \A j \in 1..l : new[j] = list[j]
      /\ new[l + 1] = m
  OBVIOUS
<1>2. /\ \A j \in 1..l : list[j].id \in Nat /\ list[j].of \in Nat
      /\ \A j \in 1..l : list[j].id <= c /\ list[j].of <= n
  <2>1. \A j \in 1..l : list[j] \in Phone!Message
    BY <1>1
  <2>2. \A j \in 1..l : list[j].id \in Nat /\ list[j].of \in Nat
    BY <2>1 DEF Phone!Message
  <2> QED
    BY <1>1, <2>2 DEF Numbered
<1>3. \A j \in 1..(l + 1) : j = l + 1 \/ j \in 1..l
  BY <1>1
<1> HIDE DEF new, l
<1>4. \A j \in 1..(l + 1) : new[j].id <= c /\ new[j].of <= n + 1 /\ new[j].id \in Nat
  BY <1>1, <1>2, <1>3
<1>5. \A j \in 1..(l + 1) : new[j].role = "assistant" => j \in 1..l
  BY <1>1, <1>3
<1>6. Numbered(new, c + 1, n + 1)
  BY <1>1, <1>4 DEF Numbered
<1>7. Marked(new, c + 1, n + 1)
  <2>1. \A j \in 1..(l + 1) : new[j].id # c + 1
    BY <1>4
  <2>2. \A j \in 1..(l + 1) : new[j].role = "assistant" => new[j].of # n + 1
    BY <1>1, <1>2, <1>5
  <2> QED
    BY <1>1, <2>1, <2>2 DEF Marked
<1>8. Whole(new, n + 1)
  <2>1. ASSUME NEW i \in 1..(n + 1)
        PROVE  \E j \in DOMAIN new : new[j].role = "user" /\ new[j].of = i
    <3>1. CASE i = n + 1
      BY <1>1, <3>1
    <3>2. CASE i \in 1..n
      BY <1>1, <3>2 DEF Whole
    <3> QED
      BY <3>1, <3>2
  <2>2. ASSUME NEW i \in DOMAIN new, NEW j \in DOMAIN new, i < j
        PROVE  new[i].of <= new[j].of
    <3>1. i \in 1..l
      BY <1>1, <2>2
    <3>2. CASE j \in 1..l
      BY <1>1, <2>2, <3>1, <3>2 DEF Whole
    <3>3. CASE j = l + 1
      BY <1>1, <1>2, <3>1, <3>3
    <3> QED
      BY <1>1, <1>3, <3>2, <3>3
  <2>3. \A i, j \in DOMAIN new :
          new[i].role = "assistant" /\ new[j].role = "assistant" /\ new[i].of = new[j].of => i = j
    BY <1>1, <1>5 DEF Whole
  <2> QED
    BY <2>1, <2>2, <2>3 DEF Whole
<1> QED
  BY <1>6, <1>7, <1>8 DEF new

(* The answer so far goes to the end; what it replaces was the answer      *)
(* before.                                                                 *)
LEMMA WrittenWhole ==
  ASSUME NEW list \in Seq(Phone!Message), messageIdCounter \in Nat, NEW n \in Nat,
         NEW m \in Phone!Message, m.id = messageIdCounter, m.role = "assistant", m.of = n,
         Numbered(list, messageIdCounter, n), Marked(list, messageIdCounter, n), Whole(list, n)
  PROVE  /\ Numbered(Append(Phone!Others(list), m), messageIdCounter, n)
         /\ Marked(Append(Phone!Others(list), m), messageIdCounter, n)
         /\ Whole(Append(Phone!Others(list), m), n)
<1> DEFINE rest == Phone!Others(list)
           new == Append(rest, m)
           l == Len(rest)
           c == messageIdCounter
<1>0. rest \in Seq(Phone!Message)
  BY PhoneKept
<1>1. PICK h :
        /\ h \in [DOMAIN rest -> DOMAIN list]
        /\ \A k \in DOMAIN rest : rest[k] = list[h[k]] /\ list[h[k]].id # c
        /\ \A j, k \in DOMAIN rest : j < k => h[j] < h[k]
        /\ \A i \in DOMAIN list : list[i].id # c => \E k \in DOMAIN rest : h[k] = i
  BY PhoneKept
<1> HIDE DEF rest
<1>2. /\ l \in Nat /\ DOMAIN rest = 1..l /\ DOMAIN new = 1..(l + 1)
      /\ \A j \in 1..l : new[j] = rest[j]
      /\ new[l + 1] = m
  BY <1>0
<1>3. \A j \in 1..(l + 1) : j = l + 1 \/ j \in 1..l
  BY <1>2
<1> HIDE DEF new, l
<1>4. ASSUME NEW j \in 1..l
      PROVE  /\ h[j] \in DOMAIN list /\ new[j] = list[h[j]]
             /\ new[j].id # c /\ new[j].id <= c /\ new[j].of <= n
             /\ new[j].of \in Nat
             /\ new[j].role = "assistant" => new[j].of # n
  <2>1. h[j] \in DOMAIN list /\ new[j] = list[h[j]] /\ list[h[j]].id # c
    BY <1>1, <1>2
  <2>2. list[h[j]] \in Phone!Message
    BY <2>1
  <2> QED
    BY <2>1, <2>2 DEF Numbered, Marked, Phone!Message
<1>5. Numbered(new, c, n)
  BY <1>2, <1>3, <1>4 DEF Numbered
<1>6. Marked(new, c, n)
  BY <1>2, <1>3, <1>4 DEF Marked
<1>7. Whole(new, n)
  <2>1. ASSUME NEW i \in 1..n
        PROVE  \E j \in DOMAIN new : new[j].role = "user" /\ new[j].of = i
    <3>1. PICK k \in DOMAIN list : list[k].role = "user" /\ list[k].of = i
      BY DEF Whole
    <3>2. list[k].id # c
      BY <3>1 DEF Marked
    <3>3. PICK j \in 1..l : h[j] = k
      BY <1>1, <1>2, <3>2
    <3>4. new[j] = list[k] /\ j \in DOMAIN new
      BY <1>2, <1>4, <3>3
    <3> QED
      BY <3>1, <3>4
  <2>2. ASSUME NEW i \in DOMAIN new, NEW j \in DOMAIN new, i < j
        PROVE  new[i].of <= new[j].of
    <3>1. i \in 1..l
      BY <1>2, <2>2
    <3>2. CASE j \in 1..l
      <4>1. h[i] < h[j] /\ h[i] \in DOMAIN list /\ h[j] \in DOMAIN list
        BY <1>1, <1>2, <2>2, <3>1, <3>2
      <4>2. list[h[i]].of <= list[h[j]].of
        BY <4>1 DEF Whole
      <4> QED
        BY <4>2, <3>1, <3>2, <1>4
    <3>3. CASE j = l + 1
      BY <1>2, <1>4, <3>1, <3>3
    <3> QED
      BY <1>2, <1>3, <3>2, <3>3
  <2>3. ASSUME NEW i \in DOMAIN new, NEW j \in DOMAIN new,
               new[i].role = "assistant", new[j].role = "assistant", new[i].of = new[j].of
        PROVE  i = j
    <3>1. CASE i \in 1..l /\ j \in 1..l
      <4>1. h[i] = h[j]
        BY <1>4, <2>3, <3>1 DEF Whole
      <4>2. h[i] \in 1..Len(list)
        BY <1>4, <3>1
      <4>3. ~ (h[i] < h[j]) /\ ~ (h[j] < h[i])
        BY <4>1, <4>2
      <4>4. ~ (i < j) /\ ~ (j < i)
        BY <1>1, <1>2, <3>1, <4>3
      <4> QED
        BY <1>2, <3>1, <4>4
    <3>2. CASE i = l + 1 /\ j \in 1..l
      BY <1>2, <1>4, <2>3, <3>2
    <3>3. CASE j = l + 1 /\ i \in 1..l
      BY <1>2, <1>4, <2>3, <3>3
    <3> QED
      BY <1>2, <1>3, <3>1, <3>2, <3>3
  <2> QED
    BY <2>1, <2>2, <2>3 DEF Whole
<1> QED
  BY <1>5, <1>6, <1>7 DEF new, rest

(* Without resets, and with a user who is not quick, every step of the app *)
(* keeps the list whole.                                                    *)
LEMMA PhoneNumbersStep ==
  ASSUME Phone!AndroidAssumption, MaxResets = 0, ~Quick, PhoneTypes, HasRead, PhoneNumbers,
         Phone!ChatIsWhole, [Phone!Next]_(Phone!vars)
  PROVE  PhoneNumbers' /\ Phone!ChatIsWhole'
<1>0. None \notin Phone!JobRecord
  BY PhoneFacts
<1>1. /\ resets = 0 /\ messages \in Seq(Phone!Message) /\ messageIdCounter \in Nat /\ sent \in Nat
      /\ Numbered(messages, messageIdCounter, sent) /\ Whole(messages, sent)
  BY WholeIs DEF PhoneTypes, PhoneNumbers, Numbered
<1>2. CASE Phone!SendMessage
  <2> DEFINE m == [id |-> messageIdCounter, role |-> "user", of |-> sent + 1, text |-> << >>]
             r == [at |-> "submit", of |-> sent + 1, text |-> << >>, id |-> 0, read |-> None]
  <2>1. /\ messages' = Append(messages, m) /\ job' = r /\ sent' = sent + 1
        /\ messageIdCounter' = messageIdCounter + 1 /\ resets' = resets /\ late = {} /\ late' = {}
    BY <1>2 DEF Phone!SendMessage, Phone!NextId
  <2>2. m \in Phone!Message /\ m.id = messageIdCounter /\ m.role = "user" /\ m.of = sent + 1
    BY <1>1 DEF Phone!Message
  <2>3. r.of = sent + 1 /\ r.at = "submit"
    OBVIOUS
  <2> HIDE DEF m, r
  <2>4. /\ Numbered(Append(messages, m), messageIdCounter + 1, sent + 1)
        /\ Marked(Append(messages, m), messageIdCounter + 1, sent + 1)
        /\ Whole(Append(messages, m), sent + 1)
    BY <1>1, <2>2, SentWhole
  <2>5. /\ \A j \in DOMAIN messages' :
          messages'[j].id <= messageIdCounter' /\ messages'[j].of <= sent'
        /\ \A j \in DOMAIN messages' :
             /\ messages'[j].id = messageIdCounter' => messages'[j].role = "assistant"
             /\ messages'[j].role = "assistant" /\ messages'[j].of = sent' =>
                  messages'[j].id = messageIdCounter'
    BY <2>1, <2>4 DEF Numbered, Marked
  <2>6. Phone!ChatIsWhole'
    BY <2>1, <2>4 DEF Phone!ChatIsWhole, Whole
  <2> QED
    BY <1>1, <2>1, <2>3, <2>5, <2>6 DEF PhoneNumbers
<1>3. CASE Phone!ResetSession
  BY <1>1, <1>3 DEF Phone!ResetSession
<1>4. CASE Phone!Submit
  <2>1. job \in Phone!JobRecord /\ UNCHANGED <<messages, messageIdCounter, late, sent, resets>>
        /\ (job' = [job EXCEPT !.at = "step"] \/ job' = None)
    BY <1>4 DEF Phone!Submit, Phone!Throws, PhoneTypes
  <2>2. [job EXCEPT !.at = "step"] \in Phone!JobRecord /\ [job EXCEPT !.at = "step"].at = "step"
        /\ [job EXCEPT !.at = "step"].of = job.of
    BY <2>1 DEF Phone!JobRecord
  <2> QED
    BY <1>0, <2>1, <2>2, PhoneQuiet
<1>5. CASE Phone!StepDecode
  <2>1. job \in Phone!JobRecord /\ UNCHANGED <<messages, messageIdCounter, late, sent, resets>>
        /\ \/ job' = [job EXCEPT !.at = "finish"]
           \/ job' = [job EXCEPT !.at = "read", !.text = Append(@, Phone!Token)]
           \/ job' = job /\ job.at = "step" /\ job # None
           \/ job' = None
    BY <1>5 DEF Phone!StepDecode, Phone!Null, Phone!Throws, PhoneTypes
  <2>2. /\ [job EXCEPT !.at = "finish"].at = "finish" /\ [job EXCEPT !.at = "finish"].of = job.of
        /\ [job EXCEPT !.at = "read", !.text = Append(@, Phone!Token)].at = "read"
        /\ [job EXCEPT !.at = "read", !.text = Append(@, Phone!Token)].of = job.of
    BY <2>1 DEF Phone!JobRecord
  <2> QED
    BY <1>0, <2>1, <2>2, PhoneQuiet
<1>6. CASE Phone!ReadMessages
  <2>1. job \in Phone!JobRecord /\ UNCHANGED <<messages, messageIdCounter, late, sent, resets>>
        /\ job' = [job EXCEPT !.at = "write", !.id = messageIdCounter, !.read = messages]
    BY <1>6 DEF Phone!ReadMessages, Phone!ui, PhoneTypes
  <2>2. /\ job'.read = messages /\ job'.id = messageIdCounter /\ job'.of = job.of
        /\ job' \in Phone!JobRecord
    BY <1>1, <2>1 DEF Phone!JobRecord
  <2> QED
    BY <1>0, <2>1, <2>2, PhoneQuiet
<1>7. CASE Phone!WriteMessages
  <2> DEFINE m == [id |-> job.id, role |-> "assistant", of |-> job.of, text |-> job.text]
             r == [job EXCEPT !.at = "step", !.read = None]
  <2>1. /\ job \in Phone!JobRecord /\ job.of = sent /\ sent >= 1 /\ job.read = messages
        /\ job.id = messageIdCounter /\ late = {}
        /\ Marked(messages, messageIdCounter, sent)
    BY <1>7 DEF Phone!WriteMessages, PhoneTypes, PhoneNumbers, Marked
  <2>2. /\ messages' = Append(Phone!Others(messages), m) /\ job' = r
        /\ UNCHANGED <<messageIdCounter, late, sent, resets>>
    BY <1>7, <2>1 DEF Phone!WriteMessages
  <2>3. m \in Phone!Message /\ m.id = messageIdCounter /\ m.role = "assistant" /\ m.of = sent
    BY <1>1, <2>1 DEF Phone!Message, Phone!JobRecord
  <2>4. r.of = sent /\ r.at = "step"
    BY <2>1 DEF Phone!JobRecord
  <2> HIDE DEF m, r
  <2>5. /\ Numbered(Append(Phone!Others(messages), m), messageIdCounter, sent)
        /\ Marked(Append(Phone!Others(messages), m), messageIdCounter, sent)
        /\ Whole(Append(Phone!Others(messages), m), sent)
    BY <1>1, <2>1, <2>3, WrittenWhole
  <2>6. /\ \A j \in DOMAIN messages' :
          messages'[j].id <= messageIdCounter' /\ messages'[j].of <= sent'
        /\ \A j \in DOMAIN messages' :
             /\ messages'[j].id = messageIdCounter' => messages'[j].role = "assistant"
             /\ messages'[j].role = "assistant" /\ messages'[j].of = sent' =>
                  messages'[j].id = messageIdCounter'
    BY <2>2, <2>5 DEF Numbered, Marked
  <2>7. Phone!ChatIsWhole'
    BY <2>2, <2>5 DEF Phone!ChatIsWhole, Whole
  <2> QED
    BY <1>1, <2>1, <2>2, <2>4, <2>6, <2>7 DEF PhoneNumbers
<1>8. CASE Phone!Finish
  <2>1. /\ UNCHANGED <<messages, messageIdCounter, sent, resets>> /\ job' = None
        /\ late' = late \cup {[of |-> job.of, got |-> None]} /\ late = {}
    BY <1>8 DEF Phone!Finish, Phone!session, PhoneNumbers
  <2>2. Phone!ChatIsWhole'
    BY <2>1 DEF Phone!ChatIsWhole
  <2> QED
    BY <2>1, <2>2 DEF PhoneNumbers
<1>10. ASSUME NEW r \in late, Phone!ReadCounter(r) PROVE PhoneNumbers' /\ Phone!ChatIsWhole'
  <2>1. /\ UNCHANGED <<messages, messageIdCounter, sent, resets, job>> /\ job = None
        /\ late' = {[r EXCEPT !.got = messageIdCounter]}
    BY <1>10 DEF Phone!ReadCounter, Phone!ui, PhoneNumbers
  <2>2. [r EXCEPT !.got = messageIdCounter].got = messageIdCounter
    BY DEF PhoneTypes
  <2>3. Phone!ChatIsWhole'
    BY <2>1 DEF Phone!ChatIsWhole
  <2> QED
    BY <2>1, <2>2, <2>3 DEF PhoneNumbers
<1>11. ASSUME NEW r \in late, Phone!WriteCounter(r) PROVE PhoneNumbers' /\ Phone!ChatIsWhole'
  <2>1. /\ UNCHANGED <<messages, sent, resets, job>> /\ job = None
        /\ late' = {} /\ messageIdCounter' = messageIdCounter + 1
    BY <1>11 DEF Phone!WriteCounter, PhoneNumbers
  <2>2. ASSUME NEW j \in DOMAIN messages PROVE messages[j].id \in Nat
    <3>1. messages[j] \in Phone!Message
      BY <1>1
    <3> QED
      BY <3>1 DEF Phone!Message
  <2>3. \A j \in DOMAIN messages' : messages'[j].id <= messageIdCounter' /\ messages'[j].of <= sent'
    BY <1>1, <2>1, <2>2 DEF Numbered
  <2>4. Phone!ChatIsWhole'
    BY <2>1 DEF Phone!ChatIsWhole
  <2> QED
    BY <1>1, <2>1, <2>3, <2>4 DEF PhoneNumbers
<1>9. CASE UNCHANGED Phone!vars
  BY <1>9 DEF Phone!vars, Phone!ui, PhoneNumbers, Phone!ChatIsWhole
<1> QED
  BY <1>2, <1>3, <1>4, <1>5, <1>6, <1>7, <1>8, <1>9, <1>10, <1>11
     DEF Phone!Next, Phone!Job

(* The Android client is what its TypeOK says: it shows an answer as being *)
(* generated exactly while a job has still to publish its end, whatever    *)
(* the user resets, the model ends or the tokenizer throws, and however    *)
(* many jobs that have published it have still to count their answers.     *)
THEOREM PhoneTypeCorrect ==
  ASSUME Phone!AndroidAssumption
  PROVE  Phone!Spec => []Phone!TypeOK
<1>1. Phone!Init => PhoneTypes /\ HasRead
  BY PhoneInitially
<1>2. PhoneTypes /\ HasRead /\ [Phone!Next]_(Phone!vars) => PhoneTypes' /\ HasRead'
  BY PhoneTypesStep
<1>3. PhoneTypes => Phone!TypeOK
  <2>1. PhoneTypes => isGenerating = (job # None)
    BY Zenon DEF PhoneTypes
  <2>2. PhoneTypes => \A r \in late : r.of \in 1..sent
    BY DEF PhoneTypes
  <2> QED
    BY <2>1, <2>2 DEF PhoneTypes, Phone!TypeOK
<1> QED
  BY <1>1, <1>2, <1>3, PTL DEF Phone!Spec

(* While no session is reset, and no message is sent between a job's       *)
(* publishing its end and its counting the answer, the list of the Android *)
(* chat has every message the user sent, in the order of the turns, and no *)
(* answer twice, although the main thread and the job both write the list  *)
(* back as they read it.                                                    *)
THEOREM PhoneChatIsWhole ==
  ASSUME Phone!AndroidAssumption, MaxResets = 0, ~Quick
  PROVE  Phone!Spec => []Phone!ChatIsWhole
<1> DEFINE Inv == PhoneTypes /\ HasRead /\ PhoneNumbers /\ Phone!ChatIsWhole
<1>1. Phone!Init => Inv
  <2>1. ASSUME Phone!Init PROVE PhoneNumbers /\ Phone!ChatIsWhole
    BY <2>1 DEF Phone!Init, PhoneNumbers, Phone!ChatIsWhole
  <2> QED
    BY <2>1, PhoneInitially
<1>2. Inv /\ [Phone!Next]_(Phone!vars) => Inv'
  BY PhoneTypesStep, PhoneNumbersStep
<1>3. Inv => Phone!ChatIsWhole
  OBVIOUS
<1> QED
  BY <1>1, <1>2, <1>3, PTL DEF Phone!Spec

-----------------------------------------------------------------------------
(* The iOS chats                                                           *)

(* A token is an engine, a session and a number; what the records of the   *)
(* chats, of the tasks and of the loops hold.                              *)
SaidToken == Nat \X Nat \X Nat
Errors == {None, "tokenize", "failed", "refused", "unknown"}
ThreadRecord ==
  [id : Chats, eng : Nat, sid : Nat, generating : BOOLEAN, tokCount : Nat,
   text : Seq(SaidToken), err : Errors]
SendRecord ==
  [id : Chats, place : Nat, eng : Nat, sid : Nat,
   at : {"submit", "show", "error", "ensure", "spawn", "done"},
   got : SaidToken \cup {None}, err : Errors]
LoopRecord ==
  [eng : Nat, at : {"check", "step", "append", "ended"}, cancelled : BOOLEAN,
   fails : Nat, got : SaidToken \cup {None}]

(* What a session may be.                                                  *)
SessionStates == {"Queued", "Prefill", "Decoding", "Terminal", "Gone"}

(* The view shows chats that were begun, each with an engine that was      *)
(* built.                                                                  *)
ChatView ==
  /\ built \in Nat /\ building \in Nat /\ current \in 0..built /\ born \subseteq Chats
  /\ threads \in Seq(ThreadRecord)
  /\ \A i \in DOMAIN threads : threads[i].id \in born /\ threads[i].eng \in 1..built

(* A task has an engine that was built, and what it is to show is a token  *)
(* of that engine.                                                         *)
ChatTasks ==
  /\ sends \in Seq(SendRecord) /\ loops \in Seq(LoopRecord) /\ decodeTask \in 0..Len(loops)
  /\ \A k \in DOMAIN sends :
       /\ sends[k].id \in born /\ sends[k].eng \in 1..built
       /\ sends[k].at = "show" => sends[k].got = <<sends[k].eng, sends[k].sid, 1>>
  /\ \A l \in DOMAIN loops :
       /\ loops[l].eng \in 1..built
       /\ loops[l].at = "append" => loops[l].got \in SaidToken /\ loops[l].got[1] = loops[l].eng

(* An engine counts the tokens of each of its sessions, and its ring is of *)
(* these.                                                                  *)
ChatEngines ==
  /\ states \in Seq(Seq(SessionStates)) /\ count \in Seq(Seq(Nat)) /\ rings \in Seq(Seq(Nat))
  /\ Len(states) = built /\ Len(count) = built /\ Len(rings) = built
  /\ \A e \in 1..built :
       /\ Len(count[e]) = Len(states[e])
       /\ \A i \in DOMAIN rings[e] : rings[e][i] \in 1..Len(states[e])

(* The three together.                                                     *)
ChatTypes == ChatView /\ ChatTasks /\ ChatEngines

(* What the constants are.                                                 *)
LEMMA ChatFacts ==
  ASSUME Chat!ChatAssumption
  PROVE  /\ MaxTok \in Nat /\ MaxTok > 0 /\ MaxSaid \in Nat /\ MaxSaid > 0
         /\ MaxFails \in Nat /\ \A n \in Reloads : n \in Nat
  BY DEF Chat!ChatAssumption

(* The view appears with nothing in it.                                    *)
LEMMA ChatInitially ==
  ASSUME Chat!ChatAssumption, Chat!Init
  PROVE  ChatTypes
<1>1. /\ threads = << >> /\ born = {} /\ current = 0 /\ building \in Nat /\ built = 0
      /\ decodeTask = 0 /\ sends = << >> /\ loops = << >>
      /\ states = << >> /\ count = << >> /\ rings = << >>
  BY ChatFacts DEF Chat!Init
<1> QED
  BY <1>1 DEF ChatTypes, ChatView, ChatTasks, ChatEngines

-----------------------------------------------------------------------------
(* What the pieces of the steps do                                         *)

(* A list with another member in one place.                                *)
LEMMA SeqPut ==
  ASSUME NEW T, NEW s \in Seq(T), NEW i \in DOMAIN s, NEW v \in T
  PROVE  /\ [s EXCEPT ![i] = v] \in Seq(T)
         /\ Len([s EXCEPT ![i] = v]) = Len(s)
  OBVIOUS

(* A list without one of its members.                                      *)
LEMMA RemovedAt ==
  ASSUME NEW T, NEW s \in Seq(T), NEW i \in DOMAIN s
  PROVE  /\ Chat!RemoveAt(s, i) \in Seq(T) /\ DOMAIN Chat!RemoveAt(s, i) = 1..(Len(s) - 1)
         /\ \A j \in DOMAIN Chat!RemoveAt(s, i) :
              /\ Chat!RemoveAt(s, i)[j] = IF j < i THEN s[j] ELSE s[j + 1]
              /\ \E k \in DOMAIN s : Chat!RemoveAt(s, i)[j] = s[k]
<1> DEFINE a == SubSeq(s, 1, i - 1)
           b == SubSeq(s, i + 1, Len(s))
           r == a \o b
<1>1. Len(s) \in Nat /\ i \in 1..Len(s) /\ DOMAIN s = 1..Len(s)
  OBVIOUS
<1>2. a \in Seq(T) /\ Len(a) = i - 1 /\ \A j \in 1..(i - 1) : a[j] = s[j]
  BY <1>1
<1>3. b \in Seq(T) /\ Len(b) = Len(s) - i /\ \A j \in 1..(Len(s) - i) : b[j] = s[j + i]
  BY <1>1
<1> HIDE DEF a, b
<1>4. r \in Seq(T) /\ Len(r) = Len(s) - 1
  <2>1. a \in Seq(T) /\ b \in Seq(T)
    BY <1>2, <1>3
  <2>2. r \in Seq(T) /\ Len(r) = Len(a) + Len(b)
    BY <2>1
  <2> QED
    BY <2>2, <1>1, <1>2, <1>3
<1>5. ASSUME NEW j \in 1..(Len(s) - 1)
      PROVE  r[j] = IF j < i THEN s[j] ELSE s[j + 1]
  <2>1. CASE j < i
    BY <1>1, <1>2, <1>3, <2>1
  <2>2. CASE ~ (j < i)
    <3>1. j - (i - 1) \in 1..(Len(s) - i) /\ (j - (i - 1)) + i = j + 1
      BY <1>1, <2>2
    <3>2. r[j] = b[j - (i - 1)]
      BY <1>1, <1>2, <1>3, <2>2
    <3> QED
      BY <1>3, <2>2, <3>1, <3>2
  <2> QED
    BY <2>1, <2>2
<1>6. DOMAIN r = 1..(Len(s) - 1)
  BY <1>4
<1> HIDE DEF r
<1>7. ASSUME NEW j \in DOMAIN r
      PROVE  /\ r[j] = IF j < i THEN s[j] ELSE s[j + 1]
             /\ \E k \in DOMAIN s : r[j] = s[k]
  <2>1. j \in 1..(Len(s) - 1) /\ j \in DOMAIN s /\ j + 1 \in DOMAIN s
    BY <1>1, <1>6
  <2>2. r[j] = IF j < i THEN s[j] ELSE s[j + 1]
    BY <2>1, <1>5
  <2> QED
    BY <2>1, <2>2
<1>8. r = Chat!RemoveAt(s, i)
  BY DEF r, a, b, Chat!RemoveAt
<1> QED
  BY <1>4, <1>6, <1>7, <1>8

(* The place of a chat that is shown.                                      *)
LEMMA AtIs ==
  ASSUME NEW id, Chat!Shown(id)
  PROVE  Chat!At(id) \in DOMAIN threads /\ threads[Chat!At(id)].id = id
  BY DEF Chat!Shown, Chat!At

(* One chat changes and keeps its identity and its engine.                 *)
LEMMA OneThread ==
  ASSUME ChatView, NEW i \in DOMAIN threads, NEW r \in ThreadRecord,
         r.id = threads[i].id, r.eng = threads[i].eng,
         threads' = [threads EXCEPT ![i] = r], UNCHANGED <<born, current, building, built>>
  PROVE  ChatView'
<1>1. threads' \in Seq(ThreadRecord) /\ DOMAIN threads' = DOMAIN threads
  BY DEF ChatView
<1>2. \A j \in DOMAIN threads : threads'[j] = IF j = i THEN r ELSE threads[j]
  BY DEF ChatView
<1>3. \A j \in DOMAIN threads : threads'[j].id = threads[j].id /\ threads'[j].eng = threads[j].eng
  BY <1>2
<1> QED
  BY <1>1, <1>3 DEF ChatView

(* A step that leaves the view alone keeps its types, and so for the tasks *)
(* and the engines.                                                        *)
LEMMA SameThreads ==
  ASSUME ChatView, UNCHANGED <<threads, born, current, building, built>>
  PROVE  ChatView'
  BY DEF ChatView

(* The tasks stay as they are while chats are begun and engines built.     *)
LEMMA SameTasks ==
  ASSUME ChatTasks, UNCHANGED <<sends, loops, decodeTask>>, born \subseteq born',
         built \in Nat, built' \in Nat, built <= built'
  PROVE  ChatTasks'
<1>1. 1..built \subseteq 1..built'
  OBVIOUS
<1> QED
  BY <1>1 DEF ChatTasks

(* The engines stay as they are.                                           *)
LEMMA SameEngines ==
  ASSUME ChatEngines, UNCHANGED <<states, count, rings, built>>
  PROVE  ChatEngines'
  BY DEF ChatEngines

(* One task of a message changes.                                          *)
LEMMA OneSend ==
  ASSUME ChatTasks, NEW k \in DOMAIN sends, NEW r \in SendRecord,
         r.id = sends[k].id, r.eng \in 1..built,
         r.at = "show" => r.got = <<r.eng, r.sid, 1>>,
         sends' = [sends EXCEPT ![k] = r], UNCHANGED <<loops, decodeTask, born, built>>
  PROVE  ChatTasks'
<1>1. sends' \in Seq(SendRecord) /\ DOMAIN sends' = DOMAIN sends
  BY DEF ChatTasks
<1>2. \A j \in DOMAIN sends : sends'[j] = IF j = k THEN r ELSE sends[j]
  BY DEF ChatTasks
<1>3. \A j \in DOMAIN sends :
        /\ sends'[j].id \in born /\ sends'[j].eng \in 1..built
        /\ sends'[j].at = "show" => sends'[j].got = <<sends'[j].eng, sends'[j].sid, 1>>
  BY <1>2 DEF ChatTasks
<1> QED
  BY <1>1, <1>3 DEF ChatTasks

(* One loop changes.                                                       *)
LEMMA OneLoop ==
  ASSUME ChatTasks, NEW l \in DOMAIN loops, NEW r \in LoopRecord, r.eng = loops[l].eng,
         r.at = "append" => r.got \in SaidToken /\ r.got[1] = r.eng,
         loops' = [loops EXCEPT ![l] = r],
         UNCHANGED <<sends, born, built>>, decodeTask' \in {0, decodeTask}
  PROVE  ChatTasks'
<1>1. loops' \in Seq(LoopRecord) /\ DOMAIN loops' = DOMAIN loops /\ Len(loops') = Len(loops)
  BY DEF ChatTasks
<1>2. \A j \in DOMAIN loops : loops'[j] = IF j = l THEN r ELSE loops[j]
  BY DEF ChatTasks
<1>3. \A j \in DOMAIN loops :
        /\ loops'[j].eng \in 1..built
        /\ loops'[j].at = "append" =>
              loops'[j].got \in SaidToken /\ loops'[j].got[1] = loops'[j].eng
  BY <1>2 DEF ChatTasks
<1>4. decodeTask' \in 0..Len(loops)
  BY DEF ChatTasks
<1> QED
  BY <1>1, <1>3, <1>4 DEF ChatTasks

(* What cancelling does to an engine, and what it leaves alone.            *)
LEMMA Cancelling ==
  ASSUME ChatEngines, NEW e \in 0..built, built \in Nat, NEW S, Chat!Cancel(e, S),
         UNCHANGED <<count, built>>
  PROVE  /\ ChatEngines'
         /\ \A f \in 1..built :
              /\ Len(states'[f]) = Len(states[f])
              /\ \A s \in 1..Len(states[f]) :
                   states'[f][s] = IF f = e /\ s \in S THEN "Gone" ELSE states[f][s]
         /\ \A f \in 1..built : f # e => rings'[f] = rings[f]
<1>1. CASE e = 0
  <2>1. UNCHANGED <<states, rings>>
    BY <1>1 DEF Chat!Cancel
  <2>2. \A f \in 1..built : f # e
    BY <1>1
  <2> QED
    BY <2>1, <2>2, SameEngines
<1>2. CASE e # 0
  <2> DEFINE st == states[e]
             gone == [s \in DOMAIN st |-> IF s \in S THEN "Gone" ELSE st[s]]
             ring == rings[e]
             left == Chat!Kept(ring, Chat!Range(ring) \ S)
  <2>0. e \in 1..built
    BY <1>2
  <2>1. states' = [states EXCEPT ![e] = gone] /\ rings' = [rings EXCEPT ![e] = left]
    BY <1>2 DEF Chat!Cancel
  <2>2. st \in Seq(SessionStates) /\ ring \in Seq(Nat) /\ Len(st) \in Nat /\ DOMAIN st = 1..Len(st)
    BY <2>0 DEF ChatEngines
  <2>3. gone \in Seq(SessionStates) /\ Len(gone) = Len(st)
        /\ \A s \in 1..Len(st) : gone[s] = IF s \in S THEN "Gone" ELSE st[s]
    BY <2>2 DEF SessionStates
  <2>4. left = Kept(ring, Chat!Range(ring) \ S)
    BY DEF Chat!Kept, Chat!UpTo, Chat!Places, Kept, UpTo, Places, Chat!Cardinality, Cardinality
  <2>5. left \in Seq(Nat) /\ \A m \in DOMAIN left : \E i \in DOMAIN ring : left[m] = ring[i]
    <3> DEFINE X == Chat!Range(ring) \ S
    <3> HIDE DEF X, ring, left
    <3>1. left = Kept(ring, X)
      BY <2>4 DEF X, left, ring
    <3>2. Kept(ring, X) \in Seq(Nat)
      BY <2>2, KeptIs
    <3>3. PICK h : KeptBy(Kept(ring, X), ring, X, h)
      BY <2>2, KeptIs
    <3>4. \A m \in DOMAIN left : h[m] \in DOMAIN ring /\ left[m] = ring[h[m]]
      BY <3>1, <3>3 DEF KeptBy
    <3> QED
      BY <3>1, <3>2, <3>4
  <2> HIDE DEF gone, left
  <2>6. /\ \A f \in 1..built : states'[f] = IF f = e THEN gone ELSE states[f]
        /\ \A f \in 1..built : rings'[f] = IF f = e THEN left ELSE rings[f]
        /\ states' \in Seq(Seq(SessionStates)) /\ Len(states') = built
        /\ rings' \in Seq(Seq(Nat)) /\ Len(rings') = built
    <3>1. states \in Seq(Seq(SessionStates)) /\ Len(states) = built /\ DOMAIN states = 1..built
      BY DEF ChatEngines
    <3>2. rings \in Seq(Seq(Nat)) /\ Len(rings) = built /\ DOMAIN rings = 1..built
      BY DEF ChatEngines
    <3>3. \A f \in 1..built : states'[f] = IF f = e THEN gone ELSE states[f]
      BY <2>1, <3>1
    <3>4. \A f \in 1..built : rings'[f] = IF f = e THEN left ELSE rings[f]
      BY <2>1, <3>2
    <3>5. states' \in Seq(Seq(SessionStates)) /\ Len(states') = built
      <4>1. e \in DOMAIN states
        BY <2>0, <3>1
      <4> QED
        BY <2>1, <2>3, <3>1, <4>1, SeqPut
    <3>6. rings' \in Seq(Seq(Nat)) /\ Len(rings') = built
      <4>1. e \in DOMAIN rings
        BY <2>0, <3>2
      <4> QED
        BY <2>1, <2>5, <3>2, <4>1, SeqPut
    <3> QED
      BY <3>3, <3>4, <3>5, <3>6
  <2>7. \A f \in 1..built : Len(states'[f]) = Len(states[f])
    BY <2>3, <2>6
  <2>8. \A f \in 1..built : \A s \in 1..Len(states[f]) :
          states'[f][s] = IF f = e /\ s \in S THEN "Gone" ELSE states[f][s]
    BY <2>3, <2>6
  <2>9. \A f \in 1..built : \A i \in DOMAIN rings'[f] : rings'[f][i] \in 1..Len(states[f])
    <3> SUFFICES ASSUME NEW f \in 1..built
                 PROVE  \A i \in DOMAIN rings'[f] : rings'[f][i] \in 1..Len(states[f])
      OBVIOUS
    <3>1. \A i \in DOMAIN rings[f] : rings[f][i] \in 1..Len(states[f])
      BY DEF ChatEngines
    <3>2. CASE f = e
      BY <3>1, <3>2, <2>5, <2>6
    <3>3. CASE f # e
      BY <3>1, <3>3, <2>6
    <3> QED
      BY <3>2, <3>3
  <2>10. \A f \in 1..built : f # e => rings'[f] = rings[f]
    BY <2>6
  <2>11. ChatEngines'
    BY <2>6, <2>7, <2>9 DEF ChatEngines
  <2> QED
    BY <2>7, <2>8, <2>10, <2>11
<1> QED
  BY <1>1, <1>2

(* The state of one session changes, its count does, or the ring of its    *)
(* engine does, or they are left alone.                                    *)
StateOf(e, s) ==
  \/ UNCHANGED states
  \/ \E w \in SessionStates : states' = [states EXCEPT ![e][s] = w]

(* What a step may do to the counts of one engine.                         *)
CountOf(e, s) ==
  \/ UNCHANGED count
  \/ \E n \in Nat : count' = [count EXCEPT ![e][s] = n]

(* What a step may do to one ring.                                         *)
RingOf(e) ==
  \/ UNCHANGED rings
  \/ \E r \in Seq(Nat) : /\ rings' = [rings EXCEPT ![e] = r]
                        /\ \A i \in DOMAIN r : r[i] \in 1..Len(states[e])

(* So much and no more leaves the engines what they are.                   *)
LEMMA OneSession ==
  ASSUME ChatEngines, built \in Nat, UNCHANGED built,
         NEW e \in 1..built, NEW s \in 1..Len(states[e]),
         StateOf(e, s), CountOf(e, s), RingOf(e)
  PROVE  ChatEngines'
<1>1. /\ states \in Seq(Seq(SessionStates)) /\ DOMAIN states = 1..built
      /\ count \in Seq(Seq(Nat)) /\ DOMAIN count = 1..built
      /\ rings \in Seq(Seq(Nat)) /\ DOMAIN rings = 1..built
      /\ Len(count[e]) = Len(states[e])
      /\ states[e] \in Seq(SessionStates) /\ count[e] \in Seq(Nat)
  BY DEF ChatEngines
<1>2. /\ states' \in Seq(Seq(SessionStates)) /\ Len(states') = built
      /\ \A f \in 1..built : Len(states'[f]) = Len(states[f])
  <2>1. CASE UNCHANGED states
    BY <2>1 DEF ChatEngines
  <2>2. CASE ~UNCHANGED states
    <3>0. PICK w \in SessionStates : states' = [states EXCEPT ![e][s] = w]
      BY <2>2 DEF StateOf
    <3> DEFINE v == [states[e] EXCEPT ![s] = w]
    <3>1. v \in Seq(SessionStates) /\ Len(v) = Len(states[e])
      BY <1>1, SeqPut
    <3>2. states' = [states EXCEPT ![e] = v]
      BY <3>0
    <3> HIDE DEF v
    <3>3. states' \in Seq(Seq(SessionStates)) /\ Len(states') = Len(states)
      BY <1>1, <3>1, <3>2, SeqPut
    <3>4. \A f \in 1..built : Len(states'[f]) = Len(states[f])
      BY <1>1, <3>1, <3>2
    <3> QED
      BY <3>3, <3>4 DEF ChatEngines
  <2> QED
    BY <2>1, <2>2
<1>3. /\ count' \in Seq(Seq(Nat)) /\ Len(count') = built
      /\ \A f \in 1..built : Len(count'[f]) = Len(count[f])
  <2>1. CASE UNCHANGED count
    BY <2>1 DEF ChatEngines
  <2>2. CASE ~UNCHANGED count
    <3>a. PICK n \in Nat : count' = [count EXCEPT ![e][s] = n]
      BY <2>2 DEF CountOf
    <3> DEFINE v == [count[e] EXCEPT ![s] = n]
    <3>0. s \in DOMAIN count[e]
      BY <1>1
    <3>1. v \in Seq(Nat) /\ Len(v) = Len(count[e])
      BY <1>1, <3>0, SeqPut
    <3>2. count' = [count EXCEPT ![e] = v]
      BY <3>a
    <3> HIDE DEF v
    <3>3. count' \in Seq(Seq(Nat)) /\ Len(count') = Len(count)
      BY <1>1, <3>1, <3>2, SeqPut
    <3>4. \A f \in 1..built : Len(count'[f]) = Len(count[f])
      BY <1>1, <3>1, <3>2
    <3> QED
      BY <3>3, <3>4 DEF ChatEngines
  <2> QED
    BY <2>1, <2>2
<1>4. /\ rings' \in Seq(Seq(Nat)) /\ Len(rings') = built
      /\ \A f \in 1..built : \A i \in DOMAIN rings'[f] : rings'[f][i] \in 1..Len(states[f])
  <2>1. CASE UNCHANGED rings
    BY <2>1 DEF ChatEngines
  <2>2. CASE ~UNCHANGED rings
    <3>0. PICK r \in Seq(Nat) : /\ rings' = [rings EXCEPT ![e] = r]
                               /\ \A i \in DOMAIN r : r[i] \in 1..Len(states[e])
      BY <2>2 DEF RingOf
    <3>a. e \in DOMAIN rings
      BY <1>1
    <3>1. rings' \in Seq(Seq(Nat)) /\ Len(rings') = Len(rings)
      BY <1>1, <3>0, <3>a, SeqPut
    <3>2. \A f \in 1..built : rings'[f] = IF f = e THEN r ELSE rings[f]
      BY <1>1, <3>0
    <3>3. \A f \in 1..built : \A i \in DOMAIN rings'[f] : rings'[f][i] \in 1..Len(states[f])
      BY <3>0, <3>2 DEF ChatEngines
    <3> QED
      BY <3>1, <3>3 DEF ChatEngines
  <2> QED
    BY <2>1, <2>2
<1> QED
  BY <1>2, <1>3, <1>4 DEF ChatEngines

-----------------------------------------------------------------------------
(* Every step keeps the types                                              *)

(* What the user does keeps the types.                                     *)
LEMMA UserTypes ==
  ASSUME Chat!ChatAssumption, ChatTypes, Chat!User
  PROVE  ChatTypes'
<1>0. built \in Nat /\ current \in 0..built /\ threads \in Seq(ThreadRecord)
  BY DEF ChatTypes, ChatView
<1>1. ASSUME NEW id \in Chats, Chat!CreateThread(id) PROVE ChatTypes'
  <2> DEFINE t == [id |-> id, eng |-> current, sid |-> Len(states[current]) + 1,
                   generating |-> FALSE, tokCount |-> 0, text |-> << >>, err |-> None]
  <2>1. /\ current \in 1..built /\ threads' = Append(threads, t) /\ born' = born \cup {id}
        /\ states' = [states EXCEPT ![current] = Append(@, "Queued")]
        /\ count' = [count EXCEPT ![current] = Append(@, 0)]
        /\ UNCHANGED <<rings, current, building, built, decodeTask, sends, loops>>
    BY <1>0, <1>1 DEF Chat!CreateThread, Chat!CreateSession, Chat!tasks
  <2>2. /\ states[current] \in Seq(SessionStates) /\ count[current] \in Seq(Nat)
        /\ Len(count[current]) = Len(states[current]) /\ Len(states[current]) \in Nat
        /\ states \in Seq(Seq(SessionStates)) /\ DOMAIN states = 1..built
        /\ count \in Seq(Seq(Nat)) /\ DOMAIN count = 1..built
    BY <2>1 DEF ChatTypes, ChatEngines
  <2>3. t \in ThreadRecord /\ t.id = id /\ t.eng = current
    BY <2>1, <2>2, <1>0 DEF ThreadRecord, Errors, SaidToken
  <2> HIDE DEF t
  <2>4. ChatView'
    <3>1. threads' \in Seq(ThreadRecord) /\ DOMAIN threads' = 1..(Len(threads) + 1)
      BY <1>0, <2>1, <2>3
    <3>2. \A i \in DOMAIN threads' :
            threads'[i] = t \/ (i \in DOMAIN threads /\ threads'[i] = threads[i])
      BY <1>0, <2>1, <2>3
    <3>3. \A i \in DOMAIN threads' : threads'[i].id \in born' /\ threads'[i].eng \in 1..built'
      BY <2>1, <2>3, <3>2 DEF ChatTypes, ChatView
    <3> QED
      BY <2>1, <3>1, <3>3 DEF ChatTypes, ChatView
  <2>5. ChatTasks'
    BY <1>0, <2>1, SameTasks DEF ChatTypes
  <2>6. ChatEngines'
    <3> DEFINE st == Append(states[current], "Queued")
               co == Append(count[current], 0)
    <3>1. st \in Seq(SessionStates) /\ Len(st) = Len(states[current]) + 1
      BY <2>2 DEF SessionStates
    <3>2. co \in Seq(Nat) /\ Len(co) = Len(count[current]) + 1
      BY <2>2
    <3>3. states' = [states EXCEPT ![current] = st] /\ count' = [count EXCEPT ![current] = co]
      BY <2>1
    <3> HIDE DEF st, co
    <3>a. current \in DOMAIN states /\ current \in DOMAIN count
      BY <2>1, <2>2
    <3>b. states \in Seq(Seq(SessionStates)) /\ count \in Seq(Seq(Nat))
      BY <2>2
    <3>4. states' \in Seq(Seq(SessionStates)) /\ Len(states') = Len(states)
      BY <3>1, <3>3, <3>a, <3>b, SeqPut
    <3>5. count' \in Seq(Seq(Nat)) /\ Len(count') = Len(count)
      BY <3>2, <3>3, <3>a, <3>b, SeqPut
    <3>6. /\ \A f \in 1..built : states'[f] = IF f = current THEN st ELSE states[f]
          /\ \A f \in 1..built : count'[f] = IF f = current THEN co ELSE count[f]
      BY <2>2, <3>3
    <3>7. \A f \in 1..built :
            Len(count'[f]) = Len(states'[f]) /\ 1..Len(states[f]) \subseteq 1..Len(states'[f])
      <4> SUFFICES ASSUME NEW f \in 1..built
                   PROVE  /\ Len(count'[f]) = Len(states'[f])
                           /\ 1..Len(states[f]) \subseteq 1..Len(states'[f])
        OBVIOUS
      <4>1. CASE f = current
        BY <4>1, <3>6, <3>1, <3>2, <2>2
      <4>2. CASE f # current
        BY <4>2, <3>6 DEF ChatTypes, ChatEngines
      <4> QED
        BY <4>1, <4>2
    <3> QED
      BY <2>1, <3>4, <3>5, <3>7 DEF ChatTypes, ChatEngines
  <2> QED
    BY <2>4, <2>5, <2>6 DEF ChatTypes
<1>2. ASSUME NEW id \in Chats, Chat!Delete(id) PROVE ChatTypes'
  <2> DEFINE i == Chat!At(id)
  <2>1. /\ i \in DOMAIN threads /\ threads' = Chat!RemoveAt(threads, i)
        /\ Chat!Cancel(current, {threads[i].sid})
        /\ UNCHANGED <<born, current, building, built, decodeTask, sends, loops, count>>
    BY <1>2, AtIs DEF Chat!Delete, Chat!tasks
  <2> HIDE DEF i
  <2>2. ChatView'
    <3>1. /\ threads' \in Seq(ThreadRecord)
          /\ \A j \in DOMAIN threads' : \E k \in DOMAIN threads : threads'[j] = threads[k]
      BY <1>0, <2>1, RemovedAt
    <3> QED
      BY <2>1, <3>1 DEF ChatTypes, ChatView
  <2>3. ChatTasks'
    BY <1>0, <2>1, SameTasks DEF ChatTypes
  <2>4. ChatEngines'
    BY <1>0, <2>1, Cancelling DEF ChatTypes
  <2> QED
    BY <2>2, <2>3, <2>4 DEF ChatTypes
<1>3. ASSUME NEW id \in Chats, Chat!Stop(id) PROVE ChatTypes'
  <2> DEFINE i == Chat!At(id)
             r == [threads[i] EXCEPT !.generating = FALSE]
  <2>1. /\ i \in DOMAIN threads /\ threads' = [threads EXCEPT ![i] = r]
        /\ Chat!Cancel(current, {threads[i].sid})
        /\ UNCHANGED <<born, current, building, built, decodeTask, sends, loops, count>>
    BY <1>3, AtIs DEF Chat!Stop, Chat!tasks
  <2>2. threads[i] \in ThreadRecord
    BY <1>0, <2>1
  <2>3. r \in ThreadRecord /\ r.id = threads[i].id /\ r.eng = threads[i].eng
    BY <2>2 DEF ThreadRecord
  <2> HIDE DEF i, r
  <2>4. ChatView'
    BY <2>1, <2>3, OneThread DEF ChatTypes
  <2>5. ChatTasks'
    BY <1>0, <2>1, SameTasks DEF ChatTypes
  <2>6. ChatEngines'
    BY <1>0, <2>1, Cancelling DEF ChatTypes
  <2> QED
    BY <2>4, <2>5, <2>6 DEF ChatTypes
<1>4. ASSUME NEW id \in Chats, Chat!Send(id) PROVE ChatTypes'
  <2> DEFINE i == Chat!At(id)
             r == [threads[i] EXCEPT !.generating = TRUE, !.tokCount = 0, !.text = << >>,
                                       !.err = None]
             m == [id |-> id, place |-> i, eng |-> current, sid |-> threads[i].sid,
                   at |-> "submit", got |-> None, err |-> None]
  <2>1. /\ i \in DOMAIN threads /\ threads[i].id = id /\ threads' = [threads EXCEPT ![i] = r]
        /\ current # 0 /\ sends' = Append(sends, m)
        /\ UNCHANGED <<born, current, building, built, decodeTask, loops, states, count, rings>>
    BY <1>4, AtIs DEF Chat!Send, Chat!engines
  <2>2. threads[i] \in ThreadRecord
    BY <1>0, <2>1
  <2>3. r \in ThreadRecord /\ r.id = threads[i].id /\ r.eng = threads[i].eng
    <3>1. << >> \in Seq(SaidToken) /\ None \in Errors /\ 0 \in Nat /\ TRUE \in BOOLEAN
      BY DEF Errors
    <3> HIDE DEF i
    <3> QED
      BY <2>2, <3>1 DEF ThreadRecord
  <2>4. m \in SendRecord /\ m.id = id /\ m.eng = current /\ m.at = "submit"
    <3>1. threads[i].sid \in Nat /\ i \in Nat
      BY <1>0, <2>1, <2>2 DEF ThreadRecord
    <3> QED
      BY <1>0, <3>1 DEF SendRecord, Errors
  <2> HIDE DEF i, r, m
  <2>5. ChatView'
    BY <2>1, <2>3, OneThread DEF ChatTypes
  <2>6. ChatTasks'
    <3>1. sends \in Seq(SendRecord)
      BY DEF ChatTypes, ChatTasks
    <3>2. sends' \in Seq(SendRecord)
          /\ \A k \in DOMAIN sends' : sends'[k] = m \/ (k \in DOMAIN sends /\ sends'[k] = sends[k])
      BY <2>1, <2>4, <3>1
    <3>3. id \in born /\ current \in 1..built
      BY <1>0, <2>1 DEF ChatTypes, ChatView
    <3>4. \A k \in DOMAIN sends' :
            /\ sends'[k].id \in born /\ sends'[k].eng \in 1..built
            /\ sends'[k].at = "show" => sends'[k].got = <<sends'[k].eng, sends'[k].sid, 1>>
      BY <2>4, <3>2, <3>3 DEF ChatTypes, ChatTasks
    <3> QED
      BY <2>1, <3>2, <3>4 DEF ChatTypes, ChatTasks
  <2>7. ChatEngines'
    BY <2>1, SameEngines DEF ChatTypes
  <2> QED
    BY <2>5, <2>6, <2>7 DEF ChatTypes
<1>5. ASSUME NEW id \in Chats, Chat!SendFails(id) PROVE ChatTypes'
  <2> DEFINE i == Chat!At(id)
             r == [threads[i] EXCEPT !.tokCount = 0, !.text = << >>, !.err = "tokenize"]
  <2>1. /\ i \in DOMAIN threads /\ threads' = [threads EXCEPT ![i] = r]
        /\ UNCHANGED <<born, current, building, built, decodeTask, sends, loops, states, count,
                       rings>>
    BY <1>5, AtIs DEF Chat!SendFails, Chat!tasks, Chat!engines
  <2>2. threads[i] \in ThreadRecord
    BY <1>0, <2>1
  <2>3. r \in ThreadRecord /\ r.id = threads[i].id /\ r.eng = threads[i].eng
    <3>1. << >> \in Seq(SaidToken) /\ "tokenize" \in Errors /\ 0 \in Nat
      BY DEF Errors
    <3> HIDE DEF i
    <3> QED
      BY <2>2, <3>1 DEF ThreadRecord
  <2> HIDE DEF i, r
  <2>4. ChatView'
    BY <2>1, <2>3, OneThread DEF ChatTypes
  <2>5. ChatTasks'
    BY <1>0, <2>1, SameTasks DEF ChatTypes
  <2>6. ChatEngines'
    BY <2>1, SameEngines DEF ChatTypes
  <2> QED
    BY <2>4, <2>5, <2>6 DEF ChatTypes
<1>6. ASSUME NEW n \in Reloads, Chat!Reload(n) PROVE ChatTypes'
  <2>1. /\ Chat!Cancel(current, {threads[i].sid : i \in DOMAIN threads})
        /\ threads' = [i \in DOMAIN threads |-> [threads[i] EXCEPT !.sid = 0, !.generating = FALSE]]
        /\ loops' = IF decodeTask = 0 THEN loops ELSE Chat!Cancelled(decodeTask)
        /\ decodeTask' = 0 /\ current' = 0 /\ building' = building + n
        /\ UNCHANGED <<born, built, sends, count>>
    BY <1>6 DEF Chat!Reload, Chat!Invalidate
  <2>2. ChatView'
    <3>1. \A i \in DOMAIN threads :
            /\ threads'[i] \in ThreadRecord
            /\ threads'[i].id = threads[i].id /\ threads'[i].eng = threads[i].eng
      <4> SUFFICES ASSUME NEW i \in DOMAIN threads
                   PROVE  /\ threads'[i] \in ThreadRecord
                          /\ threads'[i].id = threads[i].id /\ threads'[i].eng = threads[i].eng
        OBVIOUS
      <4>1. threads[i] \in ThreadRecord
        BY <1>0
      <4>2. threads'[i] = [threads[i] EXCEPT !.sid = 0, !.generating = FALSE]
        BY <2>1
      <4> DEFINE t == threads[i]
                 u == [t EXCEPT !.sid = 0, !.generating = FALSE]
      <4>3. t \in ThreadRecord /\ threads'[i] = u
        BY <4>1, <4>2
      <4> HIDE DEF t
      <4>4. u \in ThreadRecord /\ u.id = t.id /\ u.eng = t.eng
        BY <4>3 DEF ThreadRecord
      <4> QED
        BY <4>3, <4>4 DEF t
    <3>2. /\ DOMAIN threads' = DOMAIN threads /\ DOMAIN threads = 1..Len(threads)
          /\ Len(threads) \in Nat
      <4>1. DOMAIN threads' = DOMAIN threads
        BY <2>1
      <4>2. DOMAIN threads = 1..Len(threads) /\ Len(threads) \in Nat
        BY <1>0
      <4> QED
        BY <4>1, <4>2
    <3>3. threads' \in Seq(ThreadRecord)
      <4> DEFINE n1 == Len(threads)
                 t(i) == [threads[i] EXCEPT !.sid = 0, !.generating = FALSE]
      <4>1. threads' = [i \in 1..n1 |-> t(i)] /\ \A i \in 1..n1 : t(i) = threads'[i]
        BY <2>1, <3>2
      <4>2. n1 \in Nat /\ \A i \in 1..n1 : t(i) \in ThreadRecord
        BY <3>1, <3>2, <4>1
      <4> HIDE DEF n1, t
      <4> QED
        BY <4>1, <4>2
    <3>4. building + n \in Nat
      BY ChatFacts DEF ChatTypes, ChatView
    <3>5. UNCHANGED <<born, built>> /\ current' = 0 /\ building' = building + n
      BY <2>1
    <3>6. \A i \in DOMAIN threads' : threads'[i].id \in born' /\ threads'[i].eng \in 1..built'
      BY <3>1, <3>2, <3>5 DEF ChatTypes, ChatView
    <3> QED
      BY <3>3, <3>4, <3>5, <3>6 DEF ChatTypes, ChatView
  <2>3. ChatTasks'
    <3>1. CASE decodeTask = 0
      <4>1. UNCHANGED <<sends, loops, decodeTask, born, built>>
        BY <2>1, <3>1
      <4> QED
        BY <1>0, <4>1, SameTasks DEF ChatTypes
    <3>2. CASE decodeTask # 0
      <4> DEFINE r == [loops[decodeTask] EXCEPT !.cancelled = TRUE]
      <4>1. decodeTask \in DOMAIN loops /\ loops \in Seq(LoopRecord)
        BY <3>2 DEF ChatTypes, ChatTasks
      <4>2. loops[decodeTask] \in LoopRecord
        BY <4>1
      <4>3. r \in LoopRecord /\ r.eng = loops[decodeTask].eng /\ r.at = loops[decodeTask].at
            /\ r.got = loops[decodeTask].got
        BY <4>2 DEF LoopRecord
      <4>4. loops' = [loops EXCEPT ![decodeTask] = r]
        BY <2>1, <3>2 DEF Chat!Cancelled
      <4>5. r.at = "append" => r.got \in SaidToken /\ r.got[1] = r.eng
        BY <4>1, <4>3 DEF ChatTypes, ChatTasks
      <4> HIDE DEF r
      <4> QED
        BY <2>1, <4>1, <4>3, <4>4, <4>5, OneLoop DEF ChatTypes
    <3> QED
      BY <3>1, <3>2
  <2>4. ChatEngines'
    BY <1>0, <2>1, Cancelling DEF ChatTypes
  <2> QED
    BY <2>2, <2>3, <2>4 DEF ChatTypes
<1> QED
  BY <1>1, <1>2, <1>3, <1>4, <1>5, <1>6 DEF Chat!User

(* A build that fails leaves all but the number of builds alone.           *)
LEMMA FailedBuild ==
  ASSUME Chat!BuildFails
  PROVE  /\ building > 0 /\ building' = building - 1
         /\ UNCHANGED <<threads, born, current, built, decodeTask, sends, loops, states, count,
                        rings>>
  BY DEF Chat!BuildFails, Chat!tasks, Chat!engines

(* An engine that is ready keeps the types, and so does one that is not.   *)
LEMMA BuildTypes ==
  ASSUME ChatTypes, Chat!Build
  PROVE  ChatTypes'
<1>1. CASE Chat!BuildFails
  BY <1>1, FailedBuild, SameTasks, SameEngines DEF ChatTypes, ChatView
<1>2. CASE Chat!EngineBuilt
  <2>1. /\ building > 0 /\ building' = building - 1 /\ built' = built + 1 /\ current' = built + 1
        /\ states' = Append(states, << >>) /\ count' = Append(count, << >>)
        /\ rings' = Append(rings, << >>)
        /\ UNCHANGED <<threads, born, decodeTask, sends, loops>>
    BY <1>2 DEF Chat!EngineBuilt, Chat!tasks
  <2>2. built \in Nat /\ building \in Nat /\ building' \in Nat /\ built' \in Nat /\ built <= built'
        /\ current' \in 0..built' /\ 1..built \subseteq 1..built'
    BY <2>1 DEF ChatTypes, ChatView
  <2>3. ChatView'
    BY <2>1, <2>2 DEF ChatTypes, ChatView
  <2>4. ChatTasks'
    BY <2>1, <2>2, SameTasks DEF ChatTypes
  <2>5. ChatEngines'
    <3>1. /\ states \in Seq(Seq(SessionStates)) /\ count \in Seq(Seq(Nat))
          /\ rings \in Seq(Seq(Nat))
          /\ Len(states) = built /\ Len(count) = built /\ Len(rings) = built
      BY DEF ChatTypes, ChatEngines
    <3>2. states' \in Seq(Seq(SessionStates)) /\ Len(states') = built + 1
          /\ \A e \in 1..(built + 1) : states'[e] = IF e = built + 1 THEN << >> ELSE states[e]
      BY <2>1, <2>2, <3>1
    <3>3. count' \in Seq(Seq(Nat)) /\ Len(count') = built + 1
          /\ \A e \in 1..(built + 1) : count'[e] = IF e = built + 1 THEN << >> ELSE count[e]
      BY <2>1, <2>2, <3>1
    <3>4. rings' \in Seq(Seq(Nat)) /\ Len(rings') = built + 1
          /\ \A e \in 1..(built + 1) : rings'[e] = IF e = built + 1 THEN << >> ELSE rings[e]
      BY <2>1, <2>2, <3>1
    <3>5. ASSUME NEW e \in 1..(built + 1)
          PROVE  /\ Len(count'[e]) = Len(states'[e])
                 /\ \A i \in DOMAIN rings'[e] : rings'[e][i] \in 1..Len(states'[e])
      <4>1. CASE e = built + 1
        BY <3>2, <3>3, <3>4, <4>1
      <4>2. CASE e # built + 1
        <5>1. /\ e \in 1..built /\ states'[e] = states[e]
              /\ count'[e] = count[e] /\ rings'[e] = rings[e]
          <6>1. e \in 1..built
            BY <2>2, <4>2
          <6>2. states'[e] = states[e]
            BY <3>2, <4>2
          <6>3. count'[e] = count[e]
            BY <3>3, <4>2
          <6>4. rings'[e] = rings[e]
            BY <3>4, <4>2
          <6> QED
            BY <6>1, <6>2, <6>3, <6>4
        <5> QED
          BY <5>1 DEF ChatTypes, ChatEngines
      <4> QED
        BY <4>1, <4>2
    <3> QED
      BY <2>1, <3>2, <3>3, <3>4, <3>5 DEF ChatEngines
  <2> QED
    BY <2>3, <2>4, <2>5 DEF ChatTypes
<1> QED
  BY <1>1, <1>2 DEF Chat!Build

(* What the task of a message finds, and what may become of it.            *)
LEMMA TheSend ==
  ASSUME ChatTypes, NEW k \in DOMAIN sends
  PROVE  /\ sends \in Seq(SendRecord) /\ sends[k] \in SendRecord
         /\ sends[k].eng \in 1..built /\ sends[k].eng \in Nat /\ sends[k].sid \in Nat
         /\ sends[k].id \in born /\ sends[k].id \in Chats
         /\ sends[k].err \in Errors /\ sends[k].got \in SaidToken \cup {None}
<1>1. sends \in Seq(SendRecord) /\ sends[k].eng \in 1..built /\ sends[k].id \in born
  BY DEF ChatTypes, ChatTasks
<1>2. sends[k] \in SendRecord
  BY <1>1
<1> QED
  BY <1>1, <1>2 DEF SendRecord

(* A prompt that is submitted keeps the types.                             *)
LEMMA SubmitTypes ==
  ASSUME ChatTypes, NEW k \in DOMAIN sends, Chat!Submit(k)
  PROVE  ChatTypes'
<1> DEFINE t == sends[k]
           e == sends[k].eng
           s == sends[k].sid
<1>1. t \in SendRecord /\ e \in 1..built /\ s \in Nat /\ built \in Nat /\ sends \in Seq(SendRecord)
  BY TheSend DEF ChatTypes, ChatView
<1>2. UNCHANGED <<threads, born, current, building, built, decodeTask, loops>>
  BY DEF Chat!Submit, Chat!view
<1>3. ChatView'
  BY <1>2, SameThreads DEF ChatTypes
<1>4. ASSUME Chat!Known(e, s)
      PROVE  s \in 1..Len(states[e])
  <2>1. states[e] \in Seq(SessionStates)
    BY <1>1 DEF ChatTypes, ChatEngines
  <2> QED
    BY <1>4, <2>1 DEF Chat!Known
<1>5. ASSUME Chat!Known(e, s), Chat!Submitted(e, s)
      PROVE  ChatEngines'
  <2>1. /\ states' = [states EXCEPT ![e][s] = "Decoding"] /\ count' = [count EXCEPT ![e][s] = 1]
        /\ rings' = [rings EXCEPT ![e] = Append(@, s)]
    BY <1>5 DEF Chat!Submitted
  <2>2. RingOf(e)
    <3>1. rings[e] \in Seq(Nat) /\ \A i \in DOMAIN rings[e] : rings[e][i] \in 1..Len(states[e])
      BY <1>1 DEF ChatTypes, ChatEngines
    <3> DEFINE r == Append(rings[e], s)
    <3>2. r \in Seq(Nat) /\ \A i \in DOMAIN r : r[i] \in 1..Len(states[e])
      <4> DEFINE ring == rings[e]
                 L == 1..Len(states[e])
      <4>1. ring \in Seq(Nat) /\ s \in L /\ s \in Nat /\ \A i \in DOMAIN ring : ring[i] \in L
        BY <3>1, <1>1, <1>4, <1>5
      <4>2. r = Append(ring, s)
        OBVIOUS
      <4> HIDE DEF ring, L, r, s
      <4>3. r \in Seq(Nat) /\ \A i \in DOMAIN r : r[i] \in L
        BY <4>1, <4>2
      <4> QED
        BY <4>3 DEF L
    <3>3. rings' = [rings EXCEPT ![e] = r]
      BY <2>1
    <3> HIDE DEF r
    <3> QED
      BY <3>2, <3>3 DEF RingOf
  <2>3. StateOf(e, s) /\ CountOf(e, s)
    BY <2>1 DEF StateOf, CountOf, SessionStates
  <2> QED
    BY <1>1, <1>2, <1>4, <1>5, <2>2, <2>3, OneSession DEF ChatTypes
<1>6. CASE /\ Chat!Known(e, s) /\ Chat!Submitted(e, s)
           /\ sends' = [sends EXCEPT ![k].at = "show", ![k].got = <<e, s, 1>>]
  <2> DEFINE r == [t EXCEPT !.at = "show", !.got = <<e, s, 1>>]
  <2>1. <<e, s, 1>> \in SaidToken
    BY <1>1 DEF SaidToken
  <2>2. r \in SendRecord /\ r.id = t.id /\ r.eng = e /\ r.sid = s /\ r.got = <<e, s, 1>>
    BY <1>1, <2>1 DEF SendRecord
  <2>3. sends' = [sends EXCEPT ![k] = r]
    BY <1>6, <1>1
  <2> HIDE DEF r
  <2>4. ChatTasks'
    BY <1>1, <1>2, <2>2, <2>3, OneSend DEF ChatTypes
  <2> QED
    BY <1>3, <1>5, <1>6, <2>4 DEF ChatTypes
<1>7. ASSUME sends' = [sends EXCEPT ![k].at = "error", ![k].err = "failed"]
      PROVE  ChatTasks'
  <2> DEFINE r == [t EXCEPT !.at = "error", !.err = "failed"]
  <2>1. r \in SendRecord /\ r.id = t.id /\ r.eng = e /\ r.at = "error"
    BY <1>1 DEF SendRecord, Errors
  <2>2. sends' = [sends EXCEPT ![k] = r]
    BY <1>7, <1>1
  <2> HIDE DEF r
  <2> QED
    BY <1>1, <1>2, <2>1, <2>2, OneSend DEF ChatTypes
<1>8. CASE /\ Chat!Known(e, s) /\ Chat!Submitted(e, s)
           /\ sends' = [sends EXCEPT ![k].at = "error", ![k].err = "failed"]
  BY <1>3, <1>5, <1>7, <1>8 DEF ChatTypes
<1>9. CASE /\ Chat!Known(e, s) /\ states' = [states EXCEPT ![e][s] = "Prefill"]
           /\ sends' = [sends EXCEPT ![k].at = "error", ![k].err = "failed"]
           /\ UNCHANGED <<count, rings>>
  <2>1. StateOf(e, s) /\ CountOf(e, s) /\ RingOf(e)
    BY <1>9 DEF StateOf, CountOf, RingOf, SessionStates
  <2>2. ChatEngines'
    BY <1>1, <1>2, <1>4, <1>9, <2>1, OneSession DEF ChatTypes
  <2> QED
    BY <1>3, <1>7, <1>9, <2>2 DEF ChatTypes
<1>10. CASE /\ \E x \in {"refused", "unknown"} :
                 sends' = [sends EXCEPT ![k].at = "error", ![k].err = x]
           /\ UNCHANGED <<states, count, rings>>
  <2>1. PICK x \in {"refused", "unknown"} : sends' = [sends EXCEPT ![k].at = "error", ![k].err = x]
    BY <1>10
  <2> DEFINE r == [t EXCEPT !.at = "error", !.err = x]
  <2>2. r \in SendRecord /\ r.id = t.id /\ r.eng = e /\ r.at = "error"
    BY <1>1, <2>1 DEF SendRecord, Errors
  <2>3. sends' = [sends EXCEPT ![k] = r]
    BY <2>1, <1>1
  <2> HIDE DEF r
  <2>4. ChatTasks'
    BY <1>1, <1>2, <2>2, <2>3, OneSend DEF ChatTypes
  <2>5. ChatEngines'
    BY <1>2, <1>10, SameEngines DEF ChatTypes
  <2> QED
    BY <1>3, <2>4, <2>5 DEF ChatTypes
<1> HIDE DEF t
<1> QED
  BY <1>6, <1>8, <1>9, <1>10 DEF Chat!Submit, Chat!engines

(* A step of a message's task keeps the types.                             *)
LEMMA SendTypes ==
  ASSUME ChatTypes, NEW k \in DOMAIN sends, Chat!SendTask(k)
  PROVE  ChatTypes'
<1> DEFINE t == sends[k]
           id == sends[k].id
           i == Chat!At(id)
<1>1. /\ t \in SendRecord /\ t.eng \in 1..built /\ t.sid \in Nat /\ built \in Nat
      /\ sends \in Seq(SendRecord) /\ t.err \in Errors /\ t.got \in SaidToken \cup {None}
      /\ threads \in Seq(ThreadRecord) /\ current \in 0..built
  BY TheSend DEF ChatTypes, ChatView
<1>2. ASSUME Chat!Shown(id)
      PROVE  i \in DOMAIN threads /\ threads[i] \in ThreadRecord
  BY <1>1, <1>2, AtIs
<1>3. ASSUME NEW w \in {"ensure", "done"}, sends' = [sends EXCEPT ![k].at = w],
             UNCHANGED <<loops, decodeTask, born, built>>
      PROVE  ChatTasks'
  <2> DEFINE r == [t EXCEPT !.at = w]
  <2>1. r \in SendRecord /\ r.id = t.id /\ r.eng = t.eng /\ r.at # "show"
    BY <1>1 DEF SendRecord
  <2>2. sends' = [sends EXCEPT ![k] = r]
    BY <1>3
  <2> HIDE DEF r
  <2> QED
    BY <1>1, <1>3, <2>1, <2>2, OneSend DEF ChatTypes
<1>4. ASSUME Chat!Submit(k) PROVE ChatTypes'
  BY <1>4, SubmitTypes
<1>5. ASSUME Chat!Show(k) PROVE ChatTypes'
  <2>1. /\ t.at = "show" /\ sends' = [sends EXCEPT ![k].at = "ensure"]
        /\ UNCHANGED <<born, current, building, built, decodeTask, loops, states, count, rings>>
    BY <1>5 DEF Chat!Show, Chat!engines
  <2>2. ChatTasks' /\ ChatEngines'
    BY <2>1, <1>3, SameEngines DEF ChatTypes
  <2>3. CASE ~Chat!Shown(id)
    <3>1. threads' = threads
      BY <1>5, <2>3 DEF Chat!Show
    <3> QED
      BY <2>1, <2>2, <3>1, SameThreads DEF ChatTypes
  <2>4. CASE Chat!Shown(id)
    <3>1. PICK stop \in {FALSE, Stops} :
            threads' = [threads EXCEPT ![i] =
                          [threads[i] EXCEPT
                             !.text = Append(threads[i].text, t.got), !.tokCount = 1,
                             !.generating = threads[i].generating /\ ~stop /\ MaxTok > 1]]
      BY <1>5, <2>4 DEF Chat!Show
    <3> DEFINE g == threads[i].generating /\ ~stop /\ MaxTok > 1
               x == Append(threads[i].text, t.got)
               r == [threads[i] EXCEPT !.text = x, !.tokCount = 1, !.generating = g]
    <3>2. threads' = [threads EXCEPT ![i] = r]
      BY <3>1, Zenon
    <3>3. g \in BOOLEAN
      OBVIOUS
    <3>4. x \in Seq(SaidToken)
      <4>1. t.got = <<t.eng, t.sid, 1>>
        BY <2>1 DEF ChatTypes, ChatTasks
      <4>2. t.got \in SaidToken
        BY <1>1, <4>1 DEF SaidToken
      <4>3. threads[i].text \in Seq(SaidToken)
        BY <1>2, <2>4 DEF ThreadRecord
      <4> QED
        BY <4>2, <4>3
    <3> HIDE DEF g, x
    <3>5. r \in ThreadRecord /\ r.id = threads[i].id /\ r.eng = threads[i].eng
      BY <1>2, <2>4, <3>3, <3>4 DEF ThreadRecord
    <3> HIDE DEF r, i
    <3>6. ChatView'
      BY <1>2, <2>1, <2>4, <3>2, <3>5, OneThread DEF ChatTypes
    <3> QED
      BY <2>2, <3>6 DEF ChatTypes
  <2> QED
    BY <2>3, <2>4
<1>6. ASSUME Chat!ShowError(k) PROVE ChatTypes'
  <2>1. /\ sends' = [sends EXCEPT ![k].at = "done"]
        /\ UNCHANGED <<born, current, building, built, decodeTask, loops, states, count, rings>>
        /\ threads' = IF ~Chat!Shown(id) THEN threads
                      ELSE [threads EXCEPT ![i] = [@ EXCEPT !.err = t.err, !.generating = FALSE]]
    BY <1>6 DEF Chat!ShowError, Chat!engines
  <2>2. ChatTasks' /\ ChatEngines'
    BY <2>1, <1>3, SameEngines DEF ChatTypes
  <2>3. CASE ~Chat!Shown(id)
    <3>1. threads' = threads
      BY <2>1, <2>3
    <3> QED
      BY <2>1, <2>2, <3>1, SameThreads DEF ChatTypes
  <2>4. CASE Chat!Shown(id)
    <3> DEFINE r == [threads[i] EXCEPT !.err = t.err, !.generating = FALSE]
    <3>1. threads' = [threads EXCEPT ![i] = r]
      BY <2>1, <2>4
    <3>2. r \in ThreadRecord /\ r.id = threads[i].id /\ r.eng = threads[i].eng
      BY <1>1, <1>2, <2>4 DEF ThreadRecord
    <3> HIDE DEF r, i
    <3>3. ChatView'
      BY <1>2, <2>1, <2>4, <3>1, <3>2, OneThread DEF ChatTypes
    <3> QED
      BY <2>2, <3>3 DEF ChatTypes
  <2> QED
    BY <2>3, <2>4
<1>7. ASSUME Chat!EnsureLoop(k) PROVE ChatTypes'
  <2>1. /\ UNCHANGED <<threads, born, current, building, built, decodeTask, loops,
                       states, count, rings>>
        /\ \/ /\ current # 0
              /\ sends' = [sends EXCEPT ![k] = [@ EXCEPT !.at = "spawn", !.eng = current]]
           \/ sends' = [sends EXCEPT ![k].at = "done"]
    <3> HIDE DEF t, id, i
    <3> QED
      BY <1>7 DEF Chat!EnsureLoop, Chat!view, Chat!engines
  <2>2. ChatView' /\ ChatEngines'
    BY <2>1, SameThreads, SameEngines DEF ChatTypes
  <2>3. CASE /\ current # 0
             /\ sends' = [sends EXCEPT ![k] = [@ EXCEPT !.at = "spawn", !.eng = current]]
    <3> DEFINE r == [t EXCEPT !.at = "spawn", !.eng = current]
    <3>1. /\ r \in SendRecord /\ r.id = t.id /\ r.eng = current /\ r.at = "spawn"
          /\ current \in 1..built
      <4>1. current \in 1..built /\ current \in Nat
        BY <1>1, <2>3
      <4> QED
        BY <1>1, <4>1 DEF SendRecord
    <3>2. sends' = [sends EXCEPT ![k] = r]
      BY <2>3
    <3> HIDE DEF r
    <3>3. ChatTasks'
      BY <1>1, <2>1, <3>1, <3>2, OneSend DEF ChatTypes
    <3> QED
      BY <2>2, <3>3 DEF ChatTypes
  <2>4. CASE sends' = [sends EXCEPT ![k].at = "done"]
    BY <1>3, <2>1, <2>2, <2>4 DEF ChatTypes
  <2> QED
    BY <2>1, <2>3, <2>4
<1>8. ASSUME Chat!SpawnLoop(k) PROVE ChatTypes'
  <2> DEFINE n == [eng |-> t.eng, at |-> "check", cancelled |-> FALSE, fails |-> 0, got |-> None]
  <2>1. /\ loops' = Append(loops, n) /\ decodeTask' = Len(loops) + 1
        /\ sends' = [sends EXCEPT ![k].at = "done"]
        /\ UNCHANGED <<threads, born, current, building, built, states, count, rings>>
    BY <1>8 DEF Chat!SpawnLoop, Chat!engines
  <2>2. ChatView' /\ ChatEngines'
    BY <2>1, SameThreads, SameEngines DEF ChatTypes
  <2>3. n \in LoopRecord /\ n.eng \in 1..built /\ n.at = "check"
    BY <1>1 DEF LoopRecord
  <2>4. loops \in Seq(LoopRecord)
    BY DEF ChatTypes, ChatTasks
  <2> HIDE DEF n
  <2>5. /\ loops' \in Seq(LoopRecord) /\ Len(loops') = Len(loops) + 1
        /\ \A l \in DOMAIN loops' : loops'[l] = n \/ (l \in DOMAIN loops /\ loops'[l] = loops[l])
    BY <2>1, <2>3, <2>4
  <2>6. \A l \in DOMAIN loops' :
          /\ loops'[l].eng \in 1..built
          /\ loops'[l].at = "append" =>
                loops'[l].got \in SaidToken /\ loops'[l].got[1] = loops'[l].eng
    BY <2>3, <2>5 DEF ChatTypes, ChatTasks
  <2> DEFINE r == [t EXCEPT !.at = "done"]
  <2>7. r \in SendRecord /\ r.id = t.id /\ r.eng = t.eng /\ r.at = "done"
    BY <1>1 DEF SendRecord
  <2>8. sends' = [sends EXCEPT ![k] = r]
    BY <2>1
  <2> HIDE DEF r
  <2>9. sends' \in Seq(SendRecord) /\ DOMAIN sends' = DOMAIN sends
    BY <1>1, <2>7, <2>8
  <2>10. \A j \in DOMAIN sends : sends'[j] = IF j = k THEN r ELSE sends[j]
    BY <2>8
  <2>11. \A j \in DOMAIN sends :
           /\ sends'[j].id \in born /\ sends'[j].eng \in 1..built
           /\ sends'[j].at = "show" => sends'[j].got = <<sends'[j].eng, sends'[j].sid, 1>>
    BY <2>7, <2>10 DEF ChatTypes, ChatTasks
  <2>12. ChatTasks'
    BY <2>1, <2>4, <2>5, <2>6, <2>9, <2>11 DEF ChatTasks
  <2> QED
    BY <2>2, <2>12 DEF ChatTypes
<1> HIDE DEF t, id, i
<1> QED
  BY <1>4, <1>5, <1>6, <1>7, <1>8 DEF Chat!SendTask

(* The next token of an engine: where its session stands in the ring.      *)
LEMMA NextToken ==
  ASSUME Chat!ChatAssumption, ChatTypes, NEW e \in 1..built,
         NEW i \in DOMAIN rings[e], NEW n, n = Chat!Min({MaxSaid, count[e][rings[e][i]] + 1})
  PROVE  /\ rings[e][i] \in 1..Len(states[e]) /\ rings[e][i] \in Nat
         /\ n \in Nat /\ n <= count[e][rings[e][i]] + 1
         /\ LET r == SubSeq(rings[e], i + 1, Len(rings[e])) \o SubSeq(rings[e], 1, i) IN
              r \in Seq(Nat) /\ \A j \in DOMAIN r : r[j] \in 1..Len(states[e])
<1> DEFINE ring == rings[e]
           L == Len(states[e])
           c == count[e][ring[i]]
           a == SubSeq(ring, i + 1, Len(ring))
           b == SubSeq(ring, 1, i)
           r == a \o b
<1>1. /\ ring \in Seq(Nat) /\ Len(ring) \in Nat /\ i \in 1..Len(ring)
      /\ \A j \in DOMAIN ring : ring[j] \in 1..L
      /\ count[e] \in Seq(Nat) /\ Len(count[e]) = L /\ L \in Nat
  <2>1. rings[e] \in Seq(Nat) /\ states[e] \in Seq(SessionStates) /\ count[e] \in Seq(Nat)
    BY DEF ChatTypes, ChatEngines
  <2>2. \A j \in DOMAIN rings[e] : rings[e][j] \in 1..Len(states[e])
    BY DEF ChatTypes, ChatEngines
  <2>3. Len(count[e]) = Len(states[e]) /\ Len(states[e]) \in Nat
    BY <2>1 DEF ChatTypes, ChatEngines
  <2>4. Len(rings[e]) \in Nat /\ i \in 1..Len(rings[e])
    BY <2>1
  <2> QED
    BY <2>1, <2>2, <2>3, <2>4
<1>2. ring[i] \in 1..L /\ ring[i] \in Nat /\ c \in Nat
  <2> DEFINE s == ring[i]
  <2>1. s \in 1..L
    BY <1>1
  <2> HIDE DEF s
  <2>2. s \in Nat /\ count[e][s] \in Nat
    BY <1>1, <2>1
  <2> QED
    BY <2>1, <2>2 DEF s
<1> HIDE DEF c
<1>3. n \in {MaxSaid, c + 1} /\ n <= c + 1
  <2>1. n = Chat!Min({MaxSaid, c + 1})
    BY DEF c
  <2>2. MaxSaid \in Nat /\ c + 1 \in Nat
    BY <1>2, ChatFacts
  <2>3. n = CHOOSE x \in {MaxSaid, c + 1} : \A y \in {MaxSaid, c + 1} : x <= y
    BY <2>1, Zenon DEF Chat!Min
  <2>4. \E x \in {MaxSaid, c + 1} : \A y \in {MaxSaid, c + 1} : x <= y
    BY <2>2
  <2> QED
    BY <2>2, <2>3, <2>4
<1>4. n \in Nat
  BY <1>2, <1>3, ChatFacts
<1> HIDE DEF ring, L
<1>5. a \in Seq(Nat) /\ Len(a) = Len(ring) - i /\ \A j \in 1..(Len(ring) - i) : a[j] = ring[j + i]
  <2>1. \A j \in (i + 1)..Len(ring) : ring[j] \in Nat
    BY <1>1
  <2>2. a \in Seq(Nat)
    BY <1>1, <2>1
  <2>3. Len(a) = Len(ring) - i
    BY <1>1
  <2>4. \A j \in 1..(Len(ring) - i) : a[j] = ring[j + i]
    BY <1>1
  <2> QED
    BY <2>2, <2>3, <2>4
<1>6. b \in Seq(Nat) /\ Len(b) = i /\ \A j \in 1..i : b[j] = ring[j]
  BY <1>1
<1> HIDE DEF a, b
<1>7. /\ \A j \in DOMAIN a : a[j] \in 1..L
      /\ \A j \in DOMAIN b : b[j] \in 1..L
  <2>1. \A j \in DOMAIN a : j + i \in DOMAIN ring /\ a[j] = ring[j + i]
    BY <1>1, <1>5
  <2>2. \A j \in DOMAIN b : j \in DOMAIN ring /\ b[j] = ring[j]
    BY <1>1, <1>6
  <2> QED
    BY <1>1, <2>1, <2>2
<1>8. r \in Seq(Nat) /\ Len(r) = Len(a) + Len(b)
      /\ \A j \in DOMAIN r : r[j] = IF j <= Len(a) THEN a[j] ELSE b[j - Len(a)]
  <2>1. a \in Seq(Nat) /\ b \in Seq(Nat)
    BY <1>5, <1>6
  <2>2. r \in Seq(Nat) /\ Len(r) = Len(a) + Len(b)
    BY <2>1
  <2>3. \A j \in DOMAIN r : r[j] = IF j <= Len(a) THEN a[j] ELSE b[j - Len(a)]
    BY <2>1
  <2> QED
    BY <2>2, <2>3
<1>9. ASSUME NEW j \in DOMAIN r
      PROVE  r[j] \in 1..L
  <2>1. Len(a) \in Nat /\ Len(b) \in Nat /\ DOMAIN a = 1..Len(a) /\ DOMAIN b = 1..Len(b)
        /\ DOMAIN r = 1..Len(r)
    BY <1>5, <1>6, <1>8
  <2>2. j \in 1..(Len(a) + Len(b))
    BY <1>8, <2>1
  <2>3. CASE j <= Len(a)
    BY <1>7, <1>8, <2>1, <2>2, <2>3
  <2>4. CASE ~(j <= Len(a))
    <3>1. j - Len(a) \in DOMAIN b
      BY <2>1, <2>2, <2>4
    <3> QED
      BY <1>7, <1>8, <2>4, <3>1
  <2> QED
    BY <2>3, <2>4
<1>10. r \in Seq(Nat) /\ \A j \in DOMAIN r : r[j] \in 1..L
  BY <1>8, <1>9
<1> HIDE DEF r
<1> QED
  BY <1>2, <1>3, <1>4, <1>10 DEF r, a, b, ring, L, c

(* A step of the ring keeps the types.                                     *)
LEMMA StepTypes ==
  ASSUME Chat!ChatAssumption, ChatTypes, NEW l \in DOMAIN loops, Chat!StepDecode(l)
  PROVE  ChatTypes'
<1> DEFINE t == loops[l]
           e == loops[l].eng
           first == CHOOSE i \in Chat!Decodes(e) : \A j \in Chat!Decodes(e) : i <= j
           s == rings[e][first]
           n == Chat!Min({MaxSaid, count[e][s] + 1})
           moved == SubSeq(rings[e], first + 1, Len(rings[e])) \o SubSeq(rings[e], 1, first)
<1>1. loops \in Seq(LoopRecord) /\ e \in 1..built /\ built \in Nat
  BY DEF ChatTypes, ChatTasks, ChatView
<1>2. t \in LoopRecord
  BY <1>1
<1>3. UNCHANGED <<threads, born, current, building, built, decodeTask, sends>>
  BY DEF Chat!StepDecode, Chat!view
<1>4. ChatView'
  BY <1>3, SameThreads DEF ChatTypes
<1>5. ASSUME loops' = [loops EXCEPT ![l].at = "check"]
      PROVE  ChatTasks'
  <2> DEFINE r == [t EXCEPT !.at = "check"]
  <2>1. r \in LoopRecord /\ r.eng = t.eng /\ r.at = "check"
    BY <1>2 DEF LoopRecord
  <2>2. loops' = [loops EXCEPT ![l] = r]
    BY <1>5
  <2> HIDE DEF r
  <2> QED
    BY <1>3, <2>1, <2>2, OneLoop DEF ChatTypes
<1>6. CASE Chat!Decodes(e) = {}
  <2>1. loops' = [loops EXCEPT ![l].at = "check"] /\ UNCHANGED <<states, count, rings>>
    BY <1>6 DEF Chat!StepDecode, Chat!engines
  <2> QED
    BY <1>3, <1>4, <1>5, <2>1, SameEngines DEF ChatTypes
<1>7. CASE Chat!Decodes(e) # {}
  <2>0. first \in DOMAIN rings[e]
    <3>1. Chat!Decodes(e) \subseteq Nat /\ Chat!Decodes(e) \subseteq DOMAIN rings[e]
      <4>1. rings[e] \in Seq(Nat)
        BY <1>1 DEF ChatTypes, ChatEngines
      <4> QED
        BY <4>1 DEF Chat!Decodes
    <3>2. \E i \in Chat!Decodes(e) : \A j \in Chat!Decodes(e) : i <= j
      BY <1>7, <3>1, LeastNatural
    <3>3. first \in Chat!Decodes(e)
      BY <3>2
    <3> QED
      BY <3>1, <3>3
  <2>1. /\ rings' = [rings EXCEPT ![e] = moved]
        /\ \/ /\ count' = [count EXCEPT ![e][s] = n]
              /\ loops' = [loops EXCEPT ![l].at = "append", ![l].got = <<e, s, n>>]
              /\ UNCHANGED states
           \/ /\ states' = [states EXCEPT ![e][s] = "Terminal"]
              /\ loops' = [loops EXCEPT ![l].at = "check"]
              /\ UNCHANGED count
           \/ /\ loops' = [loops EXCEPT ![l].at = "check",
                              ![l].fails = IF @ < MaxFails THEN @ + 1 ELSE @]
              /\ UNCHANGED count \/ count' = [count EXCEPT ![e][s] = n]
              /\ UNCHANGED states
    BY <1>7, Zenon DEF Chat!StepDecode
  <2>2. /\ s \in 1..Len(states[e]) /\ s \in Nat /\ n \in Nat
        /\ moved \in Seq(Nat) /\ \A j \in DOMAIN moved : moved[j] \in 1..Len(states[e])
    <3> HIDE DEF first
    <3> QED
      BY <1>1, <2>0, NextToken
  <2> HIDE DEF first, s, n, moved, t
  <2>3. RingOf(e)
    BY <2>1, <2>2 DEF RingOf
  <2>4. StateOf(e, s) /\ CountOf(e, s)
    <3>1. CASE count' = [count EXCEPT ![e][s] = n] /\ UNCHANGED states
      BY <2>2, <3>1 DEF StateOf, CountOf
    <3>2. CASE states' = [states EXCEPT ![e][s] = "Terminal"] /\ UNCHANGED count
      BY <3>2 DEF StateOf, CountOf, SessionStates
    <3>3. CASE UNCHANGED <<states, count>>
      BY <3>3 DEF StateOf, CountOf
    <3> QED
      BY <2>1, <3>1, <3>2, <3>3
  <2>5. ChatEngines'
    BY <1>1, <1>3, <2>2, <2>3, <2>4, OneSession DEF ChatTypes
  <2>6. CASE loops' = [loops EXCEPT ![l].at = "append", ![l].got = <<e, s, n>>]
    <3> DEFINE g == <<e, s, n>>
               r == [t EXCEPT !.at = "append", !.got = g]
    <3>1. g \in SaidToken /\ g[1] = e
      BY <1>1, <2>2 DEF SaidToken
    <3>2. loops' = [loops EXCEPT ![l] = r]
      BY <2>6, <1>1 DEF t
    <3> HIDE DEF g
    <3>3. r \in LoopRecord /\ r.eng = t.eng /\ r.got = g
      BY <1>2, <3>1 DEF LoopRecord
    <3>4. r.eng = e
      BY <3>3 DEF t
    <3> HIDE DEF r
    <3>5. ChatTasks'
      BY <1>3, <3>1, <3>2, <3>3, <3>4, OneLoop DEF ChatTypes
    <3> QED
      BY <1>4, <2>5, <3>5 DEF ChatTypes
  <2>7. CASE loops' = [loops EXCEPT ![l].at = "check"]
    BY <1>4, <1>5, <2>5, <2>7 DEF ChatTypes
  <2>8. CASE loops' = [loops EXCEPT ![l].at = "check",
                         ![l].fails = IF @ < MaxFails THEN @ + 1 ELSE @]
    <3> DEFINE f == IF t.fails < MaxFails THEN t.fails + 1 ELSE t.fails
               r == [t EXCEPT !.at = "check", !.fails = f]
    <3>1. f \in Nat
      BY <1>2, ChatFacts DEF LoopRecord
    <3>2. loops' = [loops EXCEPT ![l] = r]
      BY <2>8, <1>1 DEF t
    <3> HIDE DEF f
    <3>3. r \in LoopRecord /\ r.eng = t.eng /\ r.at = "check"
      BY <1>2, <3>1 DEF LoopRecord
    <3>4. r.eng = e
      BY <3>3 DEF t
    <3> HIDE DEF r
    <3>5. ChatTasks'
      BY <1>3, <3>2, <3>3, <3>4, OneLoop DEF ChatTypes
    <3> QED
      BY <1>4, <2>5, <3>5 DEF ChatTypes
  <2> QED
    BY <2>1, <2>6, <2>7, <2>8
<1> QED
  BY <1>6, <1>7

(* A step of a loop keeps the types.                                       *)
LEMMA LoopTypes ==
  ASSUME Chat!ChatAssumption, ChatTypes, NEW l \in DOMAIN loops, Chat!Loop(l)
  PROVE  ChatTypes'
<1> DEFINE t == loops[l]
<1>1. loops \in Seq(LoopRecord) /\ t.eng \in 1..built /\ built \in Nat
      /\ threads \in Seq(ThreadRecord)
  BY DEF ChatTypes, ChatTasks, ChatView
<1>2. t \in LoopRecord
  BY <1>1
<1>3. ASSUME Chat!Check(l) PROVE ChatTypes'
  <2>1. PICK w \in {"ended", "step"} : loops' = [loops EXCEPT ![l].at = w]
    BY <1>3 DEF Chat!Check
  <2>2. UNCHANGED <<threads, born, current, building, built, decodeTask, sends, states, count,
                     rings>>
    BY <1>3 DEF Chat!Check, Chat!view, Chat!engines
  <2> DEFINE r == [t EXCEPT !.at = w]
  <2>3. r \in LoopRecord /\ r.eng = t.eng /\ r.at # "append"
    BY <1>2 DEF LoopRecord
  <2>4. loops' = [loops EXCEPT ![l] = r]
    BY <2>1
  <2> HIDE DEF r
  <2>5. ChatTasks'
    BY <2>2, <2>3, <2>4, OneLoop DEF ChatTypes
  <2> QED
    BY <2>2, <2>5, SameThreads, SameEngines DEF ChatTypes
<1>4. ASSUME Chat!StepDecode(l) PROVE ChatTypes'
  BY <1>4, StepTypes
<1>5. ASSUME Chat!ShowToken(l) PROVE ChatTypes'
  <2> DEFINE L == Chat!Listening(t.got)
             i == CHOOSE i \in L : \A j \in L : i <= j
  <2>1. /\ t.at = "append" /\ loops' = [loops EXCEPT ![l].at = "check", ![l].got = None]
        /\ UNCHANGED <<born, current, building, built, decodeTask, sends, states, count, rings>>
    BY <1>5 DEF Chat!ShowToken, Chat!engines
  <2> DEFINE r == [t EXCEPT !.at = "check", !.got = None]
  <2>2. r \in LoopRecord /\ r.eng = t.eng /\ r.at = "check"
    BY <1>2 DEF LoopRecord
  <2>3. loops' = [loops EXCEPT ![l] = r]
    BY <2>1, <1>1
  <2> HIDE DEF r
  <2>4. ChatTasks'
    BY <2>1, <2>2, <2>3, OneLoop DEF ChatTypes
  <2>5. ChatEngines'
    BY <2>1, SameEngines DEF ChatTypes
  <2>6. CASE L = {}
    <3>1. threads' = threads
      BY <1>5, <2>6 DEF Chat!ShowToken
    <3> QED
      BY <2>1, <2>4, <2>5, <3>1, SameThreads DEF ChatTypes
  <2>7. CASE L # {}
    <3>1. i \in DOMAIN threads /\ threads[i] \in ThreadRecord
      <4>1. L \subseteq Nat /\ L \subseteq DOMAIN threads
        BY <1>1 DEF Chat!Listening
      <4>2. \E x \in L : \A j \in L : x <= j
        BY <2>7, <4>1, LeastNatural
      <4>3. i \in L
        BY <4>2
      <4>4. i \in DOMAIN threads
        BY <4>1, <4>3
      <4> HIDE DEF i
      <4> QED
        BY <1>1, <4>4
    <3>2. PICK stop \in {FALSE, Stops} :
            threads' = [threads EXCEPT ![i] =
                          [threads[i] EXCEPT
                             !.text = Append(threads[i].text, t.got),
                             !.tokCount = threads[i].tokCount + 1,
                             !.generating = ~stop /\ ~Chat!Full(threads[i].tokCount + 1)]]
      BY <1>5, <2>7, Zenon DEF Chat!ShowToken
    <3> DEFINE g == ~stop /\ ~Chat!Full(threads[i].tokCount + 1)
               x == Append(threads[i].text, t.got)
               c == threads[i].tokCount + 1
               u == [threads[i] EXCEPT !.text = x, !.tokCount = c, !.generating = g]
    <3>3. threads' = [threads EXCEPT ![i] = u]
      BY <3>2, Zenon
    <3>4. g \in BOOLEAN
      OBVIOUS
    <3>5. x \in Seq(SaidToken) /\ c \in Nat
      <4>1. t.got \in SaidToken
        BY <2>1 DEF ChatTypes, ChatTasks
      <4> HIDE DEF i
      <4>2. threads[i].text \in Seq(SaidToken) /\ threads[i].tokCount \in Nat
        BY <3>1 DEF ThreadRecord
      <4> QED
        BY <4>1, <4>2
    <3> HIDE DEF g, x, c, i
    <3>6. u \in ThreadRecord /\ u.id = threads[i].id /\ u.eng = threads[i].eng
      BY <3>1, <3>4, <3>5 DEF ThreadRecord
    <3> HIDE DEF u
    <3>7. ChatView'
      BY <2>1, <3>1, <3>3, <3>6, OneThread DEF ChatTypes
    <3> QED
      BY <2>4, <2>5, <3>7 DEF ChatTypes
  <2> QED
    BY <2>6, <2>7
<1> HIDE DEF t
<1> QED
  BY <1>3, <1>4, <1>5 DEF Chat!Loop

(* The iOS client is what its TypeOK says, whatever engines the user       *)
(* chooses and whenever, and however often a tokenizer or a runner fails.  *)
THEOREM ChatTypeCorrect ==
  ASSUME Chat!ChatAssumption
  PROVE  Chat!Spec => []Chat!TypeOK
<1>1. Chat!Init => ChatTypes
  BY ChatInitially
<1>2. ASSUME ChatTypes, [Chat!Next]_(Chat!vars) PROVE ChatTypes'
  <2>1. CASE UNCHANGED Chat!vars
    <3>1. UNCHANGED <<threads, born, current, building, built, decodeTask, sends, loops,
                      states, count, rings>>
      BY <2>1 DEF Chat!vars, Chat!view, Chat!tasks, Chat!engines
    <3> QED
      BY <1>2, <3>1 DEF ChatTypes, ChatView, ChatTasks, ChatEngines
  <2>2. CASE Chat!Next
    BY <1>2, <2>2, UserTypes, BuildTypes, SendTypes, LoopTypes DEF Chat!Next
  <2> QED
    BY <1>2, <2>1, <2>2
<1>3. ChatTypes => Chat!TypeOK
  BY DEF ChatTypes, ChatView, ChatTasks, ChatEngines, Chat!TypeOK
<1> QED
  BY <1>1, <1>2, <1>3, PTL DEF Chat!Spec

-----------------------------------------------------------------------------
(* Whose tokens a chat shows                                               *)

(* One engine is built, if its build does not fail, and stays.             *)
OneBuild == built + building <= 1 /\ current = built

(* A chat is on the screen once.                                           *)
DistinctChats == \A i, j \in DOMAIN threads : threads[i].id = threads[j].id => i = j

(* The task of a message has the session of the chat it is of.             *)
SendsKnow ==
  \A k \in DOMAIN sends : \A i \in DOMAIN threads :
     sends[k].id = threads[i].id => sends[k].sid = threads[i].sid

(* The invariant of what chats show.                                       *)
TextInv == ChatTypes /\ OneBuild /\ DistinctChats /\ SendsKnow /\ Chat!TextIsOwn

(* The tasks keep whose they are.                                          *)
SendsStay ==
  /\ DOMAIN sends' = DOMAIN sends
  /\ \A k \in DOMAIN sends : sends'[k].id = sends[k].id /\ sends'[k].sid = sends[k].sid

(* One chat changes and keeps its session; its answer is emptied, or stays, *)
(* or ends with a token of its session.                                    *)
Says(i, r) ==
  /\ r.id = threads[i].id /\ r.eng = threads[i].eng /\ r.sid = threads[i].sid
  /\ threads' = [threads EXCEPT ![i] = r]
  /\ \/ r.text = << >>
     \/ r.text = threads[i].text
     \/ \E tok \in SaidToken : /\ r.text = Append(threads[i].text, tok)
                               /\ tok[1] = r.eng /\ tok[2] = r.sid

(* A chat that adds a token of its own session, or starts afresh, shows    *)
(* its own.                                                                *)
LEMMA SaidIsOwn ==
  ASSUME TextInv, NEW i \in DOMAIN threads, NEW r, Says(i, r)
  PROVE  /\ DOMAIN threads' = DOMAIN threads
         /\ \A j \in DOMAIN threads :
              threads'[j].id = threads[j].id /\ threads'[j].sid = threads[j].sid
         /\ Chat!TextIsOwn'
<1>1. threads \in Seq(ThreadRecord)
  BY DEF TextInv, ChatTypes, ChatView
<1>2. threads[i] \in ThreadRecord
  BY <1>1
<1>3. threads[i].text \in Seq(SaidToken)
  BY <1>2 DEF ThreadRecord
<1>4. /\ DOMAIN threads' = DOMAIN threads
      /\ \A j \in DOMAIN threads : threads'[j] = IF j = i THEN r ELSE threads[j]
  BY <1>1 DEF Says
<1>5. \A j \in DOMAIN threads :
        threads'[j].id = threads[j].id /\ threads'[j].sid = threads[j].sid
  BY <1>4 DEF Says
<1>6. \A n \in DOMAIN threads[i].text :
        threads[i].text[n][1] = r.eng /\ threads[i].text[n][2] = r.sid
  BY DEF TextInv, Chat!TextIsOwn, Says
<1>7. \A n \in DOMAIN r.text : r.text[n][1] = r.eng /\ r.text[n][2] = r.sid
  <2>1. CASE r.text = << >>
    BY <2>1
  <2>2. CASE r.text = threads[i].text
    BY <1>6, <2>2
  <2>3. CASE \E tok \in SaidToken : /\ r.text = Append(threads[i].text, tok)
                                    /\ tok[1] = r.eng /\ tok[2] = r.sid
    <3>1. PICK tok \in SaidToken : /\ r.text = Append(threads[i].text, tok)
                                   /\ tok[1] = r.eng /\ tok[2] = r.sid
      BY <2>3
    <3>2. \A n \in DOMAIN r.text :
            r.text[n] = tok \/ (n \in DOMAIN threads[i].text /\ r.text[n] = threads[i].text[n])
      BY <1>3, <3>1
    <3> QED
      BY <1>6, <3>1, <3>2
  <2> QED
    BY <2>1, <2>2, <2>3 DEF Says
<1>8. ASSUME NEW j \in DOMAIN threads, NEW n \in DOMAIN threads'[j].text
      PROVE  <<threads'[j].text[n][1], threads'[j].text[n][2]>> =
                <<threads'[j].eng, threads'[j].sid>>
  <2>1. CASE j = i
    BY <1>4, <1>7, <1>8, <2>1
  <2>2. CASE j # i
    BY <1>4, <1>8, <2>2 DEF TextInv, Chat!TextIsOwn
  <2> QED
    BY <2>1, <2>2
<1>9. Chat!TextIsOwn'
  BY <1>4, <1>8 DEF Chat!TextIsOwn
<1> QED
  BY <1>4, <1>5, <1>9

(* Chats that keep their sessions, and tasks that do.                      *)
LEMMA StillKnow ==
  ASSUME TextInv, SendsStay, DOMAIN threads' = DOMAIN threads,
         \A j \in DOMAIN threads :
            threads'[j].id = threads[j].id /\ threads'[j].sid = threads[j].sid
  PROVE  DistinctChats' /\ SendsKnow'
<1>1. DistinctChats'
  BY DEF TextInv, DistinctChats
<1>2. SendsKnow'
  BY DEF TextInv, SendsKnow, SendsStay
<1> QED
  BY <1>1, <1>2

(* What the user does shows nobody else's token.                           *)
LEMMA UserSays ==
  ASSUME Chat!ChatAssumption, Reloads = {}, TextInv, Chat!User
  PROVE  OneBuild' /\ DistinctChats' /\ SendsKnow' /\ Chat!TextIsOwn'
<1>1. /\ threads \in Seq(ThreadRecord) /\ sends \in Seq(SendRecord) /\ ChatTypes
      /\ \A i \in DOMAIN threads : threads[i].id \in born
      /\ \A k \in DOMAIN sends : sends[k].id \in born
  BY DEF TextInv, ChatTypes, ChatView, ChatTasks
<1>2. ASSUME NEW id \in Chats, Chat!CreateThread(id)
      PROVE  OneBuild' /\ DistinctChats' /\ SendsKnow' /\ Chat!TextIsOwn'
  <2> DEFINE t == [id |-> id, eng |-> current, sid |-> Len(states[current]) + 1,
                   generating |-> FALSE, tokCount |-> 0, text |-> << >>, err |-> None]
  <2>1. id \notin born /\ threads' = Append(threads, t)
        /\ UNCHANGED <<current, building, built, sends>>
    BY <1>2 DEF Chat!CreateThread, Chat!tasks
  <2>2. t.id = id /\ t.text = << >>
    OBVIOUS
  <2> HIDE DEF t
  <2>3. /\ DOMAIN threads' = 1..(Len(threads) + 1) /\ Len(threads) \in Nat
        /\ DOMAIN threads = 1..Len(threads)
        /\ threads'[Len(threads) + 1] = t
        /\ \A i \in DOMAIN threads : threads'[i] = threads[i]
    BY <1>1, <2>1
  <2>4. \A i \in DOMAIN threads' : i \in DOMAIN threads \/ i = Len(threads) + 1
    BY <2>3
  <2>5. \A i \in DOMAIN threads' :
          \/ i \in DOMAIN threads /\ threads'[i] = threads[i]
          \/ i = Len(threads) + 1 /\ threads'[i] = t
    BY <2>3, <2>4
  <2>6. DistinctChats'
    BY <1>1, <2>1, <2>2, <2>5 DEF DistinctChats, TextInv
  <2>7. SendsKnow'
    BY <1>1, <2>1, <2>2, <2>5 DEF SendsKnow, TextInv
  <2>8. Chat!TextIsOwn'
    BY <2>2, <2>5 DEF Chat!TextIsOwn, TextInv
  <2> QED
    BY <2>1, <2>6, <2>7, <2>8 DEF OneBuild, TextInv
<1>3. ASSUME NEW id \in Chats, Chat!Delete(id)
      PROVE  OneBuild' /\ DistinctChats' /\ SendsKnow' /\ Chat!TextIsOwn'
  <2> DEFINE i == Chat!At(id)
  <2>1. /\ i \in DOMAIN threads /\ threads' = Chat!RemoveAt(threads, i)
        /\ UNCHANGED <<current, building, built, sends>>
    BY <1>3, AtIs DEF Chat!Delete, Chat!tasks
  <2> HIDE DEF i
  <2> DEFINE from(j) == IF j < i THEN j ELSE j + 1
  <2>2. /\ DOMAIN threads' = 1..(Len(threads) - 1)
        /\ \A j \in DOMAIN threads' : threads'[j] = IF j < i THEN threads[j] ELSE threads[j + 1]
    BY <1>1, <2>1, RemovedAt
  <2>3. Len(threads) \in Nat /\ DOMAIN threads = 1..Len(threads) /\ i \in Nat
    BY <1>1, <2>1
  <2>4. /\ \A j \in DOMAIN threads' : from(j) \in DOMAIN threads /\ threads'[j] = threads[from(j)]
        /\ \A j, k \in DOMAIN threads' : from(j) = from(k) => j = k
    BY <2>2, <2>3
  <2> HIDE DEF from
  <2>5. DistinctChats'
    BY <2>4 DEF DistinctChats, TextInv
  <2>6. SendsKnow'
    BY <2>1, <2>4 DEF SendsKnow, TextInv
  <2>7. Chat!TextIsOwn'
    BY <2>4 DEF Chat!TextIsOwn, TextInv
  <2> QED
    BY <2>1, <2>5, <2>6, <2>7 DEF OneBuild, TextInv
<1>4. ASSUME NEW id \in Chats, Chat!Stop(id)
      PROVE  OneBuild' /\ DistinctChats' /\ SendsKnow' /\ Chat!TextIsOwn'
  <2> DEFINE i == Chat!At(id)
             r == [threads[i] EXCEPT !.generating = FALSE]
  <2>1. /\ i \in DOMAIN threads /\ threads' = [threads EXCEPT ![i] = r]
        /\ UNCHANGED <<current, building, built, sends>>
    BY <1>4, AtIs DEF Chat!Stop, Chat!tasks
  <2>2. threads[i] \in ThreadRecord
    BY <1>1, <2>1
  <2>3. Says(i, r)
    BY <2>1, <2>2 DEF Says, ThreadRecord
  <2> HIDE DEF i, r
  <2>4. SendsStay
    BY <2>1 DEF SendsStay
  <2> QED
    BY <2>1, <2>3, <2>4, SaidIsOwn, StillKnow DEF OneBuild, TextInv
<1>5. ASSUME NEW id \in Chats, Chat!Send(id)
      PROVE  OneBuild' /\ DistinctChats' /\ SendsKnow' /\ Chat!TextIsOwn'
  <2> DEFINE i == Chat!At(id)
             r == [threads[i] EXCEPT !.generating = TRUE, !.tokCount = 0, !.text = << >>,
                                       !.err = None]
             m == [id |-> id, place |-> i, eng |-> current, sid |-> threads[i].sid,
                   at |-> "submit", got |-> None, err |-> None]
  <2>1. /\ i \in DOMAIN threads /\ threads[i].id = id /\ threads' = [threads EXCEPT ![i] = r]
        /\ sends' = Append(sends, m) /\ UNCHANGED <<current, building, built>>
    BY <1>5, AtIs DEF Chat!Send, Chat!engines
  <2>2. threads[i] \in ThreadRecord
    BY <1>1, <2>1
  <2>3. Says(i, r)
    <3>1. r.id = threads[i].id /\ r.eng = threads[i].eng /\ r.sid = threads[i].sid /\ r.text = << >>
      <4> HIDE DEF i
      <4> QED
        BY <2>2 DEF ThreadRecord
    <3> QED
      BY <2>1, <3>1 DEF Says
  <2>4. m.id = id /\ m.sid = threads[i].sid
    OBVIOUS
  <2> HIDE DEF i, r, m
  <2>5. /\ DOMAIN threads' = DOMAIN threads /\ Chat!TextIsOwn'
        /\ \A j \in DOMAIN threads :
             threads'[j].id = threads[j].id /\ threads'[j].sid = threads[j].sid
    BY <2>1, <2>3, SaidIsOwn
  <2>6. DistinctChats'
    BY <2>5 DEF DistinctChats, TextInv
  <2>7. \A k \in DOMAIN sends' : sends'[k] = m \/ (k \in DOMAIN sends /\ sends'[k] = sends[k])
    BY <1>1, <2>1
  <2>8. \A j \in DOMAIN threads : threads[j].id = id => j = i
    BY <2>1 DEF DistinctChats, TextInv
  <2>9. SendsKnow'
    BY <2>4, <2>5, <2>7, <2>8 DEF SendsKnow, TextInv
  <2> QED
    BY <2>1, <2>5, <2>6, <2>9 DEF OneBuild, TextInv
<1>6. ASSUME NEW id \in Chats, Chat!SendFails(id)
      PROVE  OneBuild' /\ DistinctChats' /\ SendsKnow' /\ Chat!TextIsOwn'
  <2> DEFINE i == Chat!At(id)
             r == [threads[i] EXCEPT !.tokCount = 0, !.text = << >>, !.err = "tokenize"]
  <2>1. /\ i \in DOMAIN threads /\ threads' = [threads EXCEPT ![i] = r]
        /\ UNCHANGED <<current, building, built, sends>>
    BY <1>6, AtIs DEF Chat!SendFails, Chat!tasks
  <2>2. threads[i] \in ThreadRecord
    BY <1>1, <2>1
  <2>3. Says(i, r)
    <3>1. r.id = threads[i].id /\ r.eng = threads[i].eng /\ r.sid = threads[i].sid /\ r.text = << >>
      <4> HIDE DEF i
      <4> QED
        BY <2>2 DEF ThreadRecord
    <3> QED
      BY <2>1, <3>1 DEF Says
  <2> HIDE DEF i, r
  <2>4. SendsStay
    BY <2>1 DEF SendsStay
  <2> QED
    BY <2>1, <2>3, <2>4, SaidIsOwn, StillKnow DEF OneBuild, TextInv
<1> QED
  BY <1>2, <1>3, <1>4, <1>5, <1>6 DEF Chat!User

(* A message's task shows the first token in the chat it is of.            *)
LEMMA TaskSays ==
  ASSUME TextInv, NEW k \in DOMAIN sends, Chat!SendTask(k)
  PROVE  OneBuild' /\ DistinctChats' /\ SendsKnow' /\ Chat!TextIsOwn'
<1> DEFINE t == sends[k]
           id == sends[k].id
           i == Chat!At(id)
<1>1. ChatTypes /\ t \in SendRecord /\ t.eng \in 1..built /\ t.sid \in Nat /\ built \in Nat
      /\ threads \in Seq(ThreadRecord) /\ sends \in Seq(SendRecord) /\ t.eng \in Nat
  BY TheSend DEF TextInv, ChatTypes, ChatView
<1>2. ASSUME Chat!Shown(id)
      PROVE  i \in DOMAIN threads /\ threads[i] \in ThreadRecord /\ threads[i].id = id
  BY <1>1, <1>2, AtIs
<1>3. SendsStay /\ UNCHANGED <<current, building, built>>
  <2>1. \A j \in DOMAIN sends : sends[j] \in SendRecord
    BY <1>1
  <2>2. ASSUME Chat!Submit(k) PROVE SendsStay /\ UNCHANGED <<current, building, built>>
    BY <2>1, <2>2 DEF Chat!Submit, Chat!view, SendsStay, SendRecord
  <2>3. ASSUME Chat!Show(k) PROVE SendsStay /\ UNCHANGED <<current, building, built>>
    BY <2>1, <2>3 DEF Chat!Show, SendsStay, SendRecord
  <2>4. ASSUME Chat!ShowError(k) PROVE SendsStay /\ UNCHANGED <<current, building, built>>
    BY <2>1, <2>4 DEF Chat!ShowError, SendsStay, SendRecord
  <2>5. ASSUME Chat!EnsureLoop(k) PROVE SendsStay /\ UNCHANGED <<current, building, built>>
    BY <2>1, <2>5 DEF Chat!EnsureLoop, Chat!view, SendsStay, SendRecord
  <2>6. ASSUME Chat!SpawnLoop(k) PROVE SendsStay /\ UNCHANGED <<current, building, built>>
    BY <2>1, <2>6 DEF Chat!SpawnLoop, SendsStay, SendRecord
  <2> HIDE DEF t, id, i
  <2> QED
    BY <2>2, <2>3, <2>4, <2>5, <2>6 DEF Chat!SendTask
<1>4. OneBuild'
  BY <1>3 DEF OneBuild, TextInv
<1>5. CASE UNCHANGED threads
  <2>1. DistinctChats' /\ SendsKnow'
    BY <1>3, <1>5, StillKnow
  <2>2. Chat!TextIsOwn'
    BY <1>5 DEF Chat!TextIsOwn, TextInv
  <2> QED
    BY <1>4, <2>1, <2>2
<1>6. ASSUME NEW r, Chat!Shown(id), Says(i, r)
      PROVE  DistinctChats' /\ SendsKnow' /\ Chat!TextIsOwn'
  <2> HIDE DEF i
  <2> QED
    BY <1>2, <1>3, <1>6, SaidIsOwn, StillKnow
<1>7. CASE Chat!Show(k) /\ Chat!Shown(id)
  <2>1. PICK stop \in {FALSE, Stops} :
          threads' = [threads EXCEPT ![i] =
                        [threads[i] EXCEPT
                           !.text = Append(threads[i].text, t.got), !.tokCount = 1,
                           !.generating = threads[i].generating /\ ~stop /\ MaxTok > 1]]
    BY <1>7 DEF Chat!Show
  <2> DEFINE g == threads[i].generating /\ ~stop /\ MaxTok > 1
             x == Append(threads[i].text, t.got)
             r == [threads[i] EXCEPT !.text = x, !.tokCount = 1, !.generating = g]
  <2>2. threads' = [threads EXCEPT ![i] = r]
    BY <2>1, Zenon
  <2>3. t.got = <<t.eng, t.sid, 1>>
    BY <1>7 DEF Chat!Show, TextInv, ChatTypes, ChatTasks
  <2>4. t.got \in SaidToken /\ t.got[1] = t.eng /\ t.got[2] = t.sid
    BY <1>1, <2>3 DEF SaidToken
  <2>5. t.sid = threads[i].sid /\ t.eng = threads[i].eng
    <3>1. threads[i].eng \in 1..built
      BY <1>2, <1>7 DEF TextInv, ChatTypes, ChatView
    <3>2. built <= 1
      BY DEF TextInv, OneBuild, ChatTypes, ChatView
    <3> QED
      BY <1>1, <1>2, <1>7, <3>1, <3>2 DEF TextInv, SendsKnow
  <2>6. /\ r.id = threads[i].id /\ r.eng = threads[i].eng /\ r.sid = threads[i].sid
        /\ r.text = x
    <3> HIDE DEF g, x, i
    <3> QED
      BY <1>2, <1>7 DEF ThreadRecord
  <2>7. Says(i, r)
    <3>1. x = Append(threads[i].text, t.got)
      OBVIOUS
    <3> HIDE DEF x, i, r, t
    <3> QED
      BY <2>2, <2>4, <2>5, <2>6, <3>1 DEF Says
  <2> QED
    BY <1>4, <1>6, <1>7, <2>7
<1>8. CASE Chat!ShowError(k) /\ Chat!Shown(id)
  <2> DEFINE r == [threads[i] EXCEPT !.err = t.err, !.generating = FALSE]
  <2>1. threads' = [threads EXCEPT ![i] = r]
    BY <1>8 DEF Chat!ShowError
  <2>2. /\ r.id = threads[i].id /\ r.eng = threads[i].eng /\ r.sid = threads[i].sid
        /\ r.text = threads[i].text
    <3> HIDE DEF i
    <3> QED
      BY <1>2, <1>8 DEF ThreadRecord
  <2>3. Says(i, r)
    BY <2>1, <2>2 DEF Says
  <2> QED
    BY <1>4, <1>6, <1>8, <2>3
<1>9. \/ UNCHANGED threads
      \/ Chat!Show(k) /\ Chat!Shown(id)
      \/ Chat!ShowError(k) /\ Chat!Shown(id)
  BY DEF Chat!SendTask, Chat!Submit, Chat!Show, Chat!ShowError, Chat!EnsureLoop,
         Chat!SpawnLoop, Chat!view
<1> HIDE DEF t, id, i
<1> QED
  BY <1>5, <1>7, <1>8, <1>9

(* A loop shows a token in the chat whose session said it.                 *)
LEMMA LoopSays ==
  ASSUME TextInv, NEW l \in DOMAIN loops, Chat!Loop(l)
  PROVE  OneBuild' /\ DistinctChats' /\ SendsKnow' /\ Chat!TextIsOwn'
<1> DEFINE t == loops[l]
           L == Chat!Listening(t.got)
           i == CHOOSE i \in L : \A j \in L : i <= j
<1>1. ChatTypes /\ t.eng \in 1..built /\ built \in Nat /\ threads \in Seq(ThreadRecord)
  BY DEF TextInv, ChatTypes, ChatView, ChatTasks
<1>2. UNCHANGED <<current, building, built, sends>>
  BY DEF Chat!Loop, Chat!Check, Chat!StepDecode, Chat!ShowToken, Chat!view
<1>3. OneBuild' /\ SendsStay
  BY <1>2 DEF OneBuild, TextInv, SendsStay
<1>4. CASE UNCHANGED threads
  <2>1. DistinctChats' /\ SendsKnow'
    BY <1>3, <1>4, StillKnow
  <2>2. Chat!TextIsOwn'
    BY <1>4 DEF Chat!TextIsOwn, TextInv
  <2> QED
    BY <1>3, <2>1, <2>2
<1>5. CASE Chat!ShowToken(l) /\ L # {}
  <2>1. i \in L /\ i \in DOMAIN threads /\ threads[i] \in ThreadRecord /\ threads[i].sid = t.got[2]
    <3>1. L \subseteq Nat /\ L \subseteq DOMAIN threads
      BY <1>1 DEF Chat!Listening
    <3>2. \E x \in L : \A j \in L : x <= j
      BY <1>5, <3>1, LeastNatural
    <3>3. i \in L
      BY <3>2
    <3>4. i \in DOMAIN threads
      BY <3>1, <3>3
    <3>5. \A x \in L : threads[x].sid = t.got[2]
      BY DEF Chat!Listening
    <3>6. threads[i].sid = t.got[2]
      BY <3>3, <3>5
    <3> HIDE DEF i
    <3> QED
      BY <1>1, <3>3, <3>4, <3>6
  <2>2. PICK stop \in {FALSE, Stops} :
          threads' = [threads EXCEPT ![i] =
                        [threads[i] EXCEPT
                           !.text = Append(threads[i].text, t.got),
                           !.tokCount = threads[i].tokCount + 1,
                           !.generating = ~stop /\ ~Chat!Full(threads[i].tokCount + 1)]]
    BY <1>5, Zenon DEF Chat!ShowToken
  <2> DEFINE g == ~stop /\ ~Chat!Full(threads[i].tokCount + 1)
             x == Append(threads[i].text, t.got)
             c == threads[i].tokCount + 1
             r == [threads[i] EXCEPT !.text = x, !.tokCount = c, !.generating = g]
  <2>3. threads' = [threads EXCEPT ![i] = r]
    BY <2>2, Zenon
  <2>4. t.got \in SaidToken /\ t.got[1] = t.eng
    BY <1>5 DEF Chat!ShowToken, TextInv, ChatTypes, ChatTasks
  <2>5. t.eng = threads[i].eng
    <3>1. threads[i].eng \in 1..built
      <4> HIDE DEF i
      <4> QED
        BY <2>1 DEF TextInv, ChatTypes, ChatView
    <3>2. built <= 1
      BY DEF TextInv, OneBuild, ChatTypes, ChatView
    <3> HIDE DEF i
    <3> QED
      BY <1>1, <3>1, <3>2
  <2>6. /\ r.id = threads[i].id /\ r.eng = threads[i].eng /\ r.sid = threads[i].sid
        /\ r.text = x
    <3> HIDE DEF g, x, i, c
    <3> QED
      BY <2>1 DEF ThreadRecord
  <2>7. Says(i, r)
    <3>1. x = Append(threads[i].text, t.got)
      OBVIOUS
    <3> HIDE DEF x, i, r, t
    <3> QED
      BY <2>1, <2>3, <2>4, <2>5, <2>6, <3>1 DEF Says
  <2> HIDE DEF i, r
  <2> QED
    BY <1>3, <2>1, <2>7, SaidIsOwn, StillKnow
<1>6. UNCHANGED threads \/ (Chat!ShowToken(l) /\ L # {})
  BY DEF Chat!Loop, Chat!Check, Chat!StepDecode, Chat!ShowToken, Chat!view
<1> HIDE DEF t, L, i
<1> QED
  BY <1>4, <1>5, <1>6

(* Every step keeps the invariant.                                         *)
LEMMA TextStep ==
  ASSUME Chat!ChatAssumption, Reloads = {}, TextInv, [Chat!Next]_(Chat!vars)
  PROVE  TextInv'
<1>1. CASE UNCHANGED Chat!vars
  <2>1. UNCHANGED <<threads, born, current, building, built, decodeTask, sends, loops,
                    states, count, rings>>
    BY <1>1 DEF Chat!vars, Chat!view, Chat!tasks, Chat!engines
  <2>2. ChatTypes'
    BY <2>1 DEF TextInv, ChatTypes, ChatView, ChatTasks, ChatEngines
  <2> QED
    BY <2>1, <2>2 DEF TextInv, OneBuild, DistinctChats, SendsKnow, Chat!TextIsOwn
<1>2. CASE Chat!Next
  <2>1. ChatTypes'
    BY <1>2, UserTypes, BuildTypes, SendTypes, LoopTypes DEF Chat!Next, TextInv
  <2>2. ASSUME Chat!Build
        PROVE  OneBuild' /\ DistinctChats' /\ SendsKnow' /\ Chat!TextIsOwn'
    <3>1. /\ building > 0 /\ building' = building - 1
          /\ (built' = built + 1 /\ current' = built + 1) \/ UNCHANGED <<built, current>>
          /\ UNCHANGED <<threads, sends>>
      BY <2>2, FailedBuild DEF Chat!Build, Chat!EngineBuilt, Chat!tasks
    <3>2. OneBuild'
      BY <3>1 DEF TextInv, OneBuild, ChatTypes, ChatView
    <3> QED
      BY <3>1, <3>2 DEF TextInv, DistinctChats, SendsKnow, Chat!TextIsOwn
  <2>3. OneBuild' /\ DistinctChats' /\ SendsKnow' /\ Chat!TextIsOwn'
    BY <1>2, <2>2, UserSays, TaskSays, LoopSays DEF Chat!Next
  <2> QED
    BY <2>1, <2>3 DEF TextInv
<1> QED
  BY <1>1, <1>2

(* With one engine, what a chat shows was said in its own session, however *)
(* many chats come and go, are stopped and deleted while tokens are on     *)
(* their way to them.                                                      *)
THEOREM ChatTextIsOwn ==
  ASSUME Chat!ChatAssumption, Reloads = {}
  PROVE  Chat!Spec => []Chat!TextIsOwn
<1>1. Chat!Init => TextInv
  <2>1. ASSUME Chat!Init PROVE TextInv
    <3>1. threads = << >> /\ current = 0 /\ building = 1 /\ built = 0 /\ sends = << >>
      BY <2>1 DEF Chat!Init
    <3> QED
      BY <2>1, <3>1, ChatInitially DEF TextInv, OneBuild, DistinctChats, SendsKnow, Chat!TextIsOwn
  <2> QED
    BY <2>1
<1>2. TextInv /\ [Chat!Next]_(Chat!vars) => TextInv'
  BY TextStep
<1>3. TextInv => Chat!TextIsOwn
  BY DEF TextInv
<1> QED
  BY <1>1, <1>2, <1>3, PTL DEF Chat!Spec

-----------------------------------------------------------------------------
(* The order and the length of an answer                                   *)

(* Nothing is on the screen.                                               *)
NothingShown == \A i \in DOMAIN threads : threads[i].text = << >>

(* A task is between its first token and its loop.                         *)
Busy(k) == sends[k].at \in {"show", "ensure", "spawn"}

(* No prompt was answered yet.                                             *)
Untouched ==
  \A e \in 1..built : \A s \in DOMAIN states[e] : states[e][s] \in {"Queued", "Prefill"}

(* One chat has one session.                                               *)
OnlySession ==
  \A e \in 1..built : Len(states[e]) <= 1 /\ (born = {} => Len(states[e]) = 0)

(* The first token is shown before there is a loop, and there is one loop. *)
FirstToken ==
  /\ Len(loops) <= 1
  /\ Untouched => NothingShown /\ loops = << >> /\ \A k \in DOMAIN sends : ~Busy(k)
  /\ \A k \in DOMAIN sends : Busy(k) => loops = << >> /\ \A m \in DOMAIN sends : Busy(m) => m = k
  /\ \A k \in DOMAIN sends :
       sends[k].at = "show" =>
          /\ NothingShown
          /\ \A e \in 1..built : \A s \in DOMAIN count[e] : count[e][s] >= 1

(* One token stands before another; from MaxSaid on they count alike.      *)
Before(x, y) == x[3] < y[3] \/ (x[3] = MaxSaid /\ y[3] = MaxSaid)

(* A chat shows nothing that was not said, and the loop has in hand the    *)
(* token after those.                                                      *)
Numbers ==
  /\ \A e \in 1..built : \A s \in DOMAIN count[e] :
       /\ count[e][s] <= MaxSaid
       /\ \A i \in DOMAIN threads : \A j \in DOMAIN threads[i].text :
            threads[i].text[j][3] <= count[e][s]
  /\ \A l \in DOMAIN loops :
       loops[l].at = "append" =>
          /\ \A e \in 1..built : \A s \in DOMAIN count[e] : loops[l].got[3] = count[e][s]
          /\ \A i \in DOMAIN threads : \A j \in DOMAIN threads[i].text :
               Before(threads[i].text[j], loops[l].got)

(* The view counts the tokens of an answer.                                *)
Counted ==
  \A i \in DOMAIN threads :
     /\ Len(threads[i].text) = threads[i].tokCount /\ threads[i].tokCount <= MaxTok
     /\ threads[i].generating => threads[i].tokCount < MaxTok

(* What the order of an answer rests on.                                   *)
AnswerRest == OnlySession /\ FirstToken /\ Numbers /\ Counted /\ Chat!TextInOrder

(* The invariant of an answer.                                             *)
AnswerInv == TextInv /\ AnswerRest

(* A chat that says what one said before, or nothing.                      *)
Calm(r) ==
  \/ r.text = << >> /\ r.tokCount = 0
  \/ \E m \in DOMAIN threads :
       /\ r.text = threads[m].text /\ r.tokCount = threads[m].tokCount
       /\ r.generating => threads[m].generating

(* No token is shown and none is decoded.                                  *)
Quietly ==
  /\ \A j \in DOMAIN threads' : Calm(threads'[j])
  /\ UNCHANGED <<loops, built, born, count>>
  /\ \A e \in 1..built : DOMAIN states'[e] = DOMAIN states[e] /\ Len(states'[e]) = Len(states[e])
  /\ Untouched' => Untouched
  /\ \A k \in DOMAIN sends' :
       sends'[k].at \in {"show", "ensure", "spawn"} =>
          k \in DOMAIN sends /\ Busy(k) /\ (sends'[k].at = "show" => sends[k].at = "show")

(* A list that has no places is empty.                                     *)
LEMMA NoPlaces ==
  ASSUME NEW T, NEW s \in Seq(T), DOMAIN s = {}
  PROVE  s = << >>
<1>1. Len(s) = 0
  OBVIOUS
<1> QED
  BY <1>1

(* A quiet step keeps the order of the answer.                             *)
LEMMA QuietlyKept ==
  ASSUME Chat!ChatAssumption, AnswerInv, Quietly
  PROVE  AnswerRest'
<1>1. OnlySession'
  BY DEF AnswerInv, AnswerRest, OnlySession, Quietly
<1>2. ASSUME NothingShown PROVE NothingShown'
  BY <1>2 DEF Quietly, Calm, NothingShown
<1>3. FirstToken'
  <2>1. \A k \in DOMAIN sends' :
          Busy(k)' =>
             k \in DOMAIN sends /\ Busy(k) /\ (sends'[k].at = "show" => sends[k].at = "show")
    BY DEF Quietly, Busy
  <2>2. Len(loops') <= 1
    BY DEF AnswerInv, AnswerRest, FirstToken, Quietly
  <2>3. Untouched' => NothingShown' /\ loops' = << >> /\ \A k \in DOMAIN sends' : ~Busy(k)'
    BY <1>2, <2>1 DEF AnswerInv, AnswerRest, FirstToken, Quietly
  <2>4. \A k \in DOMAIN sends' :
          Busy(k)' => loops' = << >> /\ \A m \in DOMAIN sends' : Busy(m)' => m = k
    BY <2>1 DEF AnswerInv, AnswerRest, FirstToken, Quietly
  <2>5. \A k \in DOMAIN sends' :
          sends'[k].at = "show" =>
             /\ NothingShown'
             /\ \A e \in 1..built' : \A s \in DOMAIN count'[e] : count'[e][s] >= 1
    <3>1. \A k \in DOMAIN sends' : sends'[k].at = "show" => Busy(k)'
      BY DEF Busy
    <3> QED
      BY <1>2, <2>1, <3>1 DEF AnswerInv, AnswerRest, FirstToken, Quietly
  <2> QED
    BY <2>2, <2>3, <2>4, <2>5 DEF FirstToken
<1>4. \A i \in DOMAIN threads' :
        \/ threads'[i].text = << >> /\ threads'[i].tokCount = 0
        \/ \E m \in DOMAIN threads :
             /\ threads'[i].text = threads[m].text /\ threads'[i].tokCount = threads[m].tokCount
             /\ threads'[i].generating => threads[m].generating
  BY DEF Quietly, Calm
<1>5. \A i \in DOMAIN threads' : \A j \in DOMAIN threads'[i].text :
        \E m \in DOMAIN threads : j \in DOMAIN threads[m].text
                                  /\ threads'[i].text[j] = threads[m].text[j]
  BY <1>4
<1>6. Numbers'
  <2>1. ASSUME NEW e \in 1..built, NEW s \in DOMAIN count[e],
               NEW i \in DOMAIN threads', NEW j \in DOMAIN threads'[i].text
        PROVE  threads'[i].text[j][3] <= count[e][s]
    BY <1>5 DEF AnswerInv, AnswerRest, Numbers
  <2>2. ASSUME NEW l \in DOMAIN loops, loops[l].at = "append",
               NEW i \in DOMAIN threads', NEW j \in DOMAIN threads'[i].text
        PROVE  Before(threads'[i].text[j], loops[l].got)
    BY <1>5, <2>2 DEF AnswerInv, AnswerRest, Numbers
  <2> QED
    BY <2>1, <2>2 DEF AnswerInv, AnswerRest, Numbers, Before, Quietly
<1>7. Counted'
  <2>1. MaxTok \in Nat /\ 0 < MaxTok
    BY ChatFacts
  <2> QED
    BY <1>4, <2>1 DEF AnswerInv, AnswerRest, Counted
<1>8. Chat!TextInOrder'
  <2>1. ASSUME NEW i \in DOMAIN threads', NEW j \in DOMAIN threads'[i].text,
               NEW k \in DOMAIN threads'[i].text, j < k
        PROVE  Before(threads'[i].text[j], threads'[i].text[k])
    <3>1. CASE threads'[i].text = << >>
      BY <3>1, <2>1
    <3>2. CASE threads'[i].text # << >>
      <4>1. PICK m \in DOMAIN threads : threads'[i].text = threads[m].text
        BY <1>4, <3>2
      <4> QED
        BY <4>1, <2>1 DEF AnswerInv, AnswerRest, Chat!TextInOrder, Before
    <3> QED
      BY <3>1, <3>2
  <2> QED
    BY <2>1 DEF Chat!TextInOrder, Before
<1> QED
  BY <1>1, <1>3, <1>6, <1>7, <1>8 DEF AnswerRest

(* The session is the only one, and it has a count.                        *)
LEMMA OnlyOne ==
  ASSUME AnswerInv
  PROVE  /\ \A e \in 1..built : DOMAIN count[e] = DOMAIN states[e]
         /\ \A e, f \in 1..built : \A s \in DOMAIN states[e], x \in DOMAIN states[f] :
              e = f /\ s = x
<1>1. \A e \in 1..built : /\ states[e] \in Seq(SessionStates) /\ count[e] \in Seq(Nat)
                          /\ Len(count[e]) = Len(states[e]) /\ Len(states[e]) <= 1
  BY DEF AnswerInv, TextInv, ChatTypes, ChatEngines, AnswerRest, OnlySession
<1>2. \A e \in 1..built : DOMAIN states[e] = 1..Len(states[e]) /\ DOMAIN count[e] = 1..Len(count[e])
                          /\ Len(states[e]) \in {0, 1}
  <2> SUFFICES ASSUME NEW e \in 1..built
               PROVE  DOMAIN states[e] = 1..Len(states[e]) /\ DOMAIN count[e] = 1..Len(count[e])
                      /\ Len(states[e]) \in {0, 1}
    OBVIOUS
  <2>1. DOMAIN states[e] = 1..Len(states[e]) /\ Len(states[e]) \in Nat
    BY <1>1
  <2>2. DOMAIN count[e] = 1..Len(count[e])
    BY <1>1
  <2>3. Len(states[e]) <= 1
    BY <1>1
  <2>4. Len(states[e]) \in {0, 1}
    <3> DEFINE n == Len(states[e])
    <3>1. n \in Nat /\ n <= 1
      BY <2>1, <2>3
    <3> HIDE DEF n
    <3>2. n \in {0, 1}
      BY <3>1
    <3> QED
      BY <3>2 DEF n
  <2> QED
    BY <2>1, <2>2, <2>4
<1>3. \A e \in 1..built : DOMAIN count[e] = DOMAIN states[e]
  BY <1>1, <1>2
<1>4. \A e \in 1..built : e = 1
  BY DEF AnswerInv, TextInv, OneBuild, ChatTypes, ChatView
<1>5. \A e \in 1..built : \A s \in DOMAIN states[e] : s = 1
  BY <1>2
<1> QED
  BY <1>3, <1>4, <1>5

(* Cancelling leaves no session as if it were never used that was used.    *)
LEMMA CancelQuiet ==
  ASSUME ChatEngines, NEW e \in 0..built, built \in Nat, NEW S, Chat!Cancel(e, S),
         UNCHANGED <<count, built>>
  PROVE  /\ \A f \in 1..built : DOMAIN states'[f] = DOMAIN states[f]
                                /\ Len(states'[f]) = Len(states[f])
         /\ Untouched' => Untouched
<1>1. /\ ChatEngines'
      /\ \A f \in 1..built :
           /\ Len(states'[f]) = Len(states[f])
           /\ \A s \in 1..Len(states[f]) :
                states'[f][s] = IF f = e /\ s \in S THEN "Gone" ELSE states[f][s]
  BY Cancelling
<1>2. \A f \in 1..built : states[f] \in Seq(SessionStates) /\ states'[f] \in Seq(SessionStates)
  BY <1>1 DEF ChatEngines
<1>3. \A f \in 1..built : DOMAIN states[f] = 1..Len(states[f])
                          /\ DOMAIN states'[f] = 1..Len(states'[f])
  BY <1>2
<1>4. ASSUME Untouched' PROVE Untouched
  BY <1>1, <1>3, <1>4 DEF Untouched
<1> QED
  BY <1>1, <1>3, <1>4

(* A chat put back calm leaves every chat calm.                            *)
LEMMA OnePutCalm ==
  ASSUME threads \in Seq(ThreadRecord), NEW i \in DOMAIN threads, NEW r, Calm(r),
         threads' = [threads EXCEPT ![i] = r]
  PROVE  \A j \in DOMAIN threads' : Calm(threads'[j])
<1>1. DOMAIN threads' = DOMAIN threads
      /\ \A j \in DOMAIN threads : threads'[j] = IF j = i THEN r ELSE threads[j]
  OBVIOUS
<1>2. \A j \in DOMAIN threads : Calm(threads[j])
  BY DEF Calm
<1> QED
  BY <1>1, <1>2

(* What the user does keeps the order of the answer.                       *)
LEMMA UserQuiet ==
  ASSUME Chat!ChatAssumption, \A a, b \in Chats : a = b, Reloads = {}, AnswerInv, Chat!User
  PROVE  AnswerRest'
<1>1. /\ threads \in Seq(ThreadRecord) /\ sends \in Seq(SendRecord) /\ ChatTypes /\ ChatEngines
      /\ built \in Nat /\ current \in 0..built /\ born \subseteq Chats
      /\ \A i \in DOMAIN threads : threads[i].id \in born
      /\ \A k \in DOMAIN sends : sends[k].id \in born
  BY DEF AnswerInv, TextInv, ChatTypes, ChatView, ChatTasks
<1>2. \A j \in DOMAIN threads : Calm(threads[j])
  BY DEF Calm
<1>3. ASSUME NEW id \in Chats, Chat!CreateThread(id)
      PROVE  AnswerRest'
  <2> DEFINE t == [id |-> id, eng |-> current, sid |-> Len(states[current]) + 1,
                   generating |-> FALSE, tokCount |-> 0, text |-> << >>, err |-> None]
  <2>1. /\ current # 0 /\ id \notin born /\ born' = born \cup {id} /\ threads' = Append(threads, t)
        /\ states' = [states EXCEPT ![current] = Append(@, "Queued")]
        /\ count' = [count EXCEPT ![current] = Append(@, 0)]
        /\ UNCHANGED <<built, sends, loops>>
    BY <1>3 DEF Chat!CreateThread, Chat!CreateSession, Chat!tasks
  <2>2. born = {} /\ threads = << >> /\ sends = << >> /\ Untouched
    <3>1. born = {}
      BY <1>1, <2>1
    <3>2. threads = << >> /\ sends = << >>
      <4>1. DOMAIN threads = {} /\ DOMAIN sends = {}
        BY <1>1, <3>1
      <4> QED
        BY <1>1, <4>1, NoPlaces
    <3>3. \A e \in 1..built : states[e] \in Seq(SessionStates) /\ Len(states[e]) = 0
      BY <1>1, <3>1 DEF ChatEngines, AnswerInv, AnswerRest, OnlySession
    <3>4. Untouched
      BY <3>3 DEF Untouched
    <3> QED
      BY <3>1, <3>2, <3>4
  <2>3. loops = << >>
    BY <2>2 DEF AnswerInv, AnswerRest, FirstToken
  <2>4. t.text = << >> /\ t.tokCount = 0 /\ t.generating = FALSE
    OBVIOUS
  <2> HIDE DEF t
  <2>5. DOMAIN threads' = {1} /\ threads'[1] = t
    BY <2>1, <2>2
  <2>6. /\ DOMAIN states = 1..built /\ DOMAIN count = 1..built /\ current \in 1..built
        /\ \A e \in 1..built : states[e] = << >> /\ count[e] = << >>
    <3>1. DOMAIN states = 1..built /\ DOMAIN count = 1..built /\ current \in 1..built
      BY <1>1, <2>1 DEF ChatEngines
    <3>2. \A e \in 1..built : states[e] \in Seq(SessionStates) /\ count[e] \in Seq(Nat)
                              /\ Len(states[e]) = 0 /\ Len(count[e]) = 0
      BY <1>1, <2>2 DEF ChatEngines, AnswerInv, AnswerRest, OnlySession
    <3> QED
      BY <3>1, <3>2
  <2>7. \A e \in 1..built : /\ states'[e] = << >> \/ states'[e] = <<"Queued">>
                            /\ count'[e] = << >> \/ count'[e] = <<0>>
    <3> SUFFICES ASSUME NEW e \in 1..built
                 PROVE  /\ states'[e] = << >> \/ states'[e] = <<"Queued">>
                        /\ count'[e] = << >> \/ count'[e] = <<0>>
      OBVIOUS
    <3>1. states'[e] = IF e = current THEN Append(states[current], "Queued") ELSE states[e]
      BY <2>1, <2>6
    <3>2. count'[e] = IF e = current THEN Append(count[current], 0) ELSE count[e]
      BY <2>1, <2>6
    <3>3. Append(<< >>, "Queued") = <<"Queued">> /\ Append(<< >>, 0) = <<0>>
      OBVIOUS
    <3> QED
      BY <2>6, <3>1, <3>2, <3>3
  <2>8. OnlySession'
    <3>1. ASSUME NEW e \in 1..built PROVE Len(states'[e]) <= 1
      <4>1. CASE states'[e] = << >>
        BY <4>1
      <4>2. CASE states'[e] = <<"Queued">>
        BY <4>2
      <4> QED
        BY <2>7, <4>1, <4>2
    <3>2. born' # {} /\ built' = built
      BY <2>1
    <3> QED
      BY <3>1, <3>2 DEF OnlySession
  <2>9. FirstToken'
    BY <2>1, <2>2, <2>3, <2>4, <2>5 DEF FirstToken, NothingShown, Busy
  <2>10. Numbers'
    <3>1. \A e \in 1..built : \A s \in DOMAIN count'[e] : count'[e][s] = 0
      BY <2>7
    <3> QED
      BY <2>1, <2>3, <2>4, <2>5, <3>1, ChatFacts DEF Numbers
  <2>11. Counted'
    BY <2>4, <2>5, ChatFacts DEF Counted
  <2>12. Chat!TextInOrder'
    BY <2>4, <2>5 DEF Chat!TextInOrder
  <2> QED
    BY <2>8, <2>9, <2>10, <2>11, <2>12 DEF AnswerRest
<1>4. ASSUME NEW id \in Chats, Chat!Delete(id)
      PROVE  AnswerRest'
  <2> DEFINE i == Chat!At(id)
  <2>1. /\ i \in DOMAIN threads /\ threads' = Chat!RemoveAt(threads, i)
        /\ Chat!Cancel(current, {threads[i].sid}) /\ UNCHANGED <<built, born, sends, loops, count>>
    BY <1>4, AtIs DEF Chat!Delete, Chat!tasks
  <2> HIDE DEF i
  <2>2. \A j \in DOMAIN threads' : \E k \in DOMAIN threads : threads'[j] = threads[k]
    <3>1. /\ DOMAIN threads' = 1..(Len(threads) - 1)
          /\ \A j \in DOMAIN threads' : threads'[j] = IF j < i THEN threads[j] ELSE threads[j + 1]
      BY <1>1, <2>1, RemovedAt
    <3>2. Len(threads) \in Nat /\ DOMAIN threads = 1..Len(threads) /\ i \in 1..Len(threads)
      BY <1>1, <2>1
    <3>3. \A j \in DOMAIN threads' : j \in DOMAIN threads /\ j + 1 \in DOMAIN threads
      BY <3>1, <3>2
    <3> QED
      BY <3>1, <3>3
  <2>3. \A j \in DOMAIN threads' : Calm(threads'[j])
    BY <1>2, <2>2
  <2>4. Quietly
    BY <1>1, <2>1, <2>3, CancelQuiet DEF Quietly, Busy
  <2> QED
    BY <2>4, QuietlyKept
<1>5. ASSUME NEW id \in Chats, Chat!Stop(id)
      PROVE  AnswerRest'
  <2> DEFINE i == Chat!At(id)
             r == [threads[i] EXCEPT !.generating = FALSE]
  <2>1. /\ i \in DOMAIN threads /\ threads' = [threads EXCEPT ![i] = r]
        /\ Chat!Cancel(current, {threads[i].sid}) /\ UNCHANGED <<built, born, sends, loops, count>>
    BY <1>5, AtIs DEF Chat!Stop, Chat!tasks
  <2>2. threads[i] \in ThreadRecord
    BY <1>1, <2>1
  <2>3. r.text = threads[i].text /\ r.tokCount = threads[i].tokCount /\ ~r.generating
    <3> HIDE DEF i
    <3> QED
      BY <2>2 DEF ThreadRecord
  <2> HIDE DEF i, r
  <2>4. Calm(r)
    BY <2>1, <2>3 DEF Calm
  <2>5. \A j \in DOMAIN threads' : Calm(threads'[j])
    BY <1>1, <2>1, <2>4, OnePutCalm
  <2>6. Quietly
    BY <1>1, <2>1, <2>5, CancelQuiet DEF Quietly, Busy
  <2> QED
    BY <2>6, QuietlyKept
<1>6. ASSUME NEW id \in Chats, Chat!Send(id)
      PROVE  AnswerRest'
  <2> DEFINE i == Chat!At(id)
             r == [threads[i] EXCEPT !.generating = TRUE, !.tokCount = 0, !.text = << >>,
                                       !.err = None]
             m == [id |-> id, place |-> i, eng |-> current, sid |-> threads[i].sid,
                   at |-> "submit", got |-> None, err |-> None]
  <2>1. /\ i \in DOMAIN threads /\ threads' = [threads EXCEPT ![i] = r]
        /\ sends' = Append(sends, m) /\ UNCHANGED <<built, born, loops, states, count>>
    BY <1>6, AtIs DEF Chat!Send, Chat!engines
  <2>2. threads[i] \in ThreadRecord
    BY <1>1, <2>1
  <2>3. r.text = << >> /\ r.tokCount = 0
    <3> HIDE DEF i
    <3> QED
      BY <2>2 DEF ThreadRecord
  <2>4. m.at = "submit"
    OBVIOUS
  <2> HIDE DEF i, r, m
  <2>5. Calm(r)
    BY <2>3 DEF Calm
  <2>6. \A j \in DOMAIN threads' : Calm(threads'[j])
    BY <1>1, <2>1, <2>5, OnePutCalm
  <2>7. \A k \in DOMAIN sends' : sends'[k] = m \/ (k \in DOMAIN sends /\ sends'[k] = sends[k])
    BY <1>1, <2>1
  <2>8. Quietly
    BY <2>1, <2>4, <2>6, <2>7 DEF Quietly, Busy, Untouched
  <2> QED
    BY <2>8, QuietlyKept
<1>7. ASSUME NEW id \in Chats, Chat!SendFails(id)
      PROVE  AnswerRest'
  <2> DEFINE i == Chat!At(id)
             r == [threads[i] EXCEPT !.tokCount = 0, !.text = << >>, !.err = "tokenize"]
  <2>1. /\ i \in DOMAIN threads /\ threads' = [threads EXCEPT ![i] = r]
        /\ UNCHANGED <<built, born, sends, loops, states, count>>
    BY <1>7, AtIs DEF Chat!SendFails, Chat!tasks, Chat!engines
  <2>2. threads[i] \in ThreadRecord
    BY <1>1, <2>1
  <2>3. r.text = << >> /\ r.tokCount = 0
    <3> HIDE DEF i
    <3> QED
      BY <2>2 DEF ThreadRecord
  <2> HIDE DEF i, r
  <2>4. Calm(r)
    BY <2>3 DEF Calm
  <2>5. \A j \in DOMAIN threads' : Calm(threads'[j])
    BY <1>1, <2>1, <2>4, OnePutCalm
  <2>6. Quietly
    BY <2>1, <2>5 DEF Quietly, Busy, Untouched
  <2> QED
    BY <2>6, QuietlyKept
<1> QED
  BY <1>3, <1>4, <1>5, <1>6, <1>7 DEF Chat!User

(* An engine that is ready finds no answer, and one that is not leaves the *)
(* answer alone.                                                           *)
LEMMA BuildQuiet ==
  ASSUME Chat!ChatAssumption, AnswerInv, Chat!Build
  PROVE  AnswerRest'
<1>1. CASE Chat!BuildFails
  <2>1. UNCHANGED <<threads, born, built, sends, loops, states, count>>
    BY <1>1, FailedBuild
  <2> QED
    BY <2>1 DEF AnswerInv, AnswerRest, OnlySession, FirstToken, Numbers, Counted,
                Chat!TextInOrder, NothingShown, Busy, Untouched, Before
<1>2. CASE Chat!EngineBuilt
  <2>1. /\ building > 0 /\ built' = built + 1 /\ states' = Append(states, << >>)
        /\ count' = Append(count, << >>) /\ UNCHANGED <<threads, born, sends, loops>>
    BY <1>2 DEF Chat!EngineBuilt, Chat!tasks
  <2>2. /\ built = 0 /\ states \in Seq(Seq(SessionStates)) /\ count \in Seq(Seq(Nat))
        /\ Len(states) = 0 /\ Len(count) = 0 /\ threads \in Seq(ThreadRecord)
        /\ \A i \in DOMAIN threads : threads[i].eng \in 1..built
    <3>1. built = 0
      BY <2>1 DEF AnswerInv, TextInv, OneBuild, ChatTypes, ChatView
    <3> QED
      BY <3>1 DEF AnswerInv, TextInv, ChatTypes, ChatView, ChatEngines
  <2>3. threads = << >> /\ Untouched
    <3>1. 1..built = {}
      BY <2>2
    <3>2. DOMAIN threads = {} /\ Untouched
      BY <2>2, <3>1 DEF Untouched
    <3> QED
      BY <2>2, <3>2, NoPlaces
  <2>4. loops = << >> /\ \A k \in DOMAIN sends : ~Busy(k)
    BY <2>3 DEF AnswerInv, AnswerRest, FirstToken
  <2>5. built' = 1 /\ states' = << << >> >> /\ count' = << << >> >>
    BY <2>1, <2>2
  <2>6. OnlySession'
    BY <2>5 DEF OnlySession
  <2>7. FirstToken'
    <3>1. \A k \in DOMAIN sends' : ~Busy(k)' /\ sends'[k].at # "show"
      BY <2>1, <2>4 DEF Busy
    <3>2. NothingShown'
      BY <2>1, <2>3 DEF NothingShown
    <3> QED
      BY <2>1, <2>4, <3>1, <3>2 DEF FirstToken
  <2>8. Numbers'
    BY <2>1, <2>4, <2>5 DEF Numbers
  <2>9. Counted' /\ Chat!TextInOrder'
    BY <2>1, <2>3 DEF Counted, Chat!TextInOrder
  <2> QED
    BY <2>6, <2>7, <2>8, <2>9 DEF AnswerRest
<1> QED
  BY <1>1, <1>2 DEF Chat!Build

(* Before the first answer there is one session, which nobody used.        *)
LEMMA FirstAnswer ==
  ASSUME AnswerInv, NEW e \in 1..built, NEW s \in DOMAIN states[e],
         states[e][s] \in {"Queued", "Prefill"}
  PROVE  Untouched
BY OnlyOne DEF Untouched

(* The first token finds an empty answer: the prompt is the session's only *)
(* one.                                                                    *)
LEMMA SubmitQuiet ==
  ASSUME Chat!ChatAssumption, AnswerInv, NEW k \in DOMAIN sends, Chat!Submit(k)
  PROVE  AnswerRest'
<1> DEFINE t == sends[k]
           e == sends[k].eng
           s == sends[k].sid
<1>1. /\ ChatTypes /\ ChatEngines /\ t \in SendRecord /\ e \in 1..built /\ s \in Nat
      /\ built \in Nat /\ sends \in Seq(SendRecord)
      /\ \A m \in DOMAIN sends : sends[m] \in SendRecord
  <2>1. ChatTypes /\ ChatEngines /\ built \in Nat
    BY DEF AnswerInv, TextInv, ChatTypes, ChatView
  <2>2. sends \in Seq(SendRecord) /\ t \in SendRecord /\ e \in 1..built /\ s \in Nat
    BY <2>1, TheSend
  <2> QED
    BY <2>1, <2>2
<1>2. UNCHANGED <<threads, born, built, loops>>
  BY DEF Chat!Submit, Chat!view
<1>3. \A j \in DOMAIN threads' : Calm(threads'[j])
  BY <1>2 DEF Calm
<1>4. DOMAIN states = 1..built /\ DOMAIN count = 1..built
      /\ \A f \in 1..built : states[f] \in Seq(SessionStates) /\ count[f] \in Seq(Nat)
  BY <1>1 DEF ChatEngines
<1>5. CASE /\ Chat!Known(e, s) /\ states[e][s] \in {"Queued", "Prefill"} /\ Chat!Submitted(e, s)
           /\ \/ sends' = [sends EXCEPT ![k].at = "show", ![k].got = <<e, s, 1>>]
              \/ sends' = [sends EXCEPT ![k].at = "error", ![k].err = "failed"]
  <2>1. s \in DOMAIN states[e]
    BY <1>5 DEF Chat!Known
  <2>2. Untouched
    BY <1>1, <1>5, <2>1, FirstAnswer
  <2>3. NothingShown /\ loops = << >> /\ \A m \in DOMAIN sends : ~Busy(m)
    BY <2>2 DEF AnswerInv, AnswerRest, FirstToken
  <2>4. DOMAIN sends' = DOMAIN sends /\ \A m \in DOMAIN sends : m # k => sends'[m] = sends[m]
    BY <1>5
  <2>5. /\ states' = [states EXCEPT ![e][s] = "Decoding"] /\ count' = [count EXCEPT ![e][s] = 1]
    BY <1>5 DEF Chat!Submitted
  <2>6. \A f \in 1..built : /\ DOMAIN states'[f] = DOMAIN states[f]
                            /\ DOMAIN count'[f] = DOMAIN count[f]
                            /\ Len(states'[f]) = Len(states[f])
    BY <1>1, <1>4, <2>1, <2>5
  <2>7. states'[e][s] = "Decoding" /\ s \in DOMAIN states'[e] /\ e \in 1..built'
    BY <1>1, <1>2, <1>4, <2>1, <2>5, <2>6
  <2>8. ~Untouched'
    BY <2>7 DEF Untouched
  <2>9. \A f \in 1..built : \A x \in DOMAIN count'[f] : count'[f][x] = 1
    <3>1. \A f \in 1..built : \A x \in DOMAIN count'[f] : f = e /\ x = s
      BY <1>1, <2>1, <2>6, OnlyOne
    <3>2. count'[e][s] = 1
      BY <1>1, <1>4, <2>1, <2>5, OnlyOne
    <3> QED
      BY <3>1, <3>2
  <2>10. OnlySession'
    BY <1>2, <2>6 DEF OnlySession, AnswerInv, AnswerRest
  <2>11. FirstToken'
    <3>1. \A m \in DOMAIN sends' : Busy(m)' => m = k
      BY <2>3, <2>4 DEF Busy
    <3>2. NothingShown' /\ loops' = << >> /\ Len(loops') <= 1
      BY <1>2, <2>3 DEF NothingShown
    <3>3. \A f \in 1..built' : \A x \in DOMAIN count'[f] : count'[f][x] >= 1
      BY <1>2, <2>9
    <3> QED
      BY <2>8, <3>1, <3>2, <3>3 DEF FirstToken
  <2>12. Numbers'
    <3>1. MaxSaid \in Nat /\ 1 <= MaxSaid
      BY ChatFacts
    <3> QED
      BY <1>2, <2>3, <2>9, <3>1 DEF Numbers, NothingShown
  <2>13. Counted' /\ Chat!TextInOrder'
    BY <1>2 DEF Counted, Chat!TextInOrder, AnswerInv, AnswerRest
  <2> QED
    BY <2>10, <2>11, <2>12, <2>13 DEF AnswerRest
<1>6. CASE /\ Chat!Known(e, s) /\ states[e][s] \in {"Queued", "Prefill"}
           /\ states' = [states EXCEPT ![e][s] = "Prefill"]
           /\ sends' = [sends EXCEPT ![k].at = "error", ![k].err = "failed"]
           /\ UNCHANGED count
  <2>1. s \in DOMAIN states[e]
    BY <1>6 DEF Chat!Known
  <2>2. Untouched
    BY <1>1, <1>6, <2>1, FirstAnswer
  <2>3. \A f \in 1..built : DOMAIN states'[f] = DOMAIN states[f] /\ Len(states'[f]) = Len(states[f])
    BY <1>1, <1>4, <1>6, <2>1
  <2>4. DOMAIN sends' = DOMAIN sends /\ \A m \in DOMAIN sends : m # k => sends'[m] = sends[m]
    BY <1>6
  <2>5. sends'[k].at = "error"
    BY <1>1, <1>6 DEF SendRecord
  <2>6. Quietly
    BY <1>2, <1>3, <1>6, <2>2, <2>3, <2>4, <2>5 DEF Quietly, Busy
  <2> QED
    BY <2>6, QuietlyKept
<1>7. CASE /\ UNCHANGED <<states, count>>
           /\ \E x \in {"refused", "unknown"} :
                 sends' = [sends EXCEPT ![k].at = "error", ![k].err = x]
  <2>1. DOMAIN sends' = DOMAIN sends /\ \A m \in DOMAIN sends : m # k => sends'[m] = sends[m]
    BY <1>7
  <2>2. sends'[k].at = "error"
    BY <1>1, <1>7 DEF SendRecord
  <2>3. Quietly
    BY <1>2, <1>3, <1>7, <2>1, <2>2 DEF Quietly, Busy, Untouched
  <2> QED
    BY <2>3, QuietlyKept
<1> HIDE DEF t
<1> QED
  BY <1>5, <1>6, <1>7 DEF Chat!Submit, Chat!engines

(* The first token of an answer is shown where nothing is.                 *)
LEMMA ShowQuiet ==
  ASSUME Chat!ChatAssumption, AnswerInv, NEW k \in DOMAIN sends, Chat!Show(k)
  PROVE  AnswerRest'
<1> DEFINE t == sends[k]
           id == sends[k].id
           i == Chat!At(id)
<1>1. /\ ChatTypes /\ threads \in Seq(ThreadRecord) /\ sends \in Seq(SendRecord)
      /\ t \in SendRecord /\ built \in Nat /\ t.eng \in 1..built /\ t.eng \in Nat /\ t.sid \in Nat
  <2>1. ChatTypes /\ threads \in Seq(ThreadRecord) /\ built \in Nat
    BY DEF AnswerInv, TextInv, ChatTypes, ChatView
  <2> QED
    BY <2>1, TheSend
<1>2. /\ t.at = "show" /\ sends' = [sends EXCEPT ![k].at = "ensure"]
      /\ UNCHANGED <<born, built, loops, states, count>>
  BY DEF Chat!Show, Chat!engines
<1>3. /\ NothingShown /\ loops = << >> /\ \A m \in DOMAIN sends : Busy(m) => m = k
      /\ \A e \in 1..built : \A s \in DOMAIN count[e] : count[e][s] >= 1
  <2>1. Busy(k)
    BY <1>2 DEF Busy
  <2> QED
    BY <1>2, <2>1 DEF AnswerInv, AnswerRest, FirstToken
<1>4. /\ DOMAIN sends' = DOMAIN sends /\ sends'[k].at = "ensure"
      /\ \A m \in DOMAIN sends : m # k => sends'[m] = sends[m]
  BY <1>1, <1>2 DEF SendRecord
<1>5. OnlySession'
  BY <1>2 DEF OnlySession, AnswerInv, AnswerRest
<1>6. FirstToken'
  <2>1. \A m \in DOMAIN sends' : Busy(m)' => m = k
    BY <1>3, <1>4 DEF Busy
  <2>2. \A m \in DOMAIN sends' : sends'[m].at # "show"
    BY <1>3, <1>4 DEF Busy
  <2>3. ~Untouched'
    BY <1>2 DEF Untouched, Busy, AnswerInv, AnswerRest, FirstToken
  <2>4. loops' = << >> /\ Len(loops') <= 1
    BY <1>2, <1>3
  <2> QED
    BY <2>1, <2>2, <2>3, <2>4 DEF FirstToken
<1>7. CASE ~Chat!Shown(id)
  <2>1. threads' = threads
    BY <1>7 DEF Chat!Show
  <2>2. Numbers' /\ Counted' /\ Chat!TextInOrder'
    BY <1>2, <2>1 DEF Numbers, Counted, Chat!TextInOrder, Before, AnswerInv, AnswerRest
  <2> QED
    BY <1>5, <1>6, <2>2 DEF AnswerRest
<1>8. CASE Chat!Shown(id)
  <2>1. i \in DOMAIN threads /\ threads[i] \in ThreadRecord
    BY <1>1, <1>8, AtIs
  <2>2. PICK stop \in {FALSE, Stops} :
          threads' = [threads EXCEPT ![i] =
                        [threads[i] EXCEPT
                           !.text = Append(threads[i].text, t.got), !.tokCount = 1,
                           !.generating = threads[i].generating /\ ~stop /\ MaxTok > 1]]
    BY <1>8 DEF Chat!Show
  <2> DEFINE g == threads[i].generating /\ ~stop /\ MaxTok > 1
             x == Append(threads[i].text, t.got)
             r == [threads[i] EXCEPT !.text = x, !.tokCount = 1, !.generating = g]
  <2>3. threads' = [threads EXCEPT ![i] = r]
    BY <2>2, Zenon
  <2>4. t.got = <<t.eng, t.sid, 1>>
    BY <1>2 DEF AnswerInv, TextInv, ChatTypes, ChatTasks
  <2>5. x = <<t.got>> /\ t.got[3] = 1
    <3>1. threads[i].text = << >>
      BY <1>3, <2>1 DEF NothingShown
    <3>2. t.got[3] = 1
      BY <2>4
    <3> HIDE DEF t, i
    <3> QED
      BY <3>1, <3>2
  <2>6. g \in BOOLEAN /\ (g => MaxTok > 1)
    BY Zenon
  <2>7. Len(x) = 1 /\ DOMAIN x = {1} /\ x[1][3] = 1
    <3> HIDE DEF x, t
    <3> QED
      BY <2>5
  <2> HIDE DEF g, x, i
  <2>8. r.text = x /\ r.tokCount = 1 /\ r.generating = g
    BY <2>1, <2>6 DEF ThreadRecord
  <2>9. r.generating => MaxTok > 1
    BY <2>6, <2>8, Zenon
  <2> HIDE DEF r
  <2>10. DOMAIN threads' = DOMAIN threads
         /\ \A j \in DOMAIN threads : threads'[j] = IF j = i THEN r ELSE threads[j]
    BY <1>1, <2>1, <2>3
  <2>11. \A j \in DOMAIN threads' :
           \/ threads'[j].text = << >> /\ threads'[j] = threads[j]
           \/ threads'[j] = r
    BY <1>3, <2>10 DEF NothingShown
  <2>12. MaxTok \in Nat /\ 1 <= MaxTok /\ MaxSaid \in Nat /\ 1 <= MaxSaid
    BY ChatFacts
  <2>13. Numbers'
    <3>1. \A j \in DOMAIN threads' : \A n \in DOMAIN threads'[j].text : threads'[j].text[n][3] = 1
      BY <2>7, <2>8, <2>11
    <3>2. \A e \in 1..built : \A s \in DOMAIN count[e] : count[e][s] >= 1 /\ count[e][s] <= MaxSaid
      BY <1>3 DEF AnswerInv, AnswerRest, Numbers
    <3> QED
      BY <1>2, <1>3, <3>1, <3>2 DEF Numbers
  <2>14. Counted'
    <3>1. \A j \in DOMAIN threads' :
            /\ Len(threads'[j].text) = threads'[j].tokCount /\ threads'[j].tokCount <= MaxTok
            /\ threads'[j].generating => threads'[j].tokCount < MaxTok
      <4> SUFFICES ASSUME NEW j \in DOMAIN threads'
                   PROVE  /\ Len(threads'[j].text) = threads'[j].tokCount
                          /\ threads'[j].tokCount <= MaxTok
                          /\ threads'[j].generating => threads'[j].tokCount < MaxTok
        OBVIOUS
      <4>1. CASE threads'[j] = r
        BY <2>7, <2>8, <2>9, <2>12, <4>1
      <4>2. CASE threads'[j] = threads[j]
        BY <2>10, <4>2 DEF AnswerInv, AnswerRest, Counted
      <4> QED
        BY <2>11, <4>1, <4>2
    <3> QED
      BY <3>1 DEF Counted
  <2>15. Chat!TextInOrder'
    <3>1. \A j \in DOMAIN threads' : \A n, m \in DOMAIN threads'[j].text : ~(n < m)
      <4> SUFFICES ASSUME NEW j \in DOMAIN threads', NEW n \in DOMAIN threads'[j].text,
                          NEW m \in DOMAIN threads'[j].text
                   PROVE  ~(n < m)
        OBVIOUS
      <4>1. CASE threads'[j] = r
        BY <2>7, <2>8, <4>1
      <4>2. CASE threads'[j].text = << >>
        BY <4>2
      <4> QED
        BY <2>11, <4>1, <4>2
    <3> QED
      BY <3>1 DEF Chat!TextInOrder
  <2> QED
    BY <1>5, <1>6, <2>13, <2>14, <2>15 DEF AnswerRest
<1> QED
  BY <1>7, <1>8

(* A step of a message's task keeps the order of the answer.               *)
LEMMA TaskQuiet ==
  ASSUME Chat!ChatAssumption, AnswerInv, NEW k \in DOMAIN sends, Chat!SendTask(k)
  PROVE  AnswerRest'
<1> DEFINE t == sends[k]
           id == sends[k].id
           i == Chat!At(id)
<1>1. /\ ChatTypes /\ threads \in Seq(ThreadRecord) /\ sends \in Seq(SendRecord)
      /\ t \in SendRecord /\ \A j \in DOMAIN threads : Calm(threads[j])
  <2>1. ChatTypes /\ threads \in Seq(ThreadRecord)
    BY DEF AnswerInv, TextInv, ChatTypes, ChatView
  <2>2. \A j \in DOMAIN threads : Calm(threads[j])
    BY DEF Calm
  <2> QED
    BY <2>1, <2>2, TheSend
<1>2. ASSUME Chat!ShowError(k) PROVE AnswerRest'
  <2>1. /\ sends' = [sends EXCEPT ![k].at = "done"]
        /\ UNCHANGED <<born, built, loops, states, count>>
        /\ threads' = IF ~Chat!Shown(id) THEN threads
                      ELSE [threads EXCEPT ![i] = [@ EXCEPT !.err = t.err, !.generating = FALSE]]
    BY <1>2 DEF Chat!ShowError, Chat!engines
  <2>2. \A j \in DOMAIN threads' : Calm(threads'[j])
    <3>1. CASE ~Chat!Shown(id)
      BY <1>1, <2>1, <3>1
    <3>2. CASE Chat!Shown(id)
      <4> DEFINE r == [threads[i] EXCEPT !.err = t.err, !.generating = FALSE]
      <4>1. threads' = [threads EXCEPT ![i] = r]
        BY <2>1, <3>2
      <4>2. i \in DOMAIN threads /\ threads[i] \in ThreadRecord
        BY <1>1, <3>2, AtIs
      <4> HIDE DEF i
      <4>3. r.text = threads[i].text /\ r.tokCount = threads[i].tokCount /\ ~r.generating
        BY <4>2 DEF ThreadRecord
      <4> HIDE DEF r
      <4>4. Calm(r)
        BY <4>2, <4>3 DEF Calm
      <4> QED
        BY <1>1, <4>1, <4>2, <4>4, OnePutCalm
    <3> QED
      BY <3>1, <3>2
  <2>3. /\ DOMAIN sends' = DOMAIN sends /\ sends'[k].at = "done"
        /\ \A m \in DOMAIN sends : m # k => sends'[m] = sends[m]
    BY <1>1, <2>1 DEF SendRecord
  <2>4. Quietly
    BY <2>1, <2>2, <2>3 DEF Quietly, Busy, Untouched
  <2> QED
    BY <2>4, QuietlyKept
<1>3. ASSUME Chat!EnsureLoop(k) PROVE AnswerRest'
  <2>1. t.at = "ensure" /\ UNCHANGED <<threads, born, built, loops, states, count>>
    BY <1>3 DEF Chat!EnsureLoop, Chat!view, Chat!engines
  <2>2. /\ DOMAIN sends' = DOMAIN sends /\ sends'[k].at \in {"spawn", "done"}
        /\ \A m \in DOMAIN sends : m # k => sends'[m] = sends[m]
    BY <1>1, <1>3 DEF Chat!EnsureLoop, SendRecord
  <2>3. Quietly
    BY <1>1, <2>1, <2>2 DEF Quietly, Busy, Untouched
  <2> QED
    BY <2>3, QuietlyKept
<1>4. ASSUME Chat!SpawnLoop(k) PROVE AnswerRest'
  <2> DEFINE n == [eng |-> t.eng, at |-> "check", cancelled |-> FALSE, fails |-> 0, got |-> None]
  <2>1. /\ t.at = "spawn" /\ loops' = Append(loops, n) /\ sends' = [sends EXCEPT ![k].at = "done"]
        /\ UNCHANGED <<threads, born, built, states, count>>
    BY <1>4 DEF Chat!SpawnLoop, Chat!engines
  <2>2. Busy(k)
    BY <2>1 DEF Busy
  <2>3. loops = << >> /\ \A m \in DOMAIN sends : Busy(m) => m = k
    BY <2>2 DEF AnswerInv, AnswerRest, FirstToken
  <2>4. n.at = "check"
    OBVIOUS
  <2> HIDE DEF n
  <2>5. loops' = <<n>>
    BY <2>1, <2>3
  <2>6. /\ DOMAIN sends' = DOMAIN sends /\ sends'[k].at = "done"
        /\ \A m \in DOMAIN sends : m # k => sends'[m] = sends[m]
    BY <1>1, <2>1 DEF SendRecord
  <2>7. \A m \in DOMAIN sends' : sends'[m].at \notin {"show", "ensure", "spawn"}
    BY <2>3, <2>6 DEF Busy
  <2>8. ~Untouched'
    BY <2>1, <2>2 DEF Untouched, AnswerInv, AnswerRest, FirstToken
  <2>9. FirstToken'
    <3>1. Len(loops') <= 1
      BY <2>5
    <3>2. \A m \in DOMAIN sends' : ~Busy(m)' /\ sends'[m].at # "show"
      BY <2>7 DEF Busy
    <3> QED
      BY <2>8, <3>1, <3>2 DEF FirstToken
  <2>10. \A l \in DOMAIN loops' : loops'[l].at = "check"
    BY <2>4, <2>5
  <2>11. OnlySession' /\ Counted' /\ Chat!TextInOrder'
    BY <2>1 DEF OnlySession, Counted, Chat!TextInOrder, AnswerInv, AnswerRest
  <2>12. Numbers'
    BY <2>1, <2>10 DEF Numbers, AnswerInv, AnswerRest
  <2> QED
    BY <2>9, <2>11, <2>12 DEF AnswerRest
<1> HIDE DEF t, id, i
<1> QED
  BY <1>2, <1>3, <1>4, SubmitQuiet, ShowQuiet DEF Chat!SendTask

(* While there is a loop, no first token is under way.                     *)
LEMMA LoopRuns ==
  ASSUME AnswerInv, NEW l \in DOMAIN loops
  PROVE  /\ ~Untouched /\ \A k \in DOMAIN sends : ~Busy(k)
         /\ \A m \in DOMAIN loops : m = l
<1>1. loops \in Seq(LoopRecord) /\ Len(loops) <= 1
  BY DEF AnswerInv, TextInv, ChatTypes, ChatTasks, AnswerRest, FirstToken
<1>2. loops # << >> /\ DOMAIN loops = 1..Len(loops) /\ Len(loops) \in Nat
  BY <1>1
<1>3. \A m \in DOMAIN loops : m = 1
  <2> DEFINE n == Len(loops)
  <2>1. n \in Nat /\ n <= 1 /\ DOMAIN loops = 1..n
    BY <1>1, <1>2
  <2> HIDE DEF n
  <2> QED
    BY <2>1
<1> QED
  BY <1>2, <1>3 DEF AnswerInv, AnswerRest, FirstToken

(* A loop that goes on without a token to show changes nothing of the      *)
(* answer, though the session may have one more.                           *)
LEMMA LoopIdle ==
  ASSUME Chat!ChatAssumption, AnswerInv, NEW l \in DOMAIN loops, NEW r \in LoopRecord,
         r.at # "append", loops' = [loops EXCEPT ![l] = r],
         UNCHANGED <<threads, sends, born, built>>, ~Untouched',
         \A e \in 1..built : Len(states'[e]) = Len(states[e]),
         \A e \in 1..built : /\ DOMAIN count'[e] = DOMAIN count[e]
                             /\ \A s \in DOMAIN count[e] :
                                  count[e][s] <= count'[e][s] /\ count'[e][s] <= MaxSaid,
         ChatEngines'
  PROVE  AnswerRest'
<1>1. loops \in Seq(LoopRecord)
  BY DEF AnswerInv, TextInv, ChatTypes, ChatTasks
<1>2. /\ DOMAIN loops' = DOMAIN loops /\ Len(loops') = Len(loops) /\ loops'[l] = r
  BY <1>1
<1>3. \A m \in DOMAIN loops' : loops'[m].at # "append"
  BY <1>2, LoopRuns
<1>4. FirstToken'
  <2>1. \A k \in DOMAIN sends' : ~Busy(k)' /\ sends'[k].at # "show"
    BY LoopRuns DEF Busy
  <2>2. Len(loops') <= 1
    BY <1>2 DEF AnswerInv, AnswerRest, FirstToken
  <2> QED
    BY <2>1, <2>2 DEF FirstToken
<1>5. Numbers'
  <2>1. \A i \in DOMAIN threads : \A j \in DOMAIN threads[i].text : threads[i].text[j][3] \in Nat
    <3> SUFFICES ASSUME NEW i \in DOMAIN threads, NEW j \in DOMAIN threads[i].text
                 PROVE  threads[i].text[j][3] \in Nat
      OBVIOUS
    <3>1. threads[i] \in ThreadRecord
      BY DEF AnswerInv, TextInv, ChatTypes, ChatView
    <3>2. threads[i].text[j] \in SaidToken
      BY <3>1 DEF ThreadRecord
    <3> QED
      BY <3>2 DEF SaidToken
  <2>2. \A e \in 1..built : \A s \in DOMAIN count[e] : count[e][s] \in Nat /\ count'[e][s] \in Nat
    <3> SUFFICES ASSUME NEW e \in 1..built, NEW s \in DOMAIN count[e]
                 PROVE  count[e][s] \in Nat /\ count'[e][s] \in Nat
      OBVIOUS
    <3>1. count[e] \in Seq(Nat) /\ count'[e] \in Seq(Nat) /\ s \in DOMAIN count'[e]
      BY DEF AnswerInv, TextInv, ChatTypes, ChatEngines
    <3> QED
      BY <3>1
  <2>3. \A e \in 1..built : \A s \in DOMAIN count[e] :
          \A i \in DOMAIN threads : \A j \in DOMAIN threads[i].text :
             threads[i].text[j][3] <= count'[e][s]
    <3> SUFFICES ASSUME NEW e \in 1..built, NEW s \in DOMAIN count[e],
                        NEW i \in DOMAIN threads, NEW j \in DOMAIN threads[i].text
                 PROVE  threads[i].text[j][3] <= count'[e][s]
      OBVIOUS
    <3>1. threads[i].text[j][3] <= count[e][s] /\ count[e][s] <= count'[e][s]
      BY DEF AnswerInv, AnswerRest, Numbers
    <3> DEFINE x == threads[i].text[j][3]
               c == count[e][s]
               d == count'[e][s]
    <3>2. x \in Nat /\ c \in Nat /\ d \in Nat /\ x <= c /\ c <= d
      BY <2>1, <2>2, <3>1
    <3> HIDE DEF x, c, d
    <3>3. x <= d
      BY <3>2
    <3> QED
      BY <3>3 DEF x, d
  <2> QED
    BY <1>3, <2>3 DEF Numbers
<1>6. OnlySession' /\ Counted' /\ Chat!TextInOrder'
  BY DEF OnlySession, Counted, Chat!TextInOrder, AnswerInv, AnswerRest
<1> QED
  BY <1>4, <1>5, <1>6 DEF AnswerRest

(* What a loop decodes is the token after all that were said.              *)
LEMMA StepQuiet ==
  ASSUME Chat!ChatAssumption, AnswerInv, NEW l \in DOMAIN loops, Chat!StepDecode(l)
  PROVE  AnswerRest'
<1> DEFINE t == loops[l]
           e == loops[l].eng
           first == CHOOSE i \in Chat!Decodes(e) : \A j \in Chat!Decodes(e) : i <= j
           s == rings[e][first]
           n == Chat!Min({MaxSaid, count[e][s] + 1})
<1>1. /\ ChatTypes /\ ChatEngines /\ loops \in Seq(LoopRecord) /\ e \in 1..built /\ built \in Nat
  BY DEF AnswerInv, TextInv, ChatTypes, ChatTasks, ChatView
<1>2. t \in LoopRecord
  BY <1>1
<1>3. UNCHANGED <<threads, born, built, sends>>
  BY DEF Chat!StepDecode, Chat!view
<1>4. DOMAIN states = 1..built /\ DOMAIN count = 1..built
      /\ \A f \in 1..built : states[f] \in Seq(SessionStates) /\ count[f] \in Seq(Nat)
  BY <1>1 DEF ChatEngines
<1>a. \A f \in 1..built : \A x \in DOMAIN count[f] :
         count[f][x] \in Nat /\ count[f][x] <= count[f][x] /\ count[f][x] <= MaxSaid
  <2>1. \A f \in 1..built : \A x \in DOMAIN count[f] : count[f][x] \in Nat
    BY <1>4
  <2> QED
    BY <2>1 DEF AnswerInv, AnswerRest, Numbers
<1>b. ChatEngines'
  BY <1>1, StepTypes DEF ChatTypes
<1>5. CASE Chat!Decodes(e) = {}
  <2>1. loops' = [loops EXCEPT ![l].at = "check"] /\ UNCHANGED <<states, count>>
    BY <1>5 DEF Chat!StepDecode, Chat!engines
  <2>2. ~Untouched'
    BY <1>3, <2>1, LoopRuns DEF Untouched
  <2> DEFINE r == [t EXCEPT !.at = "check"]
  <2>3. loops' = [loops EXCEPT ![l] = r]
    BY <2>1
  <2>4. r \in LoopRecord /\ r.at # "append"
    BY <1>2 DEF LoopRecord
  <2>5. \A f \in 1..built : /\ DOMAIN count'[f] = DOMAIN count[f]
                            /\ \A x \in DOMAIN count[f] :
                                 count[f][x] <= count'[f][x] /\ count'[f][x] <= MaxSaid
    BY <1>a, <2>1
  <2> HIDE DEF r, e
  <2> QED
    BY <1>3, <1>b, <2>1, <2>2, <2>3, <2>4, <2>5, LoopIdle
<1>6. CASE Chat!Decodes(e) # {}
  <2>0. first \in DOMAIN rings[e]
    <3>1. Chat!Decodes(e) \subseteq Nat /\ Chat!Decodes(e) \subseteq DOMAIN rings[e]
      <4>1. rings[e] \in Seq(Nat)
        BY <1>1 DEF ChatEngines
      <4> QED
        BY <4>1 DEF Chat!Decodes
    <3>2. \E i \in Chat!Decodes(e) : \A j \in Chat!Decodes(e) : i <= j
      BY <1>6, <3>1, LeastNatural
    <3>3. first \in Chat!Decodes(e)
      BY <3>2
    <3> QED
      BY <3>1, <3>3
  <2>1. \/ /\ count' = [count EXCEPT ![e][s] = n]
           /\ loops' = [loops EXCEPT ![l].at = "append", ![l].got = <<e, s, n>>]
           /\ UNCHANGED states
        \/ /\ states' = [states EXCEPT ![e][s] = "Terminal"]
           /\ loops' = [loops EXCEPT ![l].at = "check"]
           /\ UNCHANGED count
        \/ /\ loops' = [loops EXCEPT ![l].at = "check",
                           ![l].fails = IF @ < MaxFails THEN @ + 1 ELSE @]
           /\ UNCHANGED count \/ count' = [count EXCEPT ![e][s] = n]
           /\ UNCHANGED states
    BY <1>6, Zenon DEF Chat!StepDecode
  <2>2. /\ s \in 1..Len(states[e]) /\ n \in Nat /\ n <= count[e][s] + 1 /\ n <= MaxSaid
        /\ n \in {MaxSaid, count[e][s] + 1}
    <3>1. s \in 1..Len(states[e]) /\ s \in Nat /\ n \in Nat /\ n <= count[e][s] + 1
      <4> HIDE DEF first
      <4> QED
        BY <1>1, <2>0, NextToken
    <3>2. count[e][s] \in Nat
      <4> HIDE DEF s
      <4>1. s \in DOMAIN count[e]
        BY <1>1, <1>4, <3>1 DEF ChatEngines
      <4> QED
        BY <1>1, <1>4, <4>1
    <3>3. n \in {MaxSaid, count[e][s] + 1} /\ n <= MaxSaid
      <4> DEFINE c == count[e][s]
      <4> HIDE DEF c, s
      <4>1. n = CHOOSE x \in {MaxSaid, c + 1} : \A y \in {MaxSaid, c + 1} : x <= y
        BY Zenon DEF Chat!Min, c
      <4>2. \E x \in {MaxSaid, c + 1} : \A y \in {MaxSaid, c + 1} : x <= y
        BY <3>2, ChatFacts DEF c
      <4>3. n \in {MaxSaid, c + 1} /\ \A y \in {MaxSaid, c + 1} : n <= y
        BY <4>1, <4>2
      <4> QED
        BY <4>3 DEF c
    <3> QED
      BY <3>1, <3>3
  <2> HIDE DEF first, s, n
  <2>3. s \in DOMAIN states[e] /\ s \in DOMAIN count[e] /\ count[e][s] \in Nat
    <3>1. s \in DOMAIN states[e] /\ s \in DOMAIN count[e]
      BY <1>1, <1>4, <2>2, OnlyOne
    <3> QED
      BY <1>1, <1>4, <3>1
  <2>4. CASE /\ states' = [states EXCEPT ![e][s] = "Terminal"]
             /\ loops' = [loops EXCEPT ![l].at = "check"] /\ UNCHANGED count
    <3>1. \A f \in 1..built : DOMAIN states'[f] = DOMAIN states[f]
                              /\ Len(states'[f]) = Len(states[f])
      BY <1>1, <1>4, <2>3, <2>4
    <3>2. states'[e][s] = "Terminal"
      BY <1>1, <1>4, <2>3, <2>4
    <3>3. ~Untouched'
      BY <1>1, <1>3, <2>3, <3>1, <3>2 DEF Untouched
    <3> DEFINE r == [t EXCEPT !.at = "check"]
    <3>4. loops' = [loops EXCEPT ![l] = r]
      BY <2>4
    <3>5. r \in LoopRecord /\ r.at # "append"
      BY <1>2 DEF LoopRecord
    <3>6. \A f \in 1..built : /\ DOMAIN count'[f] = DOMAIN count[f]
                              /\ \A x \in DOMAIN count[f] :
                                   count[f][x] <= count'[f][x] /\ count'[f][x] <= MaxSaid
      BY <1>a, <2>4
    <3> HIDE DEF t, e, r
    <3> QED
      BY <1>3, <1>b, <3>1, <3>3, <3>4, <3>5, <3>6, LoopIdle
  <2>5. CASE /\ count' = [count EXCEPT ![e][s] = n]
             /\ loops' = [loops EXCEPT ![l].at = "append", ![l].got = <<e, s, n>>]
             /\ UNCHANGED states
    <3>1. \A f \in 1..built : DOMAIN count'[f] = DOMAIN count[f]
      BY <1>1, <1>4, <2>3, <2>5
    <3>2. count'[e][s] = n
      BY <1>1, <1>4, <2>3, <2>5
    <3>3. \A f \in 1..built : \A x \in DOMAIN count'[f] : f = e /\ x = s
      BY <1>1, <2>3, <3>1, OnlyOne
    <3>4. \A f \in 1..built : \A x \in DOMAIN count'[f] : count'[f][x] = n
      BY <3>2, <3>3
    <3>5. count[e][s] <= MaxSaid
          /\ \A i \in DOMAIN threads : \A j \in DOMAIN threads[i].text :
               threads[i].text[j][3] <= count[e][s]
      BY <1>1, <2>3 DEF AnswerInv, AnswerRest, Numbers
    <3>6. MaxSaid \in Nat
      BY ChatFacts
    <3>7. n <= MaxSaid
      BY <2>2
    <3>8. \A i \in DOMAIN threads : \A j \in DOMAIN threads[i].text :
            threads[i].text[j] \in SaidToken /\ threads[i].text[j][3] \in Nat
      <4> SUFFICES ASSUME NEW i \in DOMAIN threads, NEW j \in DOMAIN threads[i].text
                   PROVE  threads[i].text[j] \in SaidToken /\ threads[i].text[j][3] \in Nat
        OBVIOUS
      <4>1. threads[i] \in ThreadRecord
        BY <1>1 DEF ChatTypes, ChatView
      <4>2. threads[i].text \in Seq(SaidToken)
        BY <4>1 DEF ThreadRecord
      <4>3. threads[i].text[j] \in SaidToken
        BY <4>2
      <4> QED
        BY <4>3 DEF SaidToken
    <3>9. \A i \in DOMAIN threads : \A j \in DOMAIN threads[i].text :
            /\ threads[i].text[j][3] <= n
            /\ threads[i].text[j][3] < n \/ (threads[i].text[j][3] = MaxSaid /\ n = MaxSaid)
      <4> SUFFICES ASSUME NEW i \in DOMAIN threads, NEW j \in DOMAIN threads[i].text
                   PROVE  /\ threads[i].text[j][3] <= n
                          /\ \/ threads[i].text[j][3] < n
                             \/ threads[i].text[j][3] = MaxSaid /\ n = MaxSaid
        OBVIOUS
      <4> DEFINE v == threads[i].text[j][3]
                 c == count[e][s]
      <4>1. v \in Nat /\ v <= c /\ c \in Nat /\ c <= MaxSaid /\ n \in {MaxSaid, c + 1}
        BY <2>2, <2>3, <3>5, <3>8
      <4> HIDE DEF v, c
      <4>2. v <= n /\ (v < n \/ (v = MaxSaid /\ n = MaxSaid))
        BY <3>6, <3>7, <4>1
      <4> QED
        BY <4>2 DEF v
    <3>10. DOMAIN loops' = DOMAIN loops /\ loops'[l].at = "append" /\ loops'[l].got = <<e, s, n>>
           /\ Len(loops') = Len(loops)
      <4> DEFINE g == <<e, s, n>>
      <4>1. loops' = [loops EXCEPT ![l].at = "append", ![l].got = g]
        BY <2>5
      <4> HIDE DEF g, e
      <4>2. DOMAIN loops' = DOMAIN loops /\ loops'[l].at = "append" /\ loops'[l].got = g
        BY <1>1, <1>2, <4>1 DEF LoopRecord
      <4>3. Len(loops') = Len(loops)
        BY <1>1, <4>1
      <4> QED
        BY <4>2, <4>3 DEF g
    <3>11. loops'[l].got[3] = n
      BY <3>10
    <3>12. \A m \in DOMAIN loops' : m = l
      BY <3>10, LoopRuns
    <3> HIDE DEF t, e
    <3>13. Numbers'
      <4>1. \A f \in 1..built : \A x \in DOMAIN count'[f] :
              /\ count'[f][x] <= MaxSaid
              /\ \A i \in DOMAIN threads : \A j \in DOMAIN threads[i].text :
                   threads[i].text[j][3] <= count'[f][x]
        BY <3>4, <3>7, <3>9
      <4>2. \A m \in DOMAIN loops' :
              /\ \A f \in 1..built : \A x \in DOMAIN count'[f] : loops'[m].got[3] = count'[f][x]
              /\ \A i \in DOMAIN threads : \A j \in DOMAIN threads[i].text :
                   Before(threads[i].text[j], loops'[m].got)
        BY <3>4, <3>9, <3>11, <3>12 DEF Before
      <4> QED
        BY <1>3, <4>1, <4>2 DEF Numbers, Before
    <3>14. FirstToken'
      <4>1. \A k \in DOMAIN sends' : ~Busy(k)' /\ sends'[k].at # "show"
        BY <1>3, LoopRuns DEF Busy
      <4>2. Len(loops') <= 1
        BY <3>10 DEF AnswerInv, AnswerRest, FirstToken
      <4>3. ~Untouched'
        BY <1>3, <2>5, LoopRuns DEF Untouched
      <4> QED
        BY <4>1, <4>2, <4>3 DEF FirstToken
    <3>15. OnlySession' /\ Counted' /\ Chat!TextInOrder'
      BY <1>3, <2>5 DEF OnlySession, Counted, Chat!TextInOrder, AnswerInv, AnswerRest
    <3> QED
      BY <3>13, <3>14, <3>15 DEF AnswerRest
  <2>6. CASE /\ loops' = [loops EXCEPT ![l].at = "check",
                            ![l].fails = IF @ < MaxFails THEN @ + 1 ELSE @]
             /\ UNCHANGED count \/ count' = [count EXCEPT ![e][s] = n]
             /\ UNCHANGED states
    <3>1. ~Untouched'
      BY <1>3, <2>6, LoopRuns DEF Untouched
    <3> DEFINE k == IF t.fails < MaxFails THEN t.fails + 1 ELSE t.fails
               r == [t EXCEPT !.at = "check", !.fails = k]
    <3>2. k \in Nat
      BY <1>2, ChatFacts DEF LoopRecord
    <3>3. loops' = [loops EXCEPT ![l] = r]
      BY <2>6, <1>1
    <3> HIDE DEF k
    <3>4. r \in LoopRecord /\ r.at # "append"
      BY <1>2, <3>2 DEF LoopRecord
    <3>5. \A f \in 1..built : /\ DOMAIN count'[f] = DOMAIN count[f]
                              /\ \A x \in DOMAIN count[f] :
                                   count[f][x] <= count'[f][x] /\ count'[f][x] <= MaxSaid
      <4>1. CASE UNCHANGED count
        BY <1>a, <4>1
      <4>2. CASE count' = [count EXCEPT ![e][s] = n]
        <5>1. \A f \in 1..built : DOMAIN count'[f] = DOMAIN count[f]
          BY <1>1, <1>4, <2>3, <4>2
        <5>2. count'[e][s] = n
          BY <1>1, <1>4, <2>3, <4>2
        <5>3. \A f \in 1..built : \A x \in DOMAIN count[f] : f = e /\ x = s
          BY <1>1, <2>3, OnlyOne
        <5>4. count[e][s] <= n /\ n <= MaxSaid
          <6> DEFINE c == count[e][s]
          <6>1. c \in Nat /\ c <= MaxSaid /\ n \in {MaxSaid, c + 1} /\ n <= MaxSaid
            BY <1>1, <1>a, <2>2, <2>3
          <6> HIDE DEF c
          <6>2. c <= n
            BY <6>1, ChatFacts
          <6> QED
            BY <6>1, <6>2 DEF c
        <5> HIDE DEF t, e
        <5> QED
          BY <5>1, <5>2, <5>3, <5>4
      <4> QED
        BY <2>6, <4>1, <4>2
    <3>6. \A f \in 1..built : Len(states'[f]) = Len(states[f])
      BY <2>6
    <3> HIDE DEF t, e, r
    <3> QED
      BY <1>3, <1>b, <3>1, <3>3, <3>4, <3>5, <3>6, LoopIdle
  <2> QED
    BY <2>1, <2>4, <2>5, <2>6
<1> QED
  BY <1>5, <1>6

(* A token of the loop is shown after all that came before it, where there *)
(* is room.                                                                *)
LEMMA TokenQuiet ==
  ASSUME Chat!ChatAssumption, AnswerInv, NEW l \in DOMAIN loops, Chat!ShowToken(l)
  PROVE  AnswerRest'
<1> DEFINE t == loops[l]
           L == Chat!Listening(t.got)
           i == CHOOSE i \in L : \A j \in L : i <= j
<1>1. ChatTypes /\ threads \in Seq(ThreadRecord) /\ loops \in Seq(LoopRecord) /\ t \in LoopRecord
  BY DEF AnswerInv, TextInv, ChatTypes, ChatView, ChatTasks
<1>2. /\ t.at = "append" /\ loops' = [loops EXCEPT ![l].at = "check", ![l].got = None]
      /\ UNCHANGED <<born, built, sends, states, count>>
  BY DEF Chat!ShowToken, Chat!engines
<1>3. DOMAIN loops' = DOMAIN loops /\ Len(loops') = Len(loops) /\ loops'[l].at = "check"
  BY <1>1, <1>2 DEF LoopRecord
<1>4. \A m \in DOMAIN loops' : loops'[m].at = "check"
  BY <1>3, LoopRuns
<1>5. OnlySession' /\ FirstToken'
  <2>1. \A k \in DOMAIN sends' : ~Busy(k)' /\ sends'[k].at # "show"
    BY <1>2, LoopRuns DEF Busy
  <2>2. Len(loops') <= 1
    BY <1>3 DEF AnswerInv, AnswerRest, FirstToken
  <2>3. ~Untouched'
    BY <1>2, LoopRuns DEF Untouched
  <2>4. OnlySession'
    BY <1>2 DEF OnlySession, AnswerInv, AnswerRest
  <2> QED
    BY <2>1, <2>2, <2>3, <2>4 DEF FirstToken
<1>6. CASE UNCHANGED threads
  <2>1. Numbers' /\ Counted' /\ Chat!TextInOrder'
    BY <1>2, <1>4, <1>6 DEF Numbers, Counted, Chat!TextInOrder, AnswerInv, AnswerRest
  <2> QED
    BY <1>5, <2>1 DEF AnswerRest
<1>7. CASE L # {}
  <2>1. i \in DOMAIN threads /\ threads[i] \in ThreadRecord /\ threads[i].generating
    <3>1. L \subseteq Nat /\ L \subseteq DOMAIN threads
      BY <1>1 DEF Chat!Listening
    <3>2. \E x \in L : \A j \in L : x <= j
      BY <1>7, <3>1, LeastNatural
    <3>3. i \in L
      BY <3>2
    <3>4. i \in DOMAIN threads
      BY <3>1, <3>3
    <3>5. \A x \in L : threads[x].generating
      BY DEF Chat!Listening
    <3>6. threads[i].generating
      BY <3>3, <3>5
    <3> HIDE DEF i
    <3> QED
      BY <1>1, <3>4, <3>6
  <2>2. PICK stop \in {FALSE, Stops} :
          threads' = [threads EXCEPT ![i] =
                        [threads[i] EXCEPT
                           !.text = Append(threads[i].text, t.got),
                           !.tokCount = threads[i].tokCount + 1,
                           !.generating = ~stop /\ ~Chat!Full(threads[i].tokCount + 1)]]
    BY <1>7, Zenon DEF Chat!ShowToken
  <2> DEFINE c == threads[i].tokCount + 1
             g == ~stop /\ ~Chat!Full(c)
             x == Append(threads[i].text, t.got)
             r == [threads[i] EXCEPT !.text = x, !.tokCount = c, !.generating = g]
  <2>3. threads' = [threads EXCEPT ![i] = r]
    BY <2>2, Zenon
  <2>4. t.got \in SaidToken
    BY <1>2 DEF AnswerInv, TextInv, ChatTypes, ChatTasks
  <2>5. threads[i].text \in Seq(SaidToken) /\ threads[i].tokCount \in Nat
    <3> HIDE DEF i
    <3> QED
      BY <2>1 DEF ThreadRecord
  <2>6. g \in BOOLEAN /\ (g => ~Chat!Full(c))
    BY Zenon
  <2>7. /\ Len(x) = Len(threads[i].text) + 1
        /\ \A n \in DOMAIN x : \/ n \in DOMAIN threads[i].text /\ x[n] = threads[i].text[n]
                               \/ n = Len(threads[i].text) + 1 /\ x[n] = t.got
        /\ DOMAIN threads[i].text = 1..Len(threads[i].text) /\ Len(threads[i].text) \in Nat
        /\ DOMAIN x = 1..(Len(threads[i].text) + 1)
    <3> HIDE DEF i, t
    <3> QED
      BY <2>4, <2>5
  <2>8. c \in Nat /\ c = threads[i].tokCount + 1
    <3> HIDE DEF i
    <3> QED
      BY <2>5
  <2> HIDE DEF g, x, c, i
  <2>9. r.text = x /\ r.tokCount = c /\ r.generating = g
    BY <2>1, <2>6 DEF ThreadRecord
  <2>10. r.generating => ~Chat!Full(c)
    BY <2>6, <2>9, Zenon
  <2> HIDE DEF r
  <2>11. DOMAIN threads' = DOMAIN threads
         /\ \A j \in DOMAIN threads : threads'[j] = IF j = i THEN r ELSE threads[j]
    BY <1>1, <2>1, <2>3
  <2>12. MaxTok \in Nat
    BY ChatFacts
  <2>13. Counted'
    <3>1. /\ Len(threads[i].text) = threads[i].tokCount /\ threads[i].tokCount < MaxTok
      BY <2>1 DEF AnswerInv, AnswerRest, Counted
    <3>2. /\ Len(r.text) = r.tokCount /\ r.tokCount <= MaxTok
          /\ r.generating => r.tokCount < MaxTok
      BY <2>5, <2>7, <2>8, <2>9, <2>10, <2>12, <3>1 DEF Chat!Full
    <3>3. \A j \in DOMAIN threads' :
            /\ Len(threads'[j].text) = threads'[j].tokCount /\ threads'[j].tokCount <= MaxTok
            /\ threads'[j].generating => threads'[j].tokCount < MaxTok
      <4> SUFFICES ASSUME NEW j \in DOMAIN threads'
                   PROVE  /\ Len(threads'[j].text) = threads'[j].tokCount
                          /\ threads'[j].tokCount <= MaxTok
                          /\ threads'[j].generating => threads'[j].tokCount < MaxTok
        OBVIOUS
      <4>1. CASE j = i
        BY <2>11, <3>2, <4>1
      <4>2. CASE j # i
        BY <2>11, <4>2 DEF AnswerInv, AnswerRest, Counted
      <4> QED
        BY <4>1, <4>2
    <3> QED
      BY <3>3 DEF Counted
  <2>14. /\ \A e \in 1..built : \A s \in DOMAIN count[e] : t.got[3] = count[e][s]
         /\ \A j \in DOMAIN threads : \A n \in DOMAIN threads[j].text :
              Before(threads[j].text[n], t.got)
    BY <1>2 DEF AnswerInv, AnswerRest, Numbers
  <2>15. Numbers'
    <3>1. \A e \in 1..built : \A s \in DOMAIN count[e] :
            /\ count[e][s] <= MaxSaid
            /\ \A j \in DOMAIN threads : \A n \in DOMAIN threads[j].text :
                 threads[j].text[n][3] <= count[e][s]
      BY DEF AnswerInv, AnswerRest, Numbers
    <3>2. t.got[3] \in Nat
      BY <2>4 DEF SaidToken
    <3>3. \A e \in 1..built : \A s \in DOMAIN count[e] :
            \A n \in DOMAIN x : x[n][3] <= count[e][s]
      BY <2>1, <2>7, <2>14, <3>1, <3>2
    <3>4. \A e \in 1..built : \A s \in DOMAIN count[e] :
            \A j \in DOMAIN threads' : \A n \in DOMAIN threads'[j].text :
               threads'[j].text[n][3] <= count[e][s]
      BY <2>9, <2>11, <3>1, <3>3
    <3> QED
      BY <1>2, <1>4, <3>1, <3>4 DEF Numbers
  <2>16. Chat!TextInOrder'
    <3>1. ASSUME NEW n \in DOMAIN x, NEW m \in DOMAIN x, n < m
          PROVE  Before(x[n], x[m])
      <4>1. n \in DOMAIN threads[i].text /\ x[n] = threads[i].text[n]
        BY <2>7, <3>1
      <4>2. CASE m \in DOMAIN threads[i].text
        <5>1. x[m] = threads[i].text[m]
          BY <2>7, <4>2
        <5> QED
          BY <2>1, <3>1, <4>1, <4>2, <5>1 DEF AnswerInv, AnswerRest, Chat!TextInOrder, Before
      <4>3. CASE m \notin DOMAIN threads[i].text
        <5>1. x[m] = t.got
          BY <2>7, <4>3
        <5> QED
          BY <2>1, <2>14, <4>1, <5>1
      <4> QED
        BY <4>2, <4>3
    <3>2. ASSUME NEW j \in DOMAIN threads', NEW n \in DOMAIN threads'[j].text,
                 NEW m \in DOMAIN threads'[j].text, n < m
          PROVE  Before(threads'[j].text[n], threads'[j].text[m])
      <4>1. CASE j = i
        BY <2>9, <2>11, <3>1, <3>2, <4>1
      <4>2. CASE j # i
        BY <2>11, <3>2, <4>2 DEF AnswerInv, AnswerRest, Chat!TextInOrder, Before
      <4> QED
        BY <4>1, <4>2
    <3> QED
      BY <3>2 DEF Chat!TextInOrder, Before
  <2> QED
    BY <1>5, <2>13, <2>15, <2>16 DEF AnswerRest
<1>8. UNCHANGED threads \/ L # {}
  BY DEF Chat!ShowToken
<1> HIDE DEF L
<1> QED
  BY <1>6, <1>7, <1>8

(* A step of the loop keeps the order of the answer.                       *)
LEMMA LoopQuiet ==
  ASSUME Chat!ChatAssumption, AnswerInv, NEW l \in DOMAIN loops, Chat!Loop(l)
  PROVE  AnswerRest'
<1>1. ASSUME Chat!Check(l) PROVE AnswerRest'
  <2>1. PICK w \in {"ended", "step"} : loops' = [loops EXCEPT ![l].at = w]
    BY <1>1 DEF Chat!Check
  <2>2. UNCHANGED <<threads, sends, born, built, count, states>>
    BY <1>1 DEF Chat!Check, Chat!view, Chat!engines
  <2>3. ~Untouched'
    BY <2>2, LoopRuns DEF Untouched
  <2> DEFINE r == [loops[l] EXCEPT !.at = w]
  <2>4. loops' = [loops EXCEPT ![l] = r]
    BY <2>1
  <2>5. ChatTypes /\ loops[l] \in LoopRecord
    BY DEF AnswerInv, TextInv, ChatTypes, ChatTasks
  <2>6. r \in LoopRecord /\ r.at # "append"
    BY <2>5 DEF LoopRecord
  <2>7. ChatEngines'
    BY <1>1, <2>5, LoopTypes DEF Chat!Loop, ChatTypes
  <2>8. \A e \in 1..built : \A s \in DOMAIN count[e] :
           count[e][s] \in Nat /\ count[e][s] <= MaxSaid
    <3>1. \A e \in 1..built : count[e] \in Seq(Nat)
      BY <2>5 DEF ChatTypes, ChatEngines
    <3>2. \A e \in 1..built : \A s \in DOMAIN count[e] : count[e][s] \in Nat
      BY <3>1
    <3> QED
      BY <3>2 DEF AnswerInv, AnswerRest, Numbers
  <2>9. \A e \in 1..built : /\ DOMAIN count'[e] = DOMAIN count[e]
                            /\ \A s \in DOMAIN count[e] :
                                 count[e][s] <= count'[e][s] /\ count'[e][s] <= MaxSaid
    BY <2>2, <2>8
  <2>10. \A e \in 1..built : Len(states'[e]) = Len(states[e])
    BY <2>2
  <2> HIDE DEF r
  <2> QED
    BY <2>2, <2>3, <2>4, <2>6, <2>7, <2>9, <2>10, LoopIdle
<1> QED
  BY <1>1, StepQuiet, TokenQuiet DEF Chat!Loop

(* In a view with one chat and one engine, the tokens of an answer stand   *)
(* in the order in which the model said them and are no more than the      *)
(* limit, whatever the user stops, deletes and sends again while the two   *)
(* tasks that write the answer are at work.                                *)
THEOREM ChatAnswersInOrder ==
  ASSUME Chat!ChatAssumption, Reloads = {}, \A a, b \in Chats : a = b
  PROVE  Chat!Spec => []Chat!TextInOrder /\ []Chat!AnswerWithinLimit
<1>1. Chat!Init => AnswerInv
  <2>1. ASSUME Chat!Init PROVE AnswerInv
    <3>1. /\ threads = << >> /\ current = 0 /\ building = 1 /\ built = 0 /\ sends = << >>
          /\ loops = << >>
      BY <2>1 DEF Chat!Init
    <3>2. TextInv
      BY <2>1, <3>1, ChatInitially DEF TextInv, OneBuild, DistinctChats, SendsKnow, Chat!TextIsOwn
    <3>3. AnswerRest
      BY <3>1 DEF AnswerRest, OnlySession, FirstToken, Numbers, Counted, Chat!TextInOrder,
                  NothingShown, Busy
    <3> QED
      BY <3>2, <3>3 DEF AnswerInv
  <2> QED
    BY <2>1
<1>2. ASSUME AnswerInv, [Chat!Next]_(Chat!vars) PROVE AnswerInv'
  <2>1. TextInv'
    BY <1>2, TextStep DEF AnswerInv
  <2>2. CASE UNCHANGED Chat!vars
    <3>1. UNCHANGED <<threads, born, current, building, built, decodeTask, sends, loops,
                      states, count, rings>>
      BY <2>2 DEF Chat!vars, Chat!view, Chat!tasks, Chat!engines
    <3>2. AnswerRest'
      BY <1>2, <3>1 DEF AnswerInv, AnswerRest, OnlySession, FirstToken, Numbers, Counted,
                        Chat!TextInOrder, NothingShown, Busy, Untouched, Before
    <3> QED
      BY <2>1, <3>2 DEF AnswerInv
  <2>3. CASE Chat!Next
    <3>1. AnswerRest'
      BY <1>2, <2>3, UserQuiet, BuildQuiet, TaskQuiet, LoopQuiet DEF Chat!Next
    <3> QED
      BY <2>1, <3>1 DEF AnswerInv
  <2> QED
    BY <1>2, <2>2, <2>3
<1>3. AnswerInv => Chat!TextInOrder /\ Chat!AnswerWithinLimit
  <2>1. ASSUME AnswerInv PROVE Chat!AnswerWithinLimit
    BY <2>1 DEF AnswerInv, AnswerRest, Counted, Chat!AnswerWithinLimit
  <2> QED
    BY <2>1 DEF AnswerInv, AnswerRest
<1> QED
  BY <1>1, <1>2, <1>3, PTL DEF Chat!Spec

-----------------------------------------------------------------------------
(* Whose the sessions of an engine are                                     *)

(* Engines are built one at a time, and none while the view has one.       *)
OneAtATime ==
  /\ building \in {0, 1}
  /\ current # 0 => current = built /\ building = 0

(* An engine that the view let go of keeps no session.                     *)
EarlierGone ==
  \A e \in 1..built : e # current => \A s \in DOMAIN states[e] : states[e][s] = "Gone"

(* The invariant of the view's own engine, whatever is being built; and    *)
(* that of every engine, where one is built after the other.               *)
ViewInv == ChatTypes /\ Chat!EngineIsTheChats
OrphanInv == ViewInv /\ OneAtATime /\ EarlierGone /\ Chat!ThreadsShareEngine

(* The chats keep their sessions.                                          *)
ThreadsStay ==
  /\ DOMAIN threads' = DOMAIN threads
  /\ \A j \in DOMAIN threads : threads'[j].eng = threads[j].eng /\ threads'[j].sid = threads[j].sid

(* A session that is gone does not come back.                              *)
GoneStays ==
  \A e \in 1..built :
     /\ DOMAIN states'[e] = DOMAIN states[e]
     /\ \A s \in DOMAIN states[e] : states'[e][s] # "Gone" => states[e][s] # "Gone"

(* Where chats keep their sessions and no session comes back, the sessions *)
(* stay theirs.                                                            *)
LEMMA StillTheirs ==
  ASSUME ViewInv, ThreadsStay, GoneStays, UNCHANGED <<current, built>>
  PROVE  Chat!EngineIsTheChats'
<1> SUFFICES ASSUME current # 0, NEW s \in DOMAIN states'[current], states'[current][s] # "Gone"
             PROVE  \E i \in DOMAIN threads' : threads'[i].eng = current /\ threads'[i].sid = s
  BY DEF Chat!EngineIsTheChats
<1>1. current \in 1..built
  BY DEF ViewInv, ChatTypes, ChatView
<1>2. s \in DOMAIN states[current] /\ states[current][s] # "Gone"
  BY <1>1 DEF GoneStays
<1>3. PICK i \in DOMAIN threads : threads[i].eng = current /\ threads[i].sid = s
  BY <1>2 DEF ViewInv, Chat!EngineIsTheChats
<1> QED
  BY <1>3 DEF ThreadsStay

(* And none is left of an engine that is gone.                             *)
LEMMA StillShown ==
  ASSUME OrphanInv, ThreadsStay, GoneStays, UNCHANGED <<current, building, built>>
  PROVE  OneAtATime' /\ EarlierGone' /\ Chat!ThreadsShareEngine'
<1>1. OneAtATime'
  BY DEF OrphanInv, OneAtATime
<1>2. Chat!ThreadsShareEngine'
  BY DEF OrphanInv, Chat!ThreadsShareEngine, ThreadsStay
<1>3. EarlierGone'
  BY DEF OrphanInv, EarlierGone, GoneStays
<1> QED
  BY <1>1, <1>2, <1>3

(* A chat put back with its engine and its session keeps them.             *)
LEMMA OnePut ==
  ASSUME threads \in Seq(ThreadRecord), NEW i \in DOMAIN threads, NEW r,
         r.eng = threads[i].eng, r.sid = threads[i].sid, threads' = [threads EXCEPT ![i] = r]
  PROVE  ThreadsStay
<1>1. DOMAIN threads' = DOMAIN threads
      /\ \A j \in DOMAIN threads : threads'[j] = IF j = i THEN r ELSE threads[j]
  OBVIOUS
<1> QED
  BY <1>1 DEF ThreadsStay

(* Cancelling brings no session back.                                      *)
LEMMA CancelFades ==
  ASSUME ChatEngines, NEW e \in 0..built, built \in Nat, NEW S, Chat!Cancel(e, S),
         UNCHANGED <<count, built>>
  PROVE  GoneStays
<1>1. /\ ChatEngines'
      /\ \A f \in 1..built :
           /\ Len(states'[f]) = Len(states[f])
           /\ \A s \in 1..Len(states[f]) :
                states'[f][s] = IF f = e /\ s \in S THEN "Gone" ELSE states[f][s]
  BY Cancelling
<1>2. \A f \in 1..built : states[f] \in Seq(SessionStates) /\ states'[f] \in Seq(SessionStates)
  BY <1>1 DEF ChatEngines
<1>3. \A f \in 1..built : DOMAIN states[f] = 1..Len(states[f])
                          /\ DOMAIN states'[f] = 1..Len(states'[f])
  BY <1>2
<1> QED
  BY <1>1, <1>3 DEF GoneStays

(* A session that is cancelled is gone.                                    *)
LEMMA CancelEnds ==
  ASSUME ChatEngines, NEW e \in 0..built, built \in Nat, NEW S, Chat!Cancel(e, S),
         UNCHANGED <<count, built>>, e \in 1..built, NEW s \in DOMAIN states[e], s \in S
  PROVE  states'[e][s] = "Gone"
<1>1. /\ ChatEngines'
      /\ \A f \in 1..built :
           /\ Len(states'[f]) = Len(states[f])
           /\ \A x \in 1..Len(states[f]) :
                states'[f][x] = IF f = e /\ x \in S THEN "Gone" ELSE states[f][x]
  BY Cancelling
<1>2. states[e] \in Seq(SessionStates)
  BY DEF ChatEngines
<1>3. s \in 1..Len(states[e])
  BY <1>2
<1> QED
  BY <1>1, <1>3

(* One session changes its state and was not gone.                         *)
LEMMA OneFades ==
  ASSUME ChatEngines, built \in Nat, NEW e \in 1..built, NEW s \in DOMAIN states[e],
         states[e][s] # "Gone", NEW w, states' = [states EXCEPT ![e][s] = w]
  PROVE  GoneStays
<1>1. DOMAIN states = 1..built /\ \A f \in 1..built : states[f] \in Seq(SessionStates)
  BY DEF ChatEngines
<1>2. \A f \in 1..built : states'[f] = IF f = e THEN [states[e] EXCEPT ![s] = w] ELSE states[f]
  BY <1>1
<1>3. DOMAIN states'[e] = DOMAIN states[e]
      /\ \A x \in DOMAIN states[e] : states'[e][x] # "Gone" => states[e][x] # "Gone"
  BY <1>1, <1>2
<1> QED
  BY <1>2, <1>3 DEF GoneStays

(* A prompt brings no session back.                                        *)
LEMMA SubmitFades ==
  ASSUME ChatTypes, NEW k \in DOMAIN sends, Chat!Submit(k)
  PROVE  GoneStays
<1> DEFINE e == sends[k].eng
           s == sends[k].sid
<1>1. e \in 1..built /\ built \in Nat /\ ChatEngines
  BY TheSend DEF ChatTypes, ChatView
<1>2. CASE Chat!Known(e, s) /\ \E w \in SessionStates : states' = [states EXCEPT ![e][s] = w]
  <2>1. s \in DOMAIN states[e] /\ states[e][s] # "Gone"
    BY <1>2 DEF Chat!Known
  <2> HIDE DEF e, s
  <2> QED
    BY <1>1, <1>2, <2>1, OneFades
<1>3. CASE UNCHANGED states
  BY <1>3 DEF GoneStays
<1>4. UNCHANGED states
      \/ (Chat!Known(e, s) /\ \E w \in SessionStates : states' = [states EXCEPT ![e][s] = w])
  BY DEF Chat!Submit, Chat!Submitted, Chat!engines, SessionStates
<1> QED
  BY <1>2, <1>3, <1>4

(* A step of the ring brings no session back.                              *)
LEMMA StepFades ==
  ASSUME ChatTypes, NEW l \in DOMAIN loops, Chat!StepDecode(l)
  PROVE  GoneStays
<1> DEFINE e == loops[l].eng
           first == CHOOSE i \in Chat!Decodes(e) : \A j \in Chat!Decodes(e) : i <= j
           s == rings[e][first]
<1>1. e \in 1..built /\ built \in Nat /\ ChatEngines
  BY DEF ChatTypes, ChatTasks, ChatView
<1>2. CASE UNCHANGED states
  BY <1>2 DEF GoneStays
<1>3. CASE Chat!Decodes(e) # {} /\ states' = [states EXCEPT ![e][s] = "Terminal"]
  <2>1. /\ rings[e] \in Seq(Nat) /\ states[e] \in Seq(SessionStates)
        /\ \A i \in DOMAIN rings[e] : rings[e][i] \in 1..Len(states[e])
    BY <1>1 DEF ChatEngines
  <2>2. first \in Chat!Decodes(e)
    <3>1. Chat!Decodes(e) \subseteq Nat
      BY <2>1 DEF Chat!Decodes
    <3>2. \E i \in Chat!Decodes(e) : \A j \in Chat!Decodes(e) : i <= j
      BY <1>3, <3>1, LeastNatural
    <3> QED
      BY <3>2
  <2> HIDE DEF first
  <2>3. s \in DOMAIN states[e] /\ states[e][s] = "Decoding"
    BY <2>1, <2>2 DEF Chat!Decodes
  <2> HIDE DEF s, e
  <2> QED
    BY <1>1, <1>3, <2>3, OneFades
<1>4. UNCHANGED states \/ (Chat!Decodes(e) # {} /\ states' = [states EXCEPT ![e][s] = "Terminal"])
  BY Zenon DEF Chat!StepDecode, Chat!engines
<1> HIDE DEF s
<1> QED
  BY <1>2, <1>3, <1>4

(* To stop an answer, to send a message or to fail to leaves the chats the *)
(* sessions they have.                                                     *)
LEMMA UserKeeps ==
  ASSUME ChatTypes, NEW id \in Chats, Chat!Stop(id) \/ Chat!Send(id) \/ Chat!SendFails(id)
  PROVE  ThreadsStay /\ GoneStays /\ UNCHANGED <<current, building, built>>
<1>1. /\ threads \in Seq(ThreadRecord) /\ ChatEngines /\ built \in Nat /\ current \in 0..built
  BY DEF ChatTypes, ChatView
<1>2. ASSUME Chat!Stop(id)
      PROVE  ThreadsStay /\ GoneStays /\ UNCHANGED <<current, building, built>>
  <2> DEFINE i == Chat!At(id)
             r == [threads[i] EXCEPT !.generating = FALSE]
  <2>1. /\ i \in DOMAIN threads /\ threads' = [threads EXCEPT ![i] = r]
        /\ Chat!Cancel(current, {threads[i].sid}) /\ UNCHANGED <<current, building, built, count>>
    BY <1>2, AtIs DEF Chat!Stop
  <2>2. threads[i] \in ThreadRecord
    BY <1>1, <2>1
  <2>3. r.eng = threads[i].eng /\ r.sid = threads[i].sid
    BY <2>2 DEF ThreadRecord
  <2> HIDE DEF i, r
  <2>4. ThreadsStay
    BY <1>1, <2>1, <2>3, OnePut
  <2>5. GoneStays
    BY <1>1, <2>1, CancelFades
  <2> QED
    BY <2>1, <2>4, <2>5
<1>3. ASSUME Chat!Send(id) \/ Chat!SendFails(id)
      PROVE  ThreadsStay /\ GoneStays /\ UNCHANGED <<current, building, built>>
  <2> DEFINE i == Chat!At(id)
             r == [threads[i] EXCEPT !.generating = TRUE, !.tokCount = 0, !.text = << >>,
                                       !.err = None]
             u == [threads[i] EXCEPT !.tokCount = 0, !.text = << >>, !.err = "tokenize"]
  <2>1. /\ i \in DOMAIN threads
        /\ threads' = [threads EXCEPT ![i] = r] \/ threads' = [threads EXCEPT ![i] = u]
        /\ UNCHANGED <<current, building, built, states>>
    BY <1>3, AtIs DEF Chat!Send, Chat!SendFails, Chat!engines
  <2>2. threads[i] \in ThreadRecord
    BY <1>1, <2>1
  <2>3. /\ r.eng = threads[i].eng /\ r.sid = threads[i].sid
        /\ u.eng = threads[i].eng /\ u.sid = threads[i].sid
    <3> HIDE DEF i
    <3> QED
      BY <2>2 DEF ThreadRecord
  <2> HIDE DEF i, r, u
  <2>4. ThreadsStay
    BY <1>1, <2>1, <2>3, OnePut
  <2>5. GoneStays
    BY <2>1 DEF GoneStays
  <2> QED
    BY <2>1, <2>4, <2>5
<1> QED
  BY <1>2, <1>3

(* A chat that goes gives its session back if it is of the view's engine,  *)
(* and a choice of an engine leaves the view without one.                  *)
LEMMA UserView ==
  ASSUME ViewInv, Chat!User
  PROVE  Chat!EngineIsTheChats'
<1>1. /\ threads \in Seq(ThreadRecord) /\ ChatTypes /\ ChatEngines /\ built \in Nat
      /\ current \in 0..built
  BY DEF ViewInv, ChatTypes, ChatView
<1>2. ASSUME NEW id \in Chats, Chat!CreateThread(id)
      PROVE  Chat!EngineIsTheChats'
  <2> DEFINE t == [id |-> id, eng |-> current, sid |-> Len(states[current]) + 1,
                   generating |-> FALSE, tokCount |-> 0, text |-> << >>, err |-> None]
  <2>1. /\ current # 0 /\ threads' = Append(threads, t) /\ UNCHANGED <<current, built>>
        /\ states' = [states EXCEPT ![current] = Append(@, "Queued")]
    BY <1>2 DEF Chat!CreateThread, Chat!CreateSession
  <2>2. t.eng = current /\ t.sid = Len(states[current]) + 1
    OBVIOUS
  <2> HIDE DEF t
  <2>3. /\ \A i \in DOMAIN threads : i \in DOMAIN threads' /\ threads'[i] = threads[i]
        /\ Len(threads) + 1 \in DOMAIN threads' /\ threads'[Len(threads) + 1] = t
    BY <1>1, <2>1
  <2>4. states[current] \in Seq(SessionStates)
        /\ states'[current] = Append(states[current], "Queued")
    <3>1. current \in 1..built /\ DOMAIN states = 1..built
      BY <1>1, <2>1 DEF ChatEngines
    <3> QED
      BY <1>1, <2>1, <3>1 DEF ChatEngines
  <2> SUFFICES ASSUME NEW s \in DOMAIN states'[current], states'[current][s] # "Gone"
               PROVE  \E i \in DOMAIN threads' : threads'[i].eng = current /\ threads'[i].sid = s
    BY <2>1 DEF Chat!EngineIsTheChats
  <2>5. CASE s = Len(states[current]) + 1
    BY <2>2, <2>3, <2>5
  <2>6. CASE s # Len(states[current]) + 1
    <3>1. s \in DOMAIN states[current] /\ states[current][s] # "Gone"
      BY <2>4, <2>6
    <3> QED
      BY <2>1, <2>3, <3>1 DEF ViewInv, Chat!EngineIsTheChats
  <2> QED
    BY <2>5, <2>6
<1>3. ASSUME NEW id \in Chats, Chat!Delete(id)
      PROVE  Chat!EngineIsTheChats'
  <2> DEFINE i == Chat!At(id)
             to(j) == IF j < i THEN j ELSE j - 1
  <2>1. /\ i \in DOMAIN threads /\ threads' = Chat!RemoveAt(threads, i)
        /\ Chat!Cancel(current, {threads[i].sid}) /\ UNCHANGED <<current, built, count>>
    BY <1>3, AtIs DEF Chat!Delete
  <2> HIDE DEF i
  <2>2. /\ DOMAIN threads' = 1..(Len(threads) - 1)
        /\ \A j \in DOMAIN threads' : threads'[j] = IF j < i THEN threads[j] ELSE threads[j + 1]
    BY <1>1, <2>1, RemovedAt
  <2>3. Len(threads) \in Nat /\ DOMAIN threads = 1..Len(threads) /\ i \in 1..Len(threads)
    BY <1>1, <2>1
  <2>4. \A j \in DOMAIN threads : j # i => to(j) \in DOMAIN threads' /\ threads'[to(j)] = threads[j]
    BY <2>2, <2>3
  <2> HIDE DEF to
  <2>5. GoneStays
    BY <1>1, <2>1, CancelFades
  <2> SUFFICES ASSUME current # 0, NEW s \in DOMAIN states'[current], states'[current][s] # "Gone"
               PROVE  \E j \in DOMAIN threads' : threads'[j].eng = current /\ threads'[j].sid = s
    BY <2>1 DEF Chat!EngineIsTheChats
  <2>6. current \in 1..built
    BY <1>1
  <2>7. s \in DOMAIN states[current] /\ states[current][s] # "Gone"
    BY <2>5, <2>6 DEF GoneStays
  <2>8. PICK j \in DOMAIN threads : threads[j].eng = current /\ threads[j].sid = s
    BY <2>7 DEF ViewInv, Chat!EngineIsTheChats
  <2>9. s # threads[i].sid
    <3> SUFFICES ASSUME s \in {threads[i].sid} PROVE FALSE
      OBVIOUS
    <3>1. states'[current][s] = "Gone"
      BY <1>1, <2>1, <2>6, <2>7, CancelEnds
    <3> QED
      BY <3>1
  <2>10. to(j) \in DOMAIN threads' /\ threads'[to(j)] = threads[j]
    BY <2>4, <2>8, <2>9
  <2> QED
    BY <2>8, <2>10
<1>4. ASSUME NEW id \in Chats, Chat!Stop(id) \/ Chat!Send(id) \/ Chat!SendFails(id)
      PROVE  Chat!EngineIsTheChats'
  BY <1>1, <1>4, UserKeeps, StillTheirs
<1>5. ASSUME NEW n \in Reloads, Chat!Reload(n)
      PROVE  Chat!EngineIsTheChats'
  BY <1>5 DEF Chat!Reload, Chat!EngineIsTheChats
<1> QED
  BY <1>2, <1>3, <1>4, <1>5 DEF Chat!User

(* Where one engine is built at a time, a choice gives the session of      *)
(* every chat back.                                                        *)
LEMMA UserShows ==
  ASSUME Chat!ChatAssumption, Patient, Reloads \subseteq {1}, OrphanInv, Chat!User
  PROVE  OneAtATime' /\ EarlierGone' /\ Chat!ThreadsShareEngine'
<1>1. /\ threads \in Seq(ThreadRecord) /\ ChatTypes /\ ChatEngines /\ built \in Nat
      /\ current \in 0..built /\ \A i \in DOMAIN threads : threads[i].eng \in 1..built
  BY DEF OrphanInv, ViewInv, ChatTypes, ChatView
<1>2. ASSUME NEW id \in Chats, Chat!CreateThread(id)
      PROVE  OneAtATime' /\ EarlierGone' /\ Chat!ThreadsShareEngine'
  <2> DEFINE t == [id |-> id, eng |-> current, sid |-> Len(states[current]) + 1,
                   generating |-> FALSE, tokCount |-> 0, text |-> << >>, err |-> None]
  <2>1. /\ current # 0 /\ threads' = Append(threads, t) /\ UNCHANGED <<current, building, built>>
        /\ states' = [states EXCEPT ![current] = Append(@, "Queued")]
    BY <1>2 DEF Chat!CreateThread, Chat!CreateSession
  <2>2. t.eng = current /\ t.sid = Len(states[current]) + 1
    OBVIOUS
  <2> HIDE DEF t
  <2>3. \A i \in DOMAIN threads' :
          threads'[i] = t \/ (i \in DOMAIN threads /\ threads'[i] = threads[i])
    BY <1>1, <2>1
  <2>4. OneAtATime'
    BY <2>1 DEF OrphanInv, OneAtATime
  <2>5. Chat!ThreadsShareEngine'
    BY <2>1, <2>2, <2>3 DEF OrphanInv, Chat!ThreadsShareEngine
  <2>6. DOMAIN states = 1..built
    BY <1>1 DEF ChatEngines
  <2>7. \A e \in 1..built : e # current => states'[e] = states[e]
    BY <2>1, <2>6
  <2>8. EarlierGone'
    BY <2>1, <2>7 DEF OrphanInv, EarlierGone
  <2> QED
    BY <2>4, <2>5, <2>8
<1>3. ASSUME NEW id \in Chats, Chat!Delete(id)
      PROVE  OneAtATime' /\ EarlierGone' /\ Chat!ThreadsShareEngine'
  <2> DEFINE i == Chat!At(id)
  <2>1. /\ i \in DOMAIN threads /\ threads' = Chat!RemoveAt(threads, i)
        /\ Chat!Cancel(current, {threads[i].sid}) /\ UNCHANGED <<current, building, built, count>>
    BY <1>3, AtIs DEF Chat!Delete
  <2> HIDE DEF i
  <2>2. \A j \in DOMAIN threads' : \E k \in DOMAIN threads : threads'[j] = threads[k]
    BY <1>1, <2>1, RemovedAt
  <2>3. OneAtATime' /\ Chat!ThreadsShareEngine'
    BY <2>1, <2>2 DEF OrphanInv, OneAtATime, Chat!ThreadsShareEngine
  <2>4. GoneStays
    BY <1>1, <2>1, CancelFades
  <2>5. EarlierGone'
    BY <2>1, <2>4 DEF OrphanInv, EarlierGone, GoneStays
  <2> QED
    BY <2>3, <2>5
<1>4. ASSUME NEW id \in Chats, Chat!Stop(id) \/ Chat!Send(id) \/ Chat!SendFails(id)
      PROVE  OneAtATime' /\ EarlierGone' /\ Chat!ThreadsShareEngine'
  BY <1>1, <1>4, UserKeeps, StillShown
<1>5. ASSUME NEW n \in Reloads, Chat!Reload(n)
      PROVE  OneAtATime' /\ EarlierGone' /\ Chat!ThreadsShareEngine'
  <2> DEFINE S == {threads[i].sid : i \in DOMAIN threads}
  <2>1. /\ building = 0 /\ n = 1 /\ building' = building + n /\ current' = 0
        /\ Chat!Cancel(current, S) /\ UNCHANGED <<built, count>>
        /\ threads' = [i \in DOMAIN threads |-> [threads[i] EXCEPT !.sid = 0, !.generating = FALSE]]
    BY <1>5 DEF Chat!Reload, Chat!Invalidate
  <2>2. OneAtATime'
    <3>1. building = 0 /\ building' = building + 1 /\ current' = 0
      BY <1>5 DEF Chat!Reload
    <3> QED
      BY <3>1 DEF OneAtATime
  <2>3. Chat!ThreadsShareEngine'
    <3>1. \A i \in DOMAIN threads : threads'[i].sid = 0
      <4> SUFFICES ASSUME NEW i \in DOMAIN threads PROVE threads'[i].sid = 0
        OBVIOUS
      <4>1. threads[i] \in ThreadRecord
        BY <1>1
      <4>2. threads'[i] = [threads[i] EXCEPT !.sid = 0, !.generating = FALSE]
        BY <2>1
      <4> QED
        BY <4>1, <4>2 DEF ThreadRecord
    <3>2. DOMAIN threads' = DOMAIN threads
      BY <2>1
    <3> QED
      BY <3>1, <3>2 DEF Chat!ThreadsShareEngine
  <2> HIDE DEF S
  <2>4. GoneStays
    BY <1>1, <2>1, CancelFades
  <2>5. ASSUME NEW e \in 1..built, NEW s \in DOMAIN states'[e]
        PROVE  states'[e][s] = "Gone"
    <3> SUFFICES ASSUME states'[e][s] # "Gone" PROVE FALSE
      OBVIOUS
    <3>1. s \in DOMAIN states[e] /\ states[e][s] # "Gone"
      BY <2>4 DEF GoneStays
    <3>2. e = current /\ \E j \in DOMAIN threads : threads[j].eng = e /\ threads[j].sid = s
      BY <1>1, <3>1 DEF OrphanInv, EarlierGone, ViewInv, Chat!EngineIsTheChats
    <3>3. s \in S
      BY <3>2 DEF S
    <3>4. current \in 1..built /\ s \in DOMAIN states[current]
      BY <3>1, <3>2
    <3>5. states'[current][s] = "Gone"
      BY <1>1, <2>1, <3>3, <3>4, CancelEnds
    <3> QED
      BY <3>2, <3>5
  <2>6. EarlierGone'
    BY <2>1, <2>5 DEF EarlierGone
  <2> QED
    BY <2>2, <2>3, <2>6
<1> QED
  BY <1>2, <1>3, <1>4, <1>5 DEF Chat!User

(* A new engine has no session, and one that is not ready changes nothing. *)
LEMMA BuildView ==
  ASSUME ViewInv, Chat!Build
  PROVE  Chat!EngineIsTheChats'
<1>1. CASE Chat!BuildFails
  BY <1>1, FailedBuild DEF ViewInv, Chat!EngineIsTheChats
<1>2. CASE Chat!EngineBuilt
  <2>1. current' = built + 1 /\ states' = Append(states, << >>)
    BY <1>2 DEF Chat!EngineBuilt
  <2>2. built \in Nat /\ states \in Seq(Seq(SessionStates)) /\ Len(states) = built
    BY DEF ViewInv, ChatTypes, ChatView, ChatEngines
  <2>3. states'[current'] = << >>
    BY <2>1, <2>2
  <2> QED
    BY <2>3 DEF Chat!EngineIsTheChats
<1> QED
  BY <1>1, <1>2 DEF Chat!Build

(* Where engines are built one at a time, a new one finds no chat with a   *)
(* session of the old one.                                                 *)
LEMMA BuildShows ==
  ASSUME OrphanInv, Chat!Build
  PROVE  OneAtATime' /\ EarlierGone' /\ Chat!ThreadsShareEngine'
<1>1. CASE Chat!BuildFails
  <2>1. building' = 0 /\ UNCHANGED <<threads, current, built, states>>
    BY <1>1, FailedBuild DEF OrphanInv, OneAtATime
  <2> QED
    BY <2>1 DEF OrphanInv, OneAtATime, EarlierGone, Chat!ThreadsShareEngine
<1>2. CASE Chat!EngineBuilt
  <2>1. /\ building > 0 /\ building' = building - 1 /\ built' = built + 1 /\ current' = built + 1
        /\ states' = Append(states, << >>) /\ UNCHANGED threads
    BY <1>2 DEF Chat!EngineBuilt
  <2>2. /\ built \in Nat /\ DOMAIN states = 1..built /\ states \in Seq(Seq(SessionStates))
        /\ Len(states) = built /\ \A i \in DOMAIN threads : threads[i].eng \in 1..built
    BY DEF OrphanInv, ViewInv, ChatTypes, ChatView, ChatEngines
  <2>3. building = 1 /\ current = 0
    BY <2>1 DEF OrphanInv, OneAtATime
  <2>4. OneAtATime'
    BY <2>1, <2>2, <2>3 DEF OneAtATime
  <2>5. \A i \in DOMAIN threads : threads[i].sid = 0
    BY <2>2, <2>3 DEF OrphanInv, Chat!ThreadsShareEngine
  <2>6. Chat!ThreadsShareEngine'
    BY <2>1, <2>5 DEF Chat!ThreadsShareEngine
  <2>7. \A e \in 1..(built + 1) : e # built + 1 => e \in 1..built /\ states'[e] = states[e]
    BY <2>1, <2>2
  <2>8. EarlierGone'
    BY <2>1, <2>2, <2>3, <2>7 DEF OrphanInv, EarlierGone
  <2> QED
    BY <2>4, <2>6, <2>8
<1> QED
  BY <1>1, <1>2 DEF Chat!Build

(* A message's task leaves the chats the sessions they have.               *)
LEMMA TaskKeeps ==
  ASSUME ChatTypes, NEW k \in DOMAIN sends, Chat!SendTask(k)
  PROVE  ThreadsStay /\ GoneStays /\ UNCHANGED <<current, building, built>>
<1> DEFINE t == sends[k]
           id == sends[k].id
           i == Chat!At(id)
<1>1. ChatTypes /\ threads \in Seq(ThreadRecord)
  BY DEF ChatTypes, ChatView
<1>2. ASSUME Chat!Shown(id)
      PROVE  i \in DOMAIN threads /\ threads[i] \in ThreadRecord
  BY <1>1, <1>2, AtIs
<1>3. UNCHANGED <<current, building, built>>
  BY DEF Chat!SendTask, Chat!Submit, Chat!Show, Chat!ShowError, Chat!EnsureLoop,
         Chat!SpawnLoop, Chat!view
<1>4. GoneStays
  <2>1. CASE Chat!Submit(k)
    BY <1>1, <2>1, SubmitFades
  <2>2. CASE UNCHANGED states
    BY <2>2 DEF GoneStays
  <2> QED
    BY <2>1, <2>2 DEF Chat!SendTask, Chat!Show, Chat!ShowError, Chat!EnsureLoop,
                      Chat!SpawnLoop, Chat!engines
<1>5. ThreadsStay
  <2>1. CASE UNCHANGED threads
    BY <2>1 DEF ThreadsStay
  <2>2. CASE Chat!Show(k) /\ Chat!Shown(id)
    <3>1. PICK stop \in {FALSE, Stops} :
            threads' = [threads EXCEPT ![i] =
                          [threads[i] EXCEPT
                             !.text = Append(threads[i].text, t.got), !.tokCount = 1,
                             !.generating = threads[i].generating /\ ~stop /\ MaxTok > 1]]
      BY <2>2 DEF Chat!Show
    <3> DEFINE g == threads[i].generating /\ ~stop /\ MaxTok > 1
               x == Append(threads[i].text, t.got)
               r == [threads[i] EXCEPT !.text = x, !.tokCount = 1, !.generating = g]
    <3>2. threads' = [threads EXCEPT ![i] = r]
      BY <3>1, Zenon
    <3> HIDE DEF g, x, i
    <3>3. r.eng = threads[i].eng /\ r.sid = threads[i].sid
      BY <1>2, <2>2 DEF ThreadRecord
    <3> HIDE DEF r
    <3> QED
      BY <1>1, <1>2, <2>2, <3>2, <3>3, OnePut
  <2>3. CASE Chat!ShowError(k) /\ Chat!Shown(id)
    <3> DEFINE r == [threads[i] EXCEPT !.err = t.err, !.generating = FALSE]
    <3>1. threads' = [threads EXCEPT ![i] = r]
      BY <2>3 DEF Chat!ShowError
    <3> HIDE DEF i
    <3>2. r.eng = threads[i].eng /\ r.sid = threads[i].sid
      BY <1>2, <2>3 DEF ThreadRecord
    <3> HIDE DEF r
    <3> QED
      BY <1>1, <1>2, <2>3, <3>1, <3>2, OnePut
  <2>4. \/ UNCHANGED threads
        \/ Chat!Show(k) /\ Chat!Shown(id)
        \/ Chat!ShowError(k) /\ Chat!Shown(id)
    BY DEF Chat!SendTask, Chat!Submit, Chat!Show, Chat!ShowError, Chat!EnsureLoop,
           Chat!SpawnLoop, Chat!view
  <2> HIDE DEF t, id, i
  <2> QED
    BY <2>1, <2>2, <2>3, <2>4
<1> QED
  BY <1>3, <1>4, <1>5

(* A loop leaves the chats the sessions they have.                         *)
LEMMA LoopKeeps ==
  ASSUME ChatTypes, NEW l \in DOMAIN loops, Chat!Loop(l)
  PROVE  ThreadsStay /\ GoneStays /\ UNCHANGED <<current, building, built>>
<1> DEFINE t == loops[l]
           L == Chat!Listening(t.got)
           i == CHOOSE i \in L : \A j \in L : i <= j
<1>1. ChatTypes /\ threads \in Seq(ThreadRecord)
  BY DEF ChatTypes, ChatView
<1>2. UNCHANGED <<current, building, built>>
  BY DEF Chat!Loop, Chat!Check, Chat!StepDecode, Chat!ShowToken, Chat!view
<1>3. GoneStays
  <2>1. CASE Chat!StepDecode(l)
    BY <1>1, <2>1, StepFades
  <2>2. CASE UNCHANGED states
    BY <2>2 DEF GoneStays
  <2> QED
    BY <2>1, <2>2 DEF Chat!Loop, Chat!Check, Chat!ShowToken, Chat!engines
<1>4. ThreadsStay
  <2>1. CASE UNCHANGED threads
    BY <2>1 DEF ThreadsStay
  <2>2. CASE Chat!ShowToken(l) /\ L # {}
    <3>1. i \in DOMAIN threads /\ threads[i] \in ThreadRecord
      <4>1. L \subseteq Nat /\ L \subseteq DOMAIN threads
        BY <1>1 DEF Chat!Listening
      <4>2. \E x \in L : \A j \in L : x <= j
        BY <2>2, <4>1, LeastNatural
      <4>3. i \in L
        BY <4>2
      <4>4. i \in DOMAIN threads
        BY <4>1, <4>3
      <4> HIDE DEF i
      <4> QED
        BY <1>1, <4>4
    <3>2. PICK stop \in {FALSE, Stops} :
            threads' = [threads EXCEPT ![i] =
                          [threads[i] EXCEPT
                             !.text = Append(threads[i].text, t.got),
                             !.tokCount = threads[i].tokCount + 1,
                             !.generating = ~stop /\ ~Chat!Full(threads[i].tokCount + 1)]]
      BY <2>2, Zenon DEF Chat!ShowToken
    <3> DEFINE g == ~stop /\ ~Chat!Full(threads[i].tokCount + 1)
               x == Append(threads[i].text, t.got)
               c == threads[i].tokCount + 1
               r == [threads[i] EXCEPT !.text = x, !.tokCount = c, !.generating = g]
    <3>3. threads' = [threads EXCEPT ![i] = r]
      BY <3>2, Zenon
    <3> HIDE DEF g, x, c, i
    <3>4. r.eng = threads[i].eng /\ r.sid = threads[i].sid
      BY <3>1 DEF ThreadRecord
    <3> HIDE DEF r
    <3> QED
      BY <1>1, <3>1, <3>3, <3>4, OnePut
  <2>3. UNCHANGED threads \/ (Chat!ShowToken(l) /\ L # {})
    BY DEF Chat!Loop, Chat!Check, Chat!StepDecode, Chat!ShowToken, Chat!view
  <2> HIDE DEF t, L, i
  <2> QED
    BY <2>1, <2>2, <2>3
<1> QED
  BY <1>2, <1>3, <1>4

(* Whatever engines the user chooses, and whenever, whether one build or   *)
(* several follow a choice and whichever of them fail or end last, every   *)
(* session that the view's engine keeps is that of a chat on the screen.   *)
THEOREM ChatEngineIsTheChats ==
  ASSUME Chat!ChatAssumption
  PROVE  Chat!Spec => []Chat!EngineIsTheChats
<1>1. Chat!Init => ViewInv
  <2>1. ASSUME Chat!Init PROVE ViewInv
    <3>1. current = 0
      BY <2>1 DEF Chat!Init
    <3> QED
      BY <2>1, <3>1, ChatInitially DEF ViewInv, Chat!EngineIsTheChats
  <2> QED
    BY <2>1
<1>2. ASSUME ViewInv, [Chat!Next]_(Chat!vars) PROVE ViewInv'
  <2>1. CASE UNCHANGED Chat!vars
    <3>1. UNCHANGED <<threads, born, current, building, built, decodeTask, sends, loops,
                      states, count, rings>>
      BY <2>1 DEF Chat!vars, Chat!view, Chat!tasks, Chat!engines
    <3>2. ChatTypes'
      BY <1>2, <3>1 DEF ViewInv, ChatTypes, ChatView, ChatTasks, ChatEngines
    <3> QED
      BY <1>2, <3>1, <3>2 DEF ViewInv, Chat!EngineIsTheChats
  <2>2. CASE Chat!Next
    <3>1. ChatTypes /\ ChatTypes'
      BY <1>2, <2>2, UserTypes, BuildTypes, SendTypes, LoopTypes DEF Chat!Next, ViewInv
    <3>2. Chat!EngineIsTheChats'
      BY <1>2, <2>2, <3>1, UserView, BuildView, TaskKeeps, LoopKeeps, StillTheirs DEF Chat!Next
    <3> QED
      BY <3>1, <3>2 DEF ViewInv
  <2> QED
    BY <1>2, <2>1, <2>2
<1>3. ViewInv => Chat!EngineIsTheChats
  BY DEF ViewInv
<1> QED
  BY <1>1, <1>2, <1>3, PTL DEF Chat!Spec

(* Where every choice builds one engine, as that of a backend does, and    *)
(* the user chooses none while one is being built, every session of any    *)
(* engine that was not given back is that of a chat on the screen, and     *)
(* every chat that has a session has one of the view's engine, through     *)
(* deletions, stops, choices and builds that fail.                         *)
THEOREM ChatNoOrphanSession ==
  ASSUME Chat!ChatAssumption, Patient, Reloads \subseteq {1}
  PROVE  Chat!Spec => []Chat!NoOrphanSession /\ []Chat!ThreadsShareEngine
<1>1. Chat!Init => OrphanInv
  <2>1. ASSUME Chat!Init PROVE OrphanInv
    <3>1. threads = << >> /\ current = 0 /\ building = 1 /\ built = 0
      BY <2>1 DEF Chat!Init
    <3> QED
      BY <2>1, <3>1, ChatInitially DEF OrphanInv, ViewInv, OneAtATime, EarlierGone,
                                       Chat!ThreadsShareEngine, Chat!EngineIsTheChats
  <2> QED
    BY <2>1
<1>2. ASSUME OrphanInv, [Chat!Next]_(Chat!vars) PROVE OrphanInv'
  <2>0. ViewInv
    BY <1>2 DEF OrphanInv
  <2>1. CASE UNCHANGED Chat!vars
    <3>1. UNCHANGED <<threads, born, current, building, built, decodeTask, sends, loops,
                      states, count, rings>>
      BY <2>1 DEF Chat!vars, Chat!view, Chat!tasks, Chat!engines
    <3>2. ChatTypes'
      BY <2>0, <3>1 DEF ViewInv, ChatTypes, ChatView, ChatTasks, ChatEngines
    <3> QED
      BY <1>2, <3>1, <3>2 DEF OrphanInv, ViewInv, OneAtATime, EarlierGone,
                              Chat!ThreadsShareEngine, Chat!EngineIsTheChats
  <2>2. CASE Chat!Next
    <3>1. ChatTypes /\ ChatTypes'
      BY <2>0, <2>2, UserTypes, BuildTypes, SendTypes, LoopTypes DEF Chat!Next, ViewInv
    <3>2. Chat!EngineIsTheChats'
      BY <2>0, <2>2, <3>1, UserView, BuildView, TaskKeeps, LoopKeeps, StillTheirs DEF Chat!Next
    <3>3. OneAtATime' /\ EarlierGone' /\ Chat!ThreadsShareEngine'
      BY <1>2, <2>2, <3>1, UserShows, BuildShows, TaskKeeps, LoopKeeps, StillShown DEF Chat!Next
    <3> QED
      BY <3>1, <3>2, <3>3 DEF OrphanInv, ViewInv
  <2> QED
    BY <1>2, <2>1, <2>2
<1>3. OrphanInv => Chat!NoOrphanSession /\ Chat!ThreadsShareEngine
  <2>1. ASSUME OrphanInv, NEW e \in 1..built, NEW s \in DOMAIN states[e], states[e][s] # "Gone"
        PROVE  \E i \in DOMAIN threads : threads[i].eng = e /\ threads[i].sid = s
    <3>1. e = current /\ current # 0
      BY <2>1 DEF OrphanInv, EarlierGone, ViewInv, ChatTypes, ChatView
    <3> QED
      BY <2>1, <3>1 DEF OrphanInv, ViewInv, Chat!EngineIsTheChats
  <2> QED
    BY <2>1 DEF OrphanInv, Chat!NoOrphanSession
<1> QED
  BY <1>1, <1>2, <1>3, PTL DEF Chat!Spec
=============================================================================
