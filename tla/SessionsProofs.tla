---------------------------- MODULE SessionsProofs ----------------------------
(***************************************************************************)
(* Theorems about RedisSessions, for any number of threads, sessions and   *)
(* principals: types, that only failures leave a key that never expires,   *)
(* and that what has ended stays ended.                                    *)
(***************************************************************************)
EXTENDS RedisSessions, TLAPS

\* A write that has begun is about a session, and carries its object.
Writing ==
  \A a \in Actor :
    request[a].pc # "idle" => request[a].sid \in Sid /\ request[a].session \in Session

\* The inductive invariant.
Inv == TypeOK /\ Writing /\ OnlyFailuresLast

LEMMA NullIsNoSession == Null \notin Session
BY NullAssumption DEF Session

LEMMA IdleIsRequest == Idle \in Request /\ Idle.pc = "idle"
BY DEF Idle, Request

LEMMA WaitingIsRun == Waiting \in Run
BY DEF Waiting, Run

LEMMA InitInv == Init => Inv
<1>. SUFFICES ASSUME Init PROVE Inv
  OBVIOUS
<1>1. TypeOK
  BY IdleIsRequest, WaitingIsRun DEF Init, TypeOK
<1>2. Writing
  BY IdleIsRequest DEF Init, Writing
<1>3. OnlyFailuresLast
  BY DEF Init, OnlyFailuresLast
<1>. QED BY <1>1, <1>2, <1>3 DEF Inv

(***************************************************************************)
(* What a thread or the scheduler begins: the write `r` of an actor that   *)
(* was not in the middle of one. No key changes.                           *)
(***************************************************************************)

LEMMA BeginWrite ==
  ASSUME NEW a \in Actor, NEW s \in Sid, NEW session \in Session,
         NEW last \in {"expire", "del", "principals", "stop"}, NEW create \in BOOLEAN,
         Inv, request[a].pc # "expire",
         request' = [request EXCEPT ![a] = [pc |-> "set", sid |-> s,
           session |-> session, last |-> last, create |-> create]],
         UNCHANGED <<redis, ttl, broken>>
  PROVE  request' \in [Actor -> Request] /\ Writing' /\ OnlyFailuresLast'
<1>. DEFINE r == [pc |-> "set", sid |-> s, session |-> session, last |-> last, create |-> create]
<1>1. r \in Request
  BY DEF Request
<1>2. request \in [Actor -> Request]
  BY DEF Inv, TypeOK
<1>3. request' \in [Actor -> Request] /\ \A b \in Actor : request'[b] = IF b = a THEN r ELSE request[b]
  BY <1>1, <1>2
<1>4. Writing'
  BY <1>3 DEF Inv, Writing
<1>5. OnlyFailuresLast'
  BY <1>2, <1>3 DEF Inv, OnlyFailuresLast
<1>. QED BY <1>3, <1>4, <1>5

LEMMA WriteStep ==
  ASSUME NEW q \in Thread, NEW s \in Sid, NEW session \in Session,
         NEW last \in {"expire", "del", "principals", "stop"},
         Inv, request[q].pc # "expire", Write(q, s, session, last)
  PROVE  Inv'
<1>1. q \in Actor
  BY DEF Actor
<1>2. request' \in [Actor -> Request] /\ Writing' /\ OnlyFailuresLast'
  BY <1>1, BeginWrite DEF Write
<1>3. TypeOK'
  BY <1>2 DEF Inv, TypeOK, Write
<1>. QED BY <1>2, <1>3 DEF Inv

LEMMA DoCreateStep ==
  ASSUME NEW q \in Thread, NEW s \in Sid, Inv, DoCreate(q, s)
  PROVE  Inv'
<1>1. q \in Actor
  BY DEF Actor
<1>2. [user |-> Null, state |-> "open"] \in Session
  BY DEF Session
<1>3. request' \in [Actor -> Request] /\ Writing' /\ OnlyFailuresLast'
  BY <1>1, <1>2, BeginWrite, IdleIsRequest DEF DoCreate, histories
<1>4. TypeOK'
  BY <1>3 DEF Inv, TypeOK, DoCreate, histories
<1>. QED BY <1>3, <1>4 DEF Inv

\* What a thread sees of a session is null or a session.
LEMMA ReadIsSession ==
  ASSUME NEW q \in Thread, NEW s \in Sid, Inv
  PROVE  DoReadSession(q, s) \in Session \cup {Null}
BY DEF Inv, TypeOK, DoReadSession

LEMMA TouchStep ==
  ASSUME NEW q \in Thread, NEW s \in Sid, Inv, Touch(q, s)
  PROVE  Inv'
<1>1. DoReadSession(q, s) \in Session
  BY ReadIsSession DEF Touch, Open
<1>. QED BY <1>1, WriteStep, IdleIsRequest DEF Touch

LEMMA LoginStep ==
  ASSUME NEW q \in Thread, NEW s \in Sid, NEW u \in User, Inv, Login(q, s, u)
  PROVE  Inv'
<1>1. [DoReadSession(q, s) EXCEPT !.user = u] \in Session
  BY ReadIsSession DEF Login, Open, Session
<1>. QED BY <1>1, WriteStep, IdleIsRequest DEF Login

LEMMA LogoutStep ==
  ASSUME NEW q \in Thread, NEW s \in Sid, Inv, Logout(q, s)
  PROVE  Inv'
<1>1. DoReadSession(q, s) \in Session
  BY ReadIsSession DEF Logout, Open
<1>. QED BY <1>1, WriteStep, IdleIsRequest DEF Logout

LEMMA RemovePrincipalsStep ==
  ASSUME NEW q \in Thread, NEW s \in Sid, Inv, RemovePrincipals(q, s)
  PROVE  Inv'
<1>1. [DoReadSession(q, s) EXCEPT !.user = Null] \in Session
  BY ReadIsSession DEF RemovePrincipals, Open, Session
<1>. QED BY <1>1, WriteStep DEF RemovePrincipals

LEMMA StopStep ==
  ASSUME NEW q \in Thread, NEW s \in Sid, Inv, Stop(q, s)
  PROVE  Inv'
<1>1. [DoReadSession(q, s) EXCEPT !.state = "stopped"] \in Session
  BY ReadIsSession DEF Stop, Open, Session
<1>. QED BY <1>1, WriteStep, IdleIsRequest DEF Stop, Asks

LEMMA InvalidateStep ==
  ASSUME NEW q \in Thread, NEW s \in Sid, Inv, Invalidate(q, s)
  PROVE  Inv'
<1>1. DoReadSession(q, s) \in Session
  BY ReadIsSession DEF Invalidate, Invalid
<1>. QED BY <1>1, WriteStep, IdleIsRequest DEF Invalidate, Asks

LEMMA ValidateStep ==
  ASSUME NEW s \in Sid, NEW session \in Session, Inv, Validate(s, session)
  PROVE  Inv'
<1>1. Validator \in Actor
  BY DEF Actor
<1>2. request' \in [Actor -> Request] /\ Writing' /\ OnlyFailuresLast'
  BY <1>1, BeginWrite, IdleIsRequest DEF Validate, histories
<1>3. validator' \in Run
  BY DEF Inv, TypeOK, Validate, Run
<1>4. TypeOK'
  BY <1>2, <1>3 DEF Inv, TypeOK, Validate, histories
<1>. QED BY <1>2, <1>4 DEF Inv

(***************************************************************************)
(* Reading and listing change neither a key nor a write in progress.       *)
(***************************************************************************)

LEMMA KeysAndWritesUnchanged ==
  ASSUME Inv, UNCHANGED <<redis, ttl, request, broken>>
  PROVE  Writing' /\ OnlyFailuresLast'
BY DEF Inv, Writing, OnlyFailuresLast

LEMMA ReadingStep ==
  ASSUME NEW q \in Thread, NEW s \in Sid, Inv,
         ReadSession(q, s) \/ CopyExpires(q, s)
  PROVE  Inv'
<1>. DEFINE Values == Session \cup {Null}
<1>1. PICK v \in Values : copies' = [copies EXCEPT ![q][s] = v]
  BY ReadIsSession DEF ReadSession, CopyExpires
<1>2. copies \in [Thread -> [Sid -> Values]]
  BY DEF Inv, TypeOK
<1>. HIDE DEF Values
<1>3. copies' \in [Thread -> [Sid -> Values]]
  BY <1>1, <1>2
<1>. USE DEF Values
<1>4. TypeOK'
  BY <1>3 DEF Inv, TypeOK, ReadSession, CopyExpires, histories
<1>5. Writing' /\ OnlyFailuresLast'
  BY KeysAndWritesUnchanged DEF ReadSession, CopyExpires, histories
<1>. QED BY <1>4, <1>5 DEF Inv

LEMMA ListingStep ==
  ASSUME Inv, Scan \/ EndRun \/ \E s \in Sid : Fetch(s)
  PROVE  Inv'
<1>1. validator' \in Run
  <2>1. CASE Scan
    BY <2>1 DEF Inv, TypeOK, Scan, Run
  <2>2. CASE EndRun
    BY <2>2, WaitingIsRun DEF EndRun
  <2>3. ASSUME NEW s \in Sid, Fetch(s) PROVE validator' \in Run
    <3>. DEFINE found == IF Invalid(redis[s]) THEN validator.found \cup {<<s, redis[s]>>}
                         ELSE validator.found
    <3>1. validator \in Run
      BY DEF Inv, TypeOK
    <3>2. Invalid(redis[s]) => <<s, redis[s]>> \in Sid \X Session
      BY DEF Inv, TypeOK, Invalid
    <3>3. found \in SUBSET (Sid \X Session)
      BY <3>1, <3>2 DEF Run
    <3>4. (validator.gap \/ redis[s] = Null) \in BOOLEAN
      BY <3>1, Zenon DEF Run
    <3>5. validator' = [validator EXCEPT !.keys = @ \ {s}, !.found = found,
                                         !.gap = @ \/ redis[s] = Null]
      BY <2>3 DEF Fetch
    <3>6. validator'.keys \subseteq Sid
      BY <3>1, <3>5 DEF Run
    <3>. HIDE DEF found
    <3>. QED BY <3>1, <3>3, <3>4, <3>5, <3>6 DEF Run
  <2>. QED BY <2>1, <2>2, <2>3
<1>2. TypeOK'
  BY <1>1 DEF Inv, TypeOK, Scan, EndRun, Fetch, histories
<1>3. Writing' /\ OnlyFailuresLast'
  BY KeysAndWritesUnchanged DEF Scan, EndRun, Fetch, histories
<1>. QED BY <1>2, <1>3 DEF Inv

(***************************************************************************)
(* Commands. The actor's write moves on from one command to the next.      *)
(***************************************************************************)

\* A write that moves on stays a write of the same object to the same key.
LEMMA MovesOn ==
  ASSUME NEW a \in Actor, Inv, request[a].pc # "idle",
         NEW pc \in {"expire", "del", "principals", "stop"},
         request' = [request EXCEPT ![a].pc = pc]
  PROVE  /\ request' \in [Actor -> Request]
         /\ Writing'
         /\ \A b \in Actor \ {a} : request'[b] = request[b]
         /\ request'[a].pc = pc /\ request'[a].sid = request[a].sid
<1>1. request \in [Actor -> Request]
  BY DEF Inv, TypeOK
<1>2. request'[a] = [request[a] EXCEPT !.pc = pc]
  BY <1>1
<1>3. [request[a] EXCEPT !.pc = pc] \in Request
  BY <1>1 DEF Request
<1>4. request' \in [Actor -> Request] /\ \A b \in Actor \ {a} : request'[b] = request[b]
  BY <1>1, <1>2, <1>3
<1>5. /\ request'[a].pc = pc /\ request'[a].sid = request[a].sid
      /\ request'[a].session = request[a].session
  BY <1>1, <1>2 DEF Request
<1>6. Writing'
  BY <1>4, <1>5 DEF Inv, Writing
<1>. QED BY <1>4, <1>5, <1>6

\* A write that ends leaves its actor idle.
LEMMA Ends ==
  ASSUME NEW a \in Actor, Inv, request' = [request EXCEPT ![a] = Idle]
  PROVE  /\ request' \in [Actor -> Request]
         /\ Writing'
         /\ \A b \in Actor \ {a} : request'[b] = request[b]
<1>1. request \in [Actor -> Request]
  BY DEF Inv, TypeOK
<1>2. request' \in [Actor -> Request] /\ \A b \in Actor : request'[b] = IF b = a THEN Idle ELSE request[b]
  BY <1>1, IdleIsRequest
<1>3. Writing'
  BY <1>2, IdleIsRequest DEF Inv, Writing
<1>. QED BY <1>2, <1>3

\* What follows a write, or a failure in it: the deletion or the part of a
\* logout that is to come, or the end.
LEMMA AfterMovesOrEnds ==
  ASSUME NEW a \in Actor, Inv,
         \/ request' = [request EXCEPT ![a] = After(a)]
         \/ request' = [request EXCEPT ![a] = AfterThrow(a)]
  PROVE  \/ request' = [request EXCEPT ![a] = Idle]
         \/ /\ request' = [request EXCEPT ![a].pc = "del"]
            /\ request[a].last = "del"
         \/ \E pc \in {"principals", "stop"} : request' = [request EXCEPT ![a].pc = pc]
<1>1. request \in [Actor -> Request]
  BY DEF Inv, TypeOK
<1>2. request[a].last \in {"expire", "del", "principals", "stop"}
  BY <1>1 DEF Request
<1>3. ASSUME request' = [request EXCEPT ![a] = After(a)]
      PROVE  \/ request' = [request EXCEPT ![a] = Idle]
             \/ /\ request' = [request EXCEPT ![a].pc = "del"]
                /\ request[a].last = "del"
             \/ \E pc \in {"principals", "stop"} : request' = [request EXCEPT ![a].pc = pc]
  BY <1>1, <1>2, <1>3 DEF After
<1>. QED BY <1>1, <1>2, <1>3 DEF AfterThrow

LEMMA SetStep ==
  ASSUME NEW a \in Actor, Inv, Set(a)
  PROVE  Inv'
<1>. DEFINE s == request[a].sid
<1>1. s \in Sid /\ request[a].session \in Session
  BY DEF Inv, Writing, Set
<1>2. /\ request' \in [Actor -> Request] /\ Writing'
      /\ \A b \in Actor \ {a} : request'[b] = request[b]
      /\ request'[a].pc = "expire" /\ request'[a].sid = s
  BY MovesOn DEF Set
<1>3. missed' \subseteq Sid
  BY <1>1 DEF Inv, TypeOK, Set, Miss
<1>4. redis \in [Sid -> Session \cup {Null}] /\ redis' = [redis EXCEPT ![s] = request[a].session]
  BY DEF Inv, TypeOK, Set
<1>5. TypeOK'
  BY <1>1, <1>2, <1>3, <1>4 DEF Inv, TypeOK, Set
<1>6. OnlyFailuresLast'
  <2>. SUFFICES ASSUME NEW x \in Sid, redis'[x] # Null, x \notin ttl', x \notin broken'
                PROVE  \E b \in Actor : request'[b].pc = "expire" /\ request'[b].sid = x
    BY DEF OnlyFailuresLast
  <2>1. CASE x = s
    BY <1>2, <2>1
  <2>2. CASE x # s
    <3>1. redis[x] # Null /\ x \notin ttl /\ x \notin broken
      BY <1>4, <2>2 DEF Set
    <3>2. PICK b \in Actor : request[b].pc = "expire" /\ request[b].sid = x
      BY <3>1 DEF Inv, OnlyFailuresLast
    <3>. QED BY <1>2, <2>2, <3>2
  <2>. QED BY <2>1, <2>2
<1>. QED BY <1>2, <1>5, <1>6 DEF Inv

LEMMA ExpireStep ==
  ASSUME NEW a \in Actor, Inv, Expire(a)
  PROVE  Inv'
<1>. DEFINE s == request[a].sid
<1>1. s \in Sid
  BY DEF Inv, Writing, Expire
<1>2. /\ request' \in [Actor -> Request] /\ Writing'
      /\ \A b \in Actor \ {a} : request'[b] = request[b]
  BY MovesOn, Ends, AfterMovesOrEnds DEF Expire
<1>3. TypeOK'
  BY <1>1, <1>2 DEF Inv, TypeOK, Expire, histories
<1>4. OnlyFailuresLast'
  <2>. SUFFICES ASSUME NEW x \in Sid, redis'[x] # Null, x \notin ttl', x \notin broken'
                PROVE  \E b \in Actor : request'[b].pc = "expire" /\ request'[b].sid = x
    BY DEF OnlyFailuresLast
  <2>1. x # s /\ redis[x] # Null /\ x \notin ttl /\ x \notin broken
    BY DEF Expire, histories
  <2>2. PICK b \in Actor : request[b].pc = "expire" /\ request[b].sid = x
    BY <2>1 DEF Inv, OnlyFailuresLast
  <2>. QED BY <1>2, <2>1, <2>2
<1>. QED BY <1>2, <1>3, <1>4 DEF Inv

LEMMA DelStep ==
  ASSUME NEW a \in Actor, Inv, Del(a)
  PROVE  Inv'
<1>. DEFINE s == request[a].sid
<1>1. s \in Sid
  BY DEF Inv, Writing, Del
<1>2. /\ request' \in [Actor -> Request] /\ Writing'
      /\ \A b \in Actor \ {a} : request'[b] = request[b]
  BY Ends DEF Del
<1>3. missed' \subseteq Sid
  BY <1>1 DEF Inv, TypeOK, Del, Miss
<1>4. redis \in [Sid -> Session \cup {Null}] /\ redis' = [redis EXCEPT ![s] = Null]
  BY DEF Inv, TypeOK, Del
<1>5. TypeOK'
  BY <1>1, <1>2, <1>3, <1>4 DEF Inv, TypeOK, Del
<1>6. OnlyFailuresLast'
  <2>. SUFFICES ASSUME NEW x \in Sid, redis'[x] # Null, x \notin ttl', x \notin broken'
                PROVE  \E b \in Actor : request'[b].pc = "expire" /\ request'[b].sid = x
    BY DEF OnlyFailuresLast
  <2>1. x # s /\ redis[x] # Null /\ x \notin ttl /\ x \notin broken
    BY <1>4 DEF Del
  <2>2. PICK b \in Actor : request[b].pc = "expire" /\ request[b].sid = x
    BY <2>1 DEF Inv, OnlyFailuresLast
  <2>3. b # a
    BY <2>2 DEF Del
  <2>. QED BY <1>2, <2>2, <2>3
<1>. QED BY <1>2, <1>5, <1>6 DEF Inv

(***************************************************************************)
(* Failures: a write that stops between SET and EXPIRE breaks its session. *)
(***************************************************************************)

\* Keys stay, one actor's write stops or moves on, and its session is broken
\* if EXPIRE was to come.
LEMMA FailureBreaks ==
  ASSUME NEW a \in Actor, Inv, UNCHANGED <<redis, ttl>>,
         \A b \in Actor \ {a} : request'[b] = request[b],
         broken' = IF request[a].pc = "expire" THEN broken \cup {request[a].sid} ELSE broken
  PROVE  OnlyFailuresLast' /\ broken' \subseteq Sid
<1>1. broken' \subseteq Sid
  BY DEF Inv, TypeOK, Writing
<1>2. ASSUME NEW x \in Sid, redis'[x] # Null, x \notin ttl', x \notin broken'
      PROVE  \E b \in Actor : request'[b].pc = "expire" /\ request'[b].sid = x
  <2>1. redis[x] # Null /\ x \notin ttl /\ x \notin broken
    BY <1>2
  <2>2. PICK b \in Actor : request[b].pc = "expire" /\ request[b].sid = x
    BY <2>1 DEF Inv, OnlyFailuresLast
  <2>3. b # a
    BY <1>2, <2>2
  <2>. QED BY <2>2, <2>3
<1>. QED BY <1>1, <1>2 DEF OnlyFailuresLast

LEMMA ThrowsStep ==
  ASSUME NEW q \in Thread, Inv, Throws(q)
  PROVE  Inv'
<1>1. q \in Actor
  BY DEF Actor
<1>3. /\ request' \in [Actor -> Request] /\ Writing'
      /\ \A b \in Actor \ {q} : request'[b] = request[b]
  BY <1>1, MovesOn, Ends, AfterMovesOrEnds DEF Throws
<1>4. OnlyFailuresLast' /\ broken' \subseteq Sid
  BY <1>1, <1>3, FailureBreaks DEF Throws
<1>5. TypeOK'
  BY <1>3, <1>4 DEF Inv, TypeOK, Throws
<1>. QED BY <1>3, <1>4, <1>5 DEF Inv

LEMMA DieStep ==
  ASSUME Inv, Die
  PROVE  Inv'
<1>1. Validator \in Actor
  BY DEF Actor
<1>2. /\ request' \in [Actor -> Request] /\ Writing'
      /\ \A b \in Actor \ {Validator} : request'[b] = request[b]
  BY <1>1, Ends DEF Die
<1>3. OnlyFailuresLast' /\ broken' \subseteq Sid
  BY <1>1, <1>2, FailureBreaks DEF Die
<1>4. validator' \in Run
  BY DEF Die, Waiting, Run
<1>5. TypeOK'
  BY <1>2, <1>3, <1>4 DEF Inv, TypeOK, Die
<1>. QED BY <1>2, <1>3, <1>5 DEF Inv

LEMMA RestartStep ==
  ASSUME Inv, Restart
  PROVE  Inv'
<1>1. request' \in [Actor -> Request] /\ Writing'
  BY IdleIsRequest DEF Restart, Writing
<1>2. broken' \subseteq Sid
  BY DEF Inv, TypeOK, Writing, Restart
<1>3. TypeOK'
  BY <1>1, <1>2, WaitingIsRun DEF Inv, TypeOK, Restart
<1>4. OnlyFailuresLast'
  <2>. SUFFICES ASSUME NEW x \in Sid, redis[x] # Null, x \notin ttl
                PROVE  x \in broken'
    BY DEF OnlyFailuresLast, Restart
  <2>1. x \in broken \/ \E b \in Actor : request[b].pc = "expire" /\ request[b].sid = x
    BY DEF Inv, OnlyFailuresLast
  <2>. QED BY <2>1 DEF Restart
<1>. QED BY <1>1, <1>3, <1>4 DEF Inv

\* A logout that has nothing to remove, or whose session is gone.
LEMMA LogoutMovesStep ==
  ASSUME NEW q \in Thread, NEW s \in Sid, Inv, NothingToRemove(q, s) \/ LogoutEnds(q, s)
  PROVE  Inv'
<1>1. q \in Actor /\ request[q].pc \in {"principals", "stop"}
  BY DEF Actor, NothingToRemove, LogoutEnds
<1>2. /\ request' \in [Actor -> Request] /\ Writing'
      /\ \A b \in Actor \ {q} : request'[b] = request[b]
  BY <1>1, MovesOn, Ends DEF NothingToRemove, LogoutEnds
<1>3. UNCHANGED <<redis, ttl, copies, validator, used, gone, missed, left, broken>>
  BY DEF NothingToRemove, LogoutEnds, histories
<1>4. OnlyFailuresLast'
  BY <1>1, <1>2, <1>3, FailureBreaks
<1>5. TypeOK'
  BY <1>2, <1>3 DEF Inv, TypeOK
<1>. QED BY <1>2, <1>4, <1>5 DEF Inv

(***************************************************************************)
(* Time.                                                                   *)
(***************************************************************************)

LEMMA ForgetType ==
  ASSUME NEW s \in Sid, Inv, Forget(s)
  PROVE  copies' \in [Thread -> [Sid -> Session \cup {Null}]]
<1>1. copies \in [Thread -> [Sid -> Session \cup {Null}]]
  BY DEF Inv, TypeOK
<1>2. \A q \in Thread : [copies[q] EXCEPT ![s] = Null] \in [Sid -> Session \cup {Null}]
  BY <1>1
<1>. QED BY <1>2 DEF Forget

LEMMA ClockStep ==
  ASSUME NEW s \in Sid, Inv, KeyExpires(s) \/ TimeOut(s)
  PROVE  Inv'
<1>1. copies' \in [Thread -> [Sid -> Session \cup {Null}]]
  BY ForgetType DEF KeyExpires, TimeOut
<1>2. redis \in [Sid -> Session \cup {Null}] /\ Writing /\ OnlyFailuresLast
  BY DEF Inv, TypeOK
<1>3. CASE KeyExpires(s)
  <2>1. TypeOK'
    BY <1>1, <1>2, <1>3 DEF Inv, TypeOK, KeyExpires
  <2>2. Writing'
    BY <1>2, <1>3 DEF Writing, KeyExpires
  <2>3. OnlyFailuresLast'
    BY <1>2, <1>3 DEF OnlyFailuresLast, KeyExpires
  <2>. QED BY <2>1, <2>2, <2>3 DEF Inv
<1>4. CASE TimeOut(s)
  <2>1. redis[s] \in Session
    BY <1>2, <1>4 DEF TimeOut, Open
  <2>2. [redis[s] EXCEPT !.state = "timedOut"] \in Session
    BY <2>1 DEF Session
  <2>3. redis' = [redis EXCEPT ![s] = [redis[s] EXCEPT !.state = "timedOut"]]
    BY <1>4 DEF TimeOut
  <2>4. redis' \in [Sid -> Session \cup {Null}]
    BY <1>2, <2>2, <2>3
  <2>5. TypeOK'
    BY <1>1, <1>4, <2>4 DEF Inv, TypeOK, TimeOut, histories
  <2>6. Writing'
    BY <1>2, <1>4 DEF Writing, TimeOut
  <2>7. \A x \in Sid : redis'[x] # Null => redis[x] # Null
    BY <1>2, <1>4, <2>3 DEF TimeOut, Open
  <2>8. OnlyFailuresLast'
    BY <1>2, <1>4, <2>7 DEF OnlyFailuresLast, TimeOut, histories
  <2>. QED BY <2>5, <2>6, <2>8 DEF Inv
<1>. QED BY <1>3, <1>4

(***************************************************************************)
(* The theorems.                                                           *)
(***************************************************************************)

LEMMA NextInv == Inv /\ [Next]_vars => Inv'
<1>. SUFFICES ASSUME Inv, [Next]_vars PROVE Inv'
  OBVIOUS
<1>1. ASSUME NEW q \in Thread, Client(q) PROVE Inv'
  BY <1>1, DoCreateStep, ReadingStep, TouchStep, LogoutStep, StopStep, InvalidateStep,
     LoginStep DEF Client
<1>9. ASSUME NEW q \in Thread, LogsOut(q) PROVE Inv'
  BY <1>9, RemovePrincipalsStep, LogoutMovesStep, StopStep, InvalidateStep DEF LogsOut
<1>2. ASSUME NEW q \in Thread, Throws(q) PROVE Inv'
  BY <1>2, ThrowsStep
<1>3. ASSUME NEW a \in Actor, Command(a) PROVE Inv'
  BY <1>3, SetStep, ExpireStep, DelStep DEF Command
<1>4. CASE Clock
  BY <1>4, ClockStep, ReadingStep DEF Clock
<1>5. CASE Validation
  <2>1. CASE Scan \/ EndRun \/ \E s \in Sid : Fetch(s)
    BY <2>1, ListingStep
  <2>2. CASE NullSession
    BY <2>2, DieStep DEF NullSession
  <2>3. ASSUME NEW s \in Sid, NEW session \in Session, Validate(s, session) PROVE Inv'
    BY <2>3, ValidateStep
  <2>. QED BY <1>5, <2>1, <2>2, <2>3 DEF Validation
<1>6. CASE RunThrows
  BY <1>6, DieStep DEF RunThrows
<1>7. CASE Restart
  BY <1>7, RestartStep
<1>8. CASE UNCHANGED vars
  <2>1. Writing' /\ OnlyFailuresLast'
    BY <1>8, KeysAndWritesUnchanged DEF vars
  <2>2. TypeOK'
    BY <1>8 DEF Inv, TypeOK, vars
  <2>. QED BY <2>1, <2>2 DEF Inv
<1>. QED BY <1>1, <1>2, <1>3, <1>4, <1>5, <1>6, <1>7, <1>8, <1>9 DEF Next, Running

\* Every reachable state is well typed, writes carry sessions, and keys without
\* a time to live have an EXPIRE to come or met a failure.
THEOREM Invariance == Spec => []Inv
<1>1. Init => Inv
  BY InitInv
<1>2. Inv /\ [Next]_vars => Inv'
  BY NextInv
<1>. QED BY <1>1, <1>2, PTL DEF Spec

\* RedisSessionDAO, WorkAloneRedisManager and the scheduler keep the types.
THEOREM TypeCorrect == Spec => []TypeOK
<1>1. Inv => TypeOK
  BY DEF Inv
<1>. QED BY <1>1, Invariance, PTL

\* WorkAloneRedisManager.set: only a failure or a restart between SET and
\* EXPIRE leaves a session that never expires.
THEOREM FailuresLast == Spec => []OnlyFailuresLast
<1>1. Inv => OnlyFailuresLast
  BY DEF Inv
<1>. QED BY <1>1, Invariance, PTL

(***************************************************************************)
(* Sessions that ended. Until a write passes by somebody's open object, no *)
(* object and no write contradicts what Redis has.                         *)
(***************************************************************************)

Ended(s) == s \in gone \/ Invalid(redis[s])

\* Were v written to the key of s, no ended session would come of it, and no
\* principal be lost that no logout has taken away.
Fits(s, v) ==
  Open(v) => /\ ~Ended(s)
             /\ s \notin left /\ Open(redis[s]) /\ redis[s].user # Null => v.user # Null

Fitting ==
  \A s \in Sid \ missed :
    /\ Fits(s, redis[s])
    /\ \A q \in Thread : Fits(s, copies[q][s])
    /\ \A a \in Actor : request[a].sid = s => Fits(s, request[a].session)

\* A write that deletes carries a session that is not open.
Ending ==
  \A a \in Actor : /\ request[a].pc = "del" => request[a].last = "del"
                   /\ request[a].last = "del" => ~Open(request[a].session)

\* What the scheduler found is not open.
Found == \A x \in validator.found : x[1] \in used /\ ~Open(x[2])

\* An id that was not generated is nowhere.
Fresh ==
  /\ \A s \in Sid \ used : redis[s] = Null /\ s \notin gone
  /\ ttl \subseteq used
  /\ \A a \in Actor : request[a].sid # Null => request[a].sid \in used
  /\ \A q \in Thread, s \in Sid : copies[q][s] # Null => s \in used

\* The object that a thread writes is the one it keeps, if it keeps one.
Own ==
  \A q \in Thread, s \in Sid :
    request[q].sid = s => copies[q][s] \in {request[q].session, Null}

KeptInv == Inv /\ Fitting /\ Ending /\ Found /\ Fresh /\ Own

LEMMA KeptFacts ==
  ASSUME KeptInv
  PROVE  /\ TypeOK /\ Writing /\ Fitting /\ Ending /\ Found /\ Fresh /\ Own
         /\ redis \in [Sid -> Session \cup {Null}]
         /\ copies \in [Thread -> [Sid -> Session \cup {Null}]]
         /\ request \in [Actor -> Request]
         /\ Thread \subseteq Actor /\ Null \notin Sid
BY NullAssumption DEF KeptInv, Inv, TypeOK, Actor

\* The same of a step that writes no key.
FitsNow(s, v) ==
  Open(v) => /\ ~Ended(s)
             /\ s \notin left' /\ Open(redis[s]) /\ redis[s].user # Null => v.user # Null

\* A write that fits.
Proper(r) ==
  /\ r.pc = "del" => r.last = "del"
  /\ r.last = "del" => ~Open(r.session)
  /\ r.sid # Null => r.sid \in used'
  /\ r.sid \in Sid \ missed => FitsNow(r.sid, r.session)

\* The keys stay; every object and every write stays, goes, or fits.
KeysStay ==
  /\ UNCHANGED <<redis, gone, missed>>
  /\ used \subseteq used' /\ ttl' \subseteq ttl \cup used /\ left \subseteq left'

FoundStays ==
  \A x \in validator'.found : x \in validator.found \/ (x[1] \in used /\ ~Open(x[2]))

CopiesFit ==
  \A q \in Thread, s \in Sid :
    \/ copies'[q][s] \in {copies[q][s], Null}
    \/ s \in used' /\ (s \notin missed => FitsNow(s, copies'[q][s]))

WritesFit == \A a \in Actor : request'[a] = request[a] \/ Proper(request'[a])

LEMMA SameKeys ==
  ASSUME KeptInv, Inv', KeysStay, FoundStays, CopiesFit, WritesFit, Own'
  PROVE  KeptInv'
<1>. USE DEF KeysStay, FoundStays, CopiesFit, WritesFit
<1>1. Ending'
  BY KeptFacts DEF Ending, Proper
<1>2. Found'
  BY KeptFacts DEF Found
<1>3. Fresh'
  BY KeptFacts DEF Fresh, Proper
<1>4. ASSUME NEW s \in Sid \ missed
      PROVE  /\ FitsNow(s, redis[s])
             /\ \A q \in Thread : FitsNow(s, copies'[q][s])
             /\ \A a \in Actor : request'[a].sid = s => FitsNow(s, request'[a].session)
  <2>1. FitsNow(s, redis[s]) /\ FitsNow(s, Null)
    BY KeptFacts DEF Fitting, Fits, FitsNow, Open
  <2>. HIDE DEF KeysStay
  <2>4. ASSUME NEW v, Fits(s, v)  PROVE FitsNow(s, v)
    BY <2>4 DEF Fits, FitsNow, KeysStay
  <2>2. ASSUME NEW q \in Thread  PROVE FitsNow(s, copies'[q][s])
    BY <2>1, <2>4, KeptFacts DEF Fitting
  <2>3. ASSUME NEW a \in Actor, request'[a].sid = s  PROVE FitsNow(s, request'[a].session)
    BY <2>3, <2>4, KeptFacts DEF Fitting, Proper
  <2>. QED BY <2>1, <2>2, <2>3
<1>5. Fitting'
  BY <1>4 DEF Fitting, Fits, FitsNow, Ended
<1>. QED BY <1>1, <1>2, <1>3, <1>5 DEF KeptInv

LEMMA IdleIsProper == Proper(Idle)
BY NullAssumption DEF Proper, Idle, Open, FitsNow

\* What a thread reads fits, and is of a session that was generated.
LEMMA ReadFits ==
  ASSUME KeptInv, NEW q \in Thread, NEW s \in Sid
  PROVE  /\ s \notin missed => Fits(s, DoReadSession(q, s))
         /\ DoReadSession(q, s) # Null => s \in used
BY KeptFacts DEF Fitting, Fresh, DoReadSession

\* What fits goes on to fit.
LEMMA StillFits ==
  ASSUME NEW s, NEW v, left \subseteq left', Fits(s, v)
  PROVE  FitsNow(s, v)
BY DEF Fits, FitsNow

\* A thread begins the write of an object.
LEMMA WriteKept ==
  ASSUME KeptInv, Inv', NEW q \in Thread, NEW s \in Sid, NEW session \in Session, NEW last,
         Write(q, s, session, last), s \in used,
         s \notin missed => Fits(s, session) \/ (last = "stop" /\ ~Ended(s)),
         last = "del" => ~Open(session)
  PROVE  KeptInv'
<1>. DEFINE r == [pc |-> "set", sid |-> s, session |-> session, last |-> last, create |-> FALSE]
<1>1. /\ UNCHANGED <<redis, ttl, gone, missed, used, validator>>
      /\ copies' = [copies EXCEPT ![q][s] = session]
      /\ request' = [request EXCEPT ![q] = r] /\ left \subseteq left'
  BY DEF Write
<1>9. s \notin missed => FitsNow(s, session)
  BY <1>1, StillFits DEF Write, FitsNow
<1>2. Proper(r)
  BY <1>1, <1>9 DEF Proper
<1>3. /\ r.sid = s /\ r.session = session
      /\ \A a \in Actor : request'[a] = IF a = q THEN r ELSE request[a]
  BY <1>1, KeptFacts
<1>. HIDE DEF r
<1>4. \A o \in Thread, x \in Sid :
        copies'[o][x] = IF o = q /\ x = s THEN session ELSE copies[o][x]
  BY <1>1, KeptFacts
<1>5. Own'
  BY <1>3, <1>4, KeptFacts DEF Own
<1>6. KeysStay /\ FoundStays
  BY <1>1 DEF KeysStay, FoundStays
<1>7. CopiesFit
  BY <1>1, <1>4, <1>9 DEF CopiesFit
<1>8. WritesFit
  BY <1>2, <1>3 DEF WritesFit
<1>. QED BY <1>5, <1>6, <1>7, <1>8, SameKeys

LEMMA ClientKept ==
  ASSUME KeptInv, Inv', NEW q \in Thread,
         Client(q) \/ \E s \in Sid : RemovePrincipals(q, s) \/ Stop(q, s) \/ Invalidate(q, s)
  PROVE  KeptInv'
<1>1. PICK s \in Sid : \/ DoCreate(q, s) \/ ReadSession(q, s)
                       \/ Touch(q, s) \/ Logout(q, s) \/ Stop(q, s) \/ Invalidate(q, s)
                       \/ \E u \in User : Login(q, s, u)
                       \/ RemovePrincipals(q, s)
  BY DEF Client, LogsOut
<1>. DEFINE v == DoReadSession(q, s)
<1>2. v \in Session \cup {Null}
  BY ReadIsSession DEF KeptInv
<1>3. /\ s \notin missed => Fits(s, v)
      /\ v # Null => s \in used
  BY ReadFits
<1>. HIDE DEF v
<1>4. CASE DoCreate(q, s)
  <2>. DEFINE r == [pc |-> "set", sid |-> s, session |-> [user |-> Null, state |-> "open"],
                    last |-> "expire", create |-> TRUE]
  <2>1. /\ UNCHANGED <<redis, ttl, gone, missed, left, copies, validator>>
        /\ used' = used \cup {s} /\ s \notin used
        /\ request' = [request EXCEPT ![q] = r]
    BY <1>4 DEF DoCreate, histories
  <2>2. redis[s] = Null /\ s \notin gone /\ copies[q][s] = Null
    BY <2>1, KeptFacts DEF Fresh
  <2>3. Proper(r)
    BY <2>1, <2>2 DEF Proper, FitsNow, Ended, Open, Invalid
  <2>4. /\ r.sid = s
        /\ \A a \in Actor : request'[a] = IF a = q THEN r ELSE request[a]
    BY <2>1, KeptFacts
  <2>. HIDE DEF r
  <2>5. Own'
    BY <2>1, <2>2, <2>4, KeptFacts DEF Own
  <2>6. KeysStay /\ FoundStays /\ CopiesFit
    BY <2>1 DEF KeysStay, FoundStays, CopiesFit
  <2>7. WritesFit
    BY <2>3, <2>4 DEF WritesFit
  <2>. QED BY <2>5, <2>6, <2>7, SameKeys
<1>5. CASE ReadSession(q, s)
  <2>1. /\ UNCHANGED <<redis, ttl, gone, missed, left, used, request, validator>>
        /\ copies' = [copies EXCEPT ![q][s] = v] /\ request[q] = Idle
    BY <1>5 DEF ReadSession, histories, v
  <2>2. \A o \in Thread, x \in Sid :
          copies'[o][x] = IF o = q /\ x = s THEN v ELSE copies[o][x]
    BY <2>1, KeptFacts
  <2>3. Own'
    BY <2>1, <2>2, KeptFacts DEF Own, Idle
  <2>4. KeysStay /\ FoundStays /\ WritesFit
    BY <2>1 DEF KeysStay, FoundStays, WritesFit
  <2>5. CopiesFit
    BY <1>3, <2>1, <2>2, StillFits DEF CopiesFit
  <2>. QED BY <2>3, <2>4, <2>5, SameKeys
<1>6. CASE Touch(q, s)
  <2>1. v \in Session /\ Write(q, s, v, "expire")
    BY <1>2, <1>6 DEF Touch, Open, v
  <2>. QED BY <1>3, <2>1, WriteKept, NullIsNoSession
<1>10. CASE Logout(q, s)
  <2>1. v \in Session /\ Write(q, s, v, "principals")
    BY <1>2, <1>10 DEF Logout, Open, v
  <2>. QED BY <1>3, <2>1, WriteKept, NullIsNoSession
<1>11. CASE RemovePrincipals(q, s)
  <2>. DEFINE w == [v EXCEPT !.user = Null]
  <2>1. v \in Session /\ Open(v) /\ Write(q, s, w, "stop")
    BY <1>2, <1>11 DEF RemovePrincipals, Open, v
  <2>2. w \in Session
    BY <2>1 DEF Session
  <2>3. s \notin missed => ~Ended(s)
    BY <1>3, <2>1 DEF Fits
  <2>. HIDE DEF w
  <2>. QED BY <1>3, <2>1, <2>2, <2>3, WriteKept, NullIsNoSession
<1>7. ASSUME NEW u \in User, Login(q, s, u)  PROVE KeptInv'
  <2>. DEFINE w == [v EXCEPT !.user = u]
  <2>1. v \in Session /\ Open(v) /\ Write(q, s, w, "expire")
    BY <1>2, <1>7 DEF Login, Open, v
  <2>2. w \in Session /\ w.user # Null /\ Open(w)
    BY <2>1, NullAssumption, NullIsNoSession DEF Session, Open
  <2>3. s \notin missed => Fits(s, w)
    BY <1>3, <2>1, <2>2 DEF Fits
  <2>. HIDE DEF w
  <2>. QED BY <1>3, <2>1, <2>2, <2>3, WriteKept, NullIsNoSession
<1>8. CASE Stop(q, s)
  <2>. DEFINE w == [v EXCEPT !.state = "stopped"]
  <2>1. v \in Session /\ Write(q, s, w, "del")
    BY <1>2, <1>8 DEF Stop, Open, v
  <2>2. w \in Session /\ ~Open(w)
    BY <2>1 DEF Session, Open
  <2>3. Fits(s, w)
    BY <2>2 DEF Fits
  <2>. HIDE DEF w
  <2>. QED BY <1>3, <2>1, <2>2, <2>3, WriteKept, NullIsNoSession
<1>9. CASE Invalidate(q, s)
  <2>1. v \in Session /\ ~Open(v) /\ Write(q, s, v, "del")
    BY <1>2, <1>9 DEF Invalidate, Invalid, Open, v
  <2>. QED BY <1>3, <2>1, WriteKept, NullIsNoSession
<1>. QED BY <1>1, <1>4, <1>5, <1>6, <1>7, <1>8, <1>9, <1>10, <1>11


\* A write is at another command, or over.
Continues ==
  \A a \in Actor :
    \/ request'[a] = Idle
    \/ /\ request'[a].sid = request[a].sid
       /\ request'[a].session = request[a].session
       /\ request'[a].last = request[a].last
       /\ request'[a].pc = "del" => request'[a].last = "del"

\* Objects stay or go.
CopiesGo == \A q \in Thread, s \in Sid : copies'[q][s] \in {copies[q][s], Null}

LEMMA NothingBegun ==
  ASSUME KeptInv, Inv', KeysStay, FoundStays, CopiesGo, Continues
  PROVE  KeptInv'
<1>1. Own'
  BY KeptFacts DEF Own, CopiesGo, Continues, Idle
<1>2. CopiesFit
  BY DEF CopiesFit, CopiesGo
<1>3. WritesFit
  <2>. SUFFICES ASSUME NEW a \in Actor PROVE request'[a] = request[a] \/ Proper(request'[a])
    BY DEF WritesFit
  <2>. DEFINE r == request'[a]
  <2>1. CASE r = Idle
    BY <2>1, IdleIsProper
  <2>2. CASE /\ r.sid = request[a].sid /\ r.session = request[a].session
             /\ r.last = request[a].last
             /\ r.pc = "del" => r.last = "del"
    <3>1. /\ r.last = "del" => ~Open(r.session)
          /\ r.sid # Null => r.sid \in used'
      BY <2>2, KeptFacts DEF Ending, Fresh, KeysStay
    <3>2. r.sid \in Sid \ missed => FitsNow(r.sid, r.session)
      BY <2>2, KeptFacts, StillFits DEF Fitting, KeysStay
    <3>. QED BY <2>2, <3>1, <3>2 DEF Proper
  <2>. QED BY <2>1, <2>2 DEF Continues
<1>. QED BY <1>1, <1>2, <1>3, SameKeys

LEMMA CopyExpiresKept ==
  ASSUME KeptInv, Inv', NEW q \in Thread, NEW s \in Sid, CopyExpires(q, s)
  PROVE  KeptInv'
<1>1. /\ UNCHANGED <<redis, ttl, gone, missed, left, used, request, validator>>
      /\ copies' = [copies EXCEPT ![q][s] = Null]
  BY DEF CopyExpires, histories
<1>2. KeysStay /\ FoundStays
  BY <1>1 DEF KeysStay, FoundStays
<1>3. CopiesGo
  BY <1>1, KeptFacts DEF CopiesGo
<1>4. Continues
  BY <1>1, KeptFacts DEF Continues, Ending
<1>. QED BY <1>2, <1>3, <1>4, NothingBegun

\* EXPIRE, a failure of a command, the end of the run by a failure, a part of a
\* logout that writes nothing.
LEMMA MovingKept ==
  ASSUME KeptInv, Inv', NEW a \in Actor,
         \/ Expire(a) \/ (a \in Thread /\ Throws(a)) \/ (a = Validator /\ Die)
         \/ \E s \in Sid : NothingToRemove(a, s) \/ LogoutEnds(a, s)
  PROVE  KeptInv'
<1>1. /\ UNCHANGED <<redis, gone, missed, left, copies, used>>
      /\ validator' = validator \/ validator'.found = {}
  BY DEF Expire, Throws, Die, histories, Waiting, NothingToRemove, LogoutEnds
<1>2. ttl' \subseteq ttl \cup used
  BY KeptFacts DEF Expire, Throws, Die, Fresh, Writing, NothingToRemove, LogoutEnds
<1>3. \/ request' = [request EXCEPT ![a] = Idle]
      \/ request' = [request EXCEPT ![a] = After(a)]
      \/ request' = [request EXCEPT ![a] = AfterThrow(a)]
      \/ request' = [request EXCEPT ![a].pc = "stop"]
  BY DEF Expire, Throws, Die, NothingToRemove, LogoutEnds
<1>4. \/ request' = [request EXCEPT ![a] = Idle]
      \/ request' = [request EXCEPT ![a].pc = "del"] /\ request[a].last = "del"
      \/ \E pc \in {"principals", "stop"} : request' = [request EXCEPT ![a].pc = pc]
  BY <1>3, AfterMovesOrEnds DEF KeptInv
<1>5. \A b \in Actor \ {a} : request'[b] = request[b]
  BY <1>4, KeptFacts
<1>6. \/ request'[a] = Idle
      \/ /\ request'[a].sid = request[a].sid /\ request'[a].session = request[a].session
         /\ request'[a].last = request[a].last
         /\ request'[a].pc = "del" => request'[a].last = "del"
  BY <1>4, KeptFacts DEF Request
<1>7. Continues
  BY <1>5, <1>6, KeptFacts DEF Continues, Ending
<1>8. KeysStay /\ FoundStays /\ CopiesGo
  BY <1>1, <1>2 DEF KeysStay, FoundStays, CopiesGo
<1>. QED BY <1>7, <1>8, NothingBegun

LEMMA RestartKept ==
  ASSUME KeptInv, Inv', Restart
  PROVE  KeptInv'
<1>1. KeysStay /\ FoundStays /\ CopiesGo /\ Continues
  BY DEF Restart, KeysStay, FoundStays, CopiesGo, Continues, Waiting
<1>. QED BY <1>1, NothingBegun

LEMMA ListingKept ==
  ASSUME KeptInv, Inv', Scan \/ EndRun \/ \E s \in Sid : Fetch(s)
  PROVE  KeptInv'
<1>1. UNCHANGED <<redis, ttl, gone, missed, left, used, request, copies>>
  BY DEF Scan, EndRun, Fetch, histories
<1>2. KeysStay /\ CopiesGo
  BY <1>1 DEF KeysStay, CopiesGo
<1>3. Continues
  BY <1>1, KeptFacts DEF Continues, Ending
<1>4. validator \in Run
  BY KeptFacts DEF TypeOK
<1>5. ASSUME NEW x \in validator'.found
      PROVE  x \in validator.found \/ (x[1] \in used /\ ~Open(x[2]))
  <2>1. CASE Scan
    <3>1. validator'.found = validator.found
      BY <1>4, <2>1 DEF Scan, Run
    <3>. QED BY <3>1
  <2>3. CASE EndRun
    BY <2>3 DEF EndRun, Waiting
  <2>2. ASSUME NEW s \in Sid, Fetch(s)
        PROVE  x \in validator.found \/ (x[1] \in used /\ ~Open(x[2]))
    <3>1. \/ x \in validator.found
          \/ x = <<s, redis[s]>> /\ Invalid(redis[s])
      BY <1>4, <2>2 DEF Fetch, Run
    <3>. QED BY <3>1, KeptFacts DEF Invalid, Open, Fresh
  <2>. QED BY <2>1, <2>2, <2>3
<1>. QED BY <1>2, <1>3, <1>5, NothingBegun DEF FoundStays

LEMMA ValidateKept ==
  ASSUME KeptInv, Inv', NEW s \in Sid, NEW session \in Session, Validate(s, session)
  PROVE  KeptInv'
<1>. DEFINE r == [pc |-> "set", sid |-> s, session |-> session, last |-> "del", create |-> FALSE]
<1>1. /\ UNCHANGED <<redis, ttl, gone, missed, left, used, copies>>
      /\ request' = [request EXCEPT ![Validator] = r]
      /\ validator' = [validator EXCEPT !.found = @ \ {<<s, session>>}]
      /\ <<s, session>> \in validator.found
  BY DEF Validate, histories
<1>2. s \in used /\ ~Open(session)
  BY <1>1, KeptFacts DEF Found
<1>3. Proper(r)
  BY <1>1, <1>2 DEF Proper, FitsNow
<1>. HIDE DEF r
<1>4. \A a \in Actor : request'[a] = IF a = Validator THEN r ELSE request[a]
  BY <1>1, KeptFacts DEF Actor
<1>5. validator'.found \subseteq validator.found
  BY <1>1, KeptFacts DEF TypeOK, Run
<1>6. Own'
  BY <1>1, <1>4, KeptFacts, ActorAssumption DEF Own
<1>7. KeysStay /\ FoundStays /\ CopiesFit
  BY <1>1, <1>5 DEF KeysStay, FoundStays, CopiesFit
<1>8. WritesFit
  BY <1>3, <1>4 DEF WritesFit
<1>. QED BY <1>6, <1>7, <1>8, SameKeys

(***************************************************************************)
(* A key is written, deleted or times out.                                 *)
(***************************************************************************)

\* Only the key of s changes, and no open object of it differs from its new
\* value, or it was passed by.
OneKey(s) ==
  /\ UNCHANGED <<used, left, validator>> /\ missed \subseteq missed' /\ ttl' \subseteq ttl
  /\ s \in used
  /\ \A x \in Sid \ {s} : redis'[x] = redis[x] /\ (x \in gone' => x \in gone)
  /\ s \notin missed' =>
       /\ \A q \in Thread : copies'[q][s] = redis'[s] \/ ~Open(copies'[q][s])
       /\ \A a \in Actor : request'[a].sid = s =>
            request'[a].session = redis'[s] \/ ~Open(request'[a].session)
       /\ Open(redis'[s]) => s \notin gone'

LEMMA OneKeyKept ==
  ASSUME KeptInv, Inv', NEW s \in Sid, OneKey(s), CopiesGo, Continues
  PROVE  KeptInv'
<1>1. Own'
  BY KeptFacts DEF Own, CopiesGo, Continues, Idle
<1>2. Ending'
  BY KeptFacts, NullAssumption DEF Ending, Continues, Idle, Open
<1>3. Found'
  BY KeptFacts DEF Found, OneKey
<1>4. Fresh'
  BY KeptFacts DEF Fresh, OneKey, CopiesGo, Continues, Idle
<1>5. ASSUME NEW x \in Sid \ missed'
      PROVE  /\ Fits(x, redis[x])'
             /\ \A q \in Thread : Fits(x, copies[q][x])'
             /\ \A a \in Actor : request'[a].sid = x => Fits(x, request[a].session)'
  <2>1. CASE x = s
    BY <2>1 DEF OneKey, Fits, Ended, Invalid, Open
  <2>2. CASE x # s
    <3>1. /\ redis'[x] = redis[x] /\ x \notin missed
          /\ Ended(x)' => Ended(x)
      BY <2>2 DEF OneKey, Ended
    <3>2. ASSUME NEW v, Fits(x, v)
          PROVE  Open(v) => /\ ~Ended(x)'
                            /\ x \notin left' /\ Open(redis'[x]) /\ redis'[x].user # Null => v.user # Null
      BY <3>1, <3>2 DEF Fits, OneKey
    <3>3. Fits(x, redis[x]) /\ Fits(x, Null)
      BY <3>1, KeptFacts DEF Fitting, Fits, Open
    <3>4. ASSUME NEW q \in Thread PROVE Fits(x, copies'[q][x])
      BY <3>1, <3>3, KeptFacts DEF Fitting, CopiesGo
    <3>5. ASSUME NEW a \in Actor, request'[a].sid = x  PROVE Fits(x, request'[a].session)
      BY <3>1, <3>5, KeptFacts DEF Fitting, Continues, Idle
    <3>. QED BY <3>1, <3>2, <3>3, <3>4, <3>5 DEF Fits
  <2>. QED BY <2>1, <2>2
<1>6. Fitting'
  BY <1>5 DEF Fitting
<1>. QED BY <1>1, <1>2, <1>3, <1>4, <1>6 DEF KeptInv


LEMMA SetKept ==
  ASSUME KeptInv, Inv', NEW a \in Actor, Set(a)
  PROVE  KeptInv'
<1>. DEFINE s == request[a].sid
            v == request[a].session
<1>1. /\ redis' = [redis EXCEPT ![s] = v] /\ ttl' = ttl \ {s}
      /\ missed' = IF PassedBy(a, s, v) THEN missed \cup {s} ELSE missed
      /\ request' = [request EXCEPT ![a].pc = "expire"] /\ request[a].pc = "set"
      /\ UNCHANGED <<copies, validator, used, gone, left>>
  BY DEF Set, Miss
<1>2. s \in Sid /\ v \in Session /\ s \in used
  BY <1>1, KeptFacts DEF Writing, Fresh
<1>3. /\ redis'[s] = v
      /\ \A x \in Sid \ {s} : redis'[x] = redis[x]
  BY <1>1, <1>2, KeptFacts
<1>4. /\ request'[a].sid = s /\ request'[a].session = v
      /\ request'[a].last = request[a].last /\ request'[a].pc = "expire"
      /\ \A o \in Actor \ {a} : request'[o] = request[o]
  BY <1>1, KeptFacts DEF Request
<1>5. Continues
  BY <1>4, KeptFacts DEF Continues, Ending
<1>6. CopiesGo
  BY <1>1 DEF CopiesGo
<1>7. ASSUME s \notin missed'
      PROVE  /\ \A q \in Thread : copies'[q][s] = v \/ ~Open(copies'[q][s])
             /\ \A o \in Actor : request'[o].sid = s =>
                  request'[o].session = v \/ ~Open(request'[o].session)
             /\ Open(v) => s \notin gone'
  <2>1. s \notin missed /\ ~PassedBy(a, s, v)
    BY <1>1, <1>7
  <2>2. a \in Thread => copies[a][s] \in {v, Null}
    BY <1>2, KeptFacts DEF Own
  <2>3. \A q \in Thread : copies'[q][s] = v \/ ~Open(copies'[q][s])
    BY <1>1, <2>1, <2>2 DEF PassedBy, Open
  <2>4. Open(v) => s \notin gone'
    BY <1>1, <1>2, <2>1, KeptFacts DEF Fitting, Fits, Ended
  <2>. QED BY <1>4, <2>1, <2>3, <2>4 DEF PassedBy
<1>. HIDE DEF s, v
<1>8. OneKey(s)
  BY <1>1, <1>2, <1>3, <1>7 DEF OneKey
<1>. QED BY <1>2, <1>5, <1>6, <1>8, OneKeyKept

LEMMA DelKept ==
  ASSUME KeptInv, Inv', NEW a \in Actor, Del(a)
  PROVE  KeptInv'
<1>. DEFINE s == request[a].sid
<1>1. /\ redis' = [redis EXCEPT ![s] = Null] /\ ttl' = ttl \ {s} /\ gone' = gone \cup {s}
      /\ missed' = IF PassedBy(a, s, Null) THEN missed \cup {s} ELSE missed
      /\ request' = [request EXCEPT ![a] = Idle] /\ request[a].pc = "del"
      /\ UNCHANGED <<copies, validator, used, left>>
  BY DEF Del, Miss
<1>2. s \in Sid /\ s \in used /\ ~Open(request[a].session)
  BY <1>1, KeptFacts DEF Writing, Fresh, Ending
<1>3. /\ redis'[s] = Null
      /\ \A x \in Sid \ {s} : redis'[x] = redis[x]
  BY <1>1, <1>2, KeptFacts
<1>4. /\ request'[a] = Idle
      /\ \A o \in Actor \ {a} : request'[o] = request[o]
  BY <1>1, KeptFacts
<1>5. Continues
  BY <1>4, KeptFacts DEF Continues, Ending
<1>6. CopiesGo
  BY <1>1 DEF CopiesGo
<1>7. ASSUME s \notin missed'
      PROVE  /\ \A q \in Thread : ~Open(copies'[q][s])
             /\ \A o \in Actor : request'[o].sid = s => ~Open(request'[o].session)
  <2>1. ~PassedBy(a, s, Null)
    BY <1>1, <1>7
  <2>2. a \in Thread => copies[a][s] \in {request[a].session, Null}
    BY <1>2, KeptFacts DEF Own
  <2>3. \A q \in Thread : ~Open(copies'[q][s])
    BY <1>1, <1>2, <2>1, <2>2 DEF PassedBy, Open
  <2>4. ~Open(Idle.session)
    BY DEF Idle, Open
  <2>. QED BY <1>4, <2>1, <2>3, <2>4 DEF PassedBy, Open
<1>8. ~Open(Null)
  BY DEF Open
<1>. HIDE DEF s
<1>9. OneKey(s)
  BY <1>1, <1>2, <1>3, <1>7, <1>8 DEF OneKey
<1>. QED BY <1>2, <1>5, <1>6, <1>9, OneKeyKept

LEMMA ClockKept ==
  ASSUME KeptInv, Inv', NEW s \in Sid, KeyExpires(s) \/ TimeOut(s)
  PROVE  KeptInv'
<1>1. /\ UNCHANGED <<request, validator, used, missed, left>>
      /\ copies' = [q \in Thread |-> [copies[q] EXCEPT ![s] = Null]]
      /\ ttl' \subseteq ttl /\ gone' \subseteq gone \cup {s}
      /\ \A a \in Actor : request[a].sid # s
  BY DEF KeyExpires, TimeOut, Unused, Forget, histories
<1>2. s \in used
  BY KeptFacts DEF KeyExpires, TimeOut, Fresh, Open
<1>3. /\ ~Open(redis'[s])
      /\ \A x \in Sid \ {s} : redis'[x] = redis[x]
  <2>1. CASE KeyExpires(s)
    BY <2>1, KeptFacts DEF KeyExpires, Open
  <2>2. CASE TimeOut(s)
    BY <2>2, KeptFacts DEF TimeOut, Open, Session
  <2>. QED BY <2>1, <2>2
<1>4. \A q \in Thread, x \in Sid : copies'[q][x] = IF x = s THEN Null ELSE copies[q][x]
  BY <1>1, KeptFacts
<1>5. CopiesGo
  BY <1>4 DEF CopiesGo
<1>6. Continues
  BY <1>1, KeptFacts DEF Continues, Ending
<1>7. OneKey(s)
  BY <1>1, <1>2, <1>3, <1>4 DEF OneKey, Open
<1>. QED BY <1>5, <1>6, <1>7, OneKeyKept

LEMMA NextKept == KeptInv /\ Inv' /\ [Next]_vars => KeptInv'
<1>. SUFFICES ASSUME KeptInv, Inv', [Next]_vars PROVE KeptInv'
  OBVIOUS
<1>1. ASSUME NEW q \in Thread, Client(q) PROVE KeptInv'
  BY <1>1, ClientKept
<1>9. ASSUME NEW q \in Thread, LogsOut(q) PROVE KeptInv'
  BY <1>9, ClientKept, MovingKept DEF LogsOut, Actor
<1>2. ASSUME NEW q \in Thread, Throws(q) PROVE KeptInv'
  BY <1>2, MovingKept DEF Actor
<1>3. ASSUME NEW a \in Actor, Command(a) PROVE KeptInv'
  BY <1>3, SetKept, MovingKept, DelKept DEF Command
<1>4. CASE Clock
  BY <1>4, ClockKept, CopyExpiresKept DEF Clock
<1>5. CASE Validation
  <2>1. CASE Scan \/ EndRun \/ \E s \in Sid : Fetch(s)
    BY <2>1, ListingKept
  <2>2. CASE NullSession
    BY <2>2, MovingKept DEF NullSession, Actor
  <2>3. ASSUME NEW s \in Sid, NEW session \in Session, Validate(s, session) PROVE KeptInv'
    BY <2>3, ValidateKept
  <2>. QED BY <1>5, <2>1, <2>2, <2>3 DEF Validation
<1>6. CASE RunThrows
  BY <1>6, MovingKept DEF RunThrows, Actor
<1>7. CASE Restart
  BY <1>7, RestartKept
<1>8. CASE UNCHANGED vars
  <2>1. KeysStay /\ FoundStays /\ CopiesGo
    BY <1>8 DEF vars, histories, KeysStay, FoundStays, CopiesGo
  <2>2. Continues
    BY <1>8, KeptFacts DEF vars, Continues, Ending
  <2>. QED BY <2>1, <2>2, NothingBegun
<1>. QED BY <1>1, <1>2, <1>3, <1>4, <1>5, <1>6, <1>7, <1>8, <1>9 DEF Next, Running

LEMMA InitKept == Init => KeptInv
<1>. SUFFICES ASSUME Init PROVE KeptInv
  OBVIOUS
<1>1. Inv
  BY InitInv
<1>2. \A a \in Actor : request[a] = Idle
  BY DEF Init
<1>3. Fitting
  BY <1>2, NullAssumption DEF Init, Fitting, Fits, Open, Idle
<1>4. Ending /\ Own
  BY <1>2, NullAssumption DEF Init, Ending, Own, Idle, Open
<1>5. Found /\ Fresh
  BY <1>2 DEF Init, Found, Fresh, Waiting, Idle
<1>. QED BY <1>1, <1>3, <1>4, <1>5 DEF KeptInv

\* No object and no write contradicts Redis, until one is passed by.
THEOREM Keeping == Spec => []KeptInv
<1>1. Init => KeptInv
  BY InitKept
<1>2. KeptInv /\ [Next]_vars => KeptInv'
  BY NextInv, NextKept DEF KeptInv
<1>. QED BY <1>1, <1>2, PTL DEF Spec

\* Where a key becomes an open session, that session was written to it and fits.
LEMMA OpenedFits ==
  ASSUME KeptInv, [Next]_vars, NEW s \in Sid, Open(redis'[s])
  PROVE  redis'[s] = redis[s] \/ \E a \in Actor : request[a].sid = s /\ redis'[s] = request[a].session
<1>1. UNCHANGED redis \/ (\E a \in Actor : Set(a) \/ Del(a)) \/ \E x \in Sid : KeyExpires(x) \/ TimeOut(x)
  <2>1. ASSUME NEW q \in Thread, Client(q) \/ LogsOut(q) \/ Throws(q)  PROVE UNCHANGED redis
    BY <2>1 DEF Client, LogsOut, DoCreate, ReadSession, Touch, Logout, Stop, Invalidate, Login,
       Write, RemovePrincipals, NothingToRemove, LogoutEnds, Throws
  <2>2. ASSUME NEW a \in Actor, Expire(a)  PROVE UNCHANGED redis
    BY <2>2 DEF Expire
  <2>3. ASSUME NEW q \in Thread, NEW x \in Sid, CopyExpires(q, x)  PROVE UNCHANGED redis
    BY <2>3 DEF CopyExpires
  <2>4. Validation \/ RunThrows \/ Restart => UNCHANGED redis
    BY DEF Validation, Scan, EndRun, NullSession, Die, Fetch, Validate, RunThrows, Restart
  <2>. QED BY <2>1, <2>2, <2>3, <2>4 DEF Next, Running, vars, Command, Clock
<1>2. ASSUME NEW a \in Actor, Set(a)
      PROVE  redis'[s] = redis[s] \/ (request[a].sid = s /\ redis'[s] = request[a].session)
  BY <1>2, KeptFacts DEF Set
<1>3. ASSUME NEW a \in Actor, Del(a)  PROVE redis'[s] = redis[s]
  BY <1>3, KeptFacts DEF Del, Open
<1>4. ASSUME NEW x \in Sid, KeyExpires(x) \/ TimeOut(x)  PROVE redis'[s] = redis[s]
  <2>1. CASE KeyExpires(x)
    BY <2>1, KeptFacts DEF KeyExpires, Open
  <2>2. CASE TimeOut(x)
    BY <2>2, KeptFacts DEF TimeOut, Open, Session
  <2>. QED BY <1>4, <2>1, <2>2
<1>. QED BY <1>1, <1>2, <1>3, <1>4

\* What was passed by stays so.
LEMMA MissedGrows ==
  ASSUME [Next]_vars
  PROVE  missed \subseteq missed'
<1>1. ASSUME NEW q \in Thread, Client(q) \/ LogsOut(q)  PROVE missed' = missed
  BY <1>1 DEF Client, LogsOut, DoCreate, ReadSession, Touch, Logout, Stop, Invalidate, Login,
     Write, RemovePrincipals, NothingToRemove, LogoutEnds, histories
<1>2. ASSUME NEW a \in Actor, Command(a)  PROVE missed \subseteq missed'
  BY <1>2 DEF Command, Set, Del, Miss, Expire, histories
<1>3. Clock \/ Validation \/ RunThrows \/ Restart => missed' = missed
  BY DEF Clock, CopyExpires, KeyExpires, TimeOut, Validation, Scan, EndRun, NullSession, Die,
     Fetch, Validate, RunThrows, Restart, histories
<1>4. ASSUME NEW q \in Thread, Throws(q)  PROVE missed' = missed
  BY <1>4 DEF Throws
<1>. QED BY <1>1, <1>2, <1>3, <1>4 DEF Next, Running, vars

\* RedisSessionDAO.update and its callers: a session that ended does not come
\* back and no principal is lost that no logout takes away, whatever threads
\* write, throw, and forget, unless an object was passed by.
THEOREM EndedDoStay == Spec => EndedStaysEnded
<1>. DEFINE Stays == \A s \in Sid \ missed' :
       /\ s \in gone \/ Invalid(redis[s]) => ~Open(redis'[s])
       /\ Open(redis[s]) /\ Open(redis'[s]) /\ redis[s].user # Null
            => redis'[s].user # Null \/ s \in left
<1>1. KeptInv /\ [Next]_vars => [Stays]_vars
  <2>. SUFFICES ASSUME KeptInv, [Next]_vars, NEW s \in Sid \ missed', Open(redis'[s])
                PROVE  /\ ~(s \in gone \/ Invalid(redis[s]))
                       /\ Open(redis[s]) /\ redis[s].user # Null
                            => redis'[s].user # Null \/ s \in left
    OBVIOUS
  <2>1. missed \subseteq missed'
    BY MissedGrows
  <2>2. Fits(s, redis'[s])
    BY <2>1, OpenedFits, KeptFacts DEF Fitting
  <2>. QED BY <2>2 DEF Fits, Ended
<1>. HIDE DEF Stays
<1>2. Spec => [][Stays]_vars
  BY <1>1, Keeping, PTL DEF Spec
<1>. QED BY <1>2 DEF EndedStaysEnded, Stays

=============================================================================
