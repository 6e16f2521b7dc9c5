---------------------------- MODULE KickoutControl ----------------------------
(***************************************************************************)
(* KickoutSessionControlFilter: at most maxSession sessions of a user.     *)
(*                                                                         *)
(* Every request of a logged-in user passes the filter. It reads the       *)
(* user's queue of session ids from Redis, adds the own session in front,  *)
(* stops the sessions that are too many, and writes the queue back. Nothing*)
(* locks the queue, and a thread goes on with the objects of sessions it   *)
(* read up to a second ago (RedisSessions has the commands in detail; here *)
(* an object is written, or a key deleted, in one step).                   *)
(***************************************************************************)
EXTENDS Naturals, Sequences, FiniteSets

CONSTANTS
  Thread,           \* the threads that serve requests
  Sid,              \* session ids (generated, never used twice)
  User,             \* user names
  Null,             \* null, and the value of a missing key
  Limits            \* the values maxSession may be set to

ASSUME LimitsAssumption == Limits \subseteq Nat \ {0}

ASSUME NullAssumption ==
  Null \notin User \cup Sid \cup [user : User, state : {"open", "kicked", "stopped"}]

VARIABLES
  maxSession,   \* the properties of the filter, set before the first request:
  kickoutAfter, \* how many sessions, and whether the later ones are stopped
  redis,       \* the value of each session's key
  queue,       \* the value of each user's key: a sequence of session ids
  copies,      \* sessionsInThread: each thread's object of each session
  request,     \* the request each thread is serving
  castFailed,  \* whether a request has ended with a ClassCastException
  used,        \* the ids that were generated
  admitted,    \* history: the sessions that were let through to a user's pages
               \* since two of the user's requests overlapped or one failed
  relogged     \* history: the sessions that were logged in for two users

settings == <<maxSession, kickoutAfter>>
vars == <<settings, redis, queue, copies, request, castFailed, used, admitted, relogged>>
stored == <<redis, queue, copies>>
histories == <<admitted, relogged>>

(***************************************************************************)
(* Types.                                                                  *)
(***************************************************************************)

\* "kicked" is an open session with the attribute kickout.
Session == [user : User, state : {"open", "kicked", "stopped"}]

\* A request: the session and the subject's user, the local deque, the session
\* to be stopped, and (history) whether it met no other request of the user.
Request == [pc : {"idle", "touch", "read", "push", "kick", "stop", "check", "handler"},
            sid : Sid \cup {Null}, user : User \cup {Null}, deque : Seq(Sid),
            victim : Sid \cup {Null}, alone : BOOLEAN]

Idle == [pc |-> "idle", sid |-> Null, user |-> Null, deque |-> <<>>,
         victim |-> Null, alone |-> TRUE]

TypeOK ==
  /\ maxSession \in Limits /\ kickoutAfter \in BOOLEAN
  /\ redis \in [Sid -> Session \cup {Null}]
  /\ queue \in [User -> Seq(Sid)]
  /\ \A u \in User : Len(queue[u]) <= maxSession
  /\ copies \in [Thread -> [Sid -> Session \cup {Null}]]
  /\ request \in [Thread -> Request]
  /\ castFailed \in BOOLEAN
  /\ used \subseteq Sid /\ relogged \subseteq Sid
  /\ admitted \in [User -> SUBSET Sid]

Init ==
  /\ maxSession \in Limits /\ kickoutAfter \in BOOLEAN
  /\ redis = [s \in Sid |-> Null]
  /\ queue = [u \in User |-> <<>>]
  /\ copies = [q \in Thread |-> [s \in Sid |-> Null]]
  /\ request = [q \in Thread |-> Idle]
  /\ castFailed = FALSE
  /\ used = {} /\ relogged = {}
  /\ admitted = [u \in User |-> {}]

(***************************************************************************)
(* Sessions.                                                               *)
(***************************************************************************)

\* doReadSession: the thread's object if it has one, else the value in Redis.
Lookup(q, s) == IF copies[q][s] # Null THEN copies[q][s] ELSE redis[s]

\* A session that is there and not stopped; every other lookup throws.
Valid(v) == v # Null /\ v.state # "stopped"

\* update: the object is stored, and kept by the thread.
Store(q, s, v) ==
  /\ redis' = [redis EXCEPT ![s] = v]
  /\ copies' = [copies EXCEPT ![q][s] = v]

\* stop: the object, which the thread keeps, is stopped and the key deleted.
StopSession(q, s) ==
  /\ redis' = [redis EXCEPT ![s] = Null]
  /\ copies' = [copies EXCEPT ![q][s] = [Lookup(q, s) EXCEPT !.state = "stopped"]]

\* A lookup that throws: a stopped object is found, and its key deleted.
LookupThrows(q, s) ==
  /\ redis' = IF Lookup(q, s) # Null THEN [redis EXCEPT ![s] = Null] ELSE redis
  /\ copies' = [copies EXCEPT ![q][s] = Lookup(q, s)]

LookupKeeps(q, s) ==
  /\ copies' = [copies EXCEPT ![q][s] = Lookup(q, s)]
  /\ UNCHANGED redis

Goto(q, pc) == request' = [request EXCEPT ![q].pc = pc]

End(q) == request' = [request EXCEPT ![q] = Idle]

\* What happened to this request breaks the count of admitted sessions.
Disturb(q) == admitted' = [admitted EXCEPT ![request[q].user] = {}]

(***************************************************************************)
(* A request arrives.                                                      *)
(***************************************************************************)

\* The other requests about the same user or the same session.
Met(q, s, u) == {o \in Thread \ {q} : request[o].user = u \/ request[o].sid = s}

\* The requests that thread q's request meets are not alone any more, and the
\* count of their users' sessions starts again.
Meet(q, s, u) ==
  [o \in Thread |-> [request[o] EXCEPT !.alone = @ /\ o \notin Met(q, s, u)]]

Recount(q, s, u) ==
  LET users == {u} \cup {request[o].user : o \in Met(q, s, u)}
  IN IF Met(q, s, u) = {} THEN admitted
     ELSE [w \in User |-> IF w \in users THEN {} ELSE admitted[w]]

\* The login page, which the filter does not guard: a new session is made...
Login(q, s, u) ==
  /\ request[q] = Idle
  /\ s \notin used
  /\ Store(q, s, [user |-> u, state |-> "open"])
  /\ used' = used \cup {s}
  /\ UNCHANGED <<queue, request, castFailed, histories>>

\* ... or the browser's session gets another principal.
Relogin(q, s, u) ==
  /\ request[q] = Idle
  /\ Valid(Lookup(q, s)) /\ Lookup(q, s).user # u
  /\ Store(q, s, [Lookup(q, s) EXCEPT !.user = u])
  /\ relogged' = relogged \cup {s}
  /\ request' = Meet(q, s, u)
  /\ admitted' = [w \in User |-> Recount(q, s, u)[w] \ {s}]
  /\ UNCHANGED <<queue, castFailed, used>>

\* A request with the cookie of a session: Shiro reads it and builds the
\* subject. Without a valid session there is no user and nothing to control.
Arrive(q, s) ==
  LET u == Lookup(q, s).user
  IN /\ request[q] = Idle
     /\ Valid(Lookup(q, s))
     /\ LookupKeeps(q, s)
     /\ request' = [Meet(q, s, u) EXCEPT ![q] = [Idle EXCEPT
          !.pc = "touch", !.sid = s, !.user = u, !.alone = (Met(q, s, u) = {})]]
     /\ admitted' = Recount(q, s, u)
     /\ UNCHANGED <<queue, castFailed, used, relogged>>

\* The session's last access is stored; what this throws is logged.
Touch(q) ==
  LET s == request[q].sid
  IN /\ request[q].pc = "touch"
     /\ IF Valid(Lookup(q, s)) THEN Store(q, s, Lookup(q, s)) ELSE LookupThrows(q, s)
     /\ Goto(q, "read")
     /\ UNCHANGED <<queue, castFailed, used, histories>>

(***************************************************************************)
(* onAccessDenied.                                                         *)
(***************************************************************************)

\* Seeded fault: the queue's ids never equal the session's.
ContainsNothing(deque, s) == FALSE

Contains(deque, s) == \E i \in DOMAIN deque : deque[i] = s

\* The principal is the user name, which the filter casts to User.
CastFails(q) ==
  /\ request[q].pc = "read"
  /\ End(q)
  /\ castFailed' = TRUE
  /\ Disturb(q)
  /\ UNCHANGED <<stored, used, relogged>>

\* The queue is read; the attribute of a session that it has is not.
ReadQueue(q) ==
  LET deque == queue[request[q].user]
  IN /\ request[q].pc = "read"
     /\ request' = [request EXCEPT ![q].deque = deque,
          ![q].pc = IF Contains(deque, request[q].sid) THEN "kick" ELSE "push"]
     /\ UNCHANGED <<stored, castFailed, used, histories>>

\* A session that was not kicked out is pushed in front.
Push(q) ==
  LET s == request[q].sid
  IN /\ request[q].pc = "push"
     /\ Valid(Lookup(q, s))
     /\ LookupKeeps(q, s)
     /\ request' = [request EXCEPT ![q].pc = "kick",
          ![q].deque = IF Lookup(q, s).state = "open" THEN <<s>> \o @ ELSE @]
     /\ UNCHANGED <<queue, castFailed, used, histories>>

\* The attribute of the own session cannot be read.
PushThrows(q) ==
  /\ request[q].pc = "push"
  /\ ~Valid(Lookup(q, request[q].sid))
  /\ LookupThrows(q, request[q].sid)
  /\ End(q)
  /\ Disturb(q)
  /\ UNCHANGED <<queue, castFailed, used, relogged>>

\* Seeded fault: off by one.
TooManyByOne(deque) == Len(deque) > maxSession + 1

TooMany(deque) == Len(deque) > maxSession

Victim(deque) == IF kickoutAfter THEN Head(deque) ELSE deque[Len(deque)]

Rest(deque) == IF kickoutAfter THEN Tail(deque) ELSE SubSeq(deque, 1, Len(deque) - 1)

\* Seeded fault: the session is removed from the queue and not stopped.
KickFromQueue(q) ==
  LET deque == request[q].deque
  IN /\ request[q].pc = "kick"
     /\ TooMany(deque)
     /\ Valid(Lookup(q, Victim(deque)))
     /\ request' = [request EXCEPT ![q].deque = Rest(deque)]
     /\ UNCHANGED <<stored, castFailed, used, histories>>

\* One session too many: it gets the attribute kickout...
Kick(q) ==
  LET deque == request[q].deque
      v == Victim(deque)
  IN /\ request[q].pc = "kick"
     /\ TooMany(deque)
     /\ Valid(Lookup(q, v))
     /\ Store(q, v, [Lookup(q, v) EXCEPT !.state = "kicked"])
     /\ request' = [request EXCEPT ![q].pc = "stop", ![q].deque = Rest(deque), ![q].victim = v]
     /\ UNCHANGED <<queue, castFailed, used, histories>>

\* ... unless it is there no more: the exception is ignored.
KickIgnored(q) ==
  LET deque == request[q].deque
  IN /\ request[q].pc = "kick"
     /\ TooMany(deque)
     /\ ~Valid(Lookup(q, Victim(deque)))
     /\ LookupThrows(q, Victim(deque))
     /\ request' = [request EXCEPT ![q].deque = Rest(deque)]
     /\ UNCHANGED <<queue, castFailed, used, histories>>

\* ... and is stopped.
StopVictim(q) ==
  LET v == request[q].victim
  IN /\ request[q].pc = "stop"
     /\ IF Valid(Lookup(q, v)) THEN StopSession(q, v) ELSE LookupThrows(q, v)
     /\ request' = [request EXCEPT ![q].pc = "kick", ![q].victim = Null]
     /\ UNCHANGED <<queue, castFailed, used, histories>>

\* Seeded fault: the changed queue is not written back.
WriteNothing(q) ==
  /\ request[q].pc = "kick"
  /\ ~TooMany(request[q].deque)
  /\ request' = [request EXCEPT ![q].pc = "check", ![q].deque = <<>>]
  /\ UNCHANGED <<stored, castFailed, used, histories>>

WriteQueue(q) ==
  /\ request[q].pc = "kick"
  /\ ~TooMany(request[q].deque)
  /\ queue' = [queue EXCEPT ![request[q].user] = request[q].deque]
  /\ request' = [request EXCEPT ![q].pc = "check", ![q].deque = <<>>]
  /\ UNCHANGED <<redis, copies, castFailed, used, histories>>

\* The own session was not kicked out: the request goes on to its handler.
LetThrough(q) ==
  LET s == request[q].sid
  IN /\ request[q].pc = "check"
     /\ Valid(Lookup(q, s)) /\ Lookup(q, s).state = "open"
     /\ LookupKeeps(q, s)
     /\ Goto(q, "handler")
     /\ admitted' = [admitted EXCEPT ![request[q].user] =
          IF request[q].alone THEN @ \cup {s} ELSE {}]
     /\ UNCHANGED <<queue, castFailed, used, relogged>>

\* It was, and is stopped.
Redirect(q) ==
  LET s == request[q].sid
  IN /\ request[q].pc = "check"
     /\ Valid(Lookup(q, s)) /\ Lookup(q, s).state = "kicked"
     /\ StopSession(q, s)
     /\ End(q)
     /\ UNCHANGED <<queue, castFailed, used, histories>>

\* It is not there any more, and its attribute cannot be read.
CheckThrows(q) ==
  /\ request[q].pc = "check"
  /\ ~Valid(Lookup(q, request[q].sid))
  /\ LookupThrows(q, request[q].sid)
  /\ End(q)
  /\ UNCHANGED <<queue, castFailed, used, histories>>

(***************************************************************************)
(* Behind the filter.                                                      *)
(***************************************************************************)

Handle(q) ==
  /\ request[q].pc = "handler"
  /\ End(q)
  /\ UNCHANGED <<stored, castFailed, used, histories>>

\* (That a logout writes the open session without its principal before it stops
\* it is left to RedisSessions.)
Logout(q) ==
  LET s == request[q].sid
  IN /\ request[q].pc = "handler"
     /\ IF Valid(Lookup(q, s)) THEN StopSession(q, s) ELSE LookupThrows(q, s)
     /\ End(q)
     /\ UNCHANGED <<queue, castFailed, used, histories>>

(***************************************************************************)
(* Failures and time.                                                      *)
(***************************************************************************)

\* Redis throws: at the touch this is logged, while a session is being kicked
\* out it is ignored.
Fail(q) ==
  \/ /\ request[q].pc = "touch"
     /\ request' = [request EXCEPT ![q].pc = "read", ![q].alone = FALSE]
     /\ UNCHANGED <<stored, castFailed, used, histories>>
  \/ /\ request[q].pc \notin {"idle", "touch", "kick", "stop", "handler"}
     /\ End(q)
     /\ Disturb(q)
     /\ UNCHANGED <<stored, castFailed, used, relogged>>
  \/ /\ request[q].pc = "kick"
     /\ IF TooMany(request[q].deque)
          THEN request' = [request EXCEPT ![q].deque = Rest(@), ![q].alone = FALSE]
          ELSE End(q)
     /\ Disturb(q)
     /\ UNCHANGED <<stored, castFailed, used, relogged>>
  \/ /\ request[q].pc = "stop"
     /\ request' = [request EXCEPT ![q].pc = "kick", ![q].victim = Null]
     /\ UNCHANGED <<stored, castFailed, used, histories>>

\* The thread's object was put there sessionInMemoryTimeout ago.
CopyExpires(q, s) ==
  /\ copies[q][s] # Null
  /\ copies' = [copies EXCEPT ![q][s] = Null]
  /\ UNCHANGED <<redis, queue, request, castFailed, used, histories>>

(***************************************************************************)
(* The specification.                                                      *)
(***************************************************************************)

Client(q) == \E s \in Sid : Arrive(q, s) \/ \E u \in User : Login(q, s, u) \/ Relogin(q, s, u)

OnAccessDenied(q) ==
  \/ ReadQueue(q)
  \/ Push(q) \/ PushThrows(q)
  \/ Kick(q) \/ KickIgnored(q) \/ StopVictim(q)
  \/ WriteQueue(q)
  \/ LetThrough(q) \/ Redirect(q) \/ CheckThrows(q)

Next ==
  /\ UNCHANGED settings
  /\ \E q \in Thread :
       \/ Client(q)
       \/ Touch(q) \/ OnAccessDenied(q) \/ Handle(q) \/ Logout(q)
       \/ Fail(q)
       \/ \E s \in Sid : CopyExpires(q, s)

\* With the User as principal, as the filter's comment says it is.
Spec == Init /\ [][Next]_vars

\* With ShiroDbRealm, whose principal is the user name.
WiredNext ==
  /\ UNCHANGED settings
  /\ \E q \in Thread :
    \/ Client(q) \/ Touch(q) \/ CastFails(q) \/ Fail(q)
    \/ \E s \in Sid : CopyExpires(q, s)

(***************************************************************************)
(* Properties.                                                             *)
(***************************************************************************)

Quiet(u) == \A q \in Thread : request[q].user # u

OpenFor(s, u) == redis[s] # Null /\ redis[s].user = u /\ redis[s].state = "open"

\* Between requests, no more than maxSession open sessions of a user are ones
\* that were let through, counted anew when two requests of the user overlap
\* or one fails: whatever such an accident leaves is healed by the sessions'
\* next requests, and stale objects of a second ago do not spoil it.
LimitHolds ==
  \A u \in User :
    Quiet(u) => Cardinality({s \in admitted[u] : OpenFor(s, u)}) <= maxSession

\* A request that met no other one of its user and was let through has its
\* session open and in the queue, to be found when another one logs in, unless
\* the session was logged in for another user.
LetThroughStays ==
  \A q \in Thread :
    request[q].pc = "handler" /\ request[q].alone /\ request[q].sid \notin relogged =>
      /\ OpenFor(request[q].sid, request[q].user)
      /\ Contains(queue[request[q].user], request[q].sid)

\* As it is wired, with one session for a user and the oldest one stopped, a
\* session that the filter stops in a request that meets no other one is a
\* session of the same user and one of more than maxSession, unless it or the
\* session of the request was logged in for another user.
KicksOneTooMany ==
  maxSession = 1 /\ ~kickoutAfter => \A q \in Thread :
    LET v == request'[q].victim
        u == request[q].user
    IN request[q].pc = "kick" /\ request'[q].pc = "stop" /\ request[q].alone
         /\ redis[v] # Null /\ {v, request[q].sid} \cap relogged = {}
         => /\ redis[v].user = u
            /\ Cardinality({s \in Sid : redis[s] # Null /\ redis[s].user = u}) > maxSession

NoNeedlessKick == [][KicksOneTooMany]_vars

\* The principal that the filter gets from the subject is the User it casts it
\* to: no request ends with a ClassCastException.
PrincipalIsTheEntity == ~castFailed
=============================================================================
