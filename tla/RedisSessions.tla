---------------------------- MODULE RedisSessions ----------------------------
(***************************************************************************)
(* Shiro sessions kept in Redis by RedisSessionDAO and                     *)
(* WorkAloneRedisManager, as spring-shiro.xml wires them.                  *)
(*                                                                         *)
(* A server thread that needs a session takes the object it keeps in a     *)
(* ThreadLocal, or reads Redis; it changes the object and writes all of it *)
(* back with SET and then EXPIRE. Stopping a session, and finding it       *)
(* invalid, end with DEL. Another thread has another object. Beside the    *)
(* threads runs the validation scheduler, which lists the keys, gets each  *)
(* value and deletes the invalid ones.                                     *)
(***************************************************************************)
EXTENDS Naturals

CONSTANTS
  Thread,      \* the threads that serve requests
  Validator,   \* the thread of the validation scheduler
  Sid,         \* session ids (generated, never used twice)
  User,        \* principals
  Null         \* null, and the value of a key that Redis does not have

ASSUME ActorAssumption == Validator \notin Thread

ASSUME NullAssumption ==
  Null \notin User \cup Sid \cup [user : User \cup {Null}, state : {"open", "stopped", "timedOut"}]

VARIABLES
  redis,       \* the value of each session's key
  ttl,         \* the keys that have a time to live
  copies,      \* sessionsInThread: each thread's object of each session
  request,     \* the write each actor is in the middle of
  validator,   \* the run of the validation scheduler
  used,        \* the ids that were generated
  gone,        \* history: the sessions whose key was deleted or expired
  missed,      \* history: the sessions of which a thread kept an open object
               \* that a write or a deletion by another thread passed by
  left,        \* history: the sessions whose principal a logout has taken away
  broken       \* history: the sessions left between SET and EXPIRE by a failure

vars == <<redis, ttl, copies, request, validator, used, gone, missed,
          left, broken>>
histories == <<gone, missed, left, broken>>

(***************************************************************************)
(* Types.                                                                  *)
(***************************************************************************)

Actor == Thread \cup {Validator}

\* SimpleSession: the principal in its attributes; stopped, or past its timeout.
Session == [user : User \cup {Null}, state : {"open", "stopped", "timedOut"}]

\* The command or the part of a logout that is next, the object last written,
\* and the last command of this write or the part of a logout that follows it.
Request == [pc : {"idle", "set", "expire", "del", "principals", "stop"},
            sid : Sid \cup {Null}, session : Session \cup {Null},
            last : {"expire", "del", "principals", "stop"}, create : BOOLEAN]

Idle == [pc |-> "idle", sid |-> Null, session |-> Null, last |-> "expire", create |-> FALSE]

\* `keys` are still to be read; `found` are the invalid sessions read; `gap`
\* tells that a listed key had no value any more.
Run == [pc : {"waiting", "running", "dead"}, keys : SUBSET Sid,
        found : SUBSET (Sid \X Session), gap : BOOLEAN]

Waiting == [pc |-> "waiting", keys |-> {}, found |-> {}, gap |-> FALSE]

TypeOK ==
  /\ redis \in [Sid -> Session \cup {Null}]
  /\ ttl \subseteq Sid
  /\ copies \in [Thread -> [Sid -> Session \cup {Null}]]
  /\ request \in [Actor -> Request]
  /\ validator \in Run
  /\ used \subseteq Sid /\ gone \subseteq Sid /\ missed \subseteq Sid
  /\ left \subseteq Sid /\ broken \subseteq Sid

Open(v) == v # Null /\ v.state = "open"

Invalid(v) == v # Null /\ v.state # "open"

Init ==
  /\ redis = [s \in Sid |-> Null]
  /\ ttl = {}
  /\ copies = [q \in Thread |-> [s \in Sid |-> Null]]
  /\ request = [a \in Actor |-> Idle]
  /\ validator = Waiting
  /\ used = {} /\ gone = {} /\ missed = {} /\ left = {} /\ broken = {}

(***************************************************************************)
(* RedisSessionDAO.                                                        *)
(***************************************************************************)

\* doReadSession: the thread's object if it has one, else the value in Redis.
DoReadSession(q, s) == IF copies[q][s] # Null THEN copies[q][s] ELSE redis[s]

\* A client knows the id of a session once the creating request has answered.
Known(s) ==
  /\ s \in used
  /\ \A a \in Actor : request[a].create => request[a].sid # s

\* Seeded fault: update leaves the thread's former object where it was.
WriteRedisOnly(q, s, session, last) ==
  /\ request' = [request EXCEPT ![q] =
       [pc |-> "set", sid |-> s, session |-> session, last |-> last, create |-> FALSE]]
  /\ left' = IF last = "stop" THEN left \cup {s} ELSE left
  /\ UNCHANGED <<redis, ttl, copies, validator, used, gone, missed, broken>>

\* Thread q has changed its object of session s and is about to write it. The
\* write that its logout's stop follows is the one without the principal.
Write(q, s, session, last) ==
  /\ copies' = [copies EXCEPT ![q][s] = session]
  /\ request' = [request EXCEPT ![q] =
       [pc |-> "set", sid |-> s, session |-> session, last |-> last, create |-> FALSE]]
  /\ left' = IF last = "stop" THEN left \cup {s} ELSE left
  /\ UNCHANGED <<redis, ttl, validator, used, gone, missed, broken>>

\* doCreate: the new session is saved, and not kept by the thread.
DoCreate(q, s) ==
  /\ request[q] = Idle
  /\ s \notin used
  /\ used' = used \cup {s}
  /\ request' = [request EXCEPT ![q] =
       [pc |-> "set", sid |-> s, session |-> [user |-> Null, state |-> "open"],
        last |-> "expire", create |-> TRUE]]
  /\ UNCHANGED <<redis, ttl, copies, validator, histories>>

\* A session is read and its object kept.
ReadSession(q, s) ==
  /\ request[q] = Idle
  /\ Known(s)
  /\ copies' = [copies EXCEPT ![q][s] = DoReadSession(q, s)]
  /\ UNCHANGED <<redis, ttl, request, validator, used, histories>>

\* The object was put there sessionInMemoryTimeout ago or more.
CopyExpires(q, s) ==
  /\ request[q].pc \in {"idle", "principals", "stop"}
  /\ copies' = [copies EXCEPT ![q][s] = Null]
  /\ UNCHANGED <<redis, ttl, request, validator, used, histories>>

(***************************************************************************)
(* The session manager's operations, each ending in update or delete.      *)
(***************************************************************************)

\* Every request of an open session touches it.
Touch(q, s) ==
  /\ request[q] = Idle
  /\ Known(s)
  /\ Open(DoReadSession(q, s))
  /\ Write(q, s, DoReadSession(q, s), "expire")

\* loginPost stores the principal in the session's attributes.
Login(q, s, u) ==
  /\ request[q] = Idle
  /\ Known(s)
  /\ Open(DoReadSession(q, s))
  /\ Write(q, s, [DoReadSession(q, s) EXCEPT !.user = u], "expire")

\* Thread q asks for session s on behalf of its request, or for the session
\* it is logging out.
Asks(q, s) ==
  \/ request[q] = Idle /\ Known(s)
  \/ request[q].pc \in {"principals", "stop"} /\ request[q].sid = s

\* subject.logout() of a session with a principal. It first removes the mark
\* of authentication, which is not kept here: a write of the same session.
Logout(q, s) ==
  /\ request[q] = Idle
  /\ Known(s)
  /\ Open(DoReadSession(q, s)) /\ DoReadSession(q, s).user # Null
  /\ Write(q, s, DoReadSession(q, s), "principals")

\* It goes on to remove the principal from the session, which is still open...
RemovePrincipals(q, s) ==
  /\ request[q].pc = "principals" /\ request[q].sid = s
  /\ Open(DoReadSession(q, s)) /\ DoReadSession(q, s).user # Null
  /\ Write(q, s, [DoReadSession(q, s) EXCEPT !.user = Null], "stop")

\* ... which writes nothing where another thread has removed it.
NothingToRemove(q, s) ==
  /\ request[q].pc = "principals" /\ request[q].sid = s
  /\ Open(DoReadSession(q, s)) /\ DoReadSession(q, s).user = Null
  /\ request' = [request EXCEPT ![q].pc = "stop"]
  /\ UNCHANGED <<redis, ttl, copies, validator, used, histories>>

\* The end of a logout, or of another session that is kicked out.
Stop(q, s) ==
  /\ Asks(q, s) /\ request[q].pc # "principals"
  /\ Open(DoReadSession(q, s))
  /\ Write(q, s, [DoReadSession(q, s) EXCEPT !.state = "stopped"], "del")

\* A session that is found invalid is written once more and deleted.
Invalidate(q, s) ==
  /\ Asks(q, s)
  /\ Invalid(DoReadSession(q, s))
  /\ Write(q, s, DoReadSession(q, s), "del")

\* The session that is to be logged out is there no more; what its lookup
\* throws is logged.
LogoutEnds(q, s) ==
  /\ request[q].pc \in {"principals", "stop"} /\ request[q].sid = s
  /\ DoReadSession(q, s) = Null
  /\ request' = [request EXCEPT ![q] = Idle]
  /\ UNCHANGED <<redis, ttl, copies, validator, used, histories>>

(***************************************************************************)
(* WorkAloneRedisManager: SET, EXPIRE and DEL are single commands.         *)
(***************************************************************************)

\* Another actor goes on with an open object that differs from v.
PassedBy(a, s, v) ==
  \/ \E o \in Thread \ {a} : Open(copies[o][s]) /\ copies[o][s] # v
  \/ \E o \in Actor \ {a} :
       request[o].sid = s /\ Open(request[o].session) /\ request[o].session # v

Miss(a, s, v) == missed' = IF PassedBy(a, s, v) THEN missed \cup {s} ELSE missed

\* Seeded fault: the key is saved as its own value.
SetKey(a) ==
  /\ request[a].pc = "set"
  /\ redis' = [redis EXCEPT ![request[a].sid] = request[a].sid]
  /\ request' = [request EXCEPT ![a].pc = "expire"]
  /\ UNCHANGED <<ttl, copies, validator, used, histories>>

Set(a) ==
  LET s == request[a].sid
  IN /\ request[a].pc = "set"
     /\ redis' = [redis EXCEPT ![s] = request[a].session]
     /\ ttl' = ttl \ {s}
     /\ Miss(a, s, request[a].session)
     /\ request' = [request EXCEPT ![a].pc = "expire"]
     /\ UNCHANGED <<copies, validator, used, gone, left, broken>>

After(a) ==
  IF request[a].last = "expire" THEN Idle ELSE [request[a] EXCEPT !.pc = request[a].last]

\* Seeded fault: a timeout below one second is no expire time.
NoExpire(a) ==
  /\ request[a].pc = "expire"
  /\ request' = [request EXCEPT ![a] = After(a)]
  /\ UNCHANGED <<redis, ttl, copies, validator, used, histories>>

\* EXPIRE has no effect on a key that is not there.
Expire(a) ==
  LET s == request[a].sid
  IN /\ request[a].pc = "expire"
     /\ ttl' = IF redis[s] # Null THEN ttl \cup {s} ELSE ttl
     /\ request' = [request EXCEPT ![a] = After(a)]
     /\ UNCHANGED <<redis, copies, validator, used, histories>>

Del(a) ==
  LET s == request[a].sid
  IN /\ request[a].pc = "del"
     /\ redis' = [redis EXCEPT ![s] = Null]
     /\ ttl' = ttl \ {s}
     /\ gone' = gone \cup {s}
     /\ Miss(a, s, Null)
     /\ request' = [request EXCEPT ![a] = Idle]
     /\ UNCHANGED <<copies, validator, used, left, broken>>

\* A deletion is tried all the same (afterStopped), and so is the stop of a
\* session whose attributes were to be removed first.
AfterThrow(a) ==
  IF request[a].pc \in {"del", "stop"} THEN Idle
  ELSE IF request[a].last = "principals" THEN [request[a] EXCEPT !.pc = "stop"]
  ELSE After(a)

\* A command throws.
Throws(q) ==
  /\ request[q].pc # "idle"
  /\ request' = [request EXCEPT ![q] = AfterThrow(q)]
  /\ broken' = IF request[q].pc = "expire" THEN broken \cup {request[q].sid} ELSE broken
  /\ UNCHANGED <<redis, ttl, copies, validator, used, gone, missed, left>>

(***************************************************************************)
(* Time. Sessions and keys time out after 30 minutes without a write, when *)
(* no request is busy with them and the threads' objects are long expired. *)
(***************************************************************************)

Unused(s) == \A a \in Actor : request[a].sid # s

Forget(s) == copies' = [q \in Thread |-> [copies[q] EXCEPT ![s] = Null]]

KeyExpires(s) ==
  /\ s \in ttl
  /\ Unused(s)
  /\ redis' = [redis EXCEPT ![s] = Null]
  /\ ttl' = ttl \ {s}
  /\ gone' = gone \cup {s}
  /\ Forget(s)
  /\ UNCHANGED <<request, validator, used, missed, left, broken>>

TimeOut(s) ==
  /\ Open(redis[s])
  /\ Unused(s)
  /\ redis' = [redis EXCEPT ![s].state = "timedOut"]
  /\ Forget(s)
  /\ UNCHANGED <<ttl, request, validator, used, histories>>

(***************************************************************************)
(* The validation scheduler. What its run throws ends it for good: nothing *)
(* is scheduled after an exception.                                        *)
(***************************************************************************)

\* Seeded fault: the pattern lacks its asterisk and matches no key.
ScanNothing ==
  /\ validator.pc = "waiting"
  /\ validator' = [validator EXCEPT !.pc = "running"]
  /\ UNCHANGED <<redis, ttl, copies, request, used, histories>>

\* getActiveSessions: list the keys.
Scan ==
  /\ validator.pc = "waiting"
  /\ validator' = [validator EXCEPT !.pc = "running", !.keys = {s \in Sid : redis[s] # Null}]
  /\ UNCHANGED <<redis, ttl, copies, request, used, histories>>

\* getActiveSessions: get the value of one of them.
Fetch(s) ==
  /\ validator.pc = "running"
  /\ s \in validator.keys
  /\ validator' = [validator EXCEPT
       !.keys = @ \ {s},
       !.found = IF Invalid(redis[s]) THEN @ \cup {<<s, redis[s]>>} ELSE @,
       !.gap = @ \/ redis[s] = Null]
  /\ UNCHANGED <<redis, ttl, copies, request, used, histories>>

\* An invalid session is written once more and deleted.
Validate(s, session) ==
  /\ validator.pc = "running"
  /\ validator.keys = {}
  /\ request[Validator] = Idle
  /\ <<s, session>> \in validator.found
  /\ validator' = [validator EXCEPT !.found = @ \ {<<s, session>>}]
  /\ request' = [request EXCEPT ![Validator] =
       [pc |-> "set", sid |-> s, session |-> session, last |-> "del", create |-> FALSE]]
  /\ UNCHANGED <<redis, ttl, copies, used, histories>>

EndRun ==
  /\ validator.pc = "running"
  /\ validator.keys = {} /\ validator.found = {} /\ ~validator.gap
  /\ request[Validator] = Idle
  /\ validator' = Waiting
  /\ UNCHANGED <<redis, ttl, copies, request, used, histories>>

Die ==
  /\ validator' = [Waiting EXCEPT !.pc = "dead"]
  /\ request' = [request EXCEPT ![Validator] = Idle]
  /\ broken' = IF request[Validator].pc = "expire"
                 THEN broken \cup {request[Validator].sid} ELSE broken
  /\ UNCHANGED <<redis, ttl, copies, used, gone, missed, left>>

\* A null among the active sessions: the run ends with a NullPointerException.
NullSession ==
  /\ validator.pc = "running"
  /\ validator.keys = {} /\ validator.gap
  /\ request[Validator] = Idle
  /\ Die

\* A command of the run throws.
RunThrows ==
  /\ validator.pc = "running"
  /\ Die

(***************************************************************************)
(* The server process is restarted: Redis keeps what it has.               *)
(***************************************************************************)

Restart ==
  /\ copies' = [q \in Thread |-> [s \in Sid |-> Null]]
  /\ request' = [a \in Actor |-> Idle]
  /\ validator' = Waiting
  /\ broken' = broken \cup {request[a].sid : a \in {b \in Actor : request[b].pc = "expire"}}
  /\ UNCHANGED <<redis, ttl, used, gone, missed, left>>

(***************************************************************************)
(* The specification.                                                      *)
(***************************************************************************)

Client(q) ==
  \E s \in Sid :
    \/ DoCreate(q, s) \/ ReadSession(q, s)
    \/ Touch(q, s) \/ Logout(q, s) \/ Stop(q, s) \/ Invalidate(q, s)
    \/ \E u \in User : Login(q, s, u)

\* The parts of a logout after its first one.
LogsOut(q) ==
  /\ request[q].pc \in {"principals", "stop"}
  /\ \E s \in Sid :
       \/ RemovePrincipals(q, s) \/ NothingToRemove(q, s)
       \/ Stop(q, s) \/ Invalidate(q, s) \/ LogoutEnds(q, s)

Command(a) == Set(a) \/ Expire(a) \/ Del(a)

Clock == \E s \in Sid : KeyExpires(s) \/ TimeOut(s) \/ \E q \in Thread : CopyExpires(q, s)

Validation ==
  \/ Scan \/ EndRun \/ NullSession
  \/ \E s \in Sid : Fetch(s) \/ \E session \in Session : Validate(s, session)

Running ==
  \/ \E q \in Thread : Client(q) \/ LogsOut(q) \/ Throws(q)
  \/ \E a \in Actor : Command(a)
  \/ Clock \/ Validation \/ RunThrows

Next == Running \/ Restart

Spec == Init /\ [][Next]_vars

\* One life of the server process. Threads go on with what they began, time
\* passes, and the scheduler runs while it lives; clients owe nothing.
LifeSpec ==
  /\ Init
  /\ [][Running]_vars
  /\ \A a \in Actor : WF_vars(Command(a))
  /\ \A q \in Thread : WF_vars(LogsOut(q))
  /\ \A s \in Sid : WF_vars(KeyExpires(s)) /\ WF_vars(TimeOut(s))
  /\ WF_vars(Validation)

(***************************************************************************)
(* Properties.                                                             *)
(***************************************************************************)

\* A session that ended (logout, kickout, timeout) does not come back, and an
\* open one that was logged in does not lose its principal before a logout takes
\* it away, although every thread writes whole objects: unless a thread held an
\* object that another thread's write passed by (its copy of up to a second),
\* whatever fails on the way.
EndedStaysEnded ==
  [][\A s \in Sid \ missed' :
       /\ s \in gone \/ Invalid(redis[s]) => ~Open(redis'[s])
       /\ Open(redis[s]) /\ Open(redis'[s]) /\ redis[s].user # Null
            => redis'[s].user # Null \/ s \in left]_vars

\* A key without a time to live is a key whose EXPIRE is still to come, or one
\* that a failure left between SET and EXPIRE.
OnlyFailuresLast ==
  \A s \in Sid :
    redis[s] # Null /\ s \notin ttl =>
      s \in broken \/ \E a \in Actor : request[a].pc = "expire" /\ request[a].sid = s

\* A session that no thread uses any more disappears from Redis, also one that
\* a failure left without a time to live, unless the scheduler has died.
AbandonedSessionEnds ==
  \A s \in Sid :
    <>[](\A q \in Thread : request[q].sid # s)
      => []<>(redis[s] = Null \/ (s \in broken \ ttl /\ validator.pc = "dead"))
=============================================================================
