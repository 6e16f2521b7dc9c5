----------------------------- MODULE KickoutProofs -----------------------------
(***************************************************************************)
(* Theorems about KickoutControl, for any number of threads, sessions and  *)
(* users and any setting of maxSession and kickoutAfter: types, the limit  *)
(* on a user's sessions, that a session that was let through stays, and,   *)
(* as wired, that none is stopped without need.                            *)
(***************************************************************************)
EXTENDS KickoutControl, FiniteSetTheorems, SequenceTheorems, TLAPS

(***************************************************************************)
(* The inductive invariant.                                                *)
(***************************************************************************)

Active(q) == request[q].pc # "idle"

Opened(v) == v # Null /\ v.state = "open"

Shape ==
  \A q \in Thread :
    LET x == request[q]
    IN /\ x.pc = "idle" => x = Idle
       /\ x.pc # "idle" => x.sid \in Sid /\ x.user \in User
       /\ x.pc = "stop" => x.victim \in Sid

\* The sessions a request is about, but for those it reads.
Own(x) == {t \in Sid : t = x.sid \/ t = x.victim \/ Contains(x.deque, t)}

\* An id that was not generated is nowhere.
Fresh ==
  \A s \in Sid \ used :
    /\ redis[s] = Null
    /\ \A q \in Thread : copies[q][s] = Null /\ s \notin Own(request[q])
    /\ \A u \in User : s \notin admitted[u] /\ ~Contains(queue[u], s)

\* Who was not logged in for two users is the session of one, wherever it is.
OwnedBy(owner) ==
  \A s \in Sid \ relogged :
    /\ redis[s] # Null => redis[s].user = owner[s]
    /\ \A q \in Thread : /\ copies[q][s] # Null => copies[q][s].user = owner[s]
                         /\ s \in Own(request[q]) => request[q].user = owner[s]
    /\ \A u \in User : Contains(queue[u], s) => u = owner[s]

Owned == \E owner \in [Sid -> User \cup {Null}] : OwnedBy(owner)

\* A request that is alone is.
Alone ==
  \A q \in Thread : Active(q) /\ request[q].alone =>
    \A o \in Thread \ {q} : request[o].user # request[q].user /\ request[o].sid # request[q].sid

\* Sessions of a user count only while the requests come one after another.
OneActive ==
  \A u \in User : admitted[u] # {} =>
    \A q, o \in Thread : request[q].user = u /\ request[o].user = u => q = o

\* What the deque may be on its way.
Fitted(x) ==
  /\ x.pc = "push" => Len(x.deque) <= maxSession /\ ~Contains(x.deque, x.sid)
  /\ x.pc = "stop" => Len(x.deque) <= maxSession
  /\ x.pc = "kick" /\ TooMany(x.deque) =>
       /\ Len(x.deque) = maxSession + 1
       /\ x.deque[1] = x.sid
       /\ \A i \in 2 .. maxSession + 1 : x.deque[i] # x.sid

\* Where an admitted session t of the user is found, d being the queue.
Placed(t, x, d) ==
  /\ x.pc \in {"idle", "handler"} => Contains(d, t)
  /\ x.pc \in {"touch", "read"} => t = x.sid \/ Contains(d, t)
  /\ x.pc = "push" => t = x.sid \/ Contains(x.deque, t)
  /\ x.pc \in {"kick", "stop"} => (t = x.sid /\ ~x.alone) \/ Contains(x.deque, t)
  /\ x.pc = "check" => (t = x.sid /\ ~x.alone) \/ Contains(d, t)

InQueue ==
  \A u \in User : \A t \in admitted[u] : OpenFor(t, u) =>
    /\ Quiet(u) => Contains(queue[u], t)
    /\ \A q \in Thread : request[q].user = u => Placed(t, request[q], queue[u])

\* The object that is to be touched is the one the subject was built from.
Touching ==
  \A q \in Thread :
    LET c == copies[q][request[q].sid]
    IN request[q].pc = "touch" => c = Null \/ c.user = request[q].user

\* Once it was touched, a request that is alone sees its session as it is (but
\* for one that another user's request stopped).
Sees(x, l, r) ==
  x.alone /\ x.pc \notin {"idle", "touch"} =>
    /\ Opened(r) => l = r
    /\ x.sid \notin relogged /\ Valid(l) => l = r

Seeing ==
  \A q \in Thread : Sees(request[q], Lookup(q, request[q].sid), redis[request[q].sid])

\* If it is open it is on its way into the queue; it stays open if it was not
\* logged in for two users.
Staged(x, r, d) ==
  x.alone =>
    /\ x.pc \in {"kick", "stop"} /\ Opened(r) => Contains(x.deque, x.sid)
    /\ x.pc \in {"check", "handler"} /\ Opened(r) => Contains(d, x.sid)
    /\ x.sid \notin relogged =>
         /\ x.pc = "kick" /\ TooMany(x.deque) => r # Null
         /\ x.pc = "handler" => Opened(r)

Staging ==
  \A q \in Thread :
    Active(q) => Staged(request[q], redis[request[q].sid], queue[request[q].user])

KickInv ==
  /\ TypeOK /\ Shape /\ Fresh /\ Owned /\ Alone /\ OneActive
  /\ \A q \in Thread : Fitted(request[q])
  /\ InQueue /\ Touching /\ Seeing /\ Staging

LEMMA Facts ==
  ASSUME KickInv
  PROVE  /\ TypeOK
         /\ redis \in [Sid -> Session \cup {Null}]
         /\ copies \in [Thread -> [Sid -> Session \cup {Null}]]
         /\ queue \in [User -> Seq(Sid)]
         /\ request \in [Thread -> Request]
         /\ admitted \in [User -> SUBSET Sid]
         /\ Null \notin Session /\ Null \notin Sid /\ Null \notin User
         /\ maxSession \in Nat \ {0}
BY LimitsAssumption, NullAssumption DEF KickInv, TypeOK, Session

(***************************************************************************)
(* The deque.                                                              *)
(***************************************************************************)

LEMMA RestOf ==
  ASSUME NEW deque \in Seq(Sid), Len(deque) > 0
  PROVE  /\ Rest(deque) \in Seq(Sid) /\ Len(Rest(deque)) = Len(deque) - 1
         /\ Victim(deque) \in Sid /\ Contains(deque, Victim(deque))
         /\ \A t : Contains(Rest(deque), t) => Contains(deque, t)
         /\ \A t : Contains(deque, t) => t = Victim(deque) \/ Contains(Rest(deque), t)
<1>1. CASE kickoutAfter
  <2>1. /\ Rest(deque) = Tail(deque) /\ Victim(deque) = deque[1]
    BY <1>1 DEF Rest, Victim
  <2>2. /\ Tail(deque) \in Seq(Sid) /\ Len(Tail(deque)) = Len(deque) - 1
        /\ \A i \in 1 .. Len(deque) - 1 : Tail(deque)[i] = deque[i + 1]
    OBVIOUS
  <2>3. \A t : Contains(Tail(deque), t) => Contains(deque, t)
    BY <2>2 DEF Contains
  <2>4. ASSUME NEW t, Contains(deque, t)  PROVE t = deque[1] \/ Contains(Tail(deque), t)
    <3>1. PICK i \in 1 .. Len(deque) : deque[i] = t
      BY <2>4 DEF Contains
    <3>2. CASE i > 1
      <4>1. i - 1 \in 1 .. Len(Tail(deque)) /\ Tail(deque)[i - 1] = t
        BY <2>2, <3>1, <3>2
      <4>2. i - 1 \in DOMAIN Tail(deque)
        BY <2>2, <4>1
      <4>. QED BY <4>1, <4>2 DEF Contains
    <3>. QED BY <3>1, <3>2
  <2>5. deque[1] \in Sid /\ Contains(deque, deque[1])
    BY DEF Contains
  <2>. QED BY <2>1, <2>2, <2>3, <2>4, <2>5
<1>2. CASE ~kickoutAfter
  <2>. DEFINE n == Len(deque)
              rest == SubSeq(deque, 1, n - 1)
  <2>1. /\ Rest(deque) = rest /\ Victim(deque) = deque[n]
    BY <1>2 DEF Rest, Victim
  <2>2. /\ rest \in Seq(Sid) /\ Len(rest) = n - 1
        /\ \A i \in 1 .. n - 1 : rest[i] = deque[i]
    <3>1. n \in Nat \ {0} /\ \A i \in 1 .. n - 1 : deque[i] \in Sid
      OBVIOUS
    <3>2. n - 1 \in Int /\ 1 \in Int
      BY <3>1
    <3>. HIDE DEF n
    <3>3. /\ SubSeq(deque, 1, n - 1) \in Seq(Sid)
          /\ Len(SubSeq(deque, 1, n - 1)) = IF 1 <= n - 1 THEN n - 1 - 1 + 1 ELSE 0
          /\ \A i \in 1 .. n - 1 - 1 + 1 : SubSeq(deque, 1, n - 1)[i] = deque[1 + i - 1]
      BY <3>1, <3>2, SubSeqProperties
    <3>. QED BY <3>1, <3>3
  <2>3. deque[n] \in Sid /\ Contains(deque, deque[n])
    BY DEF Contains
  <2>. HIDE DEF rest
  <2>4. \A t : Contains(rest, t) => Contains(deque, t)
    BY <2>2 DEF Contains
  <2>5. \A t : Contains(deque, t) => t = deque[n] \/ Contains(rest, t)
    BY <2>2 DEF Contains
  <2>. QED BY <2>1, <2>2, <2>3, <2>4, <2>5
<1>. QED BY <1>1, <1>2

LEMMA InFront ==
  ASSUME NEW deque \in Seq(Sid), NEW s \in Sid
  PROVE  /\ <<s>> \o deque \in Seq(Sid) /\ Len(<<s>> \o deque) = Len(deque) + 1
         /\ (<<s>> \o deque)[1] = s
         /\ \A i \in 1 .. Len(deque) : (<<s>> \o deque)[i + 1] = deque[i]
         /\ \A t : Contains(<<s>> \o deque, t) <=> t = s \/ Contains(deque, t)
<1>. DEFINE d == <<s>> \o deque
<1>1. /\ d \in Seq(Sid) /\ Len(d) = Len(deque) + 1 /\ d[1] = s
      /\ \A i \in 1 .. Len(deque) : d[i + 1] = deque[i]
  OBVIOUS
<1>. HIDE DEF d
<1>2. ASSUME NEW t, Contains(d, t)  PROVE t = s \/ Contains(deque, t)
  <2>1. PICK i \in 1 .. Len(d) : d[i] = t
    BY <1>1, <1>2 DEF Contains
  <2>2. CASE i > 1
    <3>1. i - 1 \in 1 .. Len(deque) /\ deque[i - 1] = t
      BY <1>1, <2>1, <2>2
    <3>. QED BY <3>1 DEF Contains
  <2>. QED BY <1>1, <2>1, <2>2
<1>3. Contains(d, s)
  BY <1>1 DEF Contains
<1>4. ASSUME NEW t, Contains(deque, t)  PROVE Contains(d, t)
  <2>1. PICK i \in 1 .. Len(deque) : deque[i] = t
    BY <1>4 DEF Contains
  <2>2. i + 1 \in 1 .. Len(d) /\ d[i + 1] = t
    BY <1>1, <2>1
  <2>. QED BY <1>1, <2>2 DEF Contains
<1>. QED BY <1>1, <1>2, <1>3, <1>4 DEF d

(***************************************************************************)
(* Objects and keys. Every step of a thread q changes those of one session *)
(* y at most.                                                              *)
(***************************************************************************)

Puts(q, y, v, w) ==
  /\ redis' = [redis EXCEPT ![y] = v]
  /\ copies' = [copies EXCEPT ![q][y] = w]

LEMMA PutsFacts ==
  ASSUME TypeOK, NEW q \in Thread, NEW y \in Sid, NEW v \in Session \cup {Null},
         NEW w \in Session \cup {Null}, Puts(q, y, v, w)
  PROVE  /\ redis' \in [Sid -> Session \cup {Null}]
         /\ copies' \in [Thread -> [Sid -> Session \cup {Null}]]
         /\ redis'[y] = v /\ copies'[q][y] = w
         /\ \A t \in Sid \ {y} : redis'[t] = redis[t]
         /\ \A o \in Thread, t \in Sid : o # q \/ t # y => copies'[o][t] = copies[o][t]
<1>. DEFINE V == Session \cup {Null}
<1>1. /\ redis \in [Sid -> V] /\ copies \in [Thread -> [Sid -> V]]
      /\ redis' = [redis EXCEPT ![y] = v] /\ copies' = [copies EXCEPT ![q][y] = w]
  BY DEF TypeOK, Puts
<1>. HIDE DEF V
<1>2. redis' \in [Sid -> V] /\ redis'[y] = v /\ \A t \in Sid \ {y} : redis'[t] = redis[t]
  BY <1>1 DEF V
<1>3. /\ copies' \in [Thread -> [Sid -> V]] /\ copies'[q][y] = w
      /\ \A o \in Thread, t \in Sid : o # q \/ t # y => copies'[o][t] = copies[o][t]
  BY <1>1 DEF V
<1>. QED BY <1>2, <1>3 DEF V

\* The operations of the session store.
LEMMA Operations ==
  ASSUME KickInv, NEW q \in Thread, NEW y \in Sid
  PROVE  LET l == Lookup(q, y)
         IN /\ l \in Session \cup {Null}
            /\ Store(q, y, l) => Puts(q, y, l, l)
            /\ ~Valid(l) /\ LookupThrows(q, y) => Puts(q, y, Null, l)
            /\ LookupKeeps(q, y) => Puts(q, y, redis[y], l)
            /\ StopSession(q, y) => Puts(q, y, Null, [l EXCEPT !.state = "stopped"])
            /\ UNCHANGED <<redis, copies>> => Puts(q, y, redis[y], copies[q][y])
<1>. DEFINE l == Lookup(q, y)
<1>1. /\ redis \in [Sid -> Session \cup {Null}]
      /\ copies \in [Thread -> [Sid -> Session \cup {Null}]]
  BY Facts
<1>2. l \in Session \cup {Null}
  BY <1>1 DEF Lookup
<1>3. redis = [redis EXCEPT ![y] = redis[y]]
  BY <1>1
<1>4. copies = [copies EXCEPT ![q][y] = copies[q][y]]
  BY <1>1
<1>5. l = Null => redis[y] = Null
  BY DEF Lookup
<1>6. LookupThrows(q, y) => redis' = [redis EXCEPT ![y] = Null]
  BY <1>3, <1>5 DEF LookupThrows
<1>. QED BY <1>2, <1>3, <1>4, <1>6 DEF Puts, Store, LookupThrows, LookupKeeps, StopSession


(***************************************************************************)
(* A thread goes on with its request. What it may do, to keep the          *)
(* invariant, is said once, for all its steps.                             *)
(***************************************************************************)

\* The sessions a request is about.
Mine(q) == Own(request[q]) \cup {t \in Sid : Contains(queue[request[q].user], t)}

\* Object y of thread q, its key, and what the request's user has change.
Elsewhere(q, y) ==
  /\ Active(q) /\ y \in Mine(q)
  /\ \A t \in Sid \ {y} : redis'[t] = redis[t]
  /\ \A o \in Thread, t \in Sid : o # q \/ t # y => copies'[o][t] = copies[o][t]
  /\ \A o \in Thread \ {q} : request'[o] = request[o]
  /\ \A w \in User \ {request[q].user} : queue'[w] = queue[w] /\ admitted'[w] = admitted[w]
  /\ UNCHANGED <<used, relogged>>

From(l, v) == v = Null \/ (l # Null /\ v.user = l.user)

\* They come from the thread's object, and only the touch opens a session.
Derived(q, y) ==
  /\ redis'[y] = redis[y] \/ From(Lookup(q, y), redis'[y])
  /\ copies'[q][y] = copies[q][y] \/ From(Lookup(q, y), copies'[q][y])
  /\ Opened(redis'[y]) =>
       \/ redis'[y] = redis[y]
       \/ redis'[y] = Lookup(q, y) /\ y = request[q].sid /\ request[q].pc = "touch"

GoesOn(q) ==
  LET x == request[q]
      z == request'[q]
  IN /\ \/ z = Idle
        \/ /\ z.sid = x.sid /\ z.user = x.user
           /\ z.alone => x.alone
           /\ z.pc \notin {"idle", "touch"}
           /\ z.pc = "stop" => z.victim \in Sid
     /\ Own(z) \subseteq Mine(q) /\ Fitted(z)
     /\ \A t \in Sid : Contains(queue'[x.user], t) => t \in Mine(q)
     /\ \/ admitted'[x.user] \subseteq admitted[x.user]
        \/ x.alone /\ admitted'[x.user] \subseteq admitted[x.user] \cup {x.sid}

PlacedNext(q) ==
  \A u \in User : u = request[q].user =>
    \A t \in admitted'[u] : OpenFor(t, u)' => Placed(t, request'[q], queue'[u])

SeesNext(q) ==
  \A s \in Sid : s = request[q].sid /\ request'[q].pc # "idle" =>
    Sees(request'[q], Lookup(q, s)', redis'[s])

StagedNext(q) ==
  LET x == request[q]
  IN request'[q].pc # "idle" => Staged(request'[q], redis'[x.sid], queue'[x.user])

LEMMA MineFacts ==
  ASSUME KickInv, NEW q \in Thread, Active(q), NEW y \in Mine(q)
  PROVE  /\ y \in Sid /\ y \in used
         /\ \A owner \in [Sid -> User \cup {Null}] :
              OwnedBy(owner) /\ y \notin relogged => owner[y] = request[q].user
         /\ \A o \in Thread \ {q} :
              Active(o) /\ request[o].alone /\ y \notin relogged => y # request[o].sid
         /\ request[q].sid \in Mine(q) /\ request[q].sid \in Sid /\ request[q].user \in User
<1>1. /\ y \in Sid /\ request[q].user \in User /\ request[q].sid \in Sid
      /\ request[q].sid \in Mine(q)
  BY DEF KickInv, Shape, Active, Mine, Own
<1>2. y \in used
  BY <1>1 DEF KickInv, Fresh, Mine
<1>3. ASSUME NEW owner \in [Sid -> User \cup {Null}], OwnedBy(owner), y \notin relogged
      PROVE  owner[y] = request[q].user
  BY <1>1, <1>3 DEF OwnedBy, Mine
<1>4. ASSUME NEW o \in Thread \ {q}, Active(o), request[o].alone, y \notin relogged
      PROVE  y # request[o].sid
  <2>. SUFFICES ASSUME y = request[o].sid PROVE FALSE
    OBVIOUS
  <2>1. PICK owner \in [Sid -> User \cup {Null}] : OwnedBy(owner)
    BY DEF KickInv, Owned
  <2>2. owner[y] = request[q].user
    BY <1>3, <1>4, <2>1
  <2>3. y \in Own(request[o])
    BY <1>1 DEF Own
  <2>4. owner[y] = request[o].user
    BY <1>1, <1>4, <2>1, <2>3 DEF OwnedBy
  <2>. QED BY <1>4, <2>2, <2>4 DEF KickInv, Alone
<1>. QED BY <1>1, <1>2, <1>3, <1>4

LEMMA IdleFacts ==
  /\ Idle \in Request /\ Idle.pc = "idle" /\ Idle.sid = Null /\ Idle.user = Null
  /\ Own(Idle) = {} /\ Fitted(Idle)
<1>1. <<>> \in Seq(Sid) /\ \A t : ~Contains(<<>>, t)
  BY DEF Contains
<1>. QED BY <1>1, NullAssumption DEF Idle, Request, Own, Fitted

LEMMA OwnStepOwned ==
  ASSUME KickInv, UNCHANGED <<maxSession, kickoutAfter>>,
         TypeOK', NEW q \in Thread, NEW y \in Sid,
         Elsewhere(q, y), Derived(q, y), GoesOn(q)
  PROVE  Shape' /\ Fresh' /\ Owned' /\ (\A o \in Thread : Fitted(request[o]))'
<1>1. Shape'
  BY IdleFacts DEF KickInv, Shape, Elsewhere, GoesOn, Active
<1>2. (\A o \in Thread : Fitted(request[o]))'
  BY DEF KickInv, Elsewhere, GoesOn, Fitted, TooMany
<1>3. \A t \in Mine(q) : t \in used
  BY MineFacts DEF Elsewhere
<1>4. y \in used /\ request[q].sid \in used /\ request[q].user \in User
  BY MineFacts DEF Elsewhere
<1>5. Fresh'
  <2>. SUFFICES ASSUME NEW s \in Sid \ used
                PROVE  /\ redis'[s] = Null
                       /\ \A o \in Thread : copies'[o][s] = Null /\ s \notin Own(request'[o])
                       /\ \A u \in User : s \notin admitted'[u] /\ ~Contains(queue'[u], s)
    BY DEF Fresh, Elsewhere
  <2>1. s # y /\ s # request[q].sid /\ s \notin Mine(q)
    BY <1>3, <1>4
  <2>2. /\ redis[s] = Null
        /\ \A o \in Thread : copies[o][s] = Null /\ s \notin Own(request[o])
        /\ \A u \in User : s \notin admitted[u] /\ ~Contains(queue[u], s)
    BY DEF KickInv, Fresh
  <2>3. redis'[s] = Null /\ \A o \in Thread : copies'[o][s] = Null
    BY <2>1, <2>2 DEF Elsewhere
  <2>4. \A o \in Thread : s \notin Own(request'[o])
    BY <2>1, <2>2 DEF Elsewhere, GoesOn
  <2>5. \A u \in User : s \notin admitted'[u] /\ ~Contains(queue'[u], s)
    BY <2>1, <2>2 DEF Elsewhere, GoesOn
  <2>. QED BY <2>3, <2>4, <2>5
<1>6. PICK owner \in [Sid -> User \cup {Null}] : OwnedBy(owner)
  BY DEF KickInv, Owned
<1>7. ASSUME NEW s \in Sid \ relogged
      PROVE  /\ redis'[s] # Null => redis'[s].user = owner[s]
             /\ \A o \in Thread : /\ copies'[o][s] # Null => copies'[o][s].user = owner[s]
                                  /\ s \in Own(request'[o]) => request'[o].user = owner[s]
             /\ \A u \in User : Contains(queue'[u], s) => u = owner[s]
  <2>1. /\ redis[s] # Null => redis[s].user = owner[s]
        /\ \A o \in Thread : /\ copies[o][s] # Null => copies[o][s].user = owner[s]
                             /\ s \in Own(request[o]) => request[o].user = owner[s]
        /\ \A u \in User : Contains(queue[u], s) => u = owner[s]
    BY <1>6 DEF OwnedBy
  <2>2. Lookup(q, s) # Null => Lookup(q, s).user = owner[s]
    BY <2>1 DEF Lookup
  <2>3. redis'[s] # Null => redis'[s].user = owner[s]
    BY <2>1, <2>2 DEF Elsewhere, Derived, From
  <2>4. \A o \in Thread : copies'[o][s] # Null => copies'[o][s].user = owner[s]
    BY <2>1, <2>2 DEF Elsewhere, Derived, From
  <2>5. s \in Mine(q) => owner[s] = request[q].user
    BY <1>6, MineFacts DEF Elsewhere
  <2>6. s \in Own(request'[q]) => request'[q].user = owner[s]
    BY <2>5, IdleFacts DEF GoesOn
  <2>7. \A u \in User : Contains(queue'[u], s) => u = owner[s]
    BY <2>1, <2>5 DEF Elsewhere, GoesOn
  <2>. QED BY <2>1, <2>3, <2>4, <2>6, <2>7 DEF Elsewhere
<1>8. OwnedBy(owner)'
  BY <1>7 DEF OwnedBy, Elsewhere
<1>9. Owned'
  BY <1>8 DEF Owned
<1>. QED BY <1>1, <1>2, <1>5, <1>9

LEMMA OwnStepAlone ==
  ASSUME KickInv, UNCHANGED <<maxSession, kickoutAfter>>,
         TypeOK', NEW q \in Thread, NEW y \in Sid,
         Elsewhere(q, y), Derived(q, y), GoesOn(q)
  PROVE  Alone' /\ OneActive' /\ Touching'
<1>. DEFINE u == request[q].user
            s == request[q].sid
<1>1. u \in User /\ s \in Sid /\ u # Null /\ s # Null
  BY MineFacts, Facts DEF Elsewhere
<1>2. \A o \in Thread \ {q} : request'[o] = request[o]
  BY DEF Elsewhere
<1>3. \/ request'[q] = Idle
      \/ /\ request'[q].sid = s /\ request'[q].user = u /\ request'[q].pc # "touch"
         /\ request'[q].alone => request[q].alone
  BY DEF GoesOn
<1>4. \A o \in Thread : Active(o) => request[o].sid # Null /\ request[o].user # Null
  BY Facts DEF KickInv, Shape, Active
<1>5. Alone'
  <2>. SUFFICES ASSUME NEW o \in Thread, NEW p \in Thread \ {o},
                       request'[o].pc # "idle", request'[o].alone
                PROVE  request'[p].user # request'[o].user /\ request'[p].sid # request'[o].sid
    BY DEF Alone, Active
  <2>1. CASE o = q
    BY <1>2, <1>3, <2>1, IdleFacts DEF KickInv, Alone, Elsewhere
  <2>2. CASE p = q
    BY <1>2, <1>3, <1>4, <2>2, IdleFacts DEF KickInv, Alone, Active
  <2>3. CASE o # q /\ p # q
    BY <1>2, <2>3 DEF KickInv, Alone, Active
  <2>. QED BY <2>1, <2>2, <2>3
<1>6. OneActive'
  <2>. SUFFICES ASSUME NEW w \in User, admitted'[w] # {}, NEW o \in Thread, NEW p \in Thread,
                       request'[o].user = w, request'[p].user = w
                PROVE  o = p
    BY DEF OneActive
  <2>1. request[o].user = w /\ request[p].user = w
    BY <1>2, <1>3, Facts, IdleFacts
  <2>2. CASE admitted[w] # {}
    BY <2>1, <2>2 DEF KickInv, OneActive
  <2>3. CASE admitted[w] = {}
    <3>1. w = u /\ request[q].alone
      BY <2>3 DEF Elsewhere, GoesOn
    <3>2. \A b \in Thread \ {q} : request[b].user # u
      BY <3>1 DEF KickInv, Alone, Elsewhere
    <3>. QED BY <2>1, <3>1, <3>2
  <2>. QED BY <2>2, <2>3
<1>7. Touching'
  <2>. SUFFICES ASSUME NEW o \in Thread, request'[o].pc = "touch"
                PROVE  LET c == copies'[o][request'[o].sid]
                       IN c = Null \/ c.user = request'[o].user
    BY DEF Touching
  <2>1. o # q
    BY <1>3, IdleFacts
  <2>2. request'[o] = request[o] /\ request[o].sid \in Sid
    BY <1>2, <2>1 DEF KickInv, Shape
  <2>3. copies'[o][request[o].sid] = copies[o][request[o].sid]
    BY <2>1, <2>2 DEF Elsewhere
  <2>. QED BY <2>2, <2>3 DEF KickInv, Touching
<1>. QED BY <1>5, <1>6, <1>7


LEMMA OwnStepInQueue ==
  ASSUME KickInv, UNCHANGED <<maxSession, kickoutAfter>>,
         TypeOK', NEW q \in Thread, NEW y \in Sid,
         Elsewhere(q, y), Derived(q, y), GoesOn(q), PlacedNext(q), OneActive'
  PROVE  InQueue'
<1>. DEFINE x == request[q]
            z == request'[q]
<1>1. x.user \in User /\ x.sid \in Sid /\ Null \notin User
  BY MineFacts, Facts DEF Elsewhere
<1>2. \A o \in Thread \ {q} : request'[o] = request[o]
  BY DEF Elsewhere
<1>3. z = Idle \/ z.user = x.user
  BY DEF GoesOn
<1>4. SUFFICES ASSUME NEW u \in User, NEW t \in admitted'[u], OpenFor(t, u)'
               PROVE  /\ (\A o \in Thread : request'[o].user # u) => Contains(queue'[u], t)
                      /\ \A o \in Thread : request'[o].user = u =>
                           Placed(t, request'[o], queue'[u])
  BY DEF InQueue, Quiet
<1>5. t \in Sid
  BY DEF TypeOK
<1>6. CASE u = x.user
  <2>1. Placed(t, z, queue'[u])
    BY <1>4, <1>6 DEF PlacedNext
  <2>2. ASSUME \A o \in Thread : request'[o].user # u
        PROVE  Contains(queue'[u], t)
    <3>1. z = Idle
      BY <1>3, <1>6, <2>2
    <3>. QED BY <2>1, <3>1, IdleFacts DEF Placed
  <2>3. ASSUME NEW o \in Thread, request'[o].user = u, o # q
        PROVE  Placed(t, request'[o], queue'[u])
    <3>1. request[o].user = u
      BY <1>2, <2>3
    <3>2. ~x.alone
      BY <1>6, <2>3, <3>1 DEF KickInv, Alone, Elsewhere
    <3>3. t \in admitted[u]
      BY <1>4, <1>6, <3>2 DEF GoesOn
    <3>. QED BY <1>6, <2>3, <3>1, <3>3 DEF KickInv, OneActive
  <2>. QED BY <1>2, <2>1, <2>2, <2>3
<1>7. CASE u # x.user
  <2>1. t \in admitted[u] /\ queue'[u] = queue[u]
    BY <1>4, <1>7 DEF Elsewhere
  <2>2. OpenFor(t, u)
    <3>1. CASE redis'[t] = redis[t]
      BY <1>4, <3>1 DEF OpenFor
    <3>2. CASE redis'[t] # redis[t]
      <4>1. t = y
        BY <1>5, <3>2 DEF Elsewhere
      <4>2. Opened(redis'[y]) /\ redis'[y].user = u
        BY <1>4, <4>1 DEF OpenFor, Opened
      <4>3. redis'[y] = Lookup(q, y) /\ y = x.sid /\ x.pc = "touch"
        BY <3>2, <4>1, <4>2 DEF Derived
      <4>4. copies[q][y] # Null /\ redis'[y] = copies[q][y]
        BY <3>2, <4>1, <4>3 DEF Lookup
      <4>5. copies[q][y].user = x.user
        BY <4>3, <4>4 DEF KickInv, Touching
      <4>. QED BY <1>7, <4>2, <4>4, <4>5
    <3>. QED BY <3>1, <3>2
  <2>3. /\ Quiet(u) => Contains(queue[u], t)
        /\ \A o \in Thread : request[o].user = u => Placed(t, request[o], queue[u])
    BY <2>1, <2>2 DEF KickInv, InQueue
  <2>4. \A o \in Thread : request'[o].user = u <=> request[o].user = u
    BY <1>1, <1>2, <1>3, <1>7, IdleFacts
  <2>5. \A o \in Thread : request'[o].user = u => request'[o] = request[o]
    BY <1>1, <1>2, <1>3, <1>7, IdleFacts
  <2>. QED BY <2>1, <2>3, <2>4, <2>5 DEF Quiet
<1>. QED BY <1>6, <1>7

LEMMA OwnStepStaging ==
  ASSUME KickInv, UNCHANGED <<maxSession, kickoutAfter>>,
         TypeOK', NEW q \in Thread, NEW y \in Sid,
         Elsewhere(q, y), Derived(q, y), GoesOn(q), SeesNext(q), StagedNext(q)
  PROVE  Seeing' /\ Staging'
<1>. DEFINE x == request[q]
            z == request'[q]
<1>1. x.user \in User /\ x.sid \in Sid
  BY MineFacts DEF Elsewhere
<1>2. \/ z = Idle
      \/ z.sid = x.sid /\ z.user = x.user /\ z.pc # "idle"
  BY DEF GoesOn
<1>3. ASSUME NEW o \in Thread \ {q}, Active(o), request[o].alone
      PROVE  LET s == request[o].sid
             IN /\ request'[o] = request[o] /\ s \in Sid /\ request[o].user \in User
                /\ queue'[request[o].user] = queue[request[o].user]
                /\ Lookup(o, s) = redis[s] /\ redis'[s] = redis[s] => Lookup(o, s) = redis[s]
                /\ copies'[o][s] = copies[o][s]
                /\ Opened(redis'[s]) => redis'[s] = redis[s]
                /\ s \notin relogged => redis'[s] = redis[s]
  <2>. DEFINE s == request[o].sid
  <2>1. request'[o] = request[o] /\ s \in Sid /\ request[o].user \in User
    BY <1>3 DEF Elsewhere, KickInv, Shape, Active
  <2>2. x.user # request[o].user /\ x.sid # s
    BY <1>3 DEF KickInv, Alone
  <2>3. queue'[request[o].user] = queue[request[o].user] /\ copies'[o][s] = copies[o][s]
    BY <2>1, <2>2 DEF Elsewhere
  <2>4. Opened(redis'[s]) => redis'[s] = redis[s]
    BY <2>1, <2>2 DEF Elsewhere, Derived
  <2>5. s \notin relogged => redis'[s] = redis[s]
    BY <1>3, <2>1, MineFacts DEF Elsewhere
  <2>. QED BY <2>1, <2>3, <2>4, <2>5
<1>4. Seeing'
  <2>. SUFFICES ASSUME NEW o \in Thread, request'[o].alone, request'[o].pc \notin {"idle", "touch"},
                       NEW s \in Sid, s = request'[o].sid
                PROVE  LET l == IF copies'[o][s] # Null THEN copies'[o][s] ELSE redis'[s]
                       IN /\ Opened(redis'[s]) => l = redis'[s]
                          /\ s \notin relogged' /\ Valid(l) => l = redis'[s]
    <3>1. ASSUME NEW o \in Thread, request'[o].pc \notin {"idle", "touch"}
          PROVE  request'[o].sid \in Sid
      BY <1>1, <1>2, <3>1, IdleFacts DEF Elsewhere, KickInv, Shape
    <3>. QED BY <3>1 DEF Seeing, Sees, Lookup
  <2>1. CASE o = q
    <3>1. s = x.sid /\ z.pc # "idle" /\ z.pc # "touch" /\ z.alone
      BY <1>2, <2>1, IdleFacts
    <3>2. Sees(z, Lookup(q, s)', redis'[s])
      BY <3>1 DEF SeesNext
    <3>. QED BY <1>2, <2>1, <3>1, <3>2, IdleFacts DEF Sees, Lookup, Elsewhere
  <2>2. CASE o # q
    <3>1. request'[o] = request[o] /\ Active(o) /\ request[o].alone /\ s = request[o].sid
      BY <2>2 DEF Elsewhere, Active
    <3>2. Sees(request[o], Lookup(o, s), redis[s])
      BY <3>1 DEF KickInv, Seeing
    <3>. QED BY <1>3, <2>2, <3>1, <3>2 DEF Sees, Lookup, Elsewhere
  <2>. QED BY <2>1, <2>2
<1>5. Staging'
  <2>. SUFFICES ASSUME NEW o \in Thread, request'[o].pc # "idle"
                PROVE  Staged(request[o], redis[request[o].sid], queue[request[o].user])'
    BY DEF Staging, Active
  <2>1. CASE o = q
    BY <1>2, <2>1, IdleFacts DEF StagedNext, Staged, Elsewhere, TooMany
  <2>2. CASE o # q
    <3>1. request'[o] = request[o] /\ Active(o)
      BY <2>2 DEF Elsewhere, Active
    <3>2. Staged(request[o], redis[request[o].sid], queue[request[o].user])
      BY <3>1 DEF KickInv, Staging
    <3>. QED BY <1>3, <2>2, <3>1, <3>2 DEF Staged, Elsewhere, TooMany
  <2>. QED BY <2>1, <2>2
<1>. QED BY <1>4, <1>5

LEMMA OwnStepKept ==
  ASSUME KickInv, UNCHANGED <<maxSession, kickoutAfter>>,
         TypeOK', NEW q \in Thread, NEW y \in Sid,
         Elsewhere(q, y), Derived(q, y), GoesOn(q), PlacedNext(q), SeesNext(q), StagedNext(q)
  PROVE  KickInv'
BY OwnStepOwned, OwnStepAlone, OwnStepInQueue, OwnStepStaging DEF KickInv


(***************************************************************************)
(* The steps of a request.                                                 *)
(***************************************************************************)

\* What else a request changes is its user's.
Mostly(q) ==
  /\ \/ UNCHANGED queue
     \/ \E d \in Seq(Sid) : /\ Len(d) <= maxSession
                            /\ queue' = [queue EXCEPT ![request[q].user] = d]
  /\ \/ UNCHANGED admitted
     \/ \E adm \in SUBSET Sid : admitted' = [admitted EXCEPT ![request[q].user] = adm]
  /\ UNCHANGED <<castFailed, used, relogged>>

LEMMA OwnFrame ==
  ASSUME KickInv, UNCHANGED <<maxSession, kickoutAfter>>,
         NEW q \in Thread, Active(q), NEW y \in Mine(q),
         NEW v \in Session \cup {Null}, NEW w \in Session \cup {Null}, Puts(q, y, v, w),
         NEW z \in Request, request' = [request EXCEPT ![q] = z],
         Mostly(q)
  PROVE  /\ TypeOK' /\ Elsewhere(q, y)
         /\ redis'[y] = v /\ copies'[q][y] = w /\ request'[q] = z
<1>. DEFINE u == request[q].user
<1>1. y \in Sid /\ u \in User
  BY MineFacts
<1>2. /\ redis' \in [Sid -> Session \cup {Null}]
      /\ copies' \in [Thread -> [Sid -> Session \cup {Null}]]
      /\ redis'[y] = v /\ copies'[q][y] = w
      /\ \A t \in Sid \ {y} : redis'[t] = redis[t]
      /\ \A o \in Thread, t \in Sid : o # q \/ t # y => copies'[o][t] = copies[o][t]
  BY <1>1, Facts, PutsFacts
<1>3. /\ request' \in [Thread -> Request] /\ request'[q] = z
      /\ \A o \in Thread \ {q} : request'[o] = request[o]
  BY Facts
<1>4. /\ queue' \in [User -> Seq(Sid)] /\ \A w1 \in User : Len(queue'[w1]) <= maxSession
      /\ \A w1 \in User \ {u} : queue'[w1] = queue[w1]
  <2>1. queue \in [User -> Seq(Sid)] /\ \A w1 \in User : Len(queue[w1]) <= maxSession
    BY Facts DEF TypeOK
  <2>. QED BY <1>1, <2>1 DEF Mostly
<1>5. /\ admitted' \in [User -> SUBSET Sid]
      /\ \A w1 \in User \ {u} : admitted'[w1] = admitted[w1]
  <2>1. admitted \in [User -> SUBSET Sid]
    BY Facts
  <2>. QED BY <1>1, <2>1 DEF Mostly
<1>6. /\ castFailed \in BOOLEAN /\ used \subseteq Sid /\ relogged \subseteq Sid
      /\ maxSession \in Limits /\ kickoutAfter \in BOOLEAN
  BY Facts DEF TypeOK
<1>7. TypeOK'
  BY <1>2, <1>3, <1>4, <1>5, <1>6 DEF TypeOK, Mostly
<1>. QED BY <1>2, <1>3, <1>4, <1>5, <1>7 DEF Elsewhere, Mostly

\* An admitted session that is open was, but for the one that is touched.
LEMMA WasPlaced ==
  ASSUME KickInv, NEW q \in Thread, NEW y \in Sid, Elsewhere(q, y), Derived(q, y),
         NEW u \in User, u = request[q].user, NEW t \in admitted[u], OpenFor(t, u)',
         request[q].pc # "touch" \/ t # request[q].sid
  PROVE  Placed(t, request[q], queue[u])
<1>1. t \in Sid
  BY Facts
<1>2. redis'[t] = redis[t]
  BY <1>1 DEF Elsewhere, Derived, OpenFor, Opened
<1>3. OpenFor(t, u)
  BY <1>2 DEF OpenFor
<1>. QED BY <1>3 DEF KickInv, InQueue

LEMMA EndKept ==
  ASSUME KickInv, UNCHANGED <<maxSession, kickoutAfter>>,
         TypeOK', NEW q \in Thread, NEW y \in Sid, Elsewhere(q, y), Derived(q, y),
         request'[q] = Idle, UNCHANGED queue,
         admitted'[request[q].user] \subseteq admitted[request[q].user],
         \A u \in User : u = request[q].user =>
           \A t \in admitted'[u] : OpenFor(t, u)' => Contains(queue[u], t)
  PROVE  KickInv'
<1>1. GoesOn(q)
  BY IdleFacts DEF GoesOn, Mine
<1>2. PlacedNext(q)
  BY IdleFacts DEF PlacedNext, Placed
<1>3. SeesNext(q) /\ StagedNext(q)
  BY IdleFacts DEF SeesNext, StagedNext
<1>. QED BY <1>1, <1>2, <1>3, OwnStepKept

LEMMA RequestFacts ==
  ASSUME KickInv, NEW q \in Thread, Active(q)
  PROVE  LET x == request[q]
         IN /\ x \in Request /\ x.sid \in Sid /\ x.sid \in Mine(q) /\ x.user \in User
            /\ x.deque \in Seq(Sid) /\ Own(x) \subseteq Mine(q)
            /\ queue[x.user] \in Seq(Sid) /\ Len(queue[x.user]) <= maxSession
            /\ \A t \in Sid : Contains(queue[x.user], t) => t \in Mine(q)
            /\ Fitted(x)
            /\ Sees(x, Lookup(q, x.sid), redis[x.sid])
            /\ Staged(x, redis[x.sid], queue[x.user])
            /\ Lookup(q, x.sid) \in Session \cup {Null}
            /\ redis[x.sid] \in Session \cup {Null} /\ copies[q][x.sid] \in Session \cup {Null}
<1>1. request[q] \in Request /\ request[q].deque \in Seq(Sid)
  BY Facts DEF Request
<1>2. request[q].sid \in Sid /\ request[q].user \in User
  BY DEF KickInv, Shape, Active
<1>3. request[q].sid \in Mine(q)
  BY <1>2 DEF Mine, Own
<1>4. /\ queue[request[q].user] \in Seq(Sid) /\ Len(queue[request[q].user]) <= maxSession
  BY <1>2, Facts DEF TypeOK
<1>5. /\ redis[request[q].sid] \in Session \cup {Null}
      /\ copies[q][request[q].sid] \in Session \cup {Null}
  BY <1>2, Facts
<1>. QED BY <1>1, <1>2, <1>3, <1>4, <1>5 DEF KickInv, Seeing, Staging, Mine, Lookup

LEMMA TouchKept ==
  ASSUME KickInv, UNCHANGED <<maxSession, kickoutAfter>>,
         NEW q \in Thread, Touch(q)
  PROVE  KickInv'
<1>. DEFINE x == request[q]
            s == x.sid
            l == Lookup(q, s)
            z == [x EXCEPT !.pc = "read"]
<1>1. Active(q) /\ x.pc = "touch"
  BY DEF Touch, Active
<1>2. /\ x \in Request /\ s \in Sid /\ s \in Mine(q) /\ l \in Session \cup {Null}
  BY <1>1, RequestFacts
<1>3. z \in Request /\ request' = [request EXCEPT ![q] = z]
  BY <1>2, Facts DEF Touch, Goto, Request
<1>4. /\ z.sid = s /\ z.user = x.user /\ z.alone = x.alone /\ z.pc = "read"
      /\ z.deque = x.deque /\ z.victim = x.victim
  BY <1>2 DEF Request
<1>5. UNCHANGED <<queue, admitted>> /\ Mostly(q)
  BY DEF Touch, histories, Mostly
<1>. HIDE DEF z
<1>6. PICK v \in {l, Null} : Puts(q, s, v, l) /\ (Valid(l) => v = l) /\ (~Valid(l) => v = Null)
  BY <1>2, Operations DEF Touch
<1>7. /\ TypeOK' /\ Elsewhere(q, s)
      /\ redis'[s] = v /\ copies'[q][s] = l /\ request'[q] = z
  BY <1>1, <1>2, <1>3, <1>5, <1>6, OwnFrame
<1>8. Derived(q, s)
  BY <1>1, <1>6, <1>7 DEF Derived, From, Valid, Opened
<1>9. Own(z) = Own(x)
  BY <1>4 DEF Own
<1>10. GoesOn(q)
  BY <1>1, <1>4, <1>5, <1>7, <1>9, RequestFacts DEF GoesOn, Fitted
<1>11. PlacedNext(q)
  <2>. SUFFICES ASSUME NEW u \in User, u = x.user, NEW t \in admitted[u], OpenFor(t, u)', t # s
                PROVE  Contains(queue[u], t)
    BY <1>4, <1>5, <1>7 DEF PlacedNext, Placed
  <2>1. Placed(t, x, queue[u])
    BY <1>2, <1>7, <1>8, WasPlaced
  <2>. QED BY <1>1, <2>1 DEF Placed
<1>12. SeesNext(q)
  BY <1>4, <1>6, <1>7 DEF SeesNext, Sees, Lookup, Opened, Valid
<1>13. StagedNext(q)
  BY <1>4, <1>7 DEF StagedNext, Staged
<1>. QED BY <1>2, <1>7, <1>8, <1>10, <1>11, <1>12, <1>13, OwnStepKept

LEMMA ReadQueueKept ==
  ASSUME KickInv, UNCHANGED <<maxSession, kickoutAfter>>,
         NEW q \in Thread, ReadQueue(q)
  PROVE  KickInv'
<1>. DEFINE x == request[q]
            s == x.sid
            d == queue[x.user]
            z == [x EXCEPT !.deque = d, !.pc = IF Contains(d, s) THEN "kick" ELSE "push"]
<1>1. Active(q) /\ x.pc = "read"
  BY DEF ReadQueue, Active
<1>2. /\ x \in Request /\ s \in Sid /\ s \in Mine(q) /\ x.user \in User
      /\ d \in Seq(Sid) /\ Len(d) <= maxSession
      /\ redis[s] \in Session \cup {Null} /\ copies[q][s] \in Session \cup {Null}
      /\ Sees(x, Lookup(q, s), redis[s])
  BY <1>1, RequestFacts
<1>3. z \in Request /\ request' = [request EXCEPT ![q] = z]
  BY <1>2, Facts DEF ReadQueue, Request
<1>4. /\ z.sid = s /\ z.user = x.user /\ z.alone = x.alone /\ z.deque = d /\ z.victim = x.victim
      /\ z.pc = IF Contains(d, s) THEN "kick" ELSE "push"
  BY <1>2 DEF Request
<1>5. UNCHANGED <<redis, copies, queue, admitted>> /\ Mostly(q)
  BY DEF ReadQueue, stored, histories, Mostly
<1>. HIDE DEF z
<1>6. PICK v \in Session \cup {Null}, w \in Session \cup {Null} : Puts(q, s, v, w)
  BY <1>2, <1>5, Operations
<1>7. TypeOK' /\ Elsewhere(q, s) /\ request'[q] = z
  BY <1>1, <1>2, <1>3, <1>5, <1>6, OwnFrame
<1>8. Derived(q, s)
  BY <1>5 DEF Derived
<1>9. Own(z) \subseteq Mine(q)
  BY <1>4 DEF Own, Mine
<1>10. Fitted(z)
  BY <1>2, <1>4, Facts DEF Fitted, TooMany
<1>11. GoesOn(q)
  BY <1>1, <1>4, <1>5, <1>7, <1>9, <1>10, RequestFacts DEF GoesOn
<1>12. PlacedNext(q)
  <2>. SUFFICES ASSUME NEW u \in User, u = x.user, NEW t \in admitted[u], OpenFor(t, u)'
                PROVE  t = s \/ Contains(d, t)
    BY <1>4, <1>5, <1>7 DEF PlacedNext, Placed
  <2>1. Placed(t, x, queue[u])
    BY <1>1, <1>2, <1>7, <1>8, WasPlaced
  <2>. QED BY <1>1, <2>1 DEF Placed
<1>13. SeesNext(q)
  BY <1>1, <1>2, <1>4, <1>5, <1>7 DEF SeesNext, Sees, Lookup
<1>14. StagedNext(q)
  BY <1>2, <1>4, <1>5, <1>7, Facts DEF StagedNext, Staged, TooMany
<1>. QED BY <1>2, <1>7, <1>8, <1>11, <1>12, <1>13, <1>14, OwnStepKept

LEMMA PushKept ==
  ASSUME KickInv, UNCHANGED <<maxSession, kickoutAfter>>,
         NEW q \in Thread, Push(q)
  PROVE  KickInv'
<1>. DEFINE x == request[q]
            s == x.sid
            l == Lookup(q, s)
            d == IF l.state = "open" THEN <<s>> \o x.deque ELSE x.deque
            z == [x EXCEPT !.pc = "kick", !.deque = d]
<1>1. Active(q) /\ x.pc = "push" /\ Valid(l)
  BY DEF Push, Active
<1>2. /\ x \in Request /\ s \in Sid /\ s \in Mine(q) /\ x.user \in User /\ x.deque \in Seq(Sid)
      /\ Len(x.deque) <= maxSession /\ ~Contains(x.deque, s)
      /\ redis[s] \in Session \cup {Null} /\ l \in Session \cup {Null} /\ l # Null
      /\ Sees(x, l, redis[s]) /\ Own(x) \subseteq Mine(q)
  BY <1>1, RequestFacts DEF Fitted, Valid
<1>. DEFINE f == <<s>> \o x.deque
<1>3. /\ l.state = "open" => d = f
      /\ l.state # "open" => d = x.deque
  OBVIOUS
<1>19. /\ f \in Seq(Sid) /\ Len(f) = Len(x.deque) + 1 /\ f[1] = s
       /\ \A i \in 1 .. Len(x.deque) : f[i + 1] = x.deque[i]
       /\ \A t : Contains(f, t) <=> t = s \/ Contains(x.deque, t)
  BY <1>2, InFront
<1>. HIDE DEF f
<1>4. d \in Seq(Sid) /\ \A t : Contains(d, t) => t = s \/ Contains(x.deque, t)
  BY <1>2, <1>3, <1>19
<1>5. z \in Request /\ request' = [request EXCEPT ![q] = z]
  BY <1>2, <1>4, Facts DEF Push, Request
<1>6. /\ z.sid = s /\ z.user = x.user /\ z.alone = x.alone /\ z.deque = d /\ z.victim = x.victim
      /\ z.pc = "kick"
  BY <1>2 DEF Request
<1>7. UNCHANGED <<redis, queue, admitted>> /\ Mostly(q)
  BY DEF Push, LookupKeeps, histories, Mostly
<1>. HIDE DEF z, d
<1>8. PICK v \in Session \cup {Null}, w \in Session \cup {Null} : Puts(q, s, v, w) /\ w = l
  BY <1>2, Operations DEF Push
<1>20. Active(q) /\ s \in Mine(q) /\ Mostly(q) /\ Puts(q, s, v, w)
  BY <1>1, <1>2, <1>7, <1>8
<1>21. TypeOK' /\ Elsewhere(q, s) /\ request'[q] = z /\ copies'[q][s] = w
  BY <1>5, <1>20, OwnFrame
<1>9. TypeOK' /\ Elsewhere(q, s) /\ request'[q] = z /\ copies'[q][s] = l
  BY <1>8, <1>21
<1>10. Derived(q, s)
  BY <1>1, <1>7, <1>9 DEF Derived, From, Valid
<1>11. Own(z) \subseteq Mine(q)
  BY <1>2, <1>4, <1>6 DEF Own, Mine
<1>12. Fitted(z)
  <2>. SUFFICES ASSUME Len(d) > maxSession
                PROVE  /\ Len(d) = maxSession + 1 /\ d[1] = s
                       /\ \A i \in 2 .. maxSession + 1 : d[i] # s
    BY <1>6 DEF Fitted, TooMany
  <2>0. l.state = "open"
    BY <1>2, <1>3, Facts
  <2>1. /\ Len(d) = Len(x.deque) + 1 /\ d[1] = s
        /\ \A i \in 1 .. Len(x.deque) : d[i + 1] = x.deque[i]
    BY <1>3, <1>19, <2>0
  <2>2. Len(d) = maxSession + 1 /\ Len(x.deque) = maxSession
    BY <1>2, <2>1, Facts
  <2>3. ASSUME NEW i \in 2 .. maxSession + 1  PROVE d[i] # s
    <3>1. i - 1 \in 1 .. Len(x.deque) /\ d[(i - 1) + 1] = x.deque[i - 1] /\ (i - 1) + 1 = i
      BY <2>1, <2>2, Facts
    <3>. QED BY <1>2, <3>1 DEF Contains
  <2>. QED BY <2>1, <2>2, <2>3
<1>13. GoesOn(q)
  BY <1>1, <1>6, <1>7, <1>9, <1>11, <1>12, RequestFacts DEF GoesOn
<1>14. l.state # "open" /\ x.alone => ~Opened(redis[s])
  BY <1>1, <1>2 DEF Sees, Opened
<1>15. l.state = "open" => Contains(d, s) /\ \A t : Contains(x.deque, t) => Contains(d, t)
  BY <1>3, <1>19
<1>16. PlacedNext(q)
  <2>. SUFFICES ASSUME NEW u \in User, u = x.user, NEW t \in admitted[u], OpenFor(t, u)'
                PROVE  (t = s /\ ~x.alone) \/ Contains(d, t)
    BY <1>6, <1>7, <1>9 DEF PlacedNext, Placed
  <2>1. Placed(t, x, queue[u])
    BY <1>1, <1>2, <1>9, <1>10, WasPlaced
  <2>2. t = s \/ Contains(x.deque, t)
    BY <1>1, <2>1 DEF Placed
  <2>3. t = s => Opened(redis[s])
    BY <1>7 DEF OpenFor, Opened
  <2>. QED BY <1>3, <1>14, <1>15, <2>2, <2>3
<1>17. SeesNext(q)
  BY <1>1, <1>2, <1>6, <1>7, <1>9 DEF SeesNext, Sees, Lookup, Valid
<1>18. StagedNext(q)
  <2>1. x.alone /\ s \notin relogged => redis[s] # Null
    BY <1>1, <1>2 DEF Sees, Valid
  <2>. QED BY <1>6, <1>7, <1>9, <1>14, <1>15, <2>1 DEF StagedNext, Staged
<1>. QED BY <1>2, <1>9, <1>10, <1>13, <1>16, <1>17, <1>18, OwnStepKept

\* A request ends: with a failure, or with its session out of the way, or
\* after its handler.
EndsWell(q, y, v) ==
  \/ admitted' = [admitted EXCEPT ![request[q].user] = {}]
  \/ UNCHANGED admitted /\ request[q].pc = "handler"
  \/ UNCHANGED admitted /\ request[q].pc = "check" /\ y = request[q].sid /\ v = Null

LEMMA EndStep ==
  ASSUME KickInv, UNCHANGED <<maxSession, kickoutAfter>>,
         NEW q \in Thread, Active(q), request[q].pc # "touch", NEW y \in Mine(q),
         NEW v \in Session \cup {Null}, NEW w \in Session \cup {Null}, Puts(q, y, v, w),
         v \in {redis[y], Null}, w = copies[q][y] \/ From(Lookup(q, y), w),
         End(q), Mostly(q), UNCHANGED queue, EndsWell(q, y, v)
  PROVE  KickInv'
<1>. DEFINE x == request[q]
<1>1. y \in Sid /\ x.user \in User /\ x.sid \in Sid
  BY MineFacts
<1>2. Idle \in Request /\ request' = [request EXCEPT ![q] = Idle]
  BY IdleFacts DEF End
<1>3. /\ TypeOK' /\ Elsewhere(q, y)
      /\ redis'[y] = v /\ copies'[q][y] = w /\ request'[q] = Idle
  BY <1>2, OwnFrame
<1>4. Derived(q, y)
  BY <1>3 DEF Derived, From, Opened
<1>5. admitted'[x.user] = {} \/ UNCHANGED admitted
  BY <1>1, Facts DEF EndsWell
<1>6. ASSUME NEW u \in User, u = x.user, NEW t \in admitted'[u], OpenFor(t, u)'
      PROVE  Contains(queue[u], t)
  <2>1. UNCHANGED admitted /\ admitted'[u] # {}
    BY <1>5, <1>6
  <2>2. \/ x.pc = "handler"
        \/ x.pc = "check" /\ y = x.sid /\ v = Null
    BY <1>1, <1>6, <2>1, Facts DEF EndsWell
  <2>3. Placed(t, x, queue[u])
    BY <1>1, <1>3, <1>4, <1>6, <2>1, WasPlaced
  <2>4. y = x.sid /\ v = Null => t # x.sid
    BY <1>3, <1>6 DEF OpenFor
  <2>. QED BY <2>2, <2>3, <2>4 DEF Placed
<1>. QED BY <1>1, <1>3, <1>4, <1>5, <1>6, EndKept

LEMMA StoppedFrom ==
  ASSUME NEW l \in Session \cup {Null}, Valid(l)
  PROVE  /\ [l EXCEPT !.state = "stopped"] \in Session
         /\ From(l, [l EXCEPT !.state = "stopped"])
         /\ [l EXCEPT !.state = "kicked"] \in Session
         /\ From(l, [l EXCEPT !.state = "kicked"])
         /\ ~Opened([l EXCEPT !.state = "kicked"])
BY DEF Session, Valid, From, Opened

\* The session is stopped, or found to be stopped.
LEMMA Removed ==
  ASSUME KickInv, NEW q \in Thread, NEW y \in Sid,
         \/ Valid(Lookup(q, y)) /\ StopSession(q, y)
         \/ ~Valid(Lookup(q, y)) /\ LookupThrows(q, y)
  PROVE  \E w \in Session \cup {Null} :
           Puts(q, y, Null, w) /\ From(Lookup(q, y), w) /\ ~Valid(w)
<1>. DEFINE l == Lookup(q, y)
<1>1. /\ l \in Session \cup {Null}
      /\ ~Valid(l) /\ LookupThrows(q, y) => Puts(q, y, Null, l)
      /\ StopSession(q, y) => Puts(q, y, Null, [l EXCEPT !.state = "stopped"])
  BY Operations
<1>. HIDE DEF l
<1>2. CASE Valid(l) /\ StopSession(q, y)
  <2>1. ~Valid([l EXCEPT !.state = "stopped"])
    BY <1>1, <1>2 DEF Valid, Session
  <2>. QED BY <1>1, <1>2, <2>1, StoppedFrom DEF l
<1>3. CASE ~Valid(l) /\ LookupThrows(q, y)
  BY <1>1, <1>3 DEF l, From
<1>. QED BY <1>2, <1>3 DEF l

LEMMA EndingKept ==
  ASSUME KickInv, UNCHANGED <<maxSession, kickoutAfter>>,
         NEW q \in Thread,
         \/ PushThrows(q) \/ Redirect(q) \/ CheckThrows(q) \/ Handle(q) \/ Logout(q)
         \/ End(q) /\ Disturb(q) /\ request[q].pc \notin {"idle", "touch"}
              /\ UNCHANGED <<stored, castFailed, used, relogged>>
  PROVE  KickInv'
<1>. DEFINE s == request[q].sid
<1>1. Active(q) /\ request[q].pc # "touch" /\ End(q)
  BY DEF Active, PushThrows, Redirect, CheckThrows, Handle, Logout
<1>2. s \in Mine(q) /\ s \in Sid
  BY <1>1, RequestFacts
<1>3. UNCHANGED queue /\ Mostly(q)
  <2>1. /\ UNCHANGED <<queue, castFailed, used, relogged>>
        /\ UNCHANGED admitted \/ Disturb(q)
    BY DEF PushThrows, Redirect, CheckThrows, Handle, Logout, stored, histories, StopSession,
           LookupThrows
  <2>. QED BY <2>1 DEF Mostly, Disturb
<1>4. CASE Handle(q) \/ (Disturb(q) /\ UNCHANGED stored)
  <2>1. PICK v \in Session \cup {Null}, w \in Session \cup {Null} :
          Puts(q, s, v, w) /\ v = redis[s] /\ w = copies[q][s]
    BY <1>1, <1>2, <1>4, Operations, RequestFacts DEF Handle, stored
  <2>2. EndsWell(q, s, v)
    BY <1>4 DEF EndsWell, Handle, Disturb, histories
  <2>3. v \in {redis[s], Null} /\ (w = copies[q][s] \/ From(Lookup(q, s), w))
    BY <2>1
  <2>4. Puts(q, s, v, w)
    BY <2>1
  <2>. QED BY <1>1, <1>2, <1>3, <2>2, <2>3, <2>4, EndStep
<1>5. CASE PushThrows(q) \/ Redirect(q) \/ CheckThrows(q) \/ Logout(q)
  <2>1. \/ Valid(Lookup(q, s)) /\ StopSession(q, s)
        \/ ~Valid(Lookup(q, s)) /\ LookupThrows(q, s)
    BY <1>5 DEF PushThrows, Redirect, CheckThrows, Logout
  <2>2. PICK w \in Session \cup {Null} : Puts(q, s, Null, w) /\ From(Lookup(q, s), w)
    BY <1>2, <2>1, Removed
  <2>3. EndsWell(q, s, Null)
    BY <1>5 DEF EndsWell, PushThrows, Redirect, CheckThrows, Logout, Disturb, histories
  <2>4. Null \in Session \cup {Null} /\ Null \in {redis[s], Null}
    OBVIOUS
  <2>5. Puts(q, s, Null, w) /\ (w = copies[q][s] \/ From(Lookup(q, s), w))
    BY <2>2
  <2>. QED BY <1>1, <1>2, <1>3, <2>3, <2>4, <2>5, EndStep
<1>. QED BY <1>4, <1>5

\* A session that is too many leaves the deque: its object is changed in
\* Redis and for the thread, or nothing is.
LEMMA VictimKept ==
  ASSUME KickInv, UNCHANGED <<maxSession, kickoutAfter>>,
         NEW q \in Thread, request[q].pc \in {"kick", "stop"},
         NEW y \in Mine(q), NEW v \in Session \cup {Null}, NEW w \in Session \cup {Null},
         Puts(q, y, v, w),
         \/ v = redis[y] /\ w = copies[q][y]
         \/ /\ ~Opened(v) /\ From(Lookup(q, y), v) /\ From(Lookup(q, y), w)
            /\ v = w \/ (v = Null /\ ~Valid(w)),
         NEW z \in Request, request' = [request EXCEPT ![q] = z],
         z.sid = request[q].sid, z.user = request[q].user, z.alone = request[q].alone,
         z.pc = "kick" \/ (z.pc = "stop" /\ z.victim = y),
         z.victim \in {Null, request[q].victim, y},
         Len(z.deque) <= maxSession,
         \A t : Contains(z.deque, t) => Contains(request[q].deque, t),
         \A t : Contains(request[q].deque, t) =>
           (t = y /\ ~Opened(v)) \/ Contains(z.deque, t),
         UNCHANGED <<queue, castFailed, used, histories>>
  PROVE  KickInv'
<1>. DEFINE x == request[q]
            s == x.sid
<1>1. Active(q) /\ y \in Sid
  <2>1. Active(q)
    BY DEF Active
  <2>. QED BY <2>1, MineFacts
<1>2. /\ s \in Sid /\ s \in Mine(q) /\ x.user \in User /\ Own(x) \subseteq Mine(q)
      /\ Sees(x, Lookup(q, s), redis[s]) /\ Staged(x, redis[s], queue[x.user])
      /\ z.deque \in Seq(Sid)
  BY <1>1, RequestFacts DEF Request
<1>3. UNCHANGED <<queue, admitted, used, relogged>> /\ Mostly(q)
  BY DEF histories, Mostly
<1>4. /\ TypeOK' /\ Elsewhere(q, y)
      /\ redis'[y] = v /\ copies'[q][y] = w /\ request'[q] = z
  BY <1>1, <1>3, OwnFrame
<1>5. Derived(q, y)
  BY <1>4 DEF Derived
<1>6. Own(z) \subseteq Mine(q)
  BY <1>1, <1>2, Facts DEF Own
<1>7. ~TooMany(z.deque) /\ Fitted(z)
  <2>1. ~TooMany(z.deque)
    BY <1>2, Facts DEF TooMany
  <2>. QED BY <2>1 DEF Fitted
<1>8. GoesOn(q)
  BY <1>1, <1>3, <1>4, <1>6, <1>7, RequestFacts DEF GoesOn
<1>9. PlacedNext(q)
  <2>. SUFFICES ASSUME NEW u \in User, u = x.user, NEW t \in admitted[u], OpenFor(t, u)'
                PROVE  (t = s /\ ~x.alone) \/ Contains(z.deque, t)
    BY <1>3, <1>4 DEF PlacedNext, Placed
  <2>1. Placed(t, x, queue[u])
    BY <1>1, <1>4, <1>5, WasPlaced
  <2>2. t = y => Opened(v)
    BY <1>4 DEF OpenFor, Opened
  <2>. QED BY <2>1, <2>2 DEF Placed
<1>10. s # y => redis'[s] = redis[s] /\ copies'[q][s] = copies[q][s]
  BY <1>2, <1>4 DEF Elsewhere
<1>11. SeesNext(q)
  <2>1. CASE s # y
    BY <1>2, <1>3, <1>4, <1>10, <2>1 DEF SeesNext, Sees, Lookup
  <2>2. CASE s = y /\ v = redis[y] /\ w = copies[q][y]
    BY <1>2, <1>3, <1>4, <2>2 DEF SeesNext, Sees, Lookup
  <2>3. CASE s = y /\ ~Opened(v) /\ (v = w \/ (v = Null /\ ~Valid(w)))
    BY <1>4, <2>3 DEF SeesNext, Sees, Lookup, Valid
  <2>. QED BY <2>1, <2>2, <2>3
<1>12. StagedNext(q)
  BY <1>2, <1>3, <1>4, <1>7, <1>10 DEF StagedNext, Staged
<1>. QED BY <1>1, <1>4, <1>5, <1>8, <1>9, <1>11, <1>12, OwnStepKept

LEMMA KickingFacts ==
  ASSUME KickInv, NEW q \in Thread, request[q].pc = "kick", TooMany(request[q].deque)
  PROVE  LET deque == request[q].deque
         IN /\ deque \in Seq(Sid) /\ Len(deque) > 0
            /\ Rest(deque) \in Seq(Sid) /\ Len(Rest(deque)) = maxSession
            /\ Victim(deque) \in Sid /\ Victim(deque) \in Mine(q)
            /\ \A t : Contains(Rest(deque), t) => Contains(deque, t)
            /\ \A t : Contains(deque, t) => t = Victim(deque) \/ Contains(Rest(deque), t)
<1>. DEFINE deque == request[q].deque
<1>1. Active(q)
  BY DEF Active
<1>2. deque \in Seq(Sid) /\ Len(deque) = maxSession + 1
  BY <1>1, RequestFacts DEF Fitted
<1>3. Len(deque) > 0 /\ Len(deque) - 1 = maxSession
  BY <1>2, Facts
<1>4. Victim(deque) \in Sid /\ Contains(deque, Victim(deque)) /\ Rest(deque) \in Seq(Sid)
  BY <1>2, <1>3, RestOf
<1>5. Victim(deque) \in Mine(q)
  BY <1>4 DEF Mine, Own
<1>. QED BY <1>2, <1>3, <1>4, <1>5, RestOf

LEMMA KickKept ==
  ASSUME KickInv, UNCHANGED <<maxSession, kickoutAfter>>,
         NEW q \in Thread, Kick(q) \/ KickIgnored(q)
  PROVE  KickInv'
<1>. DEFINE x == request[q]
            deque == x.deque
            rest == Rest(deque)
            y == Victim(deque)
            l == Lookup(q, y)
            k == [l EXCEPT !.state = "kicked"]
<1>1. x.pc = "kick" /\ TooMany(deque) /\ Active(q)
  BY DEF Kick, KickIgnored, Active
<1>2. x \in Request
  BY <1>1, RequestFacts
<1>6. /\ rest \in Seq(Sid) /\ Len(rest) = maxSession /\ y \in Sid /\ y \in Mine(q)
      /\ \A t : Contains(rest, t) => Contains(deque, t)
      /\ \A t : Contains(deque, t) => t = y \/ Contains(rest, t)
  BY <1>1, KickingFacts
<1>. HIDE DEF rest, y
<1>3. /\ rest \in Seq(Sid) /\ Len(rest) <= maxSession /\ y \in Sid /\ y \in Mine(q)
      /\ \A t : Contains(rest, t) => Contains(deque, t)
      /\ \A t : Contains(deque, t) => t = y \/ Contains(rest, t)
  BY <1>6, Facts
<1>4. CASE Kick(q)
  <2>. DEFINE z == [x EXCEPT !.pc = "stop", !.deque = rest, !.victim = y]
  <2>1. /\ z \in Request /\ z.sid = x.sid /\ z.user = x.user /\ z.alone = x.alone
        /\ z.pc = "stop" /\ z.victim = y /\ z.deque = rest
    BY <1>2, <1>3 DEF Request
  <2>2. request' = [request EXCEPT ![q] = z]
    BY <1>4, Facts DEF Kick, rest, y
  <2>. HIDE DEF z
  <2>3. Valid(l) /\ l \in Session \cup {Null}
    BY <1>3, <1>4, Operations DEF Kick, y
  <2>4. k \in Session \cup {Null} /\ ~Opened(k) /\ From(l, k)
    BY <2>3, StoppedFrom
  <2>5. Puts(q, y, k, k)
    BY <1>4 DEF Kick, Store, Puts, y
  <2>6. UNCHANGED <<queue, castFailed, used, histories>>
    BY <1>4 DEF Kick
  <2>. HIDE DEF k, l
  <2>7. \A t : Contains(deque, t) => (t = y /\ ~Opened(k)) \/ Contains(rest, t)
    BY <1>3, <2>4
  <2>8. \A t : Contains(z.deque, t) => Contains(request[q].deque, t)
    BY <1>3, <2>1
  <2>9. From(Lookup(q, y), k)
    BY <2>4 DEF l
  <2>. QED BY <1>1, <1>3, <2>1, <2>2, <2>4, <2>5, <2>6, <2>7, <2>8, <2>9, VictimKept
<1>5. CASE KickIgnored(q)
  <2>. DEFINE z == [x EXCEPT !.deque = rest]
  <2>1. /\ z \in Request /\ z.sid = x.sid /\ z.user = x.user /\ z.alone = x.alone
        /\ z.pc = "kick" /\ z.victim = x.victim /\ z.deque = rest
    BY <1>1, <1>2, <1>3 DEF Request
  <2>2. request' = [request EXCEPT ![q] = z]
    BY <1>5, Facts DEF KickIgnored, rest
  <2>. HIDE DEF z
  <2>3. ~Valid(l) /\ LookupThrows(q, y) /\ UNCHANGED <<queue, castFailed, used, histories>>
    BY <1>5 DEF KickIgnored, y
  <2>. HIDE DEF l
  <2>4. PICK w \in Session \cup {Null} :
          Puts(q, y, Null, w) /\ From(Lookup(q, y), w) /\ ~Valid(w)
    BY <1>3, <2>3, Removed DEF l
  <2>5. /\ Null \in Session \cup {Null} /\ ~Opened(Null) /\ From(Lookup(q, y), Null)
        /\ Puts(q, y, Null, w)
    BY <2>4 DEF Opened, From
  <2>6. \A t : Contains(deque, t) => (t = y /\ ~Opened(Null)) \/ Contains(rest, t)
    BY <1>3, <2>5
  <2>7. \A t : Contains(z.deque, t) => Contains(request[q].deque, t)
    BY <1>3, <2>1
  <2>. QED BY <1>1, <1>3, <2>1, <2>2, <2>3, <2>4, <2>5, <2>6, <2>7, VictimKept
<1>. QED BY <1>4, <1>5

\* The stop of the victim, or the failure of this.
LEMMA StopKept ==
  ASSUME KickInv, UNCHANGED <<maxSession, kickoutAfter>>,
         NEW q \in Thread,
         \/ StopVictim(q)
         \/ /\ request[q].pc = "stop"
            /\ request' = [request EXCEPT ![q].pc = "kick", ![q].victim = Null]
            /\ UNCHANGED <<stored, castFailed, used, histories>>
  PROVE  KickInv'
<1>. DEFINE x == request[q]
            y == x.victim
            l == Lookup(q, y)
            z == [x EXCEPT !.pc = "kick", !.victim = Null]
<1>1. x.pc = "stop" /\ Active(q)
  BY DEF StopVictim, Active
<1>2. x \in Request /\ Len(x.deque) <= maxSession /\ Own(x) \subseteq Mine(q)
  BY <1>1, RequestFacts DEF Fitted
<1>3. y \in Sid /\ y \in Mine(q)
  <2>1. y \in Sid
    BY <1>1 DEF KickInv, Shape
  <2>. QED BY <1>2, <2>1 DEF Own
<1>4. /\ z \in Request /\ z.sid = x.sid /\ z.user = x.user /\ z.alone = x.alone
      /\ z.pc = "kick" /\ z.victim = Null /\ z.deque = x.deque
  BY <1>2 DEF Request
<1>5. request' = [request EXCEPT ![q] = z]
  BY Facts DEF StopVictim
<1>6. UNCHANGED <<queue, castFailed, used, histories>>
  BY DEF StopVictim, stored
<1>. HIDE DEF z
<1>9. /\ z \in Request /\ z.sid = request[q].sid /\ z.user = request[q].user
      /\ z.alone = request[q].alone /\ z.pc = "kick" /\ z.victim \in {Null, request[q].victim, y}
      /\ request[q].pc \in {"kick", "stop"}
  BY <1>1, <1>4
<1>10. /\ Len(z.deque) <= maxSession
       /\ \A t : Contains(z.deque, t) => Contains(request[q].deque, t)
       /\ \A t : Contains(request[q].deque, t) => Contains(z.deque, t)
  BY <1>2, <1>4
<1>7. CASE StopVictim(q)
  <2>1. \/ Valid(Lookup(q, y)) /\ StopSession(q, y)
        \/ ~Valid(Lookup(q, y)) /\ LookupThrows(q, y)
    BY <1>7 DEF StopVictim
  <2>2. PICK w \in Session \cup {Null} :
          Puts(q, y, Null, w) /\ From(Lookup(q, y), w) /\ ~Valid(w)
    BY <1>3, <2>1, Removed
  <2>3. /\ Null \in Session \cup {Null} /\ ~Opened(Null) /\ From(Lookup(q, y), Null)
        /\ Puts(q, y, Null, w)
    BY <2>2 DEF Opened, From
  <2>. HIDE DEF y
  <2>. QED BY <1>3, <1>9, <1>10, <1>5, <1>6, <2>2, <2>3, VictimKept
<1>8. CASE ~StopVictim(q)
  <2>1. Puts(q, y, redis[y], copies[q][y])
    BY <1>3, <1>8, Operations DEF stored
  <2>2. PICK v \in Session \cup {Null}, w \in Session \cup {Null} :
          Puts(q, y, v, w) /\ v = redis[y] /\ w = copies[q][y]
    <3>1. redis[y] \in Session \cup {Null} /\ copies[q][y] \in Session \cup {Null}
      BY <1>3, Facts
    <3>. QED BY <2>1, <3>1
  <2>3. Puts(q, y, v, w)
    BY <2>2
  <2>. HIDE DEF y
  <2>. QED BY <1>3, <1>9, <1>10, <1>5, <1>6, <2>2, <2>3, VictimKept
<1>. QED BY <1>7, <1>8

LEMMA WriteQueueKept ==
  ASSUME KickInv, UNCHANGED <<maxSession, kickoutAfter>>,
         NEW q \in Thread, WriteQueue(q)
  PROVE  KickInv'
<1>. DEFINE x == request[q]
            s == x.sid
            z == [x EXCEPT !.pc = "check", !.deque = <<>>]
<1>1. Active(q) /\ x.pc = "kick" /\ ~TooMany(x.deque)
  BY DEF WriteQueue, Active
<1>2. /\ x \in Request /\ s \in Sid /\ s \in Mine(q) /\ x.user \in User /\ x.deque \in Seq(Sid)
      /\ redis[s] \in Session \cup {Null} /\ copies[q][s] \in Session \cup {Null}
      /\ Sees(x, Lookup(q, s), redis[s]) /\ Staged(x, redis[s], queue[x.user])
      /\ Own(x) \subseteq Mine(q)
  BY <1>1, RequestFacts
<1>3. Len(x.deque) <= maxSession
  BY <1>1, <1>2, Facts DEF TooMany
<1>4. /\ z \in Request /\ z.sid = s /\ z.user = x.user /\ z.alone = x.alone /\ z.deque = <<>>
      /\ z.victim = x.victim /\ z.pc = "check"
  <2>1. <<>> \in Seq(Sid)
    OBVIOUS
  <2>. QED BY <1>2, <2>1 DEF Request
<1>5. request' = [request EXCEPT ![q] = z]
  BY Facts DEF WriteQueue
<1>6. UNCHANGED <<redis, copies, admitted>> /\ Mostly(q) /\ queue'[x.user] = x.deque
  <2>1. queue' = [queue EXCEPT ![x.user] = x.deque] /\ UNCHANGED <<castFailed, used, histories>>
    BY DEF WriteQueue
  <2>2. queue'[x.user] = x.deque
    BY <1>2, <2>1, Facts
  <2>. QED BY <1>2, <1>3, <2>1, <2>2 DEF WriteQueue, histories, Mostly
<1>. HIDE DEF z
<1>7. PICK v \in Session \cup {Null}, w \in Session \cup {Null} : Puts(q, s, v, w)
  BY <1>2, <1>6, Operations
<1>8. Active(q) /\ s \in Mine(q) /\ Mostly(q) /\ Puts(q, s, v, w)
  BY <1>1, <1>2, <1>6, <1>7
<1>9. TypeOK' /\ Elsewhere(q, s) /\ request'[q] = z
  BY <1>4, <1>5, <1>8, OwnFrame
<1>10. Derived(q, s)
  BY <1>6 DEF Derived
<1>11. \A t : ~Contains(<<>>, t)
  BY DEF Contains
<1>12. Own(z) \subseteq Mine(q) /\ \A t \in Sid : Contains(x.deque, t) => t \in Mine(q)
  BY <1>2, <1>4, <1>11 DEF Own
<1>13. GoesOn(q)
  BY <1>4, <1>6, <1>9, <1>12 DEF GoesOn, Fitted
<1>14. PlacedNext(q)
  <2>. SUFFICES ASSUME NEW u \in User, u = x.user, NEW t \in admitted[u], OpenFor(t, u)'
                PROVE  (t = s /\ ~x.alone) \/ Contains(x.deque, t)
    BY <1>4, <1>6, <1>9 DEF PlacedNext, Placed
  <2>1. Placed(t, x, queue[u])
    BY <1>1, <1>2, <1>9, <1>10, WasPlaced
  <2>. QED BY <1>1, <2>1 DEF Placed
<1>15. SeesNext(q)
  BY <1>1, <1>2, <1>4, <1>6, <1>9 DEF SeesNext, Sees, Lookup
<1>16. StagedNext(q)
  BY <1>1, <1>2, <1>4, <1>6, <1>9 DEF StagedNext, Staged
<1>. QED BY <1>2, <1>9, <1>10, <1>13, <1>14, <1>15, <1>16, OwnStepKept

LEMMA LetThroughKept ==
  ASSUME KickInv, UNCHANGED <<maxSession, kickoutAfter>>,
         NEW q \in Thread, LetThrough(q)
  PROVE  KickInv'
<1>. DEFINE x == request[q]
            s == x.sid
            l == Lookup(q, s)
            z == [x EXCEPT !.pc = "handler"]
            adm == IF x.alone THEN admitted[x.user] \cup {s} ELSE {}
<1>1. Active(q) /\ x.pc = "check" /\ Valid(l) /\ l # Null
  BY DEF LetThrough, Active, Valid
<1>2. /\ x \in Request /\ s \in Sid /\ s \in Mine(q) /\ x.user \in User
      /\ redis[s] \in Session \cup {Null} /\ l \in Session \cup {Null}
      /\ Sees(x, l, redis[s]) /\ Staged(x, redis[s], queue[x.user])
  BY <1>1, RequestFacts
<1>3. /\ z \in Request /\ z.sid = s /\ z.user = x.user /\ z.alone = x.alone
      /\ z.deque = x.deque /\ z.victim = x.victim /\ z.pc = "handler"
  BY <1>2 DEF Request
<1>4. request' = [request EXCEPT ![q] = z]
  BY <1>2, Facts DEF LetThrough, Goto
<1>5. UNCHANGED <<redis, queue>> /\ Mostly(q) /\ admitted'[x.user] = adm
  <2>1. /\ admitted' = [admitted EXCEPT ![x.user] = adm]
        /\ UNCHANGED <<redis, queue, castFailed, used, relogged>>
    BY Facts, <1>2 DEF LetThrough, LookupKeeps
  <2>2. adm \in SUBSET Sid
    BY <1>2, Facts
  <2>3. admitted'[x.user] = adm
    BY <1>2, <2>1, Facts
  <2>. QED BY <2>1, <2>2, <2>3 DEF Mostly
<1>. HIDE DEF z
<1>6. PICK v \in Session \cup {Null}, w \in Session \cup {Null} : Puts(q, s, v, w) /\ w = l
  BY <1>2, Operations DEF LetThrough
<1>7. Active(q) /\ s \in Mine(q) /\ Mostly(q) /\ Puts(q, s, v, w)
  BY <1>1, <1>2, <1>5, <1>6
<1>15. z \in Request /\ request' = [request EXCEPT ![q] = z]
  BY <1>3, <1>4
<1>8. TypeOK' /\ Elsewhere(q, s) /\ request'[q] = z /\ copies'[q][s] = w
  BY <1>7, <1>15, OwnFrame
<1>9. Derived(q, s)
  BY <1>1, <1>5, <1>6, <1>8 DEF Derived, From
<1>10. Own(z) \subseteq Mine(q)
  BY <1>1, <1>3, RequestFacts DEF Own
<1>11. GoesOn(q)
  <2>1. \/ adm \subseteq admitted[x.user]
        \/ x.alone /\ adm \subseteq admitted[x.user] \cup {s}
    OBVIOUS
  <2>2. \A t \in Sid : Contains(queue'[x.user], t) => t \in Mine(q)
    BY <1>1, <1>5, RequestFacts
  <2>. HIDE DEF adm
  <2>. QED BY <1>3, <1>5, <1>8, <1>10, <2>1, <2>2 DEF GoesOn, Fitted
<1>12. PlacedNext(q)
  <2>. SUFFICES ASSUME NEW u \in User, u = x.user, NEW t \in adm, OpenFor(t, u)'
                PROVE  Contains(queue[u], t)
    BY <1>3, <1>5, <1>8 DEF PlacedNext, Placed
  <2>1. x.alone /\ (t = s \/ t \in admitted[u])
    OBVIOUS
  <2>2. CASE t = s
    BY <1>1, <1>2, <1>5, <2>1, <2>2 DEF Staged, OpenFor, Opened
  <2>3. CASE t # s /\ t \in admitted[u]
    <3>1. Placed(t, x, queue[u])
      BY <1>2, <1>8, <1>9, <2>3, WasPlaced
    <3>. QED BY <1>1, <2>3, <3>1 DEF Placed
  <2>. QED BY <2>1, <2>2, <2>3
<1>13. SeesNext(q)
  BY <1>1, <1>2, <1>3, <1>5, <1>6, <1>8 DEF SeesNext, Sees, Lookup
<1>14. StagedNext(q)
  <2>1. l.state = "open"
    BY DEF LetThrough
  <2>. HIDE DEF l
  <2>2. x.alone /\ s \notin relogged => Opened(redis[s])
    BY <1>1, <1>2, <2>1 DEF Sees, Opened
  <2>. QED BY <1>1, <1>2, <1>3, <1>5, <1>8, <2>2 DEF StagedNext, Staged
<1>. QED BY <1>2, <1>8, <1>9, <1>11, <1>12, <1>13, <1>14, OwnStepKept

\* A request goes on without the count of its user's sessions, or is not seen
\* to be alone any more.
LEMMA UncountedKept ==
  ASSUME KickInv, UNCHANGED <<maxSession, kickoutAfter>>,
         NEW q \in Thread, Active(q),
         NEW z \in Request, request' = [request EXCEPT ![q] = z],
         z.sid = request[q].sid, z.user = request[q].user, z.alone = FALSE,
         Own(z) \subseteq Own(request[q]), Fitted(z),
         UNCHANGED <<stored, castFailed, used, relogged>>,
         \/ z.pc = "read" /\ request[q].pc = "touch" /\ UNCHANGED admitted
         \/ z.pc = "kick" /\ Disturb(q)
  PROVE  KickInv'
<1>. DEFINE x == request[q]
            s == x.sid
<1>1. /\ s \in Sid /\ s \in Mine(q) /\ x.user \in User /\ Own(x) \subseteq Mine(q)
      /\ redis[s] \in Session \cup {Null} /\ copies[q][s] \in Session \cup {Null}
      /\ \A t \in Sid : Contains(queue[x.user], t) => t \in Mine(q)
  BY RequestFacts
<1>2. UNCHANGED <<redis, copies, queue>> /\ Mostly(q)
  BY DEF stored, Mostly, Disturb
<1>3. PICK v \in Session \cup {Null}, w \in Session \cup {Null} : Puts(q, s, v, w)
  BY <1>1, <1>2, Operations
<1>4. TypeOK' /\ Elsewhere(q, s) /\ request'[q] = z
  BY <1>1, <1>2, <1>3, OwnFrame
<1>5. Derived(q, s)
  BY <1>2 DEF Derived
<1>6. admitted'[x.user] = {} \/ (UNCHANGED admitted /\ z.pc = "read" /\ x.pc = "touch")
  BY <1>1, Facts DEF Disturb
<1>7. GoesOn(q)
  BY <1>1, <1>2, <1>4, <1>6 DEF GoesOn
<1>8. PlacedNext(q)
  <2>. SUFFICES ASSUME NEW u \in User, u = x.user, NEW t \in admitted[u], OpenFor(t, u)',
                       z.pc = "read", x.pc = "touch"
                PROVE  t = s \/ Contains(queue[u], t)
    BY <1>2, <1>4, <1>6 DEF PlacedNext, Placed
  <2>. QED BY <1>2 DEF KickInv, InQueue, Placed, OpenFor
<1>9. SeesNext(q) /\ StagedNext(q)
  BY <1>4 DEF SeesNext, Sees, StagedNext, Staged
<1>. QED BY <1>1, <1>4, <1>5, <1>7, <1>8, <1>9, OwnStepKept

LEMMA FailKept ==
  ASSUME KickInv, UNCHANGED <<maxSession, kickoutAfter>>,
         NEW q \in Thread, Fail(q)
  PROVE  KickInv'
<1>. DEFINE x == request[q]
<1>1. CASE /\ x.pc = "touch"
           /\ request' = [request EXCEPT ![q].pc = "read", ![q].alone = FALSE]
           /\ UNCHANGED <<stored, castFailed, used, histories>>
  <2>. DEFINE z == [x EXCEPT !.pc = "read", !.alone = FALSE]
  <2>1. Active(q) /\ x \in Request
    <3>1. Active(q)
      BY <1>1 DEF Active
    <3>. QED BY <3>1, RequestFacts
  <2>2. /\ z \in Request /\ z.sid = x.sid /\ z.user = x.user /\ z.alone = FALSE
        /\ z.pc = "read" /\ z.deque = x.deque /\ z.victim = x.victim
    BY <2>1 DEF Request
  <2>3. request' = [request EXCEPT ![q] = z] /\ UNCHANGED <<admitted, relogged>>
    BY <1>1, Facts DEF histories
  <2>. HIDE DEF z
  <2>4. Own(z) \subseteq Own(x) /\ Fitted(z)
    BY <2>2 DEF Own, Fitted
  <2>5. UNCHANGED <<stored, castFailed, used, relogged>>
    BY <1>1, <2>3
  <2>. QED BY <1>1, <2>1, <2>2, <2>3, <2>4, <2>5, UncountedKept
<1>2. CASE /\ x.pc \notin {"idle", "touch", "kick", "stop", "handler"}
           /\ End(q) /\ Disturb(q)
           /\ UNCHANGED <<stored, castFailed, used, relogged>>
  BY <1>2, EndingKept
<1>3. CASE /\ x.pc = "kick" /\ ~TooMany(x.deque)
           /\ End(q) /\ Disturb(q)
           /\ UNCHANGED <<stored, castFailed, used, relogged>>
  BY <1>3, EndingKept
<1>4. CASE /\ x.pc = "kick" /\ TooMany(x.deque)
           /\ request' = [request EXCEPT ![q].deque = Rest(@), ![q].alone = FALSE]
           /\ Disturb(q)
           /\ UNCHANGED <<stored, castFailed, used, relogged>>
  <2>. DEFINE rest == Rest(x.deque)
              z == [x EXCEPT !.deque = rest, !.alone = FALSE]
  <2>1. Active(q) /\ x \in Request
    <3>1. Active(q)
      BY <1>4 DEF Active
    <3>. QED BY <3>1, RequestFacts
  <2>2. /\ rest \in Seq(Sid) /\ Len(rest) = maxSession
        /\ \A t : Contains(rest, t) => Contains(x.deque, t)
    BY <1>4, KickingFacts
  <2>3. request' = [request EXCEPT ![q] = z]
    BY <1>4, Facts
  <2>. HIDE DEF rest
  <2>4. /\ z \in Request /\ z.sid = x.sid /\ z.user = x.user /\ z.alone = FALSE
        /\ z.pc = "kick" /\ z.deque = rest /\ z.victim = x.victim
    BY <1>4, <2>1, <2>2 DEF Request
  <2>. HIDE DEF z
  <2>5. Own(z) \subseteq Own(x)
    BY <2>2, <2>4 DEF Own
  <2>6. ~TooMany(z.deque)
    BY <2>2, <2>4, Facts DEF TooMany
  <2>7. Fitted(z)
    BY <2>4, <2>6 DEF Fitted
  <2>. QED BY <1>4, <2>1, <2>3, <2>4, <2>5, <2>7, UncountedKept
<1>5. CASE /\ x.pc = "stop"
           /\ request' = [request EXCEPT ![q].pc = "kick", ![q].victim = Null]
           /\ UNCHANGED <<stored, castFailed, used, histories>>
  BY <1>5, StopKept
<1>. QED BY <1>1, <1>2, <1>3, <1>4, <1>5 DEF Fail

(***************************************************************************)
(* A request arrives, and what else is not a step of one.                  *)
(***************************************************************************)

LEMMA SidOf ==
  ASSUME KickInv, NEW o \in Thread, Active(o)
  PROVE  request[o].sid \in Own(request[o]) /\ request[o].sid \in Sid
BY DEF KickInv, Shape, Active, Own

LEMMA LoginKept ==
  ASSUME KickInv, UNCHANGED <<maxSession, kickoutAfter>>,
         NEW q \in Thread, NEW s \in Sid, NEW u \in User, Login(q, s, u)
  PROVE  KickInv'
<1>. DEFINE new == [user |-> u, state |-> "open"]
<1>1. new \in Session \cup {Null} /\ new.user = u
  BY DEF Session
<1>2. /\ s \notin used /\ used' = used \cup {s}
      /\ UNCHANGED <<queue, request, castFailed, admitted, relogged>>
  BY DEF Login, histories
<1>3. Puts(q, s, new, new)
  BY DEF Login, Store, Puts
<1>. HIDE DEF new
<1>4. /\ redis' \in [Sid -> Session \cup {Null}]
      /\ copies' \in [Thread -> [Sid -> Session \cup {Null}]]
      /\ redis'[s] = new /\ copies'[q][s] = new
      /\ \A t \in Sid \ {s} : redis'[t] = redis[t]
      /\ \A o \in Thread, t \in Sid : o # q \/ t # s => copies'[o][t] = copies[o][t]
  BY <1>1, <1>3, Facts, PutsFacts
<1>5. /\ redis[s] = Null
      /\ \A o \in Thread : copies[o][s] = Null /\ s \notin Own(request[o])
      /\ \A w \in User : s \notin admitted[w] /\ ~Contains(queue[w], s)
  BY <1>2 DEF KickInv, Fresh
<1>6. \A o \in Thread : Active(o) => request[o].sid # s /\ request[o].sid \in Sid
  BY <1>5, SidOf
<1>7. TypeOK'
  BY <1>2, <1>4, Facts DEF TypeOK
<1>8. Shape' /\ Alone' /\ OneActive' /\ (\A o \in Thread : Fitted(request[o]))'
  BY <1>2 DEF KickInv, Shape, Alone, OneActive, Active, Fitted, TooMany
<1>9. Fresh'
  BY <1>2, <1>4 DEF KickInv, Fresh
<1>10. Owned'
  <2>1. PICK owner \in [Sid -> User \cup {Null}] : OwnedBy(owner)
    BY DEF KickInv, Owned
  <2>. DEFINE own == [owner EXCEPT ![s] = u]
  <2>2. own \in [Sid -> User \cup {Null}] /\ own[s] = u /\ \A t \in Sid \ {s} : own[t] = owner[t]
    BY <2>1
  <2>. HIDE DEF own
  <2>3. ASSUME NEW t \in Sid \ relogged
        PROVE  /\ redis'[t] # Null => redis'[t].user = own[t]
               /\ \A o \in Thread : /\ copies'[o][t] # Null => copies'[o][t].user = own[t]
                                    /\ t \in Own(request[o]) => request[o].user = own[t]
               /\ \A w \in User : Contains(queue[w], t) => w = own[t]
    <3>1. CASE t = s
      BY <1>1, <1>4, <1>5, <2>2, <3>1
    <3>2. CASE t # s
      BY <1>4, <2>1, <2>2, <3>2 DEF OwnedBy
    <3>. QED BY <3>1, <3>2
  <2>4. OwnedBy(own)'
    BY <1>2, <2>3 DEF OwnedBy
  <2>. QED BY <2>2, <2>4 DEF Owned
<1>11. InQueue'
  <2>1. \A w \in User : \A t \in admitted[w] : t \in Sid \ {s}
    BY <1>5, Facts
  <2>. QED BY <1>2, <1>4, <2>1 DEF KickInv, InQueue, OpenFor, Quiet
<1>12. Touching'
  BY <1>2, <1>4, <1>6 DEF KickInv, Touching, Active
<1>13. Seeing'
  BY <1>2, <1>4, <1>6 DEF KickInv, Seeing, Sees, Lookup, Active
<1>14. Staging'
  BY <1>2, <1>4, <1>6 DEF KickInv, Staging, Staged, Active, TooMany
<1>. QED BY <1>7, <1>8, <1>9, <1>10, <1>11, <1>12, <1>13, <1>14 DEF KickInv

LEMMA CopyExpiresKept ==
  ASSUME KickInv, UNCHANGED <<maxSession, kickoutAfter>>,
         NEW q \in Thread, NEW s \in Sid, CopyExpires(q, s)
  PROVE  KickInv'
<1>1. UNCHANGED <<redis, queue, request, castFailed, used, admitted, relogged>>
  BY DEF CopyExpires, histories
<1>2. /\ copies' \in [Thread -> [Sid -> Session \cup {Null}]] /\ copies'[q][s] = Null
      /\ \A o \in Thread, t \in Sid : o # q \/ t # s => copies'[o][t] = copies[o][t]
  <2>. DEFINE V == Session \cup {Null}
  <2>1. copies \in [Thread -> [Sid -> V]] /\ Null \in V
    BY Facts
  <2>2. copies' = [copies EXCEPT ![q][s] = Null]
    BY DEF CopyExpires
  <2>. HIDE DEF V
  <2>3. /\ copies' \in [Thread -> [Sid -> V]] /\ copies'[q][s] = Null
        /\ \A o \in Thread, t \in Sid : o # q \/ t # s => copies'[o][t] = copies[o][t]
    BY <2>1, <2>2
  <2>. QED BY <2>3 DEF V
<1>3. \A o \in Thread, t \in Sid : copies'[o][t] = copies[o][t] \/ copies'[o][t] = Null
  BY <1>2
<1>4. \A o \in Thread : Active(o) => request[o].sid \in Sid
  BY SidOf
<1>5. TypeOK'
  BY <1>1, <1>2, Facts DEF TypeOK
<1>6. /\ Shape' /\ Alone' /\ OneActive' /\ (\A o \in Thread : Fitted(request[o]))'
      /\ InQueue' /\ Staging'
  BY <1>1 DEF KickInv, Shape, Alone, OneActive, Active, Fitted, TooMany, InQueue, OpenFor, Quiet, Staging,
                     Staged
<1>7. Fresh'
  BY <1>1, <1>3 DEF KickInv, Fresh
<1>8. Owned'
  <2>1. PICK owner \in [Sid -> User \cup {Null}] : OwnedBy(owner)
    BY DEF KickInv, Owned
  <2>2. OwnedBy(owner)'
    BY <1>1, <1>3, <2>1 DEF OwnedBy
  <2>. QED BY <2>2 DEF Owned
<1>9. Touching'
  BY <1>1, <1>3, <1>4 DEF KickInv, Touching, Active
<1>10. Seeing'
  BY <1>1, <1>3, <1>4 DEF KickInv, Seeing, Sees, Lookup, Active
<1>. QED BY <1>5, <1>6, <1>7, <1>8, <1>9, <1>10 DEF KickInv

LEMMA MeetFacts ==
  ASSUME KickInv, NEW q \in Thread, NEW s \in Sid, NEW u \in User
  PROVE  /\ Meet(q, s, u) \in [Thread -> Request]
         /\ \A o \in Thread :
              LET x == request[o]
                  z == Meet(q, s, u)[o]
              IN /\ z.pc = x.pc /\ z.sid = x.sid /\ z.user = x.user
                 /\ z.deque = x.deque /\ z.victim = x.victim
                 /\ z.alone <=> x.alone /\ o \notin Met(q, s, u)
                 /\ x.pc = "idle" => z = Idle
         /\ Recount(q, s, u) \in [User -> SUBSET Sid]
         /\ \A w \in User : Recount(q, s, u)[w] \subseteq admitted[w]
         /\ Met(q, s, u) # {} =>
              /\ Recount(q, s, u)[u] = {}
              /\ \A o \in Met(q, s, u), w \in User : request[o].user = w =>
                   Recount(q, s, u)[w] = {}
<1>1. ASSUME NEW o \in Thread
      PROVE  LET x == request[o]
                 z == [x EXCEPT !.alone = @ /\ o \notin Met(q, s, u)]
             IN /\ z \in Request
                /\ z.pc = x.pc /\ z.sid = x.sid /\ z.user = x.user
                /\ z.deque = x.deque /\ z.victim = x.victim
                /\ z.alone <=> x.alone /\ o \notin Met(q, s, u)
  <2>. DEFINE b == o \notin Met(q, s, u)
  <2>1. request[o] \in Request /\ b \in BOOLEAN
    BY Facts
  <2>. HIDE DEF b
  <2>2. LET x == request[o]
            z == [x EXCEPT !.alone = @ /\ b]
        IN /\ z \in Request
           /\ z.pc = x.pc /\ z.sid = x.sid /\ z.user = x.user
           /\ z.deque = x.deque /\ z.victim = x.victim
           /\ z.alone = (x.alone /\ b)
    BY <2>1 DEF Request
  <2>. QED BY <2>2 DEF b
<1>2. ASSUME NEW o \in Thread, request[o].pc = "idle"
      PROVE  [request[o] EXCEPT !.alone = @ /\ o \notin Met(q, s, u)] = Idle
  <2>1. request[o] = Idle
    BY <1>2 DEF KickInv, Shape
  <2>2. o \notin Met(q, s, u)
    BY <2>1, IdleFacts, Facts DEF Met
  <2>3. (request[o].alone /\ o \notin Met(q, s, u)) = TRUE
    BY <2>1, <2>2 DEF Idle
  <2>6. request[o] \in Request
    BY Facts
  <2>4. request[o].alone = TRUE
    BY <2>1 DEF Idle
  <2>5. [request[o] EXCEPT !.alone = TRUE] = request[o]
    BY <2>4, <2>6 DEF Request
  <2>. QED BY <2>1, <2>3, <2>5
<1>3. /\ Recount(q, s, u) \in [User -> SUBSET Sid]
      /\ \A w \in User : Recount(q, s, u)[w] \subseteq admitted[w]
      /\ Met(q, s, u) # {} =>
           /\ Recount(q, s, u)[u] = {}
           /\ \A o \in Met(q, s, u), w \in User : request[o].user = w =>
                Recount(q, s, u)[w] = {}
  BY Facts DEF Recount
<1>. QED BY <1>1, <1>2, <1>3 DEF Meet

\* What does not change when threads' requests lose no more than the mark.
LEMMA MarkedKept ==
  ASSUME KickInv, UNCHANGED <<maxSession, kickoutAfter>>,
         NEW q \in Thread, request[q] = Idle, NEW s \in Sid, NEW u \in User,
         request' = Meet(q, s, u), NEW v \in Session \cup {Null}, Valid(v), Puts(q, s, v, v),
         Lookup(q, s) # Null, relogged' = relogged \cup {s},
         admitted' = [w \in User |-> Recount(q, s, u)[w] \ {s}],
         UNCHANGED <<queue, castFailed, used>>
  PROVE  KickInv'
<1>1. /\ request' \in [Thread -> Request]
      /\ \A o \in Thread :
           LET x == request[o]
               z == request'[o]
           IN /\ z.pc = x.pc /\ z.sid = x.sid /\ z.user = x.user
              /\ z.deque = x.deque /\ z.victim = x.victim
              /\ z.alone <=> x.alone /\ o \notin Met(q, s, u)
              /\ x.pc = "idle" => z = Idle
  BY MeetFacts
<1>2. /\ admitted' \in [User -> SUBSET Sid]
      /\ \A w \in User : admitted'[w] \subseteq admitted[w] /\ s \notin admitted'[w]
  BY MeetFacts
<1>3. /\ redis' \in [Sid -> Session \cup {Null}]
      /\ copies' \in [Thread -> [Sid -> Session \cup {Null}]]
      /\ redis'[s] = v /\ copies'[q][s] = v
      /\ \A t \in Sid \ {s} : redis'[t] = redis[t]
      /\ \A o \in Thread, t \in Sid : o # q \/ t # s => copies'[o][t] = copies[o][t]
  BY Facts, PutsFacts
<1>4. \A o \in Thread : request'[o].alone => request[o].sid # s \/ o = q
  BY <1>1 DEF Met
<1>5. s \in used
  BY DEF KickInv, Fresh, Lookup
<1>6. \A o \in Thread : Own(request'[o]) = Own(request[o])
  BY <1>1 DEF Own
<1>7. \A o \in Thread : Active(o) => request[o].sid \in Sid /\ o # q
  BY SidOf, IdleFacts DEF Active
<1>8. TypeOK'
  BY <1>1, <1>2, <1>3, Facts DEF TypeOK
<1>9. Shape' /\ Alone' /\ (\A o \in Thread : Fitted(request[o]))'
  BY <1>1 DEF KickInv, Shape, Alone, Active, Fitted, TooMany
<1>10. OneActive'
  BY <1>1, <1>2 DEF KickInv, OneActive
<1>11. Fresh'
  BY <1>2, <1>3, <1>5, <1>6 DEF KickInv, Fresh
<1>12. Owned'
  <2>1. PICK owner \in [Sid -> User \cup {Null}] : OwnedBy(owner)
    BY DEF KickInv, Owned
  <2>2. ASSUME NEW t \in Sid \ relogged'
        PROVE  /\ redis'[t] # Null => redis'[t].user = owner[t]
               /\ \A o \in Thread : /\ copies'[o][t] # Null => copies'[o][t].user = owner[t]
                                    /\ t \in Own(request'[o]) => request'[o].user = owner[t]
               /\ \A w \in User : Contains(queue[w], t) => w = owner[t]
    <3>1. t \in Sid \ relogged /\ t # s
      OBVIOUS
    <3>2. redis'[t] = redis[t] /\ \A o \in Thread : copies'[o][t] = copies[o][t]
      BY <1>3, <3>1
    <3>3. /\ redis[t] # Null => redis[t].user = owner[t]
          /\ \A o \in Thread : /\ copies[o][t] # Null => copies[o][t].user = owner[t]
                               /\ t \in Own(request[o]) => request[o].user = owner[t]
          /\ \A w \in User : Contains(queue[w], t) => w = owner[t]
      BY <2>1, <3>1 DEF OwnedBy
    <3>. QED BY <1>1, <1>6, <3>2, <3>3
  <2>3. OwnedBy(owner)'
    BY <2>2 DEF OwnedBy
  <2>. QED BY <2>3 DEF Owned
<1>13. InQueue'
  <2>. SUFFICES ASSUME NEW w \in User, NEW t \in admitted'[w], OpenFor(t, w)'
                PROVE  /\ Quiet(w)' => Contains(queue[w], t)
                       /\ \A o \in Thread : request'[o].user = w =>
                            Placed(t, request'[o], queue[w])
    BY DEF InQueue
  <2>1. t \in Sid \ {s} /\ t \in admitted[w]
    BY <1>2
  <2>2. OpenFor(t, w)
    BY <1>3, <2>1 DEF OpenFor
  <2>3. Quiet(w)' => Contains(queue[w], t)
    BY <1>1, <2>1, <2>2 DEF KickInv, InQueue, Quiet
  <2>4. ASSUME NEW o \in Thread, request'[o].user = w
        PROVE  Placed(t, request'[o], queue[w])
    <3>1. Placed(t, request[o], queue[w])
      BY <1>1, <2>1, <2>2, <2>4 DEF KickInv, InQueue
    <3>. QED BY <1>1, <3>1 DEF Placed
  <2>. QED BY <2>3, <2>4
<1>14. Touching'
  BY <1>1, <1>3, <1>7 DEF KickInv, Touching, Active
<1>15. Seeing'
  <2>. SUFFICES ASSUME NEW o \in Thread, request'[o].alone, request'[o].pc \notin {"idle", "touch"}
                PROVE  Sees(request[o], Lookup(o, request[o].sid), redis[request[o].sid])'
    BY DEF Seeing, Sees
  <2>1. Active(o) /\ o # q /\ request[o].sid \in Sid \ {s}
    BY <1>1, <1>4, <1>7 DEF Active
  <2>2. Sees(request[o], Lookup(o, request[o].sid), redis[request[o].sid])
    BY DEF KickInv, Seeing
  <2>. QED BY <1>1, <1>3, <2>1, <2>2 DEF Sees, Lookup
<1>16. Staging'
  <2>. SUFFICES ASSUME NEW o \in Thread, request'[o].pc # "idle", request'[o].alone
                PROVE  Staged(request[o], redis[request[o].sid], queue[request[o].user])'
    BY DEF Staging, Staged, Active
  <2>1. Active(o) /\ o # q /\ request[o].sid \in Sid \ {s}
    BY <1>1, <1>4, <1>7 DEF Active
  <2>2. Staged(request[o], redis[request[o].sid], queue[request[o].user])
    BY <2>1 DEF KickInv, Staging
  <2>. QED BY <1>1, <1>3, <2>1, <2>2 DEF Staged, TooMany
<1>. QED BY <1>8, <1>9, <1>10, <1>11, <1>12, <1>13, <1>14, <1>15, <1>16 DEF KickInv

LEMMA ReloginKept ==
  ASSUME KickInv, UNCHANGED <<maxSession, kickoutAfter>>,
         NEW q \in Thread, NEW s \in Sid, NEW u \in User, Relogin(q, s, u)
  PROVE  KickInv'
<1>. DEFINE l == Lookup(q, s)
            v == [l EXCEPT !.user = u]
<1>1. l \in Session \cup {Null} /\ Valid(l)
  BY Operations DEF Relogin
<1>2. Puts(q, s, v, v)
  BY DEF Relogin, Store, Puts
<1>3. /\ request[q] = Idle /\ request' = Meet(q, s, u) /\ relogged' = relogged \cup {s}
      /\ admitted' = [w \in User |-> Recount(q, s, u)[w] \ {s}]
      /\ UNCHANGED <<queue, castFailed, used>>
  BY DEF Relogin
<1>4. Lookup(q, s) # Null
  BY <1>1 DEF Valid
<1>. HIDE DEF l
<1>5. v \in Session \cup {Null} /\ Valid(v)
  BY <1>1, NullAssumption DEF Valid, Session
<1>. HIDE DEF v
<1>. QED BY <1>2, <1>3, <1>4, <1>5, MarkedKept

LEMMA ArriveKept ==
  ASSUME KickInv, UNCHANGED <<maxSession, kickoutAfter>>,
         NEW q \in Thread, NEW s \in Sid, Arrive(q, s)
  PROVE  KickInv'
<1>. DEFINE l == Lookup(q, s)
            u == l.user
            b == Met(q, s, u) = {}
            z == [Idle EXCEPT !.pc = "touch", !.sid = s, !.user = u, !.alone = b]
<1>1. l \in Session \cup {Null} /\ Valid(l) /\ request[q] = Idle
  BY Operations DEF Arrive
<1>2. l # Null /\ u \in User
  BY <1>1 DEF Valid, Session
<1>3. /\ request' = [Meet(q, s, u) EXCEPT ![q] = z] /\ admitted' = Recount(q, s, u)
      /\ LookupKeeps(q, s) /\ UNCHANGED <<redis, queue, castFailed, used, relogged>>
  BY DEF Arrive, LookupKeeps
<1>4. /\ copies' \in [Thread -> [Sid -> Session \cup {Null}]] /\ copies'[q][s] = l
      /\ \A o \in Thread, t \in Sid : o # q \/ t # s => copies'[o][t] = copies[o][t]
  <2>1. PICK v \in Session \cup {Null}, w \in Session \cup {Null} : Puts(q, s, v, w) /\ w = l
    BY <1>1, <1>3, Operations, Facts
  <2>. HIDE DEF l
  <2>. QED BY <2>1, Facts, PutsFacts
<1>5. s \in used
  BY <1>2 DEF KickInv, Fresh, Lookup
<1>6. ASSUME NEW owner \in [Sid -> User \cup {Null}], OwnedBy(owner), s \notin relogged
      PROVE  u = owner[s]
  BY <1>2, <1>6 DEF OwnedBy, Lookup
<1>. HIDE DEF l
<1>7. b \in BOOLEAN
  OBVIOUS
<1>. HIDE DEF u
<1>21. \A o \in Thread \ {q} : b => request[o].user # u /\ request[o].sid # s
  BY DEF Met
<1>22. /\ \A o \in Thread \ {q} : o \notin Met(q, s, u) => request[o].user # u /\ request[o].sid # s
       /\ ~b => \A o \in Thread \ {q} : o \in Met(q, s, u) <=>
                  request[o].user = u \/ request[o].sid = s
       /\ b => Recount(q, s, u) = admitted
       /\ b <=> Met(q, s, u) = {}
  BY DEF Met, Recount
<1>. HIDE DEF b
<1>8. /\ z \in Request /\ z.pc = "touch" /\ z.sid = s /\ z.user = u /\ z.deque = <<>>
      /\ z.victim = Null /\ (z.alone <=> b)
  BY <1>2, <1>7, IdleFacts DEF Idle, Request
<1>. HIDE DEF z
<1>9. /\ request' \in [Thread -> Request] /\ request'[q] = z
      /\ \A o \in Thread \ {q} :
           LET x == request[o]
               y == request'[o]
           IN /\ y.pc = x.pc /\ y.sid = x.sid /\ y.user = x.user
              /\ y.deque = x.deque /\ y.victim = x.victim
              /\ y.alone <=> x.alone /\ o \notin Met(q, s, u)
              /\ x.pc = "idle" => y = Idle
  BY <1>2, <1>3, <1>8, MeetFacts
<1>10. /\ admitted' \in [User -> SUBSET Sid]
       /\ \A w \in User : admitted'[w] \subseteq admitted[w]
       /\ b => admitted' = admitted
       /\ ~b => /\ admitted'[u] = {}
                /\ \A o \in Met(q, s, u), w \in User : request[o].user = w => admitted'[w] = {}
  <2>1. /\ admitted' \in [User -> SUBSET Sid]
        /\ \A w \in User : admitted'[w] \subseteq admitted[w]
    BY <1>2, <1>3, MeetFacts
  <2>2. b => admitted' = admitted
    BY <1>3, <1>22
  <2>3. ASSUME ~b
        PROVE  /\ admitted'[u] = {}
               /\ \A o \in Met(q, s, u), w \in User : request[o].user = w => admitted'[w] = {}
    <3>1. Met(q, s, u) # {}
      BY <1>22, <2>3
    <3>2. /\ Recount(q, s, u)[u] = {}
          /\ \A o \in Met(q, s, u), w \in User : request[o].user = w =>
               Recount(q, s, u)[w] = {}
      BY <1>2, <3>1, MeetFacts
    <3>3. admitted' = Recount(q, s, u)
      BY <1>3
    <3>. QED BY <3>2, <3>3
  <2>. QED BY <2>1, <2>2, <2>3
<1>11. \A o \in Thread \ {q} : Own(request'[o]) = Own(request[o])
  BY <1>9 DEF Own
<1>12. Own(z) = {s}
  BY <1>8, Facts DEF Own, Contains
<1>13. TypeOK'
  BY <1>3, <1>4, <1>9, <1>10, Facts DEF TypeOK
<1>14. Shape' /\ (\A o \in Thread : Fitted(request[o]))'
  <2>1. Fitted(z)
    BY <1>8 DEF Fitted
  <2>. QED BY <1>2, <1>8, <1>9, <2>1 DEF KickInv, Shape, Fitted, TooMany
<1>15. Alone'
  <2>. SUFFICES ASSUME NEW o \in Thread, NEW p \in Thread \ {o},
                       request'[o].pc # "idle", request'[o].alone
                PROVE  request'[p].user # request'[o].user /\ request'[p].sid # request'[o].sid
    BY DEF Alone, Active
  <2>1. CASE o = q
    BY <1>8, <1>9, <1>21, <2>1
  <2>2. CASE p = q
    BY <1>8, <1>9, <1>22, <2>2
  <2>3. CASE o # q /\ p # q
    BY <1>9, <2>3 DEF KickInv, Alone, Active
  <2>. QED BY <2>1, <2>2, <2>3
<1>16. OneActive'
  <2>. SUFFICES ASSUME NEW w \in User, admitted'[w] # {}, NEW o \in Thread, NEW p \in Thread,
                       request'[o].user = w, request'[p].user = w
                PROVE  o = p
    BY DEF OneActive
  <2>1. admitted[w] # {}
    BY <1>10
  <2>2. CASE w = u
    BY <1>9, <1>10, <1>21, <2>2
  <2>3. CASE w # u
    BY <1>8, <1>9, <2>1, <2>3 DEF KickInv, OneActive
  <2>. QED BY <2>2, <2>3
<1>17. Fresh'
  <2>. SUFFICES ASSUME NEW t \in Sid \ used
                PROVE  /\ redis[t] = Null
                       /\ \A o \in Thread : copies'[o][t] = Null /\ t \notin Own(request'[o])
                       /\ \A w \in User : t \notin admitted'[w] /\ ~Contains(queue[w], t)
    BY <1>3 DEF Fresh
  <2>1. t # s
    BY <1>5
  <2>2. /\ redis[t] = Null
        /\ \A o \in Thread : copies[o][t] = Null /\ t \notin Own(request[o])
        /\ \A w \in User : t \notin admitted[w] /\ ~Contains(queue[w], t)
    BY DEF KickInv, Fresh
  <2>. QED BY <1>4, <1>9, <1>10, <1>11, <1>12, <2>1, <2>2
<1>18. Owned'
  <2>1. PICK owner \in [Sid -> User \cup {Null}] : OwnedBy(owner)
    BY DEF KickInv, Owned
  <2>2. ASSUME NEW t \in Sid \ relogged
        PROVE  /\ redis[t] # Null => redis[t].user = owner[t]
               /\ \A o \in Thread : /\ copies'[o][t] # Null => copies'[o][t].user = owner[t]
                                    /\ t \in Own(request'[o]) => request'[o].user = owner[t]
               /\ \A w \in User : Contains(queue[w], t) => w = owner[t]
    <3>1. /\ redis[t] # Null => redis[t].user = owner[t]
          /\ \A o \in Thread : /\ copies[o][t] # Null => copies[o][t].user = owner[t]
                               /\ t \in Own(request[o]) => request[o].user = owner[t]
          /\ \A w \in User : Contains(queue[w], t) => w = owner[t]
      BY <2>1 DEF OwnedBy
    <3>2. t = s => u = owner[t]
      BY <1>6, <2>1
    <3>3. \A o \in Thread : copies'[o][t] # Null => copies'[o][t].user = owner[t]
      BY <1>4, <3>1, <3>2 DEF u
    <3>4. \A o \in Thread : t \in Own(request'[o]) => request'[o].user = owner[t]
      BY <1>8, <1>9, <1>11, <1>12, <3>1, <3>2
    <3>. QED BY <3>1, <3>3, <3>4
  <2>3. OwnedBy(owner)'
    BY <1>3, <2>2 DEF OwnedBy
  <2>. QED BY <2>3 DEF Owned
<1>19. InQueue'
  <2>. SUFFICES ASSUME NEW w \in User, NEW t \in admitted'[w], OpenFor(t, w)'
                PROVE  /\ (\A o \in Thread : request'[o].user # w) => Contains(queue[w], t)
                       /\ \A o \in Thread : request'[o].user = w =>
                            Placed(t, request'[o], queue[w])
    BY <1>3 DEF InQueue, Quiet
  <2>1. t \in admitted[w] /\ OpenFor(t, w)
    BY <1>3, <1>10 DEF OpenFor
  <2>2. /\ Quiet(w) => Contains(queue[w], t)
        /\ \A o \in Thread : request[o].user = w => Placed(t, request[o], queue[w])
    BY <2>1 DEF KickInv, InQueue
  <2>3. request[q].user # w
    BY <1>1, IdleFacts, Facts
  <2>4. ASSUME \A o \in Thread : request'[o].user # w
        PROVE  Contains(queue[w], t)
    BY <1>9, <2>2, <2>3, <2>4 DEF Quiet
  <2>5. ASSUME request'[q].user = w
        PROVE  Placed(t, request'[q], queue[w])
    <3>1. w = u /\ b
      BY <1>8, <1>9, <1>10, <2>5
    <3>2. Quiet(w)
      BY <1>21, <2>3, <3>1 DEF Quiet
    <3>. QED BY <1>8, <1>9, <2>2, <3>2 DEF Placed
  <2>6. ASSUME NEW o \in Thread \ {q}, request'[o].user = w
        PROVE  Placed(t, request'[o], queue[w])
    <3>1. Placed(t, request[o], queue[w])
      BY <1>9, <2>2, <2>6
    <3>. QED BY <1>9, <3>1 DEF Placed
  <2>. QED BY <2>4, <2>5, <2>6
<1>20. Touching'
  <2>. SUFFICES ASSUME NEW o \in Thread, request'[o].pc = "touch"
                PROVE  LET c == copies'[o][request'[o].sid]
                       IN c = Null \/ c.user = request'[o].user
    BY DEF Touching
  <2>1. CASE o = q
    BY <1>4, <1>8, <1>9, <2>1 DEF u
  <2>2. CASE o # q
    <3>1. request[o].pc = "touch" /\ request[o].sid \in Sid
      BY <1>9, <2>2, SidOf DEF Active
    <3>. QED BY <1>4, <1>9, <2>2, <3>1 DEF KickInv, Touching
  <2>. QED BY <2>1, <2>2
<1>23. Seeing'
  <2>. SUFFICES ASSUME NEW o \in Thread, request'[o].alone, request'[o].pc \notin {"idle", "touch"}
                PROVE  Sees(request[o], Lookup(o, request[o].sid), redis[request[o].sid])'
    BY DEF Seeing, Sees
  <2>1. o # q
    BY <1>8, <1>9
  <2>2. Active(o) /\ request[o].sid \in Sid
    BY <1>9, <2>1, SidOf DEF Active
  <2>3. Sees(request[o], Lookup(o, request[o].sid), redis[request[o].sid])
    BY DEF KickInv, Seeing
  <2>. QED BY <1>3, <1>4, <1>9, <2>1, <2>2, <2>3 DEF Sees, Lookup
<1>24. Staging'
  <2>. SUFFICES ASSUME NEW o \in Thread, request'[o].pc # "idle", request'[o].alone
                PROVE  Staged(request[o], redis[request[o].sid], queue[request[o].user])'
    BY DEF Staging, Staged, Active
  <2>1. CASE o = q
    BY <1>8, <1>9, <2>1 DEF Staged
  <2>2. CASE o # q
    <3>1. Active(o)
      BY <1>9, <2>2 DEF Active
    <3>2. Staged(request[o], redis[request[o].sid], queue[request[o].user])
      BY <3>1 DEF KickInv, Staging
    <3>. QED BY <1>3, <1>9, <2>2, <3>2 DEF Staged, TooMany
  <2>. QED BY <2>1, <2>2
<1>. QED BY <1>13, <1>14, <1>15, <1>16, <1>17, <1>18, <1>19, <1>20, <1>23, <1>24 DEF KickInv

(***************************************************************************)
(* The invariant, and what follows from it.                                *)
(***************************************************************************)

LEMMA InitKept == Init => KickInv
<1>. SUFFICES ASSUME Init PROVE KickInv
  OBVIOUS
<1>1. <<>> \in Seq(Sid) /\ Len(<<>>) = 0 /\ \A t : ~Contains(<<>>, t)
  BY DEF Contains
<1>2. TypeOK
  <2>1. redis \in [Sid -> Session \cup {Null}] /\ admitted \in [User -> SUBSET Sid]
    BY DEF Init
  <2>2. copies \in [Thread -> [Sid -> Session \cup {Null}]]
    BY DEF Init
  <2>3. request \in [Thread -> Request]
    BY IdleFacts DEF Init
  <2>4. queue \in [User -> Seq(Sid)] /\ \A u \in User : Len(queue[u]) <= maxSession
    <3>1. queue = [u \in User |-> <<>>] /\ maxSession \in Nat \ {0}
      BY LimitsAssumption DEF Init
    <3>. QED BY <1>1, <3>1
  <2>5. /\ castFailed \in BOOLEAN /\ used \subseteq Sid /\ relogged \subseteq Sid
        /\ maxSession \in Limits /\ kickoutAfter \in BOOLEAN
    BY DEF Init
  <2>. QED BY <2>1, <2>2, <2>3, <2>4, <2>5 DEF TypeOK
<1>3. \A q \in Thread : request[q] = Idle /\ \A s \in Sid : copies[q][s] = Null
  BY DEF Init
<1>4. /\ used = {} /\ relogged = {} /\ \A s \in Sid : redis[s] = Null
      /\ \A u \in User : queue[u] = <<>> /\ admitted[u] = {}
  BY DEF Init
<1>8. Shape /\ \A q \in Thread : Fitted(request[q])
  BY <1>3, IdleFacts DEF Shape
<1>9. Fresh
  BY <1>1, <1>3, <1>4, IdleFacts DEF Fresh
<1>5. Alone /\ OneActive /\ InQueue
  BY <1>3, <1>4, IdleFacts DEF Alone, OneActive, InQueue, Active
<1>6. Touching /\ Seeing /\ Staging
  BY <1>3, IdleFacts DEF Touching, Seeing, Sees, Staging, Active
<1>7. Owned
  <2>. DEFINE owner == [s \in Sid |-> Null]
  <2>1. owner \in [Sid -> User \cup {Null}]
    OBVIOUS
  <2>. HIDE DEF owner
  <2>2. OwnedBy(owner)
    BY <1>1, <1>3, <1>4, IdleFacts DEF OwnedBy
  <2>. QED BY <2>1, <2>2 DEF Owned
<1>. QED BY <1>2, <1>5, <1>6, <1>7, <1>8, <1>9 DEF KickInv

LEMMA NextKept == KickInv /\ [Next]_vars => KickInv'
<1>. SUFFICES ASSUME KickInv, [Next]_vars PROVE KickInv'
  OBVIOUS
<1>1. CASE UNCHANGED vars
  <2>1. UNCHANGED <<maxSession, kickoutAfter, redis, queue, copies, request, castFailed,
                    used, admitted, relogged>>
    BY <1>1 DEF vars, settings
  <2>2. TypeOK' /\ Shape' /\ Fresh' /\ (\A q \in Thread : Fitted(request[q]))'
    BY <2>1 DEF KickInv, TypeOK, Shape, Fresh, Fitted, TooMany
  <2>3. Owned'
    BY <2>1 DEF KickInv, Owned, OwnedBy
  <2>4. Alone' /\ OneActive' /\ InQueue'
    BY <2>1 DEF KickInv, Alone, OneActive, Active, InQueue, Quiet, OpenFor
  <2>5. Touching' /\ Seeing'
    BY <2>1 DEF KickInv, Touching, Seeing, Sees, Lookup
  <2>6. Staging'
    BY <2>1 DEF KickInv, Staging, Staged, Active, TooMany
  <2>. QED BY <2>2, <2>3, <2>4, <2>5, <2>6 DEF KickInv
<1>2. ASSUME UNCHANGED <<maxSession, kickoutAfter>>, NEW q \in Thread, Client(q)
      PROVE  KickInv'
  BY <1>2, ArriveKept, LoginKept, ReloginKept DEF Client
<1>3. ASSUME UNCHANGED <<maxSession, kickoutAfter>>, NEW q \in Thread, OnAccessDenied(q)
      PROVE  KickInv'
  <2>1. CASE ReadQueue(q)
    BY <1>3, <2>1, ReadQueueKept
  <2>2. CASE Push(q)
    BY <1>3, <2>2, PushKept
  <2>3. CASE PushThrows(q) \/ Redirect(q) \/ CheckThrows(q)
    BY <1>3, <2>3, EndingKept
  <2>4. CASE Kick(q) \/ KickIgnored(q)
    BY <1>3, <2>4, KickKept
  <2>5. CASE StopVictim(q)
    BY <1>3, <2>5, StopKept
  <2>6. CASE WriteQueue(q)
    BY <1>3, <2>6, WriteQueueKept
  <2>7. CASE LetThrough(q)
    BY <1>3, <2>7, LetThroughKept
  <2>. QED BY <1>3, <2>1, <2>2, <2>3, <2>4, <2>5, <2>6, <2>7 DEF OnAccessDenied
<1>4. ASSUME UNCHANGED <<maxSession, kickoutAfter>>, NEW q \in Thread, Touch(q)
      PROVE  KickInv'
  BY <1>4, TouchKept
<1>5. ASSUME UNCHANGED <<maxSession, kickoutAfter>>, NEW q \in Thread, Handle(q) \/ Logout(q)
      PROVE  KickInv'
  BY <1>5, EndingKept
<1>6. ASSUME UNCHANGED <<maxSession, kickoutAfter>>, NEW q \in Thread, Fail(q)
      PROVE  KickInv'
  BY <1>6, FailKept
<1>7. ASSUME UNCHANGED <<maxSession, kickoutAfter>>, NEW q \in Thread, NEW s \in Sid, CopyExpires(q, s)
      PROVE  KickInv'
  BY <1>7, CopyExpiresKept
<1>. QED BY <1>1, <1>2, <1>3, <1>4, <1>5, <1>6, <1>7 DEF Next, settings

\* In every reachable state the invariant holds.
THEOREM Invariance == Spec => []KickInv
<1>1. Init => KickInv
  BY InitKept
<1>2. KickInv /\ [Next]_vars => KickInv'
  BY NextKept
<1>. QED BY <1>1, <1>2, PTL DEF Spec

\* The variables keep their types, and no queue in Redis gets longer than
\* maxSession.
THEOREM TypeCorrect == Spec => []TypeOK
<1>1. KickInv => TypeOK
  BY DEF KickInv
<1>. QED BY <1>1, Invariance, PTL

LEMMA InSequence ==
  ASSUME NEW d \in Seq(Sid), NEW S, \A t \in S : Contains(d, t)
  PROVE  Cardinality(S) \in Nat /\ Cardinality(S) <= Len(d)
<1>. DEFINE n == Len(d)
            T == {d[i] : i \in 1 .. n}
            f == [i \in 1 .. n |-> d[i]]
<1>1. n \in Nat
  OBVIOUS
<1>2. IsFiniteSet(1 .. n) /\ Cardinality(1 .. n) = n
  BY <1>1, FS_Interval
<1>3. f \in Surjection(1 .. n, T)
  BY DEF Surjection
<1>4. S \in SUBSET T
  BY DEF Contains
<1>. HIDE DEF n, T, f
<1>5. IsFiniteSet(T) /\ Cardinality(T) <= n
  BY <1>2, <1>3, FS_Surjection
<1>6. IsFiniteSet(S) /\ Cardinality(S) <= Cardinality(T)
  BY <1>4, <1>5, FS_Subset
<1>7. Cardinality(S) \in Nat /\ Cardinality(T) \in Nat
  BY <1>5, <1>6, FS_CardinalityType
<1>. QED BY <1>1, <1>5, <1>6, <1>7 DEF n

\* Between the requests of a user, no more than maxSession of the sessions that
\* were let through, since two of them overlapped or one failed, are open.
THEOREM LimitDoesHold == Spec => []LimitHolds
<1>1. KickInv => LimitHolds
  <2>. SUFFICES ASSUME KickInv, NEW u \in User, Quiet(u)
                PROVE  Cardinality({s \in admitted[u] : OpenFor(s, u)}) <= maxSession
    BY DEF LimitHolds
  <2>. DEFINE S == {s \in admitted[u] : OpenFor(s, u)}
  <2>1. \A t \in S : Contains(queue[u], t)
    BY DEF KickInv, InQueue
  <2>2. queue[u] \in Seq(Sid) /\ Len(queue[u]) <= maxSession /\ maxSession \in Nat
    BY Facts DEF TypeOK
  <2>. HIDE DEF S
  <2>3. Cardinality(S) \in Nat /\ Cardinality(S) <= Len(queue[u])
    BY <2>1, <2>2, InSequence
  <2>4. Len(queue[u]) \in Nat
    BY <2>2
  <2>5. Cardinality(S) <= maxSession
    BY <2>2, <2>3, <2>4
  <2>. QED BY <2>5 DEF S
<1>. QED BY <1>1, Invariance, PTL

\* A session that was let through by a request that met no other one stays
\* open, and is in its user's queue, while the handler runs.
THEOREM LetThroughDoesStay == Spec => []LetThroughStays
<1>1. KickInv => LetThroughStays
  <2>. SUFFICES ASSUME KickInv, NEW q \in Thread, request[q].pc = "handler", request[q].alone,
                       request[q].sid \notin relogged
                PROVE  /\ OpenFor(request[q].sid, request[q].user)
                       /\ Contains(queue[request[q].user], request[q].sid)
    BY DEF LetThroughStays
  <2>. DEFINE x == request[q]
  <2>1. Active(q)
    BY DEF Active
  <2>2. Staged(x, redis[x.sid], queue[x.user]) /\ x.sid \in Sid
    BY <2>1, RequestFacts
  <2>3. Opened(redis[x.sid]) /\ Contains(queue[x.user], x.sid)
    BY <2>2 DEF Staged
  <2>4. PICK owner \in [Sid -> User \cup {Null}] : OwnedBy(owner)
    BY DEF KickInv, Owned
  <2>5. x.user = owner[x.sid]
    BY <2>2, <2>4 DEF OwnedBy, Own
  <2>6. redis[x.sid].user = owner[x.sid]
    BY <2>2, <2>3, <2>4 DEF OwnedBy, Opened
  <2>. QED BY <2>3, <2>5, <2>6 DEF OpenFor, Opened
<1>. QED BY <1>1, Invariance, PTL

LEMMA OnlyKickStops ==
  ASSUME KickInv, Next, NEW q \in Thread, request[q].pc = "kick", request'[q].pc = "stop"
  PROVE  Kick(q)
<1>1. PICK p \in Thread :
        \/ Client(p)
        \/ Touch(p) \/ OnAccessDenied(p) \/ Handle(p) \/ Logout(p)
        \/ Fail(p)
        \/ \E s \in Sid : CopyExpires(p, s)
  BY DEF Next
<1>2. request \in [Thread -> Request]
  BY Facts
<1>3. ASSUME Client(p)
      PROVE  FALSE
  <2>1. CASE \E s \in Sid, u \in User : Login(p, s, u)
    BY <2>1 DEF Login
  <2>2. ASSUME NEW s \in Sid, NEW u \in User, Relogin(p, s, u)
        PROVE  FALSE
    BY <2>2, MeetFacts DEF Relogin
  <2>3. ASSUME NEW s \in Sid, Arrive(p, s)
        PROVE  FALSE
    <3>. DEFINE u == Lookup(p, s).user
    <3>1. u \in User
      BY <2>3, Operations DEF Arrive, Valid, Session
    <3>2. p # q
      BY <2>3, IdleFacts DEF Arrive
    <3>. HIDE DEF u
    <3>3. request'[q] = Meet(p, s, u)[q]
      BY <2>3, <3>1, <3>2, MeetFacts DEF Arrive, u
    <3>. QED BY <3>1, <3>3, MeetFacts
  <2>. QED BY <1>3, <2>1, <2>2, <2>3 DEF Client
<1>4. CASE p # q /\ ~Client(p)
  <2>1. \E z : request' = [request EXCEPT ![p] = z] \/ request' = request
    BY <1>1, <1>2, <1>4
       DEF Touch, OnAccessDenied, Handle, Logout, Fail, CopyExpires, Goto, End, ReadQueue, Push,
           PushThrows, Kick, KickIgnored, StopVictim, WriteQueue, LetThrough, Redirect, CheckThrows
  <2>. QED BY <1>2, <1>4, <2>1
<1>5. CASE p = q /\ ~Client(p) /\ ~Kick(p)
  <2>1. \/ KickIgnored(q) \/ WriteQueue(q) \/ Fail(q) \/ \E s \in Sid : CopyExpires(q, s)
    BY <1>1, <1>5
       DEF Touch, OnAccessDenied, Handle, Logout, ReadQueue, Push, PushThrows, StopVictim,
           LetThrough, Redirect, CheckThrows
  <2>2. PICK d :
          \/ request' = [request EXCEPT ![q].deque = d]
          \/ request' = [request EXCEPT ![q].pc = "check", ![q].deque = d]
          \/ request' = [request EXCEPT ![q].deque = d, ![q].alone = FALSE]
          \/ request' = [request EXCEPT ![q] = Idle]
          \/ request' = request
    BY <2>1 DEF KickIgnored, WriteQueue, Fail, CopyExpires, End
  <2>. DEFINE x == request[q]
              a == [x EXCEPT !.deque = d]
              b == [x EXCEPT !.pc = "check", !.deque = d]
              c == [x EXCEPT !.deque = d, !.alone = FALSE]
  <2>3. a.pc = "kick" /\ b.pc = "check" /\ c.pc = "kick"
    BY <1>2 DEF Request
  <2>4. \/ request' = [request EXCEPT ![q] = a]
        \/ request' = [request EXCEPT ![q] = b]
        \/ request' = [request EXCEPT ![q] = c]
        \/ request' = [request EXCEPT ![q] = Idle]
        \/ request' = request
    BY <1>2, <2>2
  <2>. HIDE DEF a, b, c
  <2>5. request'[q] \in {a, b, c, Idle, request[q]}
    BY <1>2, <2>4
  <2>. QED BY <2>3, <2>5, IdleFacts
<1>. QED BY <1>3, <1>4, <1>5

\* As it is wired, with one session for a user and the oldest one stopped, a
\* request that meets no other one stops no session but a second one of the
\* same user.
THEOREM NoneNeedlessly ==
  ASSUME IsFiniteSet(Sid)
  PROVE  Spec => NoNeedlessKick
<1>1. KickInv /\ [Next]_vars => [KicksOneTooMany]_vars
  <2>. SUFFICES ASSUME KickInv, Next, maxSession = 1, ~kickoutAfter, NEW q \in Thread,
                       request[q].pc = "kick", request'[q].pc = "stop", request[q].alone,
                       redis[request'[q].victim] # Null,
                       {request'[q].victim, request[q].sid} \cap relogged = {}
                PROVE  LET v == request'[q].victim
                           u == request[q].user
                       IN /\ redis[v].user = u
                          /\ Cardinality({s \in Sid : redis[s] # Null /\ redis[s].user = u})
                               > maxSession
    BY DEF KicksOneTooMany
  <2>. DEFINE x == request[q]
              v == request'[q].victim
              S == {t \in Sid : redis[t] # Null /\ redis[t].user = x.user}
  <2>1. Active(q) /\ Kick(q)
    BY OnlyKickStops DEF Active
  <2>2. /\ TooMany(x.deque) /\ x.deque \in Seq(Sid) /\ x.sid \in Sid /\ Fitted(x)
        /\ Staged(x, redis[x.sid], queue[x.user])
    BY <2>1, RequestFacts DEF Kick
  <2>3. Len(x.deque) = 2 /\ x.deque[2] # x.sid
    BY <2>2 DEF Fitted
  <2>4. v = x.deque[2]
    BY <2>1, <2>3, Facts DEF Kick, Victim
  <2>5. v \in Sid /\ v # x.sid /\ v \in Own(x) /\ x.sid \in Own(x)
    BY <2>2, <2>3, <2>4 DEF Own, Contains
  <2>. HIDE DEF v
  <2>6. redis[x.sid] # Null
    BY <2>2 DEF Staged
  <2>7. PICK owner \in [Sid -> User \cup {Null}] : OwnedBy(owner)
    BY DEF KickInv, Owned
  <2>8. v \notin relogged /\ x.sid \notin relogged /\ redis[v] # Null
    BY DEF v
  <2>9. redis[v].user = x.user /\ redis[x.sid].user = x.user
    BY <2>2, <2>5, <2>6, <2>7, <2>8 DEF OwnedBy
  <2>10. {x.sid} \cup {v} \in SUBSET S
    BY <2>2, <2>5, <2>6, <2>8, <2>9
  <2>11. IsFiniteSet(S)
    <3>1. S \in SUBSET Sid
      OBVIOUS
    <3>. HIDE DEF S
    <3>. QED BY <3>1, FS_Subset
  <2>12. IsFiniteSet({x.sid}) /\ Cardinality({x.sid}) = 1
    BY FS_Singleton
  <2>13. IsFiniteSet({x.sid} \cup {v}) /\ Cardinality({x.sid} \cup {v}) = 2
    <3>. DEFINE A == {x.sid}
    <3>1. v \notin A
      BY <2>5
    <3>2. IsFiniteSet(A) /\ Cardinality(A) = 1
      BY <2>12
    <3>. HIDE DEF A
    <3>3. IsFiniteSet(A \cup {v}) /\ Cardinality(A \cup {v}) = 1 + 1
      BY <3>1, <3>2, FS_AddElement
    <3>. QED BY <3>3 DEF A
  <2>. HIDE DEF S
  <2>14. Cardinality(S) >= 2 /\ Cardinality(S) \in Nat
    BY <2>10, <2>11, <2>13, FS_Subset, FS_CardinalityType
  <2>15. Cardinality(S) > maxSession
    BY <2>14
  <2>. QED BY <2>9, <2>15 DEF S, v
<1>. QED BY <1>1, Invariance, PTL DEF Spec, NoNeedlessKick

=============================================================================
