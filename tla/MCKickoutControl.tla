--------------------------- MODULE MCKickoutControl ---------------------------
(***************************************************************************)
(* KickoutControl for TLC, under four settings; `setting` says which one   *)
(* a behaviour has, and `Settings` how much of the constants it uses.      *)
(*   "wired"  two threads, two sessions of one user, as spring-shiro.xml   *)
(*            sets maxSession and kickoutAfter                             *)
(*   "after"  the same with the later session stopped                      *)
(*   "two"    one thread, three sessions of one user, two of them allowed  *)
(*   "switch" one thread, two sessions that change between two users       *)
(***************************************************************************)
EXTENDS KickoutControl, TLC

CONSTANTS q1, q2, s1, s2, s3, u1, u2

VARIABLE setting

Settings ==
  [ wired  |-> [max |-> 1, after |-> FALSE, threads |-> 2, sids |-> 2, users |-> {u1}],
    after  |-> [max |-> 1, after |-> TRUE,  threads |-> 2, sids |-> 2, users |-> {u1}],
    two    |-> [max |-> 2, after |-> FALSE, threads |-> 1, sids |-> 3, users |-> {u1}],
    switch |-> [max |-> 1, after |-> FALSE, threads |-> 1, sids |-> 2, users |-> {u1, u2}] ]

\* The threads, the session ids and the users that take part.
Within(b) ==
  /\ Cardinality({q \in Thread : request[q] # Idle \/ \E s \in Sid : copies[q][s] # Null})
       <= b.threads
  /\ Cardinality(used) <= b.sids
  /\ \A s \in used : redis[s] # Null => redis[s].user \in b.users

SettingsInit ==
  /\ setting \in DOMAIN Settings
  /\ Init
  /\ maxSession = Settings[setting].max /\ kickoutAfter = Settings[setting].after

SettingsSpec ==
  /\ SettingsInit
  /\ [][Next /\ UNCHANGED setting /\ Within(Settings[setting])']_<<vars, setting>>

\* The wired setting with ShiroDbRealm's principal.
RealmSpec ==
  /\ SettingsInit /\ setting = "wired"
  /\ [][WiredNext /\ UNCHANGED setting /\ Within(Settings[setting])']_<<vars, setting>>

TwoThreads == {q1, q2}
ThreeSids == {s1, s2, s3}
Symmetry == Permutations(TwoThreads) \cup Permutations(ThreeSids)
===============================================================================
