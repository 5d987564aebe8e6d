-------------------------- MODULE LobbyUserManager --------------------------
(***************************************************************************)
(* The registry of the lobby's users (lobbysvr/lobbyUserManager.cpp) under  *)
(* the threads that use it: the acceptor's strand adds users, every         *)
(* connection's strand deletes its own user and may process another, the    *)
(* broker connection's strand sends to users found in the registry.        *)
(*                                                                         *)
(* Connection.tla shows what is assumed of a connection here: onAccept once,*)
(* then onClose at most once and only after onAccept has returned.         *)
(***************************************************************************)
EXTENDS Naturals, FiniteSets

CONSTANTS
  Conns,      \* the connections; the atomic seed gives each its own identity
  Idxs,       \* account numbers passed to userLogined
  ZeroIdx,    \* User::m_userIDX: 0, which no code ever changes
  Acceptor,   \* the acceptor's strand
  Broker,     \* the strand of the connection to the broker
  NoThread    \* nobody

Threads == Conns \union {Acceptor, Broker}

ASSUME ThreadsAssumption ==
  /\ Acceptor \notin Conns /\ Broker \notin Conns /\ Acceptor # Broker
  /\ NoThread \notin Threads
ASSUME ZeroIdxAssumption == ZeroIdx \notin Idxs

VARIABLES
  users,      \* keys of m_users; each maps to its own connection
  nodeToUser, \* m_nodeToUserMap
  tag,        \* _tag of each connection: "null" or "user"
  heap,       \* the User object of each connection: "none", "live", "freed"
  writer,     \* holder of the unique lock on m_mtx_users, or NoThread
  waiting,    \* threads waiting for the unique lock
  readers,    \* holders of the shared lock
  pc,         \* what each thread is doing
  target,     \* the connection each thread is working on
  rest,       \* entries the broadcast has still to visit
  fault       \* TRUE once freed or null memory was used as a User

vars == <<users, nodeToUser, tag, heap, writer, waiting, readers, pc, target,
          rest, fault>>

lockVars == <<writer, waiting, readers>>
objVars  == <<users, nodeToUser, tag, heap>>

\* Thread t moves on to location l.
Goto(t, l) == pc' = [pc EXCEPT ![t] = l]

\* The connection thread t works on.  Mutant: it is not remembered.
TargetKept(t, c) == UNCHANGED target
Target(t, c) == target' = [target EXCEPT ![t] = c]

\* m_users.find(identity) # m_users.end().  Mutant: the result is not tested.
FoundAny(c) == TRUE
Found(c) == c \in users

---------------------------------------------------------------------------
(* boost::shared_mutex: a waiting writer keeps new readers out.            *)

\* Mutant: no lock is taken.
SharedUnlocked(t) == UNCHANGED lockVars
LockShared(t) ==
  /\ writer = NoThread /\ waiting = {}
  /\ readers' = readers \union {t}
  /\ UNCHANGED <<writer, waiting>>

UnlockShared(t) == readers' = readers \ {t} /\ UNCHANGED <<writer, waiting>>

AskUnique(t) == waiting' = waiting \union {t} /\ UNCHANGED <<writer, readers>>

LockUnique(t) ==
  /\ t \in waiting /\ writer = NoThread /\ readers = {}
  /\ writer' = t
  /\ waiting' = waiting \ {t}
  /\ UNCHANGED readers

\* Mutant: an early return that leaves the lock taken.
UniqueKept(t) == UNCHANGED lockVars
UnlockUnique(t) == writer' = NoThread /\ UNCHANGED <<waiting, readers>>

---------------------------------------------------------------------------
(* addUser, in the acceptor's strand.                                      *)

\* A User is made and tagged before the lock is asked for.  An accepted
\* connection has no tag yet, so that addUser's early return is not taken.
AddUserBegin(c) ==
  /\ pc[Acceptor] = "idle" /\ heap[c] = "none" /\ tag[c] = "null"
  /\ heap' = [heap EXCEPT ![c] = "live"]
  /\ tag' = [tag EXCEPT ![c] = "user"]
  /\ Target(Acceptor, c)
  /\ Goto(Acceptor, "addLock")
  /\ AskUnique(Acceptor)
  /\ UNCHANGED <<users, nodeToUser, rest, fault>>

AddUserLock ==
  /\ pc[Acceptor] = "addLock"
  /\ LockUnique(Acceptor)
  /\ Goto(Acceptor, "addInsert")
  /\ UNCHANGED <<objVars, target, rest, fault>>

\* The entry is made (identities are unique: emplace succeeds) and the greeting
\* sent under the lock; onAccept returns and the connection's own strand may
\* start to work.
AddUserInsert ==
  LET c == target[Acceptor] IN
  /\ pc[Acceptor] = "addInsert"
  /\ users' = users \union {c}
  /\ UnlockUnique(Acceptor)
  /\ pc' = [pc EXCEPT ![Acceptor] = "idle", ![c] = "open"]
  /\ UNCHANGED <<nodeToUser, tag, heap, target, rest, fault>>

---------------------------------------------------------------------------
(* deleteUser, in the connection's strand.                                 *)

\* The tag is read (without one deleteUser returns) and the broker told before
\* the lock is asked for.
DeleteUserBegin(c) ==
  /\ pc[c] = "open" /\ tag[c] = "user"
  /\ AskUnique(c)
  /\ Goto(c, "delLock")
  /\ UNCHANGED <<objVars, target, rest, fault>>

DeleteUserLock(c) ==
  /\ pc[c] = "delLock"
  /\ LockUnique(c)
  /\ Goto(c, "delErase")
  /\ UNCHANGED <<objVars, target, rest, fault>>

\* Mutant: the entries stay.
DeleteUserNoErase(c) ==
  /\ pc[c] = "delErase"
  /\ heap' = [heap EXCEPT ![c] = "freed"]
  /\ Goto(c, "delTag")
  /\ UNCHANGED <<users, nodeToUser, tag, lockVars, target, rest, fault>>

\* The entries go - that of account ZeroIdx, as m_userIDX is never set - and the
\* User is deleted while the tag still points at it.
DeleteUserErase(c) ==
  /\ pc[c] = "delErase"
  /\ nodeToUser' = [i \in DOMAIN nodeToUser \ {ZeroIdx} |-> nodeToUser[i]]
  /\ users' = users \ {c}
  /\ heap' = [heap EXCEPT ![c] = "freed"]
  /\ Goto(c, "delTag")
  /\ UNCHANGED <<tag, lockVars, target, rest, fault>>

DeleteUserTag(c) ==
  /\ pc[c] = "delTag"
  /\ tag' = [tag EXCEPT ![c] = "null"]
  /\ UnlockUnique(c)
  /\ Goto(c, "closed")
  /\ UNCHANGED <<users, nodeToUser, heap, target, rest, fault>>

---------------------------------------------------------------------------
(* The account index, called from a connection's strand.                   *)

\* userLogined: emplace leaves an entry that is there already alone.
UserLogined(c, i) ==
  /\ pc[c] = "open" /\ writer = NoThread /\ readers = {}
  /\ nodeToUser' = IF i \in DOMAIN nodeToUser THEN nodeToUser
                   ELSE [j \in DOMAIN nodeToUser \union {i} |->
                           IF j = i THEN c ELSE nodeToUser[j]]
  /\ UNCHANGED <<users, tag, heap, lockVars, pc, target, rest, fault>>

\* userLogout erases by account, whoever is entered under it.
UserLogout(c, i) ==
  /\ pc[c] = "open" /\ writer = NoThread /\ readers = {}
  /\ nodeToUser' = [j \in DOMAIN nodeToUser \ {i} |-> nodeToUser[j]]
  /\ UNCHANGED <<users, tag, heap, lockVars, pc, target, rest, fault>>

---------------------------------------------------------------------------
(* processUser and processUser2: the callback runs under the shared lock.   *)
(* The User holds a reference to its connection, so that a weak_ptr that    *)
(* cannot be locked goes with a tag that is null.                          *)

ProcessUserLock(c, d) ==
  /\ pc[c] = "open"
  /\ LockShared(c)
  /\ Target(c, d)
  /\ Goto(c, "procFind")
  /\ UNCHANGED <<objVars, rest, fault>>

\* Not found (-1) or without a tag (-3), or the callback is about to run.
ProcessUserFind(c) ==
  /\ pc[c] = "procFind"
  /\ Goto(c, IF Found(target[c]) /\ tag[target[c]] = "user"
             THEN "procUse" ELSE "procEnd")
  /\ UNCHANGED <<objVars, lockVars, target, rest, fault>>

ProcessUserUse(c) ==
  /\ pc[c] = "procUse"
  /\ fault' = (heap[target[c]] # "live")
  /\ Goto(c, "procEnd")
  /\ UNCHANGED <<objVars, lockVars, target, rest>>

ProcessUserEnd(c) ==
  /\ pc[c] = "procEnd"
  /\ UnlockShared(c)
  /\ Goto(c, "open")
  /\ UNCHANGED <<objVars, target, rest, fault>>

---------------------------------------------------------------------------
(* The broker's requests, one at a time in its connection's strand.        *)

\* sendPacketFromBroker_All keeps the shared lock while it sends.
SendAllLock ==
  /\ pc[Broker] = "idle"
  /\ LockShared(Broker)
  /\ rest' = users
  /\ Goto(Broker, "allNext")
  /\ UNCHANGED <<objVars, target, fault>>

SendAllNext(c) ==
  /\ pc[Broker] = "allNext" /\ c \in rest
  /\ rest' = rest \ {c}
  /\ Target(Broker, c)
  /\ Goto(Broker, IF tag[c] = "user" THEN "allUse" ELSE "allNext")
  /\ UNCHANGED <<objVars, lockVars, fault>>

SendAllUse ==
  /\ pc[Broker] = "allUse"
  /\ fault' = (heap[target[Broker]] # "live")
  /\ Goto(Broker, "allNext")
  /\ UNCHANGED <<objVars, lockVars, target, rest>>

SendAllEnd ==
  /\ pc[Broker] = "allNext" /\ rest = {}
  /\ UnlockShared(Broker)
  /\ Goto(Broker, "idle")
  /\ UNCHANGED <<objVars, target, rest, fault>>

\* sendPacketFromBroker looks the identity up under the shared lock and gives
\* the lock back before it looks at the tag.
SendToLookup(c) ==
  /\ pc[Broker] = "idle" /\ writer = NoThread /\ waiting = {}
  /\ Found(c)
  /\ Target(Broker, c)
  /\ Goto(Broker, "oneCheck")
  /\ UNCHANGED <<objVars, lockVars, rest, fault>>

\* sendPacketFromBroker_byUserIDX: account to identity to connection.
SendToIdxLookup(i) ==
  /\ pc[Broker] = "idle" /\ writer = NoThread /\ waiting = {}
  /\ i \in DOMAIN nodeToUser /\ Found(nodeToUser[i])
  /\ Target(Broker, nodeToUser[i])
  /\ Goto(Broker, "oneCheck")
  /\ UNCHANGED <<objVars, lockVars, rest, fault>>

\* The tag is tested, then read again, then used: three separate moments.
SendToCheck ==
  /\ pc[Broker] = "oneCheck"
  /\ Goto(Broker, IF tag[target[Broker]] = "user" THEN "oneLoad" ELSE "idle")
  /\ UNCHANGED <<objVars, lockVars, target, rest, fault>>

SendToLoad ==
  /\ pc[Broker] = "oneLoad"
  /\ Goto(Broker, IF tag[target[Broker]] = "user" THEN "oneUse" ELSE "oneNull")
  /\ UNCHANGED <<objVars, lockVars, target, rest, fault>>

SendToUse ==
  /\ pc[Broker] \in {"oneUse", "oneNull"}
  /\ fault' = (pc[Broker] = "oneNull" \/ heap[target[Broker]] # "live")
  /\ Goto(Broker, "idle")
  /\ UNCHANGED <<objVars, lockVars, target, rest>>

---------------------------------------------------------------------------
Init ==
  /\ users = {}
  /\ nodeToUser = [i \in {} |-> NoThread]
  /\ tag = [c \in Conns |-> "null"]
  /\ heap = [c \in Conns |-> "none"]
  /\ writer = NoThread /\ waiting = {} /\ readers = {}
  /\ pc = [t \in Threads |-> IF t \in Conns THEN "new" ELSE "idle"]
  /\ target = [t \in Threads |-> NoThread]
  /\ rest = {}
  /\ fault = FALSE

AddUser == (\E c \in Conns : AddUserBegin(c)) \/ AddUserLock \/ AddUserInsert

DeleteUser(c) == DeleteUserLock(c) \/ DeleteUserErase(c) \/ DeleteUserTag(c)

AccountIndex(c) == \E i \in Idxs : UserLogined(c, i) \/ UserLogout(c, i)

ProcessUser(c) == ProcessUserFind(c) \/ ProcessUserUse(c) \/ ProcessUserEnd(c)

BrokerRequest ==
  \/ SendAllLock
  \/ \E c \in Conns : SendToLookup(c)
  \/ \E i \in Idxs : SendToIdxLookup(i)

BrokerWork ==
  \/ \E c \in Conns : SendAllNext(c)
  \/ SendAllUse
  \/ SendAllEnd
  \/ SendToCheck
  \/ SendToLoad
  \/ SendToUse

\* The program's threads; a use of memory that is no User ends what is known.
Next ==
  /\ ~fault
  /\ \/ AddUser
     \/ \E c \in Conns :
          \/ DeleteUserBegin(c)
          \/ DeleteUser(c)
          \/ AccountIndex(c)
          \/ \E d \in Conns : ProcessUserLock(c, d)
          \/ ProcessUser(c)
     \/ BrokerRequest
     \/ BrokerWork

Spec == Init /\ [][Next]_vars

\* A function that was entered goes on to its end; whether a connection closes
\* and whether the broker asks for anything is up to them.
Alive(A) == ~fault /\ A

Fairness ==
  /\ WF_vars(Alive(AddUserLock))
  /\ WF_vars(Alive(AddUserInsert))
  /\ \A c \in Conns : /\ WF_vars(Alive(DeleteUser(c)))
                      /\ WF_vars(Alive(ProcessUser(c)))
  /\ WF_vars(Alive(BrokerWork))

FairSpec == Spec /\ Fairness

---------------------------------------------------------------------------
\* Every variable has its type.
TypeOK ==
  /\ users \in SUBSET Conns
  /\ DOMAIN nodeToUser \subseteq Idxs
  /\ \A i \in DOMAIN nodeToUser : nodeToUser[i] \in Conns
  /\ tag \in [Conns -> {"null", "user"}]
  /\ heap \in [Conns -> {"none", "live", "freed"}]
  /\ writer \in Threads \union {NoThread}
  /\ waiting \in SUBSET Threads
  /\ readers \in SUBSET Threads
  /\ pc \in [Threads -> {"new", "idle", "addLock", "addInsert", "open", "delLock",
                        "delErase", "delTag", "closed", "procFind", "procUse",
                        "procEnd", "allNext", "allUse", "oneCheck", "oneLoad",
                        "oneUse", "oneNull"}]
  /\ target \in [Threads -> Conns \union {NoThread}]
  /\ rest \in SUBSET Conns
  /\ fault \in BOOLEAN

\* A User reached through the registry under the shared lock - by a broadcast
\* that has been walking m_users for a while, or by processUser's callback - is
\* never one that its connection has deleted meanwhile.
LockedUseIsLive ==
  /\ \A c \in Conns : pc[c] = "procUse" => heap[target[c]] = "live"
  /\ pc[Broker] = "allUse" => heap[target[Broker]] = "live"

\* What a reader finds in the registry is complete: every entry has its tag and
\* its User (processUser never returns -3), and every open connection has its
\* entry.
RegistryComplete ==
  writer = NoThread =>
    /\ \A c \in users : tag[c] = "user" /\ heap[c] = "live"
    /\ \A c \in Conns : pc[c] = "open" => c \in users

\* sendPacketFromBroker can meet a deleted User only in a connection that is
\* going through deleteUser or is through with it: the window opened by giving
\* the lock back before the tag is read is no larger than that.
StaleOnlyWhileClosing ==
  pc[Broker] \in {"oneCheck", "oneLoad", "oneUse", "oneNull"} =>
    \/ heap[target[Broker]] = "live" /\ tag[target[Broker]] = "user"
    \/ pc[target[Broker]] \in {"delTag", "closed"}

\* Whoever waits to add or to delete a User gets the lock in spite of readers
\* that come and go, and finishes.
WritersFinish ==
  /\ pc[Acceptor] = "addLock" ~> pc[Acceptor] = "idle" \/ fault
  /\ \A c \in Conns :
       pc[c] = "delLock" ~> (heap[c] = "freed" /\ tag[c] = "null") \/ fault
=============================================================================
