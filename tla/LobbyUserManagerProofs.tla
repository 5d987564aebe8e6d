----------------------- MODULE LobbyUserManagerProofs -----------------------
(***************************************************************************)
(* Proofs about LobbyUserManager.tla for any number of connections and      *)
(* accounts.  The invariant ties three things to the place each thread has  *)
(* reached in its function: which locks it holds (LockInv), what the state  *)
(* of a connection's User is (UserInv), and what it knows about the         *)
(* connection it has looked up (TargetInv).                                *)
(***************************************************************************)
EXTENDS LobbyUserManager, TLAPS

\* Where a connection has its entry, its tag and its User; where a lock is held.
Active   == {"open", "delLock", "delErase", "procFind", "procUse", "procEnd"}
Shared   == {"procFind", "procUse", "procEnd", "allNext", "allUse"}
Unique   == {"addInsert", "delErase", "delTag"}
Unlocked == {"oneCheck", "oneLoad", "oneUse", "oneNull"}

\* Which functions each thread runs.
PcInv ==
  /\ \A c \in Conns : pc[c] \in Active \union {"new", "delTag", "closed"}
  /\ pc[Acceptor] \in {"idle", "addLock", "addInsert"}
  /\ pc[Broker] \in {"idle", "allNext", "allUse"} \union Unlocked

\* The locks are held exactly where the code holds them, and never both kinds.
LockInv ==
  /\ \A t \in Threads : t \in readers <=> pc[t] \in Shared
  /\ \A t \in Threads : writer = t <=> pc[t] \in Unique
  /\ writer # NoThread => readers = {}

\* The User addUser has made and not yet entered.
Adding(c) == pc[Acceptor] \in {"addLock", "addInsert"} /\ target[Acceptor] = c

\* The entry, the User and the tag of a connection agree with its progress.
UserInv ==
  /\ \A c \in Conns : c \in users <=> pc[c] \in Active
  /\ \A c \in Conns : heap[c] = "none" <=> pc[c] = "new" /\ ~Adding(c)
  /\ \A c \in Conns : heap[c] = "freed" <=> pc[c] \in {"delTag", "closed"}
  /\ \A c \in Conns :
       tag[c] = "user" <=> pc[c] \in Active \union {"delTag"} \/ Adding(c)

\* What a thread has looked up is entered while it holds the shared lock, and
\* was once entered if it has given the lock back.
TargetInv ==
  /\ pc[Acceptor] # "idle" =>
       target[Acceptor] \in Conns /\ pc[target[Acceptor]] = "new"
  /\ \A c \in Conns : pc[c] \in {"procFind", "procUse"} => target[c] \in Conns
  /\ \A c \in Conns : pc[c] = "procUse" => target[c] \in users
  /\ pc[Broker] \in {"allNext", "allUse"} => rest \subseteq users
  /\ pc[Broker] = "allUse" => target[Broker] \in users
  /\ pc[Broker] \in Unlocked =>
       target[Broker] \in Conns /\ pc[target[Broker]] # "new"

IInv == TypeOK /\ PcInv /\ LockInv /\ UserInv /\ TargetInv

\* The empty registry satisfies the invariant.
LEMMA InitInv == Init => IInv
<1> SUFFICES ASSUME Init PROVE IInv
  OBVIOUS
<1> USE ThreadsAssumption DEF Threads
<1>1. TypeOK
  BY DEF Init, TypeOK
<1>2. PcInv /\ LockInv
  BY DEF Init, PcInv, LockInv, Shared, Unique, Active
<1>3. UserInv /\ TargetInv
  BY DEF Init, UserInv, TargetInv, Active, Adding, Unlocked
<1> QED BY <1>1, <1>2, <1>3 DEF IInv

\* addUser makes a User for a connection that has none and asks for the lock.
LEMMA AddUserBeginStep ==
  ASSUME IInv, NEW c \in Conns, AddUserBegin(c)
  PROVE  IInv'
<1> USE ThreadsAssumption DEF Threads, objVars, lockVars, AddUserBegin, AskUnique, Target, Goto
<1>1. TypeOK'
  BY DEF IInv, TypeOK, TargetInv
<1>2. PcInv'
  BY DEF IInv, TypeOK, PcInv, TargetInv, Active, Unlocked
<1>3. LockInv'
  BY DEF IInv, TypeOK, PcInv, LockInv, TargetInv, Shared, Unique, Active, Unlocked
<1>4. UserInv'
  BY DEF IInv, TypeOK, PcInv, UserInv, TargetInv, Active, Unlocked, Adding
<1>5. TargetInv'
  BY DEF IInv, TypeOK, PcInv, LockInv, UserInv, TargetInv, Shared, Unique, Active, Unlocked, Adding
<1> QED BY <1>1, <1>2, <1>3, <1>4, <1>5 DEF IInv

\* addUser gets the unique lock: nobody else holds either kind.
LEMMA AddUserLockStep ==
  ASSUME IInv, AddUserLock
  PROVE  IInv'
<1> USE ThreadsAssumption DEF Threads, objVars, lockVars, AddUserLock, LockUnique, Goto
<1>1. TypeOK'
  BY DEF IInv, TypeOK, TargetInv
<1>2. PcInv'
  BY DEF IInv, TypeOK, PcInv, TargetInv, Active, Unlocked
<1>3. LockInv'
  BY DEF IInv, TypeOK, PcInv, LockInv, TargetInv, Shared, Unique, Active, Unlocked
<1>4. UserInv'
  BY DEF IInv, TypeOK, PcInv, UserInv, TargetInv, Active, Unlocked, Adding
<1>5. TargetInv'
  BY DEF IInv, TypeOK, PcInv, LockInv, UserInv, TargetInv, Shared, Unique, Active, Unlocked, Adding
<1> QED BY <1>1, <1>2, <1>3, <1>4, <1>5 DEF IInv

\* addUser enters the User and lets the connection's strand go.
LEMMA AddUserInsertStep ==
  ASSUME IInv, AddUserInsert
  PROVE  IInv'
<1> USE ThreadsAssumption DEF Threads, objVars, lockVars, AddUserInsert, UnlockUnique
<1>1. TypeOK'
  BY DEF IInv, TypeOK, TargetInv
<1>2. PcInv'
  BY DEF IInv, TypeOK, PcInv, TargetInv, Active, Unlocked
<1>3. LockInv'
  BY DEF IInv, TypeOK, PcInv, LockInv, TargetInv, Shared, Unique, Active, Unlocked
<1>4. UserInv'
  BY DEF IInv, TypeOK, PcInv, UserInv, TargetInv, Active, Unlocked, Adding
<1>5. TargetInv'
  BY DEF IInv, TypeOK, PcInv, LockInv, UserInv, TargetInv, Shared, Unique, Active, Unlocked, Adding
<1> QED BY <1>1, <1>2, <1>3, <1>4, <1>5 DEF IInv

\* deleteUser asks for the unique lock.
LEMMA DeleteUserBeginStep ==
  ASSUME IInv, NEW c \in Conns, DeleteUserBegin(c)
  PROVE  IInv'
<1> USE ThreadsAssumption DEF Threads, objVars, lockVars, DeleteUserBegin, AskUnique, Goto
<1>1. TypeOK'
  BY DEF IInv, TypeOK, TargetInv
<1>2. PcInv'
  BY DEF IInv, TypeOK, PcInv, TargetInv, Active, Unlocked
<1>3. LockInv'
  BY DEF IInv, TypeOK, PcInv, LockInv, TargetInv, Shared, Unique, Active, Unlocked
<1>4. UserInv'
  BY DEF IInv, TypeOK, PcInv, UserInv, TargetInv, Active, Unlocked, Adding
<1>5. TargetInv'
  BY DEF IInv, TypeOK, PcInv, LockInv, UserInv, TargetInv, Shared, Unique, Active, Unlocked, Adding
<1> QED BY <1>1, <1>2, <1>3, <1>4, <1>5 DEF IInv

\* deleteUser gets it.
LEMMA DeleteUserLockStep ==
  ASSUME IInv, NEW c \in Conns, DeleteUserLock(c)
  PROVE  IInv'
<1> USE ThreadsAssumption DEF Threads, objVars, lockVars, DeleteUserLock, LockUnique, Goto
<1>1. TypeOK'
  BY DEF IInv, TypeOK, TargetInv
<1>2. PcInv'
  BY DEF IInv, TypeOK, PcInv, TargetInv, Active, Unlocked
<1>3. LockInv'
  BY DEF IInv, TypeOK, PcInv, LockInv, TargetInv, Shared, Unique, Active, Unlocked
<1>4. UserInv'
  BY DEF IInv, TypeOK, PcInv, UserInv, TargetInv, Active, Unlocked, Adding
<1>5. TargetInv'
  BY DEF IInv, TypeOK, PcInv, LockInv, UserInv, TargetInv, Shared, Unique, Active, Unlocked, Adding
<1> QED BY <1>1, <1>2, <1>3, <1>4, <1>5 DEF IInv

\* deleteUser erases and deletes: no reader can have this entry in its hands.
LEMMA DeleteUserEraseStep ==
  ASSUME IInv, NEW c \in Conns, DeleteUserErase(c)
  PROVE  IInv'
<1> USE ThreadsAssumption DEF Threads, objVars, lockVars, DeleteUserErase, Goto
<1>1. TypeOK'
  BY DEF IInv, TypeOK, TargetInv
<1>2. PcInv'
  BY DEF IInv, TypeOK, PcInv, TargetInv, Active, Unlocked
<1>3. LockInv'
  BY DEF IInv, TypeOK, PcInv, LockInv, TargetInv, Shared, Unique, Active, Unlocked
<1>4. UserInv'
  BY DEF IInv, TypeOK, PcInv, UserInv, TargetInv, Active, Unlocked, Adding
<1>5. TargetInv'
  BY DEF IInv, TypeOK, PcInv, LockInv, UserInv, TargetInv, Shared, Unique, Active, Unlocked, Adding
<1> QED BY <1>1, <1>2, <1>3, <1>4, <1>5 DEF IInv

\* deleteUser resets the tag and unlocks.
LEMMA DeleteUserTagStep ==
  ASSUME IInv, NEW c \in Conns, DeleteUserTag(c)
  PROVE  IInv'
<1> USE ThreadsAssumption DEF Threads, objVars, lockVars, DeleteUserTag, UnlockUnique, Goto
<1>1. TypeOK'
  BY DEF IInv, TypeOK, TargetInv
<1>2. PcInv'
  BY DEF IInv, TypeOK, PcInv, TargetInv, Active, Unlocked
<1>3. LockInv'
  BY DEF IInv, TypeOK, PcInv, LockInv, TargetInv, Shared, Unique, Active, Unlocked
<1>4. UserInv'
  BY DEF IInv, TypeOK, PcInv, UserInv, TargetInv, Active, Unlocked, Adding
<1>5. TargetInv'
  BY DEF IInv, TypeOK, PcInv, LockInv, UserInv, TargetInv, Shared, Unique, Active, Unlocked, Adding
<1> QED BY <1>1, <1>2, <1>3, <1>4, <1>5 DEF IInv

\* userLogined touches only the account index.
LEMMA UserLoginedStep ==
  ASSUME IInv, NEW c \in Conns, NEW i \in Idxs, UserLogined(c, i)
  PROVE  IInv'
<1> USE ThreadsAssumption DEF Threads, objVars, lockVars, UserLogined
<1>1. TypeOK'
  BY DEF IInv, TypeOK, TargetInv
<1>2. PcInv'
  BY DEF IInv, TypeOK, PcInv, TargetInv, Active, Unlocked
<1>3. LockInv'
  BY DEF IInv, TypeOK, PcInv, LockInv, TargetInv, Shared, Unique, Active, Unlocked
<1>4. UserInv'
  BY DEF IInv, TypeOK, PcInv, UserInv, TargetInv, Active, Unlocked, Adding
<1>5. TargetInv'
  BY DEF IInv, TypeOK, PcInv, LockInv, UserInv, TargetInv, Shared, Unique, Active, Unlocked, Adding
<1> QED BY <1>1, <1>2, <1>3, <1>4, <1>5 DEF IInv

\* So does userLogout.
LEMMA UserLogoutStep ==
  ASSUME IInv, NEW c \in Conns, NEW i \in Idxs, UserLogout(c, i)
  PROVE  IInv'
<1> USE ThreadsAssumption DEF Threads, objVars, lockVars, UserLogout
<1>1. TypeOK'
  BY DEF IInv, TypeOK, TargetInv
<1>2. PcInv'
  BY DEF IInv, TypeOK, PcInv, TargetInv, Active, Unlocked
<1>3. LockInv'
  BY DEF IInv, TypeOK, PcInv, LockInv, TargetInv, Shared, Unique, Active, Unlocked
<1>4. UserInv'
  BY DEF IInv, TypeOK, PcInv, UserInv, TargetInv, Active, Unlocked, Adding
<1>5. TargetInv'
  BY DEF IInv, TypeOK, PcInv, LockInv, UserInv, TargetInv, Shared, Unique, Active, Unlocked, Adding
<1> QED BY <1>1, <1>2, <1>3, <1>4, <1>5 DEF IInv

\* processUser takes the shared lock.
LEMMA ProcessUserLockStep ==
  ASSUME IInv, NEW c \in Conns, NEW d \in Conns, ProcessUserLock(c, d)
  PROVE  IInv'
<1> USE ThreadsAssumption DEF Threads, objVars, lockVars, ProcessUserLock, LockShared, Target, Goto
<1>1. TypeOK'
  BY DEF IInv, TypeOK, TargetInv
<1>2. PcInv'
  BY DEF IInv, TypeOK, PcInv, TargetInv, Active, Unlocked
<1>3. LockInv'
  BY DEF IInv, TypeOK, PcInv, LockInv, TargetInv, Shared, Unique, Active, Unlocked
<1>4. UserInv'
  BY DEF IInv, TypeOK, PcInv, UserInv, TargetInv, Active, Unlocked, Adding
<1>5. TargetInv'
  BY DEF IInv, TypeOK, PcInv, LockInv, UserInv, TargetInv, Shared, Unique, Active, Unlocked, Adding
<1> QED BY <1>1, <1>2, <1>3, <1>4, <1>5 DEF IInv

\* What processUser finds is entered.
LEMMA ProcessUserFindStep ==
  ASSUME IInv, NEW c \in Conns, ProcessUserFind(c)
  PROVE  IInv'
<1> USE ThreadsAssumption DEF Threads, objVars, lockVars, ProcessUserFind, Found, Goto
<1>1. TypeOK'
  BY DEF IInv, TypeOK, TargetInv
<1>2. PcInv'
  BY DEF IInv, TypeOK, PcInv, TargetInv, Active, Unlocked
<1>3. LockInv'
  BY DEF IInv, TypeOK, PcInv, LockInv, TargetInv, Shared, Unique, Active, Unlocked
<1>4. UserInv'
  BY DEF IInv, TypeOK, PcInv, UserInv, TargetInv, Active, Unlocked, Adding
<1>5. TargetInv'
  BY DEF IInv, TypeOK, PcInv, LockInv, UserInv, TargetInv, Shared, Unique, Active, Unlocked, Adding
<1> QED BY <1>1, <1>2, <1>3, <1>4, <1>5 DEF IInv

\* The callback runs.
LEMMA ProcessUserUseStep ==
  ASSUME IInv, NEW c \in Conns, ProcessUserUse(c)
  PROVE  IInv'
<1> USE ThreadsAssumption DEF Threads, objVars, lockVars, ProcessUserUse, Goto
<1>1. TypeOK'
  BY DEF IInv, TypeOK, TargetInv
<1>2. PcInv'
  BY DEF IInv, TypeOK, PcInv, TargetInv, Active, Unlocked
<1>3. LockInv'
  BY DEF IInv, TypeOK, PcInv, LockInv, TargetInv, Shared, Unique, Active, Unlocked
<1>4. UserInv'
  BY DEF IInv, TypeOK, PcInv, UserInv, TargetInv, Active, Unlocked, Adding
<1>5. TargetInv'
  BY DEF IInv, TypeOK, PcInv, LockInv, UserInv, TargetInv, Shared, Unique, Active, Unlocked, Adding
<1> QED BY <1>1, <1>2, <1>3, <1>4, <1>5 DEF IInv

\* processUser returns.
LEMMA ProcessUserEndStep ==
  ASSUME IInv, NEW c \in Conns, ProcessUserEnd(c)
  PROVE  IInv'
<1> USE ThreadsAssumption DEF Threads, objVars, lockVars, ProcessUserEnd, UnlockShared, Goto
<1>1. TypeOK'
  BY DEF IInv, TypeOK, TargetInv
<1>2. PcInv'
  BY DEF IInv, TypeOK, PcInv, TargetInv, Active, Unlocked
<1>3. LockInv'
  BY DEF IInv, TypeOK, PcInv, LockInv, TargetInv, Shared, Unique, Active, Unlocked
<1>4. UserInv'
  BY DEF IInv, TypeOK, PcInv, UserInv, TargetInv, Active, Unlocked, Adding
<1>5. TargetInv'
  BY DEF IInv, TypeOK, PcInv, LockInv, UserInv, TargetInv, Shared, Unique, Active, Unlocked, Adding
<1> QED BY <1>1, <1>2, <1>3, <1>4, <1>5 DEF IInv

\* The broadcast takes the shared lock and starts with all entries.
LEMMA SendAllLockStep ==
  ASSUME IInv, SendAllLock
  PROVE  IInv'
<1> USE ThreadsAssumption DEF Threads, objVars, lockVars, SendAllLock, LockShared, Goto
<1>1. TypeOK'
  BY DEF IInv, TypeOK, TargetInv
<1>2. PcInv'
  BY DEF IInv, TypeOK, PcInv, TargetInv, Active, Unlocked
<1>3. LockInv'
  BY DEF IInv, TypeOK, PcInv, LockInv, TargetInv, Shared, Unique, Active, Unlocked
<1>4. UserInv'
  BY DEF IInv, TypeOK, PcInv, UserInv, TargetInv, Active, Unlocked, Adding
<1>5. TargetInv'
  BY DEF IInv, TypeOK, PcInv, LockInv, UserInv, TargetInv, Shared, Unique, Active, Unlocked, Adding
<1> QED BY <1>1, <1>2, <1>3, <1>4, <1>5 DEF IInv

\* It goes on to an entry it has not visited.
LEMMA SendAllNextStep ==
  ASSUME IInv, NEW c \in Conns, SendAllNext(c)
  PROVE  IInv'
<1> USE ThreadsAssumption DEF Threads, objVars, lockVars, SendAllNext, Target, Goto
<1>1. TypeOK'
  BY DEF IInv, TypeOK, TargetInv
<1>2. PcInv'
  BY DEF IInv, TypeOK, PcInv, TargetInv, Active, Unlocked
<1>3. LockInv'
  BY DEF IInv, TypeOK, PcInv, LockInv, TargetInv, Shared, Unique, Active, Unlocked
<1>4. UserInv'
  BY DEF IInv, TypeOK, PcInv, UserInv, TargetInv, Active, Unlocked, Adding
<1>5. TargetInv'
  BY DEF IInv, TypeOK, PcInv, LockInv, UserInv, TargetInv, Shared, Unique, Active, Unlocked, Adding
<1> QED BY <1>1, <1>2, <1>3, <1>4, <1>5 DEF IInv

\* It sends.
LEMMA SendAllUseStep ==
  ASSUME IInv, SendAllUse
  PROVE  IInv'
<1> USE ThreadsAssumption DEF Threads, objVars, lockVars, SendAllUse, Goto
<1>1. TypeOK'
  BY DEF IInv, TypeOK, TargetInv
<1>2. PcInv'
  BY DEF IInv, TypeOK, PcInv, TargetInv, Active, Unlocked
<1>3. LockInv'
  BY DEF IInv, TypeOK, PcInv, LockInv, TargetInv, Shared, Unique, Active, Unlocked
<1>4. UserInv'
  BY DEF IInv, TypeOK, PcInv, UserInv, TargetInv, Active, Unlocked, Adding
<1>5. TargetInv'
  BY DEF IInv, TypeOK, PcInv, LockInv, UserInv, TargetInv, Shared, Unique, Active, Unlocked, Adding
<1> QED BY <1>1, <1>2, <1>3, <1>4, <1>5 DEF IInv

\* It ends when every entry was visited.
LEMMA SendAllEndStep ==
  ASSUME IInv, SendAllEnd
  PROVE  IInv'
<1> USE ThreadsAssumption DEF Threads, objVars, lockVars, SendAllEnd, UnlockShared, Goto
<1>1. TypeOK'
  BY DEF IInv, TypeOK, TargetInv
<1>2. PcInv'
  BY DEF IInv, TypeOK, PcInv, TargetInv, Active, Unlocked
<1>3. LockInv'
  BY DEF IInv, TypeOK, PcInv, LockInv, TargetInv, Shared, Unique, Active, Unlocked
<1>4. UserInv'
  BY DEF IInv, TypeOK, PcInv, UserInv, TargetInv, Active, Unlocked, Adding
<1>5. TargetInv'
  BY DEF IInv, TypeOK, PcInv, LockInv, UserInv, TargetInv, Shared, Unique, Active, Unlocked, Adding
<1> QED BY <1>1, <1>2, <1>3, <1>4, <1>5 DEF IInv

\* sendPacketFromBroker finds an entry and gives the lock back.
LEMMA SendToLookupStep ==
  ASSUME IInv, NEW c \in Conns, SendToLookup(c)
  PROVE  IInv'
<1> USE ThreadsAssumption DEF Threads, objVars, lockVars, SendToLookup, Found, Target, Goto
<1>1. TypeOK'
  BY DEF IInv, TypeOK, TargetInv
<1>2. PcInv'
  BY DEF IInv, TypeOK, PcInv, TargetInv, Active, Unlocked
<1>3. LockInv'
  BY DEF IInv, TypeOK, PcInv, LockInv, TargetInv, Shared, Unique, Active, Unlocked
<1>4. UserInv'
  BY DEF IInv, TypeOK, PcInv, UserInv, TargetInv, Active, Unlocked, Adding
<1>5. TargetInv'
  BY DEF IInv, TypeOK, PcInv, LockInv, UserInv, TargetInv, Shared, Unique, Active, Unlocked, Adding
<1> QED BY <1>1, <1>2, <1>3, <1>4, <1>5 DEF IInv

\* sendPacketFromBroker_byUserIDX does so by way of the account.
LEMMA SendToIdxLookupStep ==
  ASSUME IInv, NEW i \in Idxs, SendToIdxLookup(i)
  PROVE  IInv'
<1> USE ThreadsAssumption DEF Threads, objVars, lockVars, SendToIdxLookup, Found, Target, Goto
<1>1. TypeOK'
  BY DEF IInv, TypeOK, TargetInv
<1>2. PcInv'
  BY DEF IInv, TypeOK, PcInv, TargetInv, Active, Unlocked
<1>3. LockInv'
  BY DEF IInv, TypeOK, PcInv, LockInv, TargetInv, Shared, Unique, Active, Unlocked
<1>4. UserInv'
  BY DEF IInv, TypeOK, PcInv, UserInv, TargetInv, Active, Unlocked, Adding
<1>5. TargetInv'
  BY DEF IInv, TypeOK, PcInv, LockInv, UserInv, TargetInv, Shared, Unique, Active, Unlocked, Adding
<1> QED BY <1>1, <1>2, <1>3, <1>4, <1>5 DEF IInv

\* It tests the tag without a lock,
LEMMA SendToCheckStep ==
  ASSUME IInv, SendToCheck
  PROVE  IInv'
<1> USE ThreadsAssumption DEF Threads, objVars, lockVars, SendToCheck, Goto
<1>1. TypeOK'
  BY DEF IInv, TypeOK, TargetInv
<1>2. PcInv'
  BY DEF IInv, TypeOK, PcInv, TargetInv, Active, Unlocked
<1>3. LockInv'
  BY DEF IInv, TypeOK, PcInv, LockInv, TargetInv, Shared, Unique, Active, Unlocked
<1>4. UserInv'
  BY DEF IInv, TypeOK, PcInv, UserInv, TargetInv, Active, Unlocked, Adding
<1>5. TargetInv'
  BY DEF IInv, TypeOK, PcInv, LockInv, UserInv, TargetInv, Shared, Unique, Active, Unlocked, Adding
<1> QED BY <1>1, <1>2, <1>3, <1>4, <1>5 DEF IInv

\* reads it again,
LEMMA SendToLoadStep ==
  ASSUME IInv, SendToLoad
  PROVE  IInv'
<1> USE ThreadsAssumption DEF Threads, objVars, lockVars, SendToLoad, Goto
<1>1. TypeOK'
  BY DEF IInv, TypeOK, TargetInv
<1>2. PcInv'
  BY DEF IInv, TypeOK, PcInv, TargetInv, Active, Unlocked
<1>3. LockInv'
  BY DEF IInv, TypeOK, PcInv, LockInv, TargetInv, Shared, Unique, Active, Unlocked
<1>4. UserInv'
  BY DEF IInv, TypeOK, PcInv, UserInv, TargetInv, Active, Unlocked, Adding
<1>5. TargetInv'
  BY DEF IInv, TypeOK, PcInv, LockInv, UserInv, TargetInv, Shared, Unique, Active, Unlocked, Adding
<1> QED BY <1>1, <1>2, <1>3, <1>4, <1>5 DEF IInv

\* and uses what it read.
LEMMA SendToUseStep ==
  ASSUME IInv, SendToUse
  PROVE  IInv'
<1> USE ThreadsAssumption DEF Threads, objVars, lockVars, SendToUse, Goto
<1>1. TypeOK'
  BY DEF IInv, TypeOK, TargetInv
<1>2. PcInv'
  BY DEF IInv, TypeOK, PcInv, TargetInv, Active, Unlocked
<1>3. LockInv'
  BY DEF IInv, TypeOK, PcInv, LockInv, TargetInv, Shared, Unique, Active, Unlocked
<1>4. UserInv'
  BY DEF IInv, TypeOK, PcInv, UserInv, TargetInv, Active, Unlocked, Adding
<1>5. TargetInv'
  BY DEF IInv, TypeOK, PcInv, LockInv, UserInv, TargetInv, Shared, Unique, Active, Unlocked, Adding
<1> QED BY <1>1, <1>2, <1>3, <1>4, <1>5 DEF IInv

---------------------------------------------------------------------------
\* Every step, and stuttering, preserves the invariant.
LEMMA NextInv == IInv /\ [Next]_vars => IInv'
<1> SUFFICES ASSUME IInv, [Next]_vars PROVE IInv'
  OBVIOUS
<1>1. CASE AddUser
  BY <1>1, AddUserBeginStep, AddUserLockStep, AddUserInsertStep DEF AddUser
<1>2. ASSUME NEW c \in Conns, DeleteUserBegin(c) \/ DeleteUser(c) PROVE IInv'
  BY <1>2, DeleteUserBeginStep, DeleteUserLockStep, DeleteUserEraseStep,
     DeleteUserTagStep DEF DeleteUser
<1>3. ASSUME NEW c \in Conns, AccountIndex(c) PROVE IInv'
  BY <1>3, UserLoginedStep, UserLogoutStep DEF AccountIndex
<1>4. ASSUME NEW c \in Conns,
             (\E d \in Conns : ProcessUserLock(c, d)) \/ ProcessUser(c)
      PROVE  IInv'
  BY <1>4, ProcessUserLockStep, ProcessUserFindStep, ProcessUserUseStep,
     ProcessUserEndStep DEF ProcessUser
<1>5. CASE BrokerRequest
  BY <1>5, SendAllLockStep, SendToLookupStep, SendToIdxLookupStep DEF BrokerRequest
<1>6. CASE BrokerWork
  BY <1>6, SendAllNextStep, SendAllUseStep, SendAllEndStep, SendToCheckStep,
     SendToLoadStep, SendToUseStep DEF BrokerWork
<1>7. CASE UNCHANGED vars
  BY <1>7 DEF vars, IInv, TypeOK, PcInv, LockInv, UserInv, TargetInv, Adding
<1> QED BY <1>1, <1>2, <1>3, <1>4, <1>5, <1>6, <1>7 DEF Next

\* IInv holds throughout every behaviour of the registry.
THEOREM RegistryInvariance == Spec => []IInv
  BY InitInv, NextInv, PTL DEF Spec

\* The state of the registry and of everyone at work on it keeps its types.
THEOREM RegistryTypeCorrect == Spec => []TypeOK
<1>1. IInv => TypeOK
  BY DEF IInv
<1> QED BY <1>1, RegistryInvariance, PTL

\* A broadcast or a processUser callback never meets a User that its connection
\* has deleted, for any number of connections: the shared lock they hold keeps
\* deleteUser out of the registry.
THEOREM LockedUse == Spec => []LockedUseIsLive
<1>1. ASSUME IInv PROVE LockedUseIsLive
  <2>1. ASSUME NEW c \in users PROVE heap[c] = "live"
    BY <1>1, <2>1 DEF IInv, TypeOK, UserInv, Active
  <2> QED BY <1>1, <2>1 DEF IInv, TargetInv, LockedUseIsLive
<1> QED BY <1>1, RegistryInvariance, PTL

\* Every entry of m_users has its tag and its User, and every open connection
\* has its entry.
THEOREM RegistryIsComplete == Spec => []RegistryComplete
<1>1. ASSUME IInv PROVE RegistryComplete
  BY <1>1 DEF IInv, TypeOK, UserInv, Active, RegistryComplete
<1> QED BY <1>1, RegistryInvariance, PTL

\* The window in which sendPacketFromBroker can use a deleted User is that of
\* deleteUser: outside it the pointer is good although no lock is held.
THEOREM StaleWindow == Spec => []StaleOnlyWhileClosing
<1>1. ASSUME IInv PROVE StaleOnlyWhileClosing
  <2> SUFFICES ASSUME pc[Broker] \in Unlocked,
                      pc[target[Broker]] \notin {"delTag", "closed"}
               PROVE  heap[target[Broker]] = "live" /\ tag[target[Broker]] = "user"
    BY DEF StaleOnlyWhileClosing, Unlocked
  <2>1. target[Broker] \in Conns /\ pc[target[Broker]] \in Active
    BY <1>1 DEF IInv, PcInv, TargetInv
  <2> QED BY <1>1, <2>1 DEF IInv, TypeOK, UserInv, Active
<1> QED BY <1>1, RegistryInvariance, PTL
=============================================================================
