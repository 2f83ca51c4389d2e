---------------------------- MODULE DeviceProofs ----------------------------
(* Proofs about Device, for any set of connections and any requests.       *)
EXTENDS Device, SequenceTheorems, FiniteSetTheorems, TLAPS

USE NoConnAssumption, RequestsAssumption, MaxLogAssumption, TestModeAssumption

-----------------------------------------------------------------------------
(* The log buffers.                                                        *)

\* Truncate keeps sequences of entries and bounds their length.
LEMMA TruncateOK ==
  ASSUME NEW s \in Seq(Entry)
  PROVE  /\ Truncate(s) \in Seq(Entry)
         /\ Len(Truncate(s)) <= MaxLogSize
<1> DEFINE n == Len(s)
<1>1. n \in Nat
  BY LenProperties
<1>2. CASE n > MaxLogSize
  <2>1. /\ n - MaxLogSize + 1 \in 1 .. n + 1
        /\ n \in n - MaxLogSize .. n
    BY <1>1, <1>2
  <2>2. /\ SubSeq(s, n - MaxLogSize + 1, n) \in Seq(Entry)
        /\ Len(SubSeq(s, n - MaxLogSize + 1, n)) = MaxLogSize
    BY <2>1, <1>1, <1>2, SubSeqProperties
  <2> QED
    BY <2>2, <1>2 DEF Truncate
<1>3. CASE ~(n > MaxLogSize)
  BY <1>1, <1>3 DEF Truncate
<1> QED
  BY <1>2, <1>3

\* Without, EmptyBuf and Logged keep the shape of the log buffers.
LEMMA LogsStayOK ==
  ASSUME LogsOK(log_bufs), NEW c \in Conns, NEW e \in Entry
  PROVE  /\ LogsOK(Without(log_bufs, c))
         /\ LogsOK(EmptyBuf(c))
         /\ LogsOK(Logged(e))
         /\ LogsOK([d \in {} |-> << >>])
<1> PICK S \in SUBSET Conns : log_bufs \in [S -> Seq(Entry)]
  BY DEF LogsOK
<1>1. LogsOK(Without(log_bufs, c))
  <2>1. Without(log_bufs, c) \in [S \ {c} -> Seq(Entry)]
    BY DEF Without
  <2> QED
    BY <2>1 DEF LogsOK, Without
<1>2. LogsOK(EmptyBuf(c))
  <2>1. << >> \in Seq(Entry) /\ Len(<< >>) = 0
    OBVIOUS
  <2>2. EmptyBuf(c) \in [S \cup {c} -> Seq(Entry)]
    BY <2>1 DEF EmptyBuf
  <2>3. \A d \in S : Len(log_bufs[d]) <= MaxLogSize
    BY DEF LogsOK
  <2>4. \A d \in S \cup {c} : Len(EmptyBuf(c)[d]) <= MaxLogSize
    BY <2>1, <2>3 DEF EmptyBuf
  <2> QED
    BY <2>2, <2>4 DEF LogsOK
<1>3. LogsOK(Logged(e))
  <2>1. \A d \in S : Append(log_bufs[d], e) \in Seq(Entry)
    BY AppendProperties
  <2>2. Logged(e) \in [S -> Seq(Entry)]
    BY <2>1, TruncateOK DEF Logged
  <2>3. \A d \in S : Len(Logged(e)[d]) <= MaxLogSize
    BY <2>1, TruncateOK DEF Logged
  <2> QED
    BY <2>2, <2>3 DEF LogsOK
<1>4. LogsOK([d \in {} |-> << >>])
  <2>1. [d \in {} |-> << >>] \in [{} -> Seq(Entry)]
    OBVIOUS
  <2> QED
    BY <2>1 DEF LogsOK
<1> QED
  BY <1>1, <1>2, <1>3, <1>4

-----------------------------------------------------------------------------
(* The inductive invariant.                                                *)

USE DEF ConnStates, RequestNames, Pcs, DataPcs, CmdPcs, AskPcs, InDriver

LEMMA InitIInv == Init => IInv
<1> SUFFICES ASSUME Init PROVE IInv
  OBVIOUS
<1>1. LogsOK(log_bufs) /\ DOMAIN log_bufs = {}
  <2>1. log_bufs \in [{} -> Seq(Entry)]
    BY DEF Init
  <2> QED
    BY <2>1 DEF LogsOK
<1> QED
  BY <1>1, FS_EmptySet DEF Init, IInv, TypeOK, MutexHeld, InUseOpen, LockHasUser,
              ThreadOfConn, NoGhosts, ClosingEmpty, OwnTrafficLogged

\* The steps of the life cycle of a connection, and taking a mutex
LEMMA ConnStepIInv ==
  ASSUME IInv, NEW c \in Conns,
         Accept(c) \/ End(c) \/ ConnClose(c) \/ Request(c)
           \/ AcquireData(c) \/ AcquireCmd(c)
  PROVE  IInv'
<1> USE DEF IInv, TypeOK, MutexHeld, InUseOpen, LockHasUser, ThreadOfConn,
            NoGhosts, ClosingEmpty, OwnTrafficLogged, members
<1>1. CASE Accept(c)
  <2>1. /\ conn' \in [Conns -> ConnStates]
        /\ conn[c] = "new" /\ conn'[c] = "open"
    BY <1>1 DEF Accept
  <2>2. ASSUME NEW d \in Conns, d # c
        PROVE  conn'[d] = IF conn[d] = "ended" THEN "due" ELSE conn[d]
    BY <1>1, <2>2 DEF Accept
  <2>3. ThreadOfConn'
    BY <1>1, <2>1, <2>2 DEF Accept
  <2>4. NoGhosts'
    <3>1. UNCHANGED <<users, log_bufs>>
      BY <1>1 DEF Accept
    <3>2. \A d \in users \cup DOMAIN log_bufs : d \in Conns /\ d # c
      BY <2>1 DEF LogsOK
    <3> QED
      BY <2>2, <3>1, <3>2
  <2> QED
    BY <1>1, <2>1, <2>3, <2>4 DEF Accept
<1>2. CASE End(c)
  BY <1>2 DEF End
<1>3. CASE ConnClose(c)
  BY <1>3 DEF ConnClose
<1>4. CASE Request(c)
  BY <1>4 DEF Request
<1>5. CASE AcquireData(c)
  BY <1>5 DEF AcquireData
<1>6. CASE AcquireCmd(c)
  BY <1>6 DEF AcquireCmd
<1> QED
  BY <1>1, <1>2, <1>3, <1>4, <1>5, <1>6

\* use(): the unlocked tests and the critical section
LEMMA UseStepIInv ==
  ASSUME IInv, NEW c \in Conns,
         CountUsers(c) \/ UseCount(c) \/ UseLocked(c) \/ Use(c) \/ UseFail(c)
  PROVE  IInv'
<1> USE DEF IInv, TypeOK, MutexHeld, InUseOpen, LockHasUser, ThreadOfConn,
            NoGhosts, ClosingEmpty, OwnTrafficLogged, members, Goto, AfterUse,
            Leave
<1>1. CASE CountUsers(c)
  BY <1>1 DEF CountUsers
<1>2. CASE UseCount(c)
  BY <1>2 DEF UseCount
<1>3. CASE UseLocked(c)
  BY <1>3 DEF UseLocked
<1>4. CASE Use(c)
  <2>1. IsFiniteSet(users')
    BY <1>4, FS_AddElement DEF Use
  <2> QED
    BY <1>4, <2>1 DEF Use
<1>5. CASE UseFail(c)
  BY <1>5 DEF UseFail
<1> QED
  BY <1>1, <1>2, <1>3, <1>4, <1>5

\* The critical sections of data_mutex
LEMMA BodyStepIInv ==
  ASSUME IInv, NEW c \in Conns,
         \/ Release(c) \/ CloseClear(c) \/ CloseReset(c) \/ Lock(c) \/ Unlock(c)
         \/ LogStart(c) \/ LogFinish(c) \/ LogGet(c)
  PROVE  IInv'
<1> USE DEF IInv, TypeOK, MutexHeld, InUseOpen, LockHasUser, ThreadOfConn,
            NoGhosts, ClosingEmpty, OwnTrafficLogged, members, Goto, Leave, InBody
<1> DEFINE e == [kind |-> ">>", conn |-> c]
<1>0. e \in Entry
  BY DEF Entry
<1>1. CASE Release(c)
  <2>1. /\ LogsOK(log_bufs')
        /\ DOMAIN log_bufs' = DOMAIN log_bufs \ {c}
    BY <1>0, <1>1, LogsStayOK DEF Release, Without
  <2>2. /\ conn' = [conn EXCEPT ![c] = IF @ = "closing" THEN "gone" ELSE @]
        /\ users' = users \ {c}
        /\ c \notin users' \cup DOMAIN log_bufs'
    BY <1>1, <2>1 DEF Release, ReleaseReturns
  <2>3. NoGhosts'
    BY <2>1, <2>2
  <2>4. LockHasUser'
    <3>1. locked' => locked /\ c \notin users
      BY <1>1 DEF Release
    <3> QED
      BY <2>2, <3>1
  <2>7. InUseOpen' /\ ClosingEmpty'
    BY <1>1 DEF Release, ReleaseReturns
  <2>5. MutexHeld' /\ ThreadOfConn'
    BY <1>1 DEF Release, ReleaseReturns
  <2>6. TypeOK' /\ OwnTrafficLogged'
    <3>1. IsFiniteSet(users')
      BY <2>2, FS_RemoveElement
    <3> QED
      BY <1>1, <2>1, <3>1 DEF Release, ReleaseReturns
  <2> QED
    BY <2>3, <2>4, <2>5, <2>6, <2>7
<1>2. CASE CloseClear(c)
  <2>1. LogsOK(log_bufs') /\ DOMAIN log_bufs' = {}
    BY <1>0, <1>2, LogsStayOK DEF CloseClear
  <2> QED
    <3>1. users' = {} /\ ~locked' /\ IsFiniteSet(users')
      BY <1>2, FS_EmptySet DEF CloseClear
    <3>2. TypeOK' /\ OwnTrafficLogged'
      BY <1>2, <2>1, <3>1 DEF CloseClear
    <3>3. NoGhosts' /\ InUseOpen' /\ LockHasUser' /\ ClosingEmpty'
      BY <2>1, <3>1
    <3> QED
      BY <1>2, <3>2, <3>3 DEF CloseClear
<1>3. CASE CloseReset(c)
  <2>1. users = {} /\ ~locked
    BY <1>3 DEF CloseReset
  <2>2. TypeOK'
    BY <1>3 DEF CloseReset
  <2>3. MutexHeld' /\ ThreadOfConn' /\ NoGhosts' /\ OwnTrafficLogged'
    BY <1>3 DEF CloseReset
  <2>4. InUseOpen' /\ LockHasUser' /\ ClosingEmpty'
    BY <1>3, <2>1 DEF CloseReset
  <2> QED
    BY <2>2, <2>3, <2>4
<1>4. CASE Lock(c)
  <2>1. Cardinality(users) = 1 => users # {}
    BY FS_EmptySet
  <2> QED
    BY <1>4, <2>1 DEF Lock
<1>5. CASE Unlock(c)
  BY <1>5 DEF Unlock
<1>6. CASE LogStart(c)
  <2>1. /\ LogsOK(log_bufs')
        /\ DOMAIN log_bufs' = DOMAIN log_bufs \cup {c}
    BY <1>0, <1>6, LogsStayOK DEF LogStart, EmptyBuf
  <2> QED
    BY <1>6, <2>1 DEF LogStart
<1>7. CASE LogFinish(c)
  <2>1. /\ LogsOK(log_bufs')
        /\ DOMAIN log_bufs' = DOMAIN log_bufs \ {c}
    BY <1>0, <1>7, LogsStayOK DEF LogFinish, Without
  <2> QED
    BY <1>7, <2>1 DEF LogFinish
<1>8. CASE LogGet(c)
  <2>1. LogsOK(log_bufs') /\ DOMAIN log_bufs' = DOMAIN log_bufs
    <3>1. CASE c \in DOMAIN log_bufs
      <4>1. log_bufs' = EmptyBuf(c)
        BY <1>8, <3>1 DEF LogGet
      <4>2. DOMAIN EmptyBuf(c) = DOMAIN log_bufs
        BY <3>1 DEF EmptyBuf
      <4>3. LogsOK(EmptyBuf(c))
        BY <1>0, LogsStayOK
      <4> QED
        BY <4>1, <4>2, <4>3
    <3>2. CASE c \notin DOMAIN log_bufs
      BY <1>8, <3>2 DEF LogGet
    <3> QED
      BY <3>1, <3>2
  <2> QED
    BY <1>8, <2>1 DEF LogGet
<1> QED
  BY <1>1, <1>2, <1>3, <1>4, <1>5, <1>6, <1>7, <1>8

\* ask()
LEMMA AskStepIInv ==
  ASSUME IInv, NEW c \in Conns,
         \/ AskSize(c) \/ AskOut(c) \/ Call(c) \/ ReplyPlain(c) \/ ReplyLogged(c)
         \/ Crash(c)
  PROVE  IInv'
<1> USE DEF IInv, TypeOK, MutexHeld, InUseOpen, LockHasUser, ThreadOfConn,
            NoGhosts, ClosingEmpty, OwnTrafficLogged, members, Goto, AskDone
<1>1. CASE AskSize(c)
  BY <1>1 DEF AskSize
<1>2. CASE AskOut(c)
  <2>1. [kind |-> ">>", conn |-> c] \in Entry
    BY DEF Entry
  <2>2. LogsOK(log_bufs') /\ DOMAIN log_bufs' = DOMAIN log_bufs
    BY <1>2, <2>1, LogsStayOK DEF AskOut, Logged
  <2> QED
    BY <1>2, <2>2 DEF AskOut
<1>3. CASE Call(c)
  BY <1>3 DEF Call
<1>4. CASE ReplyPlain(c)
  BY <1>4 DEF ReplyPlain
<1>5. CASE ReplyLogged(c)
  <2>1. \A k \in {"<<", "EE"} : [kind |-> k, conn |-> c] \in Entry
    BY DEF Entry
  <2>2. LogsOK(log_bufs') /\ DOMAIN log_bufs' = DOMAIN log_bufs
    BY <1>5, <2>1, LogsStayOK DEF ReplyLogged, Logged
  <2> QED
    BY <1>5, <2>2 DEF ReplyLogged
<1>6. CASE Crash(c)
  BY <1>6 DEF Crash
<1> QED
  BY <1>1, <1>2, <1>3, <1>4, <1>5, <1>6

LEMMA NextIInv == IInv /\ [Next]_vars => IInv'
<1> SUFFICES ASSUME IInv, [Next]_vars PROVE IInv'
  OBVIOUS
<1>1. CASE UNCHANGED vars
  BY <1>1 DEF vars, IInv, TypeOK, MutexHeld, InUseOpen, LockHasUser,
              ThreadOfConn, NoGhosts, ClosingEmpty, OwnTrafficLogged
<1>2. ASSUME NEW c \in Conns, ThreadNext(c)
      PROVE  IInv'
  BY <1>2, ConnStepIInv, UseStepIInv, BodyStepIInv, AskStepIInv
     DEF ThreadNext, Step
<1> QED
  BY <1>1, <1>2 DEF Next, Terminated

\* IInv holds in every reachable state.
THEOREM IInvHolds == Spec => []IInv
<1> QED
  BY InitIInv, NextIInv, PTL DEF Spec

\* Types are kept and no log buffer outgrows max_log_size.
THEOREM TypeCorrect == Spec => []TypeOK
<1>1. IInv => TypeOK
  BY DEF IInv
<1> QED
  BY <1>1, IInvHolds, PTL

\* A mutex is held exactly inside its critical sections, on every path.
THEOREM MutexesSafe == Spec => []MutexHeld
<1>1. IInv => MutexHeld
  BY DEF IInv
<1> QED
  BY <1>1, IInvHolds, PTL

\* use() opens the driver before it makes the connection a user, and close()
\* puts the users out before it resets the driver: a device in use has one.
THEOREM UsersServed == Spec => []InUseOpen
<1>1. IInv => InUseOpen
  BY DEF IInv
<1> QED
  BY <1>1, IInvHolds, PTL

\* No release, close or end of a connection leaves a lock that nobody may undo.
THEOREM LockCanEnd == Spec => []LockHasUser
<1>1. IInv => LockHasUser
  BY DEF IInv
<1> QED
  BY <1>1, IInvHolds, PTL

\* Closed connections leave no membership, no lock and no log buffer.
THEOREM NothingLeftBehind == Spec => []NoGhosts
<1>1. IInv => NoGhosts
  BY DEF IInv
<1> QED
  BY <1>1, IInvHolds, PTL

\* A recording connection never loses its own commands from the record.
THEOREM OwnTrafficKept == Spec => []OwnTrafficLogged
<1>1. IInv => OwnTrafficLogged
  BY DEF IInv
<1> QED
  BY <1>1, IInvHolds, PTL

-----------------------------------------------------------------------------
(* The device implements DeviceContract.                                   *)

LEMMA StepKeepsContract ==
  ASSUME IInv, NEW c \in Conns, ThreadNext(c)
  PROVE  Abstract!Next \/ UNCHANGED <<drv, users, locked, data_mutex>>
<1> USE DEF IInv, TypeOK, MutexHeld, members, Leave, Goto, InBody
<1>1. CASE AcquireData(c)
  BY <1>1 DEF AcquireData, Abstract!Next, Abstract!Enter
<1>2. SUFFICES ASSUME \/ Use(c) \/ UseFail(c) \/ Release(c) \/ CloseClear(c)
                      \/ CloseReset(c) \/ Lock(c) \/ Unlock(c)
                      \/ LogStart(c) \/ LogFinish(c) \/ LogGet(c)
               PROVE  Abstract!Next
  <2>1. CASE Accept(c) \/ End(c) \/ ConnClose(c) \/ Request(c) \/ AcquireCmd(c)
    BY <2>1 DEF Accept, End, ConnClose, Request, AcquireCmd
  <2>2. CASE CountUsers(c) \/ UseCount(c) \/ UseLocked(c)
    BY <2>2 DEF CountUsers, UseCount, UseLocked
  <2>3. CASE AskSize(c) \/ AskOut(c) \/ Call(c) \/ ReplyPlain(c)
               \/ ReplyLogged(c) \/ Crash(c)
    BY <2>3 DEF AskSize, AskOut, Call, ReplyPlain, ReplyLogged, AskDone, Crash
  <2> QED
    BY <1>1, <1>2, <2>1, <2>2, <2>3 DEF ThreadNext, Step
<1>3. data_mutex = c /\ data_mutex' \in {c, NoConn}
  <2>1. CASE \/ Use(c) \/ UseFail(c) \/ CloseClear(c) \/ CloseReset(c)
             \/ Lock(c) \/ Unlock(c)
    BY <2>1 DEF Use, UseFail, CloseClear, CloseReset, Lock, Unlock
  <2>2. CASE Release(c) \/ LogStart(c) \/ LogFinish(c) \/ LogGet(c)
    BY <2>2 DEF Release, ReleaseReturns, LogStart, LogFinish, LogGet
  <2> QED
    BY <1>2, <2>1, <2>2
<1>4. SUFFICES Abstract!Join(c) \/ Abstract!Change(c) \/ Abstract!Shut \/ Abstract!Same
  BY <1>3 DEF Abstract!Next, Abstract!Act
<1>5. CASE Use(c)
  BY <1>5 DEF Use, Abstract!Join, Abstract!Sharing!Join
<1>6. CASE Release(c)
  <2>1. CASE c \in users
    BY <1>6, <2>1 DEF Release, Abstract!Change, Abstract!Sharing!Part
  <2>2. CASE c \notin users
    BY <1>6, <2>2 DEF Release, Abstract!Same
  <2> QED
    BY <2>1, <2>2
<1>7. CASE CloseClear(c)
  BY <1>7 DEF CloseClear, Abstract!Change, Abstract!Sharing!Drop
<1>8. CASE CloseReset(c)
  BY <1>8 DEF CloseReset, ClosingEmpty, Abstract!Shut
<1>9. CASE Lock(c)
  <2>1. CASE Cardinality(users) = 1
    <3>1. PICK x : users = {x}
      BY <2>1, FS_Singleton
    <3>2. locked' = TRUE /\ UNCHANGED <<drv, users>>
      BY <1>9, <2>1 DEF Lock
    <3>3. x \in Conns /\ Abstract!Sharing!Take(x) /\ UNCHANGED drv
      BY <3>1, <3>2 DEF Abstract!Sharing!Take
    <3> QED
      BY <3>3 DEF Abstract!Change
  <2>2. CASE Cardinality(users) # 1
    BY <1>9, <2>2 DEF Lock, Abstract!Same
  <2> QED
    BY <2>1, <2>2
<1>10. CASE Unlock(c)
  <2>1. CASE c \in users
    BY <1>10, <2>1 DEF Unlock, Abstract!Change, Abstract!Sharing!Give
  <2>2. CASE c \notin users
    BY <1>10, <2>2 DEF Unlock, Abstract!Same
  <2> QED
    BY <2>1, <2>2
<1>11. CASE UseFail(c) \/ LogStart(c) \/ LogFinish(c) \/ LogGet(c)
  BY <1>11 DEF UseFail, LogStart, LogFinish, LogGet, Abstract!Same
<1> QED
  BY <1>2, <1>5, <1>6, <1>7, <1>8, <1>9, <1>10, <1>11

\* Every behaviour of the threads is a behaviour of the atomic contract.
THEOREM ContractKept == Spec => Contract
<1>1. Init => Abstract!Init
  BY DEF Init, Abstract!Init, Abstract!Sharing!Init
<1>2. IInv /\ [Next]_vars => [Abstract!Next]_(Abstract!vars)
  <2> SUFFICES ASSUME IInv, [Next]_vars
               PROVE  [Abstract!Next]_(Abstract!vars)
    OBVIOUS
  <2>1. UNCHANGED vars => UNCHANGED <<drv, users, locked, data_mutex>>
    BY DEF vars
  <2>2. ASSUME NEW c \in Conns, ThreadNext(c)
        PROVE  Abstract!Next \/ UNCHANGED <<drv, users, locked, data_mutex>>
    BY <2>2, StepKeepsContract
  <2>3. Abstract!Next \/ UNCHANGED <<drv, users, locked, data_mutex>>
    BY <2>1, <2>2 DEF Next, Terminated
  <2> QED
    BY <2>3 DEF Abstract!vars
<1> QED
  BY <1>1, <1>2, IInvHolds, PTL DEF Spec, Contract, Abstract!Spec

\* In particular users and lock change as DeviceSharing allows, the contract
\* that the devices of DevManager and Client keep as well.
THEOREM SharingKept == Spec => Abstract!Sharing!Spec
<1>1. Abstract!Init => Abstract!Sharing!Init
  BY DEF Abstract!Init
<1>2. [Abstract!Next]_(Abstract!vars) => [Abstract!Sharing!Next]_(Abstract!Sharing!vars)
  BY DEF Abstract!vars, Abstract!Sharing!vars, Abstract!Next, Abstract!Enter,
     Abstract!Act, Abstract!Join, Abstract!Change, Abstract!Shut, Abstract!Same,
     Abstract!Sharing!Next
<1> QED
  BY <1>1, <1>2, ContractKept, PTL DEF Contract, Abstract!Spec, Abstract!Sharing!Spec

-----------------------------------------------------------------------------
(* A server whose clients do not send "close".                             *)

\* Nobody closes, so the driver stays, and a connection that passed the
\* membership test of lock() stays a user until it has the mutex.
NoCloseInv ==
  /\ \A c \in Conns : act[c] # "close" /\ pc[c] # "close_drv"
  /\ dangling = {}
  /\ DriverAlive
  /\ \A c \in Conns :
       pc[c] \in {"body_wait", "body_in"} /\ act[c] = "lock" => c \in users

LEMMA StepNoCloseInv ==
  ASSUME "close" \notin Requests, IInv, NoCloseInv, NEW c \in Conns, ThreadNext(c)
  PROVE  NoCloseInv'
<1> USE DEF IInv, TypeOK, InUseOpen, NoCloseInv, DriverAlive, members, Goto,
            AfterUse, Leave, InBody, AskDone
<1>1. CASE Accept(c) \/ End(c) \/ ConnClose(c) \/ Request(c)
             \/ AcquireData(c) \/ AcquireCmd(c)
  BY <1>1 DEF Accept, End, ConnClose, Request, AcquireData, AcquireCmd
<1>2. CASE CountUsers(c) \/ UseCount(c)
  <2>1. \A found \in Counts(c) : found => c \in users
    BY DEF Counts
  <2> QED
    BY <1>2, <2>1 DEF CountUsers, UseCount
<1>3. CASE UseLocked(c) \/ Use(c) \/ UseFail(c)
  BY <1>3 DEF UseLocked, Use, UseFail
<1>4. CASE Release(c)
  BY <1>4 DEF Release, ReleaseReturns
<1>5. CASE CloseClear(c) \/ CloseReset(c)
  BY <1>5 DEF CloseClear, CloseReset
<1>6. CASE Lock(c) \/ Unlock(c) \/ LogStart(c) \/ LogFinish(c) \/ LogGet(c)
  BY <1>6 DEF Lock, Unlock, LogStart, LogFinish, LogGet
<1>7. CASE AskSize(c) \/ AskOut(c) \/ Call(c) \/ ReplyPlain(c)
             \/ ReplyLogged(c) \/ Crash(c)
  BY <1>7 DEF AskSize, AskOut, Call, ReplyPlain, ReplyLogged, Crash
<1> QED
  BY <1>1, <1>2, <1>3, <1>4, <1>5, <1>6, <1>7 DEF ThreadNext, Step

LEMMA NoCloseInvHolds ==
  ASSUME "close" \notin Requests
  PROVE  Spec => [](IInv /\ NoCloseInv)
<1>1. Init => NoCloseInv
  BY DEF Init, NoCloseInv, DriverAlive
<1>2. IInv /\ NoCloseInv /\ [Next]_vars => NoCloseInv'
  <2> SUFFICES ASSUME IInv, NoCloseInv, [Next]_vars PROVE NoCloseInv'
    OBVIOUS
  <2>1. CASE UNCHANGED vars
    BY <2>1 DEF vars, NoCloseInv, DriverAlive
  <2>2. ASSUME NEW c \in Conns, ThreadNext(c)
        PROVE  NoCloseInv'
    BY <2>2, StepNoCloseInv
  <2> QED
    BY <2>1, <2>2 DEF Next, Terminated
<1> QED
  BY <1>1, <1>2, IInvHolds, PTL DEF Spec

\* Without close requests the driver outlives every ask().
THEOREM DriverOutlivesAsk ==
  ASSUME "close" \notin Requests
  PROVE  Spec => []DriverAlive
<1>1. NoCloseInv => DriverAlive
  BY DEF NoCloseInv
<1> QED
  BY <1>1, NoCloseInvHolds, PTL

\* Without close requests lock() is granted to the only user of the device.
THEOREM LockForOnlyUser ==
  ASSUME "close" \notin Requests
  PROVE  Spec => LockTakenByOnlyUser
<1> DEFINE Granted == \A c \in Conns :
             InBody(c, "lock") /\ ~locked /\ locked' => users = {c}
<1>1. IInv /\ NoCloseInv /\ [Next]_vars => [Granted]_vars
  <2> SUFFICES ASSUME IInv, NoCloseInv, [Next]_vars,
                      NEW c \in Conns, InBody(c, "lock"), ~locked, locked'
               PROVE  users = {c}
    OBVIOUS
  <2>1. c \in users
    BY DEF NoCloseInv, InBody
  <2>2. ~UNCHANGED locked
    OBVIOUS
  <2>3. PICK d \in Conns : ThreadNext(d)
    BY <2>2 DEF Next, Terminated, vars
  <2>4. Lock(d)
    BY <2>2, <2>3 DEF ThreadNext, Step, members, Accept, End, ConnClose,
       Request, AcquireData, AcquireCmd, CountUsers, UseCount, UseLocked, Use,
       UseFail, Release, CloseClear, CloseReset, Unlock, LogStart, LogFinish,
       LogGet, AskSize, AskOut, Call, ReplyPlain, ReplyLogged, Crash
  <2>5. Cardinality(users) = 1
    BY <2>4 DEF Lock
  <2>6. PICK x : users = {x}
    BY <2>5, FS_Singleton DEF IInv, TypeOK
  <2> QED
    BY <2>1, <2>6
<1> QED
  BY <1>1, NoCloseInvHolds, PTL DEF Spec, LockTakenByOnlyUser

-----------------------------------------------------------------------------
(* A server whose clients send neither "close" nor "log_start".            *)

\* Nobody records, so there is no log buffer to walk through.
NoLogInv ==
  /\ \A c \in Conns : act[c] # "log_start"
  /\ DOMAIN log_bufs = {}
  /\ NoCrash

LEMMA StepNoLogInv ==
  ASSUME "close" \notin Requests, "log_start" \notin Requests,
         IInv, NoCloseInv, NoLogInv, NEW c \in Conns, ThreadNext(c)
  PROVE  NoLogInv'
<1> USE DEF IInv, TypeOK, NoLogInv, NoCrash, members, Goto, AfterUse, Leave, InBody, AskDone
<1>1. CASE Accept(c) \/ End(c) \/ ConnClose(c) \/ Request(c)
             \/ AcquireData(c) \/ AcquireCmd(c)
  BY <1>1 DEF Accept, End, ConnClose, Request, AcquireData, AcquireCmd
<1>2. CASE CountUsers(c) \/ UseCount(c) \/ UseLocked(c) \/ Use(c) \/ UseFail(c)
  BY <1>2 DEF CountUsers, UseCount, UseLocked, Use, UseFail
<1>3. CASE Release(c) \/ LogFinish(c)
  BY <1>3 DEF Release, ReleaseReturns, LogFinish, Without
<1>4. CASE CloseClear(c) \/ CloseReset(c)
  BY <1>4 DEF CloseClear, CloseReset, NoCloseInv
<1>5. CASE Lock(c) \/ Unlock(c) \/ LogStart(c) \/ LogGet(c)
  BY <1>5 DEF Lock, Unlock, LogStart, LogGet
<1>6. CASE AskSize(c) \/ AskOut(c) \/ Call(c) \/ ReplyPlain(c) \/ ReplyLogged(c)
  BY <1>6 DEF AskSize, AskOut, Call, ReplyPlain, ReplyLogged, Logged
<1>7. ~Crash(c)
  <2>1. ~LogRace
    BY DEF LogRace, NoCloseInv
  <2>2. pc[c] \in AskPcs => drv /\ c \notin dangling
    BY DEF NoCloseInv, DriverAlive
  <2> QED
    BY <2>1, <2>2 DEF Crash, AskPcs
<1> QED
  BY <1>1, <1>2, <1>3, <1>4, <1>5, <1>6, <1>7 DEF ThreadNext, Step

\* A thread of the server hits freed memory or a null pointer only if some
\* client closes the device or records it: the races of close() with ask()
\* and of log_message() with the changes of log_bufs are the only ones.
THEOREM QuietServerNeverCrashes ==
  ASSUME "close" \notin Requests, "log_start" \notin Requests
  PROVE  Spec => []NoCrash
<1>1. Init => NoLogInv
  BY DEF Init, NoLogInv, NoCrash
<1>2. IInv /\ NoCloseInv /\ NoLogInv /\ [Next]_vars => NoLogInv'
  <2> SUFFICES ASSUME IInv, NoCloseInv, NoLogInv, [Next]_vars PROVE NoLogInv'
    OBVIOUS
  <2>1. CASE UNCHANGED vars
    BY <2>1 DEF vars, NoLogInv, NoCrash
  <2>2. ASSUME NEW c \in Conns, ThreadNext(c)
        PROVE  NoLogInv'
    BY <2>2, StepNoLogInv
  <2> QED
    BY <2>1, <2>2 DEF Next, Terminated
<1>3. NoLogInv => NoCrash
  BY DEF NoLogInv
<1> QED
  BY <1>1, <1>2, <1>3, NoCloseInvHolds, PTL DEF Spec

-----------------------------------------------------------------------------
(* Test mode: with one connection at a time none of the races is left.     *)

Present(c) == conn[c] \notin {"new", "gone"}

\* The connection that there is knows everything: whatever it has read without
\* a mutex is still so.
TestModeInv ==
  /\ \A c, d \in Conns : Present(c) /\ Present(d) => c = d
  /\ ~crashed
  /\ dangling = {}
  /\ \A c \in Conns : pc[c] \in AskPcs => c \in users
  /\ \A c \in Conns :
       pc[c] \in {"body_wait", "body_in"} /\ act[c] = "lock" => c \in users

\* Threads are idle but for the one of the connection that makes a step.
LEMMA OthersIdle ==
  ASSUME IInv, TestModeInv, NEW c \in Conns, Present(c), NEW d \in Conns, d # c
  PROVE  ~Present(d) /\ pc[d] = "idle"
BY DEF IInv, TypeOK, TestModeInv, Present, ThreadOfConn

LEMMA StepTestModeInv ==
  ASSUME TestMode, IInv, TestModeInv, NEW c \in Conns, ThreadNext(c)
  PROVE  TestModeInv'
<1> USE DEF Present, members, Goto, AfterUse, Leave, InBody, AskDone
<1>1. CASE Accept(c)
  BY <1>1 DEF Accept, UnderLimit, TestModeInv, IInv, TypeOK
<1>2. SUFFICES ASSUME Present(c)
               PROVE  TestModeInv'
  <2>1. ASSUME ~Accept(c) PROVE Present(c)
    <3>1. CASE End(c) \/ ConnClose(c) \/ Request(c)
      BY <3>1 DEF End, ConnClose, Request
    <3>2. CASE pc[c] # "idle"
      BY <3>2 DEF IInv, ThreadOfConn
    <3>3. CASE AcquireData(c) \/ AcquireCmd(c) \/ Step(c)
      <4>1. pc[c] # "idle"
        BY <3>3 DEF AcquireData, AcquireCmd, Step, CountUsers, UseCount,
           UseLocked, Use, UseFail, Release, CloseClear, CloseReset, Lock,
           Unlock, LogStart, LogFinish, LogGet, AskSize, AskOut, Call,
           ReplyPlain, ReplyLogged, Crash, InDriver
      <4> QED
        BY <4>1, <3>2
    <3> QED
      BY <2>1, <3>1, <3>3 DEF ThreadNext
  <2> QED
    BY <1>1, <2>1
<1>3. \A d \in Conns \ {c} : ~Present(d) /\ pc[d] = "idle"
  BY <1>2, OthersIdle
<1> HIDE DEF Present
<1>4. CASE End(c) \/ ConnClose(c) \/ Request(c) \/ AcquireData(c) \/ AcquireCmd(c)
  BY <1>3, <1>4 DEF End, ConnClose, Request, AcquireData, AcquireCmd, Present,
     TestModeInv, IInv, TypeOK, AskPcs, InDriver
<1>5. CASE CountUsers(c) \/ UseCount(c)
  <2>1. ~UsersInFlux
    BY <1>3, <1>5 DEF UsersInFlux, CountUsers, UseCount
  <2>2. \A found \in Counts(c) : found => c \in users
    BY <2>1 DEF Counts
  <2> QED
    BY <1>5, <2>2 DEF CountUsers, UseCount, Present, TestModeInv, IInv, TypeOK,
       AskPcs, InDriver
<1>6. CASE UseLocked(c) \/ Use(c) \/ UseFail(c)
  BY <1>6 DEF UseLocked, Use, UseFail, Present, TestModeInv, IInv, TypeOK,
     AskPcs, InDriver
<1>7. CASE Release(c)
  BY <1>3, <1>7 DEF Release, ReleaseReturns, Present, TestModeInv, IInv,
     TypeOK, AskPcs, InDriver
<1>8. CASE CloseClear(c)
  BY <1>3, <1>8 DEF CloseClear, Present, TestModeInv, IInv, TypeOK, AskPcs,
     InDriver
<1>9. CASE CloseReset(c)
  <2>1. \A d \in Conns : pc[d] \notin InDriver
    BY <1>3, <1>9 DEF CloseReset, InDriver
  <2> QED
    BY <1>9, <2>1 DEF CloseReset, Present, TestModeInv, IInv, TypeOK, AskPcs,
       InDriver
<1>10. CASE Lock(c) \/ Unlock(c) \/ LogStart(c) \/ LogFinish(c) \/ LogGet(c)
  BY <1>10 DEF Lock, Unlock, LogStart, LogFinish, LogGet, Present, TestModeInv,
     IInv, TypeOK, AskPcs, InDriver
<1>11. CASE AskSize(c) \/ AskOut(c) \/ Call(c) \/ ReplyPlain(c) \/ ReplyLogged(c)
  BY <1>11 DEF AskSize, AskOut, Call, ReplyPlain, ReplyLogged, Present,
     TestModeInv, IInv, TypeOK, AskPcs, InDriver
<1>12. ~Crash(c)
  <2>1. ~(pc[c] \in {"call_plain", "call_logged"} /\ ~drv)
    BY DEF TestModeInv, IInv, InUseOpen, AskPcs
  <2>2. ~(pc[c] \in {"ask_out", "reply_logged"} /\ LogRace)
    BY <1>3 DEF LogRace
  <2> QED
    BY <2>1, <2>2 DEF Crash, TestModeInv
<1> QED
  BY <1>2, <1>1, <1>4, <1>5, <1>6, <1>7, <1>8, <1>9, <1>10, <1>11, <1>12
     DEF ThreadNext, Step

LEMMA TestModeInvHolds ==
  ASSUME TestMode
  PROVE  Spec => [](IInv /\ TestModeInv)
<1>1. Init => TestModeInv
  BY DEF Init, TestModeInv, Present, AskPcs, InDriver
<1>2. IInv /\ TestModeInv /\ [Next]_vars => TestModeInv'
  <2> SUFFICES ASSUME IInv, TestModeInv, [Next]_vars PROVE TestModeInv'
    OBVIOUS
  <2>1. CASE UNCHANGED vars
    BY <2>1 DEF vars, TestModeInv, Present
  <2>2. ASSUME NEW c \in Conns, ThreadNext(c)
        PROVE  TestModeInv'
    BY <2>2, StepTestModeInv
  <2> QED
    BY <2>1, <2>2 DEF Next, Terminated
<1> QED
  BY <1>1, <1>2, IInvHolds, PTL DEF Spec

\* With --test, when the listener accepts one connection at a time, no thread
\* uses a driver that is gone or walks through a log that is being erased,
\* even if its client closes the device: which is not so otherwise.
THEOREM TestModeNeverCrashes ==
  ASSUME TestMode
  PROVE  Spec => [](NoCrash /\ DriverAlive)
<1>1. IInv /\ TestModeInv => NoCrash /\ DriverAlive
  BY DEF IInv, InUseOpen, TestModeInv, NoCrash, DriverAlive
<1> QED
  BY <1>1, TestModeInvHolds, PTL

\* With --test nobody becomes a user of a locked device: which is not so
\* otherwise, because use() tests the lock before it has the mutex.
THEOREM TestModeLockExcludes ==
  ASSUME TestMode
  PROVE  Spec => NobodyJoinsLocked
<1> DEFINE Joins == locked /\ locked' => users' \subseteq users
<1>1. IInv /\ TestModeInv /\ [Next]_vars => [Joins]_vars
  <2> SUFFICES ASSUME IInv, TestModeInv, [Next]_vars, locked, locked', ~UNCHANGED vars
               PROVE  users' \subseteq users
    OBVIOUS
  <2>1. PICK c \in Conns : ThreadNext(c)
    BY DEF Next, Terminated
  <2>2. ASSUME ~Use(c) PROVE users' \subseteq users
    BY <2>1, <2>2 DEF ThreadNext, Step, members, Accept, End, ConnClose,
       Request, AcquireData, AcquireCmd, CountUsers, UseCount, UseLocked,
       UseFail, Release, CloseClear, CloseReset, Lock, Unlock, LogStart,
       LogFinish, LogGet, AskSize, AskOut, Call, ReplyPlain, ReplyLogged, Crash
  <2>3. CASE Use(c)
    <3>1. Present(c)
      BY <2>3 DEF Use, IInv, ThreadOfConn, Present
    <3>2. PICK d \in users : d \in Conns /\ Present(d)
      BY DEF IInv, TypeOK, LockHasUser, NoGhosts, Present
    <3>3. d = c
      BY <3>1, <3>2 DEF TestModeInv
    <3> QED
      BY <2>3, <3>2, <3>3 DEF Use
  <2> QED
    BY <2>2, <2>3
<1> QED
  BY <1>1, TestModeInvHolds, PTL DEF Spec, NobodyJoinsLocked

-----------------------------------------------------------------------------
(* Conversations in the logs.                                              *)

\* What log_message appends to a buffer: e fits after b if the last
\* conversation in b is over and e is a command, or e is its end.
Fits(b, e) ==
  Len(b) > 0 => IF b[Len(b)].kind = ">>"
                THEN e.kind # ">>" /\ e.conn = b[Len(b)].conn
                ELSE e.kind = ">>"

\* Appending an entry that fits, and cutting the front off, keep a buffer
\* in order; the new entry is the last one.
LEMMA AppendAlternates ==
  ASSUME NEW b \in Seq(Entry), NEW e \in Entry, Alternates(b), Fits(b, e)
  PROVE  LET t == Truncate(Append(b, e))
         IN  Alternates(t) /\ Len(t) \in Nat \ {0} /\ t[Len(t)] = e
<1> DEFINE s == Append(b, e)
           n == Len(s)
           m == n - MaxLogSize
           t == Truncate(s)
<1>1. /\ s \in Seq(Entry) /\ n = Len(b) + 1 /\ s[n] = e
      /\ \A i \in 1 .. Len(b) : s[i] = b[i]
  BY AppendProperties
<1>2. Len(b) \in Nat
  BY LenProperties
<1>3. Alternates(s)
  <2> SUFFICES ASSUME NEW i \in 1 .. n - 1
               PROVE  IF s[i].kind = ">>"
                      THEN s[i + 1].kind # ">>" /\ s[i + 1].conn = s[i].conn
                      ELSE s[i + 1].kind = ">>"
    BY DEF Alternates
  <2>1. CASE i = Len(b)
    BY <1>1, <1>2, <2>1 DEF Fits
  <2>2. CASE i < Len(b)
    <3>1. i \in 1 .. Len(b) - 1 /\ i \in 1 .. Len(b) /\ i + 1 \in 1 .. Len(b)
      BY <1>1, <1>2, <2>2
    <3> HIDE DEF s
    <3> QED
      BY <1>1, <3>1 DEF Alternates
  <2> QED
    BY <1>1, <1>2, <2>1, <2>2
<1>4. CASE n > MaxLogSize
  <2>1. /\ m \in Nat /\ m + 1 \in 1 .. n + 1 /\ n \in m .. n
        /\ n - (m + 1) + 1 = MaxLogSize
    BY <1>1, <1>2, <1>4
  <2>2. t = SubSeq(s, m + 1, n)
    BY <1>4 DEF Truncate
  <2>3. /\ Len(t) = MaxLogSize
        /\ \A i \in 1 .. MaxLogSize : t[i] = s[m + i]
    <3> HIDE DEF s, t, n, m
    <3>1. /\ Len(t) = n - (m + 1) + 1
          /\ \A i \in 1 .. n - (m + 1) + 1 : t[i] = s[(m + 1) + i - 1]
      BY <1>1, <2>1, <2>2, SubSeqProperties DEF n
    <3>2. \A i \in 1 .. MaxLogSize : (m + 1) + i - 1 = m + i
      BY <2>1
    <3> QED
      BY <2>1, <3>1, <3>2
  <2>4. Alternates(t)
    <3> SUFFICES ASSUME NEW i \in 1 .. Len(t) - 1
                 PROVE  IF t[i].kind = ">>"
                        THEN t[i + 1].kind # ">>" /\ t[i + 1].conn = t[i].conn
                        ELSE t[i + 1].kind = ">>"
      BY DEF Alternates
    <3> HIDE DEF s, t
    <3>1. /\ m + i \in 1 .. n - 1
          /\ t[i] = s[m + i] /\ t[i + 1] = s[(m + i) + 1]
      BY <1>1, <1>2, <2>1, <2>3
    <3> QED
      BY <1>3, <3>1 DEF Alternates
  <2>5. t[Len(t)] = e
    <3> HIDE DEF s, t
    <3> QED
      BY <1>1, <2>1, <2>3
  <2> QED
    BY <2>3, <2>4, <2>5
<1>5. CASE ~(n > MaxLogSize)
  <2>1. t = s
    BY <1>5 DEF Truncate
  <2> QED
    BY <1>1, <1>2, <1>3, <2>1
<1> QED
  BY <1>4, <1>5

\* The thread is between the two calls of log_message of a logged ask().
InTalk(c) == pc[c] \in {"call_logged", "reply_logged"}

\* A buffer is in order, and it ends with the command of the conversation
\* that is going on or, if there is none, with the end of one.
BufOK(b) ==
  /\ Alternates(b)
  /\ Len(b) > 0 =>
       /\ \A c \in Conns : InTalk(c) => b[Len(b)] = [kind |-> ">>", conn |-> c]
       /\ (\A c \in Conns : ~InTalk(c)) => b[Len(b)].kind # ">>"

LogInv == \A d \in DOMAIN log_bufs : BufOK(log_bufs[d])

\* An empty buffer is in order whatever goes on.
LEMMA EmptyOK == Alternates(<< >>) /\ ~(Len(<< >>) > 0)
  BY DEF Alternates

\* Steps that do not begin or end a logged conversation.
LEMMA QuietLogInv ==
  ASSUME LogInv, \A c \in Conns : InTalk(c)' <=> InTalk(c),
         \A d \in DOMAIN log_bufs' :
           \/ log_bufs'[d] = << >>
           \/ d \in DOMAIN log_bufs /\ log_bufs'[d] = log_bufs[d]
  PROVE  LogInv'
<1> SUFFICES ASSUME NEW d \in DOMAIN log_bufs' PROVE BufOK(log_bufs[d])'
  BY DEF LogInv
<1>1. CASE log_bufs'[d] = << >>
  BY <1>1, EmptyOK DEF BufOK, Alternates
<1>2. CASE d \in DOMAIN log_bufs /\ log_bufs'[d] = log_bufs[d]
  BY <1>2 DEF LogInv, BufOK, Alternates
<1> QED
  BY <1>1, <1>2

\* log_message with an entry that fits
LEMMA LoudLogInv ==
  ASSUME IInv, NEW e \in Entry, log_bufs' = Logged(e),
         \A d \in DOMAIN log_bufs : Alternates(log_bufs[d]) /\ Fits(log_bufs[d], e),
         \A c \in Conns : InTalk(c)' <=> (e.kind = ">>" /\ c = e.conn)
  PROVE  LogInv'
<1> SUFFICES ASSUME NEW d \in DOMAIN log_bufs' PROVE BufOK(log_bufs[d])'
  BY DEF LogInv
<1> DEFINE t == Truncate(Append(log_bufs[d], e))
<1>1. d \in DOMAIN log_bufs /\ log_bufs'[d] = t
  BY DEF Logged
<1>2. log_bufs[d] \in Seq(Entry)
  BY <1>1 DEF IInv, TypeOK, LogsOK
<1>3. Alternates(t) /\ Len(t) \in Nat \ {0} /\ t[Len(t)] = e
  BY <1>1, <1>2, AppendAlternates
<1> HIDE DEF t
<1>4. e = [kind |-> e.kind, conn |-> e.conn] /\ e.conn \in Conns
  BY DEF Entry
<1>5. Alternates(log_bufs[d])'
  BY <1>1, <1>3 DEF Alternates
<1>6. ASSUME NEW c \in Conns, InTalk(c)'
      PROVE  t[Len(t)] = [kind |-> ">>", conn |-> c]
  BY <1>3, <1>4, <1>6
<1>7. ASSUME \A c \in Conns : ~InTalk(c)'
      PROVE  t[Len(t)].kind # ">>"
  BY <1>3, <1>4, <1>7
<1> QED
  BY <1>1, <1>5, <1>6, <1>7 DEF BufOK

LEMMA StepLogInv ==
  ASSUME IInv, LogInv, NEW c \in Conns, ThreadNext(c)
  PROVE  LogInv'
<1> USE DEF IInv, TypeOK, members, Goto, Leave, AskDone
<1>0. \A d, x \in Conns : InTalk(d) /\ pc[x] \in CmdPcs => d = x
  BY DEF MutexHeld, InTalk
<1>1. CASE AskOut(c)
  <2> DEFINE e == [kind |-> ">>", conn |-> c]
  <2>1. e \in Entry /\ e.kind = ">>" /\ e.conn = c
    BY DEF Entry
  <2>2. \A d \in Conns : ~InTalk(d)
    BY <1>0, <1>1 DEF AskOut, InTalk
  <2>3. \A d \in DOMAIN log_bufs : Alternates(log_bufs[d]) /\ Fits(log_bufs[d], e)
    BY <2>1, <2>2 DEF LogInv, BufOK, Fits
  <2>4. \A d \in Conns : InTalk(d)' <=> d = c
    BY <1>1, <2>2 DEF AskOut, InTalk
  <2>5. log_bufs' = Logged(e)
    BY <1>1 DEF AskOut
  <2> HIDE DEF e
  <2> QED
    BY <2>1, <2>3, <2>4, <2>5, LoudLogInv
<1>2. CASE ReplyLogged(c)
  <2>1. PICK k \in {"<<", "EE"} : log_bufs' = Logged([kind |-> k, conn |-> c])
    BY <1>2 DEF ReplyLogged
  <2> DEFINE e == [kind |-> k, conn |-> c]
  <2>2. e \in Entry /\ e.kind # ">>" /\ e.conn = c
    BY DEF Entry
  <2>3. InTalk(c) /\ \A d \in Conns : InTalk(d) => d = c
    BY <1>0, <1>2 DEF ReplyLogged, InTalk
  <2>4. \A d \in DOMAIN log_bufs : Alternates(log_bufs[d]) /\ Fits(log_bufs[d], e)
    <3> SUFFICES ASSUME NEW d \in DOMAIN log_bufs
                 PROVE  Alternates(log_bufs[d]) /\ Fits(log_bufs[d], e)
      OBVIOUS
    <3> DEFINE b == log_bufs[d]
    <3>1. Alternates(b)
      BY DEF LogInv, BufOK
    <3>2. Len(b) > 0 => b[Len(b)] = [kind |-> ">>", conn |-> c]
      BY <2>3 DEF LogInv, BufOK
    <3> QED
      BY <2>2, <3>1, <3>2 DEF Fits
  <2>5. \A d \in Conns : ~InTalk(d)'
    BY <1>2, <2>3 DEF ReplyLogged, InTalk
  <2> HIDE DEF e
  <2> QED
    BY <2>1, <2>2, <2>4, <2>5, LoudLogInv DEF e
<1>3. CASE UNCHANGED log_bufs /\ \A d \in Conns : InTalk(d)' <=> InTalk(d)
  BY <1>3, QuietLogInv
<1>4. CASE Accept(c) \/ End(c) \/ ConnClose(c) \/ Request(c)
             \/ AcquireData(c) \/ AcquireCmd(c)
  <2>1. UNCHANGED log_bufs
    BY <1>4 DEF Accept, End, ConnClose, Request, AcquireData, AcquireCmd
  <2>2. \A d \in Conns : InTalk(d)' <=> InTalk(d)
    BY <1>4 DEF Accept, End, ConnClose, Request, AcquireData, AcquireCmd,
                InTalk, ThreadOfConn
  <2> QED
    BY <1>3, <2>1, <2>2
<1>5. CASE CountUsers(c) \/ UseCount(c) \/ UseLocked(c) \/ Use(c) \/ UseFail(c)
             \/ CloseReset(c) \/ Lock(c) \/ Unlock(c)
  <2>1. UNCHANGED log_bufs
    BY <1>5 DEF CountUsers, UseCount, UseLocked, Use, UseFail, CloseReset, Lock,
                Unlock
  <2>2. \A d \in Conns : InTalk(d)' <=> InTalk(d)
    BY <1>5 DEF CountUsers, UseCount, UseLocked, Use, UseFail, CloseReset, Lock,
                Unlock, AfterUse, InBody, InTalk
  <2> QED
    BY <1>3, <2>1, <2>2
<1>6. CASE AskSize(c) \/ Call(c) \/ ReplyPlain(c) \/ Crash(c)
  <2>1. UNCHANGED log_bufs
    BY <1>6 DEF AskSize, Call, ReplyPlain, Crash
  <2>2. \A d \in Conns : InTalk(d)' <=> InTalk(d)
    BY <1>6 DEF AskSize, Call, ReplyPlain, Crash, InTalk
  <2> QED
    BY <1>3, <2>1, <2>2
<1>7. CASE Release(c) \/ LogFinish(c) \/ CloseClear(c) \/ LogStart(c) \/ LogGet(c)
  <2>1. \A d \in Conns : InTalk(d)' <=> InTalk(d)
    BY <1>7 DEF Release, ReleaseReturns, LogFinish, CloseClear, LogStart, LogGet,
                InBody, InTalk
  <2>2. \A d \in DOMAIN log_bufs' :
          \/ log_bufs'[d] = << >>
          \/ d \in DOMAIN log_bufs /\ log_bufs'[d] = log_bufs[d]
    BY <1>7 DEF Release, LogFinish, CloseClear, LogStart, LogGet, Without, EmptyBuf
  <2> QED
    BY <2>1, <2>2, QuietLogInv
<1> QED
  BY <1>1, <1>2, <1>4, <1>5, <1>6, <1>7 DEF ThreadNext, Step

\* In every log the conversations of the connections follow one another.
THEOREM LogsInOrder == Spec => []LogBracketed
<1>1. Init => LogInv
  BY DEF Init, LogInv
<1>2. IInv /\ LogInv /\ [Next]_vars => LogInv'
  <2> SUFFICES ASSUME IInv, LogInv, [Next]_vars PROVE LogInv'
    OBVIOUS
  <2>1. CASE UNCHANGED vars
    BY <2>1, QuietLogInv DEF vars, InTalk
  <2>2. ASSUME NEW c \in Conns, ThreadNext(c)
        PROVE  LogInv'
    BY <2>2, StepLogInv
  <2> QED
    BY <2>1, <2>2 DEF Next, Terminated
<1>3. LogInv => LogBracketed
  BY DEF LogInv, BufOK, LogBracketed
<1> QED
  BY <1>1, <1>2, <1>3, IInvHolds, PTL DEF Spec
=============================================================================
