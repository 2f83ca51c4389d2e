------------------------------- MODULE Device -------------------------------
(***************************************************************************)
(* One device of the device_d server (server/device.cpp) and the threads   *)
(* that call it: one thread per HTTP connection, which serves the requests *)
(* of its client one after another, and the listener thread of the HTTP    *)
(* library, which accepts connections and calls conn_close for the ones    *)
(* that ended (server/http_server.cpp).                                    *)
(*                                                                         *)
(* A method of class Device is a sequence of steps of the calling thread,  *)
(* cut where other threads can come in between: every read of a member     *)
(* that is done without a mutex is a step, taking a mutex is a step, and   *)
(* what is done under data_mutex is one step (the first half of close() is *)
(* a step of its own).  A thread that reads a container without the mutex  *)
(* while the mutex holder is changing it races with it, see Counts and     *)
(* LogRace.                                                                *)
(***************************************************************************)
EXTENDS Naturals, Sequences, FiniteSets

CONSTANTS
  Conns,        \* connection numbers; a number is never given out twice
  NoConn,       \* "no connection": the owner of a free mutex
  Requests,     \* the requests that clients send
  MaxLogSize,   \* Device::max_log_size, 1024 in the code
  TestMode      \* device_d --test: one connection at a time

RequestNames == {"use", "release", "close", "lock", "unlock", "log_start",
                 "log_finish", "log_get", "ask"}

ASSUME NoConnAssumption   == NoConn \notin Conns
ASSUME RequestsAssumption == Requests \subseteq RequestNames
ASSUME MaxLogAssumption   == MaxLogSize \in Nat \ {0}
ASSUME TestModeAssumption == TestMode \in BOOLEAN

VARIABLES
  drv,         \* is the pointer Device::drv non-null?
  users,       \* Device::users
  locked,      \* Device::locked
  log_bufs,    \* Device::log_bufs: connection -> log entries, partial
  data_mutex,  \* the connection whose thread holds Device::data_mutex
  cmd_mutex,   \* the same for Device::cmd_mutex
  conn,        \* life cycle of each connection
  pc,          \* where the thread serving the connection is
  act,         \* the request that it serves
  dangling,    \* connections executing a method of a destroyed driver
  crashed      \* the server process died

members == <<drv, users, locked, log_bufs>>
vars    == <<drv, users, locked, log_bufs, data_mutex, cmd_mutex, conn, pc,
             act, dangling, crashed>>

\* An entry of a log buffer: a command (">> "), an answer ("<< ") or an error
\* ("EE "), and the connection whose ask wrote it.
Entry == [kind : {">>", "<<", "EE"}, conn : Conns]

ConnStates == {"new", "open", "ended", "due", "closing", "gone"}

\* Inside drv->ask()
InDriver == {"reply_plain", "reply_logged"}

\* Past the membership test of ask(), up to its end
AskPcs == {"cmd_wait", "ask_size", "ask_out", "call_plain", "call_logged"}
            \cup InDriver

\* Holding cmd_mutex
CmdPcs == AskPcs \ {"cmd_wait"}

\* Holding data_mutex
DataPcs == {"use_in", "body_in", "close_drv"}

Pcs == {"idle", "count", "use_count", "use_locked", "use_wait", "body_wait"}
         \cup DataPcs \cup AskPcs

\* A partial function from connections to logs of a limited length
LogsOK(lb) ==
  /\ \E S \in SUBSET Conns : lb \in [S -> Seq(Entry)]
  /\ \A c \in DOMAIN lb : Len(lb[c]) <= MaxLogSize

\* Types; no log buffer is longer than max_log_size after any log_message.
TypeOK ==
  /\ drv \in BOOLEAN
  /\ users \subseteq Conns /\ IsFiniteSet(users)
  /\ locked \in BOOLEAN
  /\ LogsOK(log_bufs)
  /\ data_mutex \in Conns \cup {NoConn}
  /\ cmd_mutex \in Conns \cup {NoConn}
  /\ conn \in [Conns -> ConnStates]
  /\ pc \in [Conns -> Pcs]
  /\ act \in [Conns -> RequestNames \cup {"none"}]
  /\ dangling \subseteq Conns
  /\ crashed \in BOOLEAN

\* Device::Device: no user, not locked, no driver, no logs
Init ==
  /\ drv = FALSE
  /\ users = {}
  /\ locked = FALSE
  /\ log_bufs = [c \in {} |-> << >>]
  /\ data_mutex = NoConn
  /\ cmd_mutex = NoConn
  /\ conn = [c \in Conns |-> "new"]
  /\ pc = [c \in Conns |-> "idle"]
  /\ act = [c \in Conns |-> "none"]
  /\ dangling = {}
  /\ crashed = FALSE

-----------------------------------------------------------------------------
(* Control of a thread.                                                    *)

\* The thread continues at l; at "idle" the request has been answered.
Goto(c, l) ==
  /\ pc' = [pc EXCEPT ![c] = l]
  /\ act' = IF l = "idle" THEN [act EXCEPT ![c] = "none"] ELSE act

\* Where a thread goes when use() returns to its caller.
AfterUse(c) ==
  CASE act[c] = "lock" -> "body_wait"
    [] act[c] = "ask"  -> "cmd_wait"
    [] OTHER           -> "idle"

\* A critical section of data_mutex that only returns afterwards.
Leave(c) == data_mutex' = NoConn /\ Goto(c, "idle")

-----------------------------------------------------------------------------
(* Connections.  The listener thread of the HTTP library accepts           *)
(* connections and calls conn_close, one call at a time.  A connection that *)
(* ends does not wake it: HTTP_Server starts the library with a thread per *)
(* connection and, unless in test mode, without the channel (MHD_USE_ITC)  *)
(* through which that thread could.  The listener finds the connections    *)
(* that ended when it has been woken for the next one to accept, and then  *)
(* their conn_close is due.                                                *)

ListenerFree == \A d \in Conns : conn[d] # "closing"

\* With the connection limit of the test mode nothing is accepted before
\* conn_close of the previous connection has returned.
UnderLimit == TestMode => \A d \in Conns : conn[d] \in {"new", "gone"}

\* ConnFunc, MHD_CONNECTION_NOTIFY_STARTED; the listener is awake
Accept(c) ==
  /\ conn[c] = "new"
  /\ ListenerFree
  /\ UnderLimit
  /\ conn' = [d \in Conns |-> IF d = c THEN "open"
                             ELSE IF conn[d] = "ended" THEN "due" ELSE conn[d]]
  /\ UNCHANGED <<members, data_mutex, cmd_mutex, pc, act, dangling, crashed>>

\* The client goes away or is silent for the 10 s of the connection timeout.
End(c) ==
  /\ conn[c] = "open"
  /\ pc[c] = "idle"
  /\ conn' = [conn EXCEPT ![c] = "ended"]
  /\ UNCHANGED <<members, data_mutex, cmd_mutex, pc, act, dangling, crashed>>

\* ConnFunc, MHD_CONNECTION_NOTIFY_CLOSED: conn_close calls release().  It
\* may come earlier than it must, a signal wakes the listener as well.
ConnClose(c) ==
  /\ conn[c] \in {"ended", "due"}
  /\ ListenerFree
  /\ conn' = [conn EXCEPT ![c] = "closing"]
  /\ pc' = [pc EXCEPT ![c] = "body_wait"]
  /\ act' = [act EXCEPT ![c] = "release"]
  /\ UNCHANGED <<members, data_mutex, cmd_mutex, dangling, crashed>>

\* The listener knows that c ended: in test mode it is told.
Woken(c) == conn[c] = "due" \/ (TestMode /\ conn[c] = "ended")

\* ProcessRequest hands a request of the client to the device.
Request(c) ==
  /\ conn[c] = "open"
  /\ pc[c] = "idle"
  /\ \E r \in Requests :
       /\ act' = [act EXCEPT ![c] = r]
       /\ pc' = [pc EXCEPT ![c] = CASE r = "use"             -> "use_count"
                                    [] r \in {"lock", "ask"} -> "count"
                                    [] OTHER                 -> "body_wait"]
  /\ UNCHANGED <<members, data_mutex, cmd_mutex, conn, dangling, crashed>>

-----------------------------------------------------------------------------
(* Mutexes.                                                                *)

\* Mutant: the critical sections of data_mutex do not exclude each other.
AcquireData_NoMutex(c) ==
  /\ pc[c] \in {"use_wait", "body_wait"}
  /\ data_mutex' = c
  /\ pc' = [pc EXCEPT ![c] = IF pc[c] = "use_wait" THEN "use_in" ELSE "body_in"]
  /\ UNCHANGED <<members, cmd_mutex, conn, act, dangling, crashed>>

AcquireData(c) ==
  /\ pc[c] \in {"use_wait", "body_wait"}
  /\ data_mutex = NoConn
  /\ data_mutex' = c
  /\ pc' = [pc EXCEPT ![c] = IF pc[c] = "use_wait" THEN "use_in" ELSE "body_in"]
  /\ UNCHANGED <<members, cmd_mutex, conn, act, dangling, crashed>>

\* Mutant: ask() does not take cmd_mutex.
AcquireCmd_NoMutex(c) ==
  /\ pc[c] = "cmd_wait"
  /\ pc' = [pc EXCEPT ![c] = "ask_size"]
  /\ UNCHANGED <<members, data_mutex, cmd_mutex, conn, act, dangling, crashed>>

AcquireCmd(c) ==
  /\ pc[c] = "cmd_wait"
  /\ cmd_mutex = NoConn
  /\ cmd_mutex' = c
  /\ pc' = [pc EXCEPT ![c] = "ask_size"]
  /\ UNCHANGED <<members, data_mutex, conn, act, dangling, crashed>>

-----------------------------------------------------------------------------
(* use()                                                                   *)

\* Some thread is inserting into or erasing from users right now.
UsersInFlux ==
  \E d \in Conns :
    \/ pc[d] = "use_in"
    \/ pc[d] = "body_in" /\ act[d] = "close"
    \/ pc[d] = "body_in" /\ act[d] = "release" /\ d \in users

\* What users.count(c) > 0 gives without the mutex: a search through a tree
\* that is being changed can miss an element.
Counts(c) == {c \in users} \cup (IF UsersInFlux THEN {FALSE} ELSE {})

\* lock() and ask() call use() only if the connection is not a user yet.
CountUsers(c) ==
  /\ pc[c] = "count"
  /\ \E found \in Counts(c) :
       Goto(c, IF found THEN AfterUse(c) ELSE "use_count")
  /\ UNCHANGED <<members, data_mutex, cmd_mutex, conn, dangling, crashed>>

UseCount(c) ==
  /\ pc[c] = "use_count"
  /\ \E found \in Counts(c) :
       Goto(c, IF found THEN AfterUse(c) ELSE "use_locked")
  /\ UNCHANGED <<members, data_mutex, cmd_mutex, conn, dangling, crashed>>

\* Error "device is locked", or on to the mutex.
UseLocked(c) ==
  /\ pc[c] = "use_locked"
  /\ Goto(c, IF locked THEN "idle" ELSE "use_wait")
  /\ UNCHANGED <<members, data_mutex, cmd_mutex, conn, dangling, crashed>>

\* Mutant: use() tests `locked' again under the mutex and waits there.
Use_WaitsForUnlock(c) ==
  /\ pc[c] = "use_in"
  /\ IF locked THEN UNCHANGED vars
     ELSE /\ drv' = TRUE
          /\ users' = users \cup {c}
          /\ data_mutex' = NoConn
          /\ Goto(c, AfterUse(c))
          /\ UNCHANGED <<locked, log_bufs, cmd_mutex, conn, dangling, crashed>>

\* Driver::create if there is no driver, then users.insert.
Use(c) ==
  /\ pc[c] = "use_in"
  /\ drv' = TRUE
  /\ users' = users \cup {c}
  /\ data_mutex' = NoConn
  /\ Goto(c, AfterUse(c))
  /\ UNCHANGED <<locked, log_bufs, cmd_mutex, conn, dangling, crashed>>

\* Mutant: the error path does not unlock data_mutex.
UseFail_NoUnlock(c) ==
  /\ pc[c] = "use_in"
  /\ ~drv
  /\ Goto(c, "idle")
  /\ UNCHANGED <<members, data_mutex, cmd_mutex, conn, dangling, crashed>>

\* Driver::create throws.
UseFail(c) ==
  /\ pc[c] = "use_in"
  /\ ~drv
  /\ Leave(c)
  /\ UNCHANGED <<members, cmd_mutex, conn, dangling, crashed>>

-----------------------------------------------------------------------------
(* The methods that are one critical section of data_mutex.                *)

InBody(c, a) == pc[c] = "body_in" /\ act[c] = a

\* f without c in its domain
Without(f, c) == [d \in DOMAIN f \ {c} |-> f[d]]

\* What every version of release() does after its changes of the members
ReleaseReturns(c) ==
  /\ conn' = [conn EXCEPT ![c] = IF @ = "closing" THEN "gone" ELSE @]
  /\ Leave(c)
  /\ UNCHANGED <<cmd_mutex, dangling, crashed>>

\* Mutant: the lock is kept.
Release_KeepsLock(c) ==
  /\ InBody(c, "release")
  /\ log_bufs' = Without(log_bufs, c)
  /\ users' = users \ {c}
  /\ UNCHANGED <<drv, locked>>
  /\ ReleaseReturns(c)

\* Mutant: release() of a locked device waits until it is unlocked.
Release_WaitsForUnlock(c) ==
  /\ InBody(c, "release")
  /\ IF locked THEN UNCHANGED vars
     ELSE /\ log_bufs' = Without(log_bufs, c)
          /\ users' = users \ {c}
          /\ UNCHANGED <<drv, locked>>
          /\ ReleaseReturns(c)

\* Mutant: the test for a non-user comes before the log buffer is removed.
Release_EarlyReturn(c) ==
  /\ InBody(c, "release")
  /\ log_bufs' = IF c \in users THEN Without(log_bufs, c) ELSE log_bufs
  /\ users' = users \ {c}
  /\ locked' = (locked /\ c \notin users)
  /\ UNCHANGED drv
  /\ ReleaseReturns(c)

\* Mutant: release() closes the driver without looking for other users.
Release_ClosesDriver(c) ==
  /\ InBody(c, "release")
  /\ log_bufs' = Without(log_bufs, c)
  /\ users' = users \ {c}
  /\ locked' = (locked /\ c \notin users)
  /\ drv' = (drv /\ c \notin users)
  /\ ReleaseReturns(c)

Release(c) ==
  /\ InBody(c, "release")
  /\ log_bufs' = Without(log_bufs, c)
  /\ users' = users \ {c}
  /\ locked' = (locked /\ c \notin users)
  /\ UNCHANGED drv
  /\ ReleaseReturns(c)

\* Mutant: close() forgets users.
CloseClear_KeepsUsers(c) ==
  /\ InBody(c, "close")
  /\ log_bufs' = [d \in {} |-> << >>]
  /\ locked' = FALSE
  /\ Goto(c, "close_drv")
  /\ UNCHANGED <<drv, users, data_mutex, cmd_mutex, conn, dangling, crashed>>

\* close() empties the containers first ...
CloseClear(c) ==
  /\ InBody(c, "close")
  /\ log_bufs' = [d \in {} |-> << >>]
  /\ users' = {}
  /\ locked' = FALSE
  /\ Goto(c, "close_drv")
  /\ UNCHANGED <<drv, data_mutex, cmd_mutex, conn, dangling, crashed>>

\* ... and then destroys the driver, whoever is executing it.
CloseReset(c) ==
  /\ pc[c] = "close_drv"
  /\ drv' = FALSE
  /\ dangling' = dangling \cup {d \in Conns : pc[d] \in InDriver}
  /\ Leave(c)
  /\ UNCHANGED <<users, locked, log_bufs, cmd_mutex, conn, crashed>>

\* Mutant: lock() does not count the users.
Lock_Unchecked(c) ==
  /\ InBody(c, "lock")
  /\ locked' = TRUE
  /\ Leave(c)
  /\ UNCHANGED <<drv, users, log_bufs, cmd_mutex, conn, dangling, crashed>>

\* The second half of lock(): error "it is in use" unless there is one user.
Lock(c) ==
  /\ InBody(c, "lock")
  /\ locked' = (locked \/ Cardinality(users) = 1)
  /\ Leave(c)
  /\ UNCHANGED <<drv, users, log_bufs, cmd_mutex, conn, dangling, crashed>>

\* Nothing if it is not locked, an error if c is not a user.
Unlock(c) ==
  /\ InBody(c, "unlock")
  /\ locked' = (locked /\ c \notin users)
  /\ Leave(c)
  /\ UNCHANGED <<drv, users, log_bufs, cmd_mutex, conn, dangling, crashed>>

\* log_bufs[c] = log_buf_t()
EmptyBuf(c) == [d \in DOMAIN log_bufs \cup {c} |->
                  IF d = c THEN << >> ELSE log_bufs[d]]

LogStart(c) ==
  /\ InBody(c, "log_start")
  /\ log_bufs' = EmptyBuf(c)
  /\ Leave(c)
  /\ UNCHANGED <<drv, users, locked, cmd_mutex, conn, dangling, crashed>>

LogFinish(c) ==
  /\ InBody(c, "log_finish")
  /\ log_bufs' = Without(log_bufs, c)
  /\ Leave(c)
  /\ UNCHANGED <<drv, users, locked, cmd_mutex, conn, dangling, crashed>>

\* Error "Logging is off" without a buffer; the buffer is emptied.
LogGet(c) ==
  /\ InBody(c, "log_get")
  /\ log_bufs' = IF c \in DOMAIN log_bufs THEN EmptyBuf(c) ELSE log_bufs
  /\ Leave(c)
  /\ UNCHANGED <<drv, users, locked, cmd_mutex, conn, dangling, crashed>>

-----------------------------------------------------------------------------
(* ask()                                                                   *)

\* Mutant: the log grows without limit.
Truncate_Never(s) == s

\* The last MaxLogSize elements of s
Truncate(s) ==
  IF Len(s) > MaxLogSize THEN SubSeq(s, Len(s) - MaxLogSize + 1, Len(s)) ELSE s

\* log_message: every buffer gets the entry
Logged(e) == [d \in DOMAIN log_bufs |-> Truncate(Append(log_bufs[d], e))]

\* log_message walks through log_bufs without the mutex while the holder of
\* the mutex erases from it, adds to it or pops from one of its queues.
LogRace ==
  \E d \in Conns :
    /\ pc[d] = "body_in"
    /\ \/ act[d] \in {"close", "log_start"}
       \/ act[d] \in {"release", "log_finish", "log_get"} /\ d \in DOMAIN log_bufs

\* Mutant: the test is off by one.
AskSize_OffByOne(c) ==
  /\ pc[c] = "ask_size"
  /\ Goto(c, IF Cardinality(DOMAIN log_bufs) <= 1 THEN "call_plain" ELSE "ask_out")
  /\ UNCHANGED <<members, data_mutex, cmd_mutex, conn, dangling, crashed>>

\* log_bufs.size() == 0 decides whether this ask is logged
AskSize(c) ==
  /\ pc[c] = "ask_size"
  /\ Goto(c, IF DOMAIN log_bufs = {} THEN "call_plain" ELSE "ask_out")
  /\ UNCHANGED <<members, data_mutex, cmd_mutex, conn, dangling, crashed>>

AskOut(c) ==
  /\ pc[c] = "ask_out"
  /\ log_bufs' = Logged([kind |-> ">>", conn |-> c])
  /\ Goto(c, "call_logged")
  /\ UNCHANGED <<drv, users, locked, data_mutex, cmd_mutex, conn, dangling, crashed>>

\* drv->ask(msg) begins
Call(c) ==
  /\ pc[c] \in {"call_plain", "call_logged"}
  /\ drv
  /\ Goto(c, IF pc[c] = "call_plain" THEN "reply_plain" ELSE "reply_logged")
  /\ UNCHANGED <<members, data_mutex, cmd_mutex, conn, dangling, crashed>>

\* ask() returns, or passes an error of the driver on, and unlocks cmd_mutex
AskDone(c) ==
  /\ cmd_mutex' = NoConn
  /\ dangling' = dangling \ {c}
  /\ Goto(c, "idle")

ReplyPlain(c) ==
  /\ pc[c] = "reply_plain"
  /\ AskDone(c)
  /\ UNCHANGED <<members, data_mutex, conn, crashed>>

ReplyLogged(c) ==
  /\ pc[c] = "reply_logged"
  /\ \E k \in {"<<", "EE"} : log_bufs' = Logged([kind |-> k, conn |-> c])
  /\ AskDone(c)
  /\ UNCHANGED <<drv, users, locked, data_mutex, conn, crashed>>

\* A call through a null pointer, a step of a driver that was destroyed, or
\* a walk through log_bufs that hits a freed element.
Crash(c) ==
  /\ \/ pc[c] \in {"call_plain", "call_logged"} /\ ~drv
     \/ pc[c] \in InDriver /\ c \in dangling
     \/ pc[c] \in {"ask_out", "reply_logged"} /\ LogRace
  /\ crashed' = TRUE
  /\ UNCHANGED <<members, data_mutex, cmd_mutex, conn, pc, act, dangling>>

-----------------------------------------------------------------------------
\* The steps of a thread that do not wait for a mutex
Step(c) ==
  \/ CountUsers(c) \/ UseCount(c) \/ UseLocked(c) \/ Use(c) \/ UseFail(c)
  \/ Release(c) \/ CloseClear(c) \/ CloseReset(c) \/ Lock(c) \/ Unlock(c)
  \/ LogStart(c) \/ LogFinish(c) \/ LogGet(c)
  \/ AskSize(c) \/ AskOut(c) \/ Call(c) \/ ReplyPlain(c) \/ ReplyLogged(c)
  \/ Crash(c)

ThreadNext(c) ==
  \/ Accept(c) \/ End(c) \/ ConnClose(c) \/ Request(c)
  \/ AcquireData(c) \/ AcquireCmd(c) \/ Step(c)

\* The process died, or every connection number has been used up.
Terminated ==
  /\ crashed \/ \A c \in Conns : conn[c] = "gone"
  /\ UNCHANGED vars

Next == (~crashed /\ \E c \in Conns : ThreadNext(c)) \/ Terminated

Spec == Init /\ [][Next]_vars

(* Threads run, drivers return (their reads have timeouts), and a thread   *)
(* that waits for a mutex gets it if it is free again and again: between   *)
(* two acquisitions by the same client lies a round trip over the network. *)
(* The listener comes to a connection that ended once it has been woken;   *)
(* nothing is promised to one that ended after the last accept.            *)
Fairness ==
  \A c \in Conns :
    /\ WF_vars(~crashed /\ Step(c))
    /\ SF_vars(~crashed /\ AcquireData(c))
    /\ SF_vars(~crashed /\ AcquireCmd(c))
    /\ SF_vars(~crashed /\ Woken(c) /\ ConnClose(c))

FairSpec == Spec /\ Fairness
-----------------------------------------------------------------------------
(* Properties of every run.                                                *)

\* A mutex is held by the thread that is inside its critical section and by
\* nobody else, so that no error path of device.cpp leaves one locked and no
\* two threads are inside at once.
MutexHeld ==
  \A c \in Conns : /\ (data_mutex = c) <=> pc[c] \in DataPcs
                   /\ (cmd_mutex = c)  <=> pc[c] \in CmdPcs

\* A device that has users is open: whatever use(), release() and close() do
\* to each other, a connection listed in users finds a driver.
InUseOpen == users # {} => drv

\* A locked device has a user who can unlock it.  release() and close() must
\* take the lock away together with the user, or nobody could ever use the
\* device again.
LockHasUser == locked => users # {}

\* Connections leave nothing behind: whoever is listed as a user or has a log
\* buffer is a connection that release() from conn_close is still to come
\* for, even if the client vanished without releasing anything.
NoGhosts ==
  \A c \in users \cup DOMAIN log_bufs :
    conn[c] \in {"open", "ended", "due", "closing"}

\* Device conversations do not mix: in every log buffer an answer or an error
\* follows the command of the same connection directly, and a command follows
\* the end of the previous conversation, although log_message is called
\* without data_mutex and buffers are created, emptied and cut in between.
Alternates(b) ==
  \A i \in 1 .. Len(b) - 1 :
    IF b[i].kind = ">>" THEN b[i + 1].kind # ">>" /\ b[i + 1].conn = b[i].conn
                        ELSE b[i + 1].kind = ">>"
LogBracketed == \A d \in DOMAIN log_bufs : Alternates(log_bufs[d])

\* A connection that records the device always finds its own commands in the
\* record: ask() decides once, before the driver is called, that nobody
\* records, and no later log_start of the same connection can come before the
\* answer.
OwnTrafficLogged ==
  \A c \in Conns : pc[c] \in {"call_plain", "reply_plain"} => c \notin DOMAIN log_bufs

\* A thread works only for a connection that is open, and for a closing one
\* only in release().
ThreadOfConn ==
  \A c \in Conns :
    /\ conn[c] \in {"new", "ended", "due", "gone"} => pc[c] = "idle"
    /\ conn[c] = "closing" => pc[c] \in {"body_wait", "body_in"} /\ act[c] = "release"

\* Between the two halves of close() nobody becomes a user or locks.
ClosingEmpty == \A c \in Conns : pc[c] = "close_drv" => users = {} /\ ~locked

\* The inductive invariant: the promises above with the two facts about
\* threads that carry them from one step to the next.
IInv ==
  /\ TypeOK
  /\ MutexHeld
  /\ InUseOpen
  /\ LockHasUser
  /\ ThreadOfConn
  /\ NoGhosts
  /\ ClosingEmpty
  /\ OwnTrafficLogged

\* The device keeps the contract of DeviceContract in all interleavings of its
\* methods: one connection at a time changes it, for itself; it is never
\* closed under a user; a lock is only taken while there is exactly one user,
\* goes when any user leaves, and is given back by a user.  The contract does
\* not say that this one user is the connection that asked for the lock, nor
\* that nobody joins a locked device: neither is so, see LockTakenByOnlyUser
\* and NobodyJoinsLocked.
Abstract == INSTANCE DeviceContract WITH open <- drv, turn <- data_mutex
Contract == Abstract!Spec

-----------------------------------------------------------------------------
(* Properties of a server whose clients do not send "close".               *)

\* ask() does not hold data_mutex when it uses the driver, only the membership
\* that it saw before: the driver must outlive every ask, whoever releases the
\* device meanwhile.
DriverAlive ==
  \A c \in Conns : pc[c] \in AskPcs => drv /\ c \notin dangling

\* A connection that gets the lock is the only user of the device (device.h,
\* on lock(): "It can be done only if the connection is the only user of the
\* device").  lock() tests the membership before it takes the mutex and only
\* the number of users after: without close() that is enough, with it another
\* connection may be the one user by then.
LockTakenByOnlyUser ==
  [][\A c \in Conns : InBody(c, "lock") /\ ~locked /\ locked' => users = {c}]_vars

\* Every request is answered, and conn_close returns: no thread waits for ever
\* for a mutex.
Answered == \A c \in Conns : pc[c] # "idle" ~> pc[c] = "idle"

\* What an ended connection held is given back once the listener knows of its
\* end, although one thread works for all of them and waits for the same
\* mutex.  Before the next accept nothing makes it (Readme.md: "Server can keep
\* the connection when the client program already finished").
EndedReleased == \A c \in Conns : Woken(c) ~> conn[c] = "gone"

-----------------------------------------------------------------------------
(* Claims about the server in general.                                     *)

\* While a device stays locked no connection becomes its user (device.h, on
\* lock(): "If device is locked other connections can not use it").
NobodyJoinsLocked == [][locked /\ locked' => users' \subseteq users]_vars

\* No step of a thread hits a null pointer or freed memory.
NoCrash == ~crashed
=============================================================================
