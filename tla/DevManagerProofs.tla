-------------------------- MODULE DevManagerProofs --------------------------
(* Proofs about DevManager, for any connections, devices, names, requests  *)
(* and any number of changes of the configuration file.                    *)
EXTENDS DevManager, TLAPS

USE MainAssumption, RequestsAssumption, MaxEditsAssumption
USE DEF Threads, Pcs, ConnStates, RequestNames, DeviceRequests

-----------------------------------------------------------------------------
(* Names of connections.                                                   *)

\* A default name belongs to one connection, and no client can choose it.
LEMMA NamesDiffer ==
  ASSUME NEW c \in Conns, NEW d \in Conns, NEW n,
         OwnOrChosen(d, n), n = DefaultName(c)
  PROVE  c = d
<1>1. "#" # "text"
  OBVIOUS
<1>2. n \notin ChosenNames
  BY <1>1 DEF ChosenNames, DefaultName
<1> QED
  BY <1>2 DEF OwnOrChosen, DefaultName

\* Names that may be assigned are names.
LEMMA NamesAreNames ==
  ASSUME NEW c \in Conns, NEW n, OwnOrChosen(c, n)
  PROVE  n \in ConnNames
BY DEF OwnOrChosen, ConnNames

\* Assigning and erasing a name
LEMMA NamedOK ==
  ASSUME NEW c \in Conns, NEW n, OwnOrChosen(c, n), NamesOK(conn_names),
         \A d \in DOMAIN conn_names : OwnOrChosen(d, conn_names[d])
  PROVE  /\ NamesOK(Named(c, n))
         /\ DOMAIN Named(c, n) = DOMAIN conn_names \cup {c}
         /\ \A d \in DOMAIN Named(c, n) : OwnOrChosen(d, Named(c, n)[d])
<1> PICK S \in SUBSET Conns : conn_names \in [S -> ConnNames]
  BY DEF NamesOK
<1>1. Named(c, n) \in [S \cup {c} -> ConnNames]
  BY NamesAreNames DEF Named
<1> QED
  BY <1>1 DEF NamesOK, Named

LEMMA ErasedOK ==
  ASSUME NEW c \in Conns, NamesOK(conn_names)
  PROVE  NamesOK([d \in DOMAIN conn_names \ {c} |-> conn_names[d]])
<1> PICK S \in SUBSET Conns : conn_names \in [S -> ConnNames]
  BY DEF NamesOK
<1>1. [d \in DOMAIN conn_names \ {c} |-> conn_names[d]] \in [S \ {c} -> ConnNames]
  OBVIOUS
<1> QED
  BY <1>1 DEF NamesOK

-----------------------------------------------------------------------------
(* The inductive invariant.                                                *)

LEMMA InitIInv == Init => IInv
<1> SUFFICES ASSUME Init PROVE IInv
  OBVIOUS
<1>1. conn_names \in [{} -> ConnNames]
  BY DEF Init
<1>2. TypeOK
  <2>1. devices \subseteq Names
    BY DEF Init, Files
  <2> QED
    <3>1. NamesOK(conn_names)
      BY <1>1 DEF NamesOK
    <3> QED
      BY <2>1, <3>1 DEF Init, TypeOK
<1>3. DOMAIN conn_names = {}
  BY <1>1
<1> QED
  BY <1>2, <1>3 DEF Init, IInv, OpsOnCurrent, UsersConfigured, NoGhosts, Exclusion,
     StaleWalks, ThreadOfConn, RequestOfThread, NamesOwned, Walked, Live, Readers, Writers, OpPcs

\* Connections come and go.
LEMMA ConnStepIInv ==
  ASSUME IInv, NEW c \in Conns, Accept(c) \/ End(c) \/ ConnClose(c) \/ Erase(c)
  PROVE  IInv'
<1> USE DEF IInv, TypeOK, OpsOnCurrent, UsersConfigured, NoGhosts, Exclusion,
            StaleWalks, ThreadOfConn, RequestOfThread, NamesOwned, Walked,
            Live, Readers, Writers, OpPcs, Goto, devVars, connVars
<1>1. CASE Accept(c)
  <2>1. ~Taken(c, DefaultName(c))
    BY NamesDiffer DEF Taken
  <2>2. conn_names' = Named(c, DefaultName(c)) /\ UNCHANGED status
    BY <1>1, <2>1 DEF Accept
  <2>3. /\ NamesOK(conn_names')
        /\ DOMAIN conn_names' = DOMAIN conn_names \cup {c}
        /\ \A d \in DOMAIN conn_names' : OwnOrChosen(d, conn_names'[d])
    <3>1. OwnOrChosen(c, DefaultName(c))
      BY DEF OwnOrChosen
    <3> QED
      BY <2>2, <3>1, NamedOK
  <2>4. /\ conn[c] = "new" /\ conn' = Woken(c)
        /\ UNCHANGED <<file, edits, devVars, pc, act, arg, todo, parsed, stale>>
    BY <1>1 DEF Accept
  <2>5. /\ conn' \in [Conns -> ConnStates] /\ conn'[c] = "open"
        /\ \A d \in Conns \ {c} :
             conn'[d] = IF conn[d] = "ended" THEN "due" ELSE conn[d]
    BY <2>4 DEF Woken
  <2>6. Live' = Live \cup {c}
    BY <2>4, <2>5
  <2>7. TypeOK' /\ OpsOnCurrent' /\ UsersConfigured' /\ Exclusion' /\ StaleWalks'
    BY <2>2, <2>3, <2>4, <2>5
  <2>8. NoGhosts'
    <3> HIDE DEF Live
    <3> QED
      BY <2>3, <2>4, <2>6
  <2>9. ThreadOfConn' /\ RequestOfThread' /\ NamesOwned' /\ Walked'
    BY <2>2, <2>3, <2>4, <2>5
  <2> QED
    BY <2>7, <2>8, <2>9
<1>2. CASE End(c)
  BY <1>2 DEF End
<1>3. CASE ConnClose(c)
  BY <1>3 DEF ConnClose, StartWalk
<1>4. CASE Erase(c)
  <2>1. NamesOK(conn_names') /\ DOMAIN conn_names' = DOMAIN conn_names \ {c}
    BY <1>4, ErasedOK DEF Erase
  <2>2. conn[c] = "closing"
    BY <1>4 DEF Erase
  <2> QED
    BY <1>4, <2>1, <2>2 DEF Erase
<1> QED
  BY <1>1, <1>2, <1>3, <1>4

\* The beginnings of requests
LEMMA RequestIInv ==
  ASSUME IInv, NEW c \in Conns,
         \/ DeviceRequest(c) \/ WalkRequest(c) \/ NameRequest(c)
         \/ ReloadRequest(c) \/ NameListRequest(c)
  PROVE  IInv'
<1> USE DEF IInv, TypeOK, OpsOnCurrent, UsersConfigured, NoGhosts, Exclusion,
            StaleWalks, ThreadOfConn, RequestOfThread, NamesOwned, Walked,
            Live, Readers, Writers, OpPcs, Ready, devVars, connVars
<1>1. CASE DeviceRequest(c)
  BY <1>1 DEF DeviceRequest
<1>2. CASE WalkRequest(c)
  BY <1>2 DEF WalkRequest, StartWalk
<1>3. CASE NameRequest(c)
  <2>1. PICK m : NameBegins(c, m) /\ OwnOrChosen(c, m)
    BY <1>3 DEF NameRequest, OwnOrChosen
  <2>2. m \in ConnNames
    BY <2>1, NamesAreNames
  <2> QED
    BY <2>1, <2>2 DEF NameBegins
<1>4. CASE ReloadRequest(c)
  <2>1. file.devs \subseteq Names
    BY DEF Files
  <2> QED
    BY <1>4, <2>1 DEF ReloadRequest, ReadFile
<1>5. CASE NameListRequest(c)
  BY <1>5 DEF NameListRequest
<1> QED
  BY <1>1, <1>2, <1>3, <1>4, <1>5

\* What a request leaves of the users and the lock of its device
LEMMA EffectsOK ==
  ASSUME NEW c \in Conns, act[c] \in DeviceRequests,
         NEW u \in SUBSET Conns, NEW l \in BOOLEAN, NEW e \in Effects(c, u, l)
  PROVE  e[1] \subseteq u \cup {c} /\ e[2] \in BOOLEAN
<1> DEFINE b == l /\ c \notin u
<1>1. b \in BOOLEAN
  OBVIOUS
<1>2. e \in {<<u, l>>, <<u \cup {c}, l>>, <<u, b>>, <<u \ {c}, b>>, <<{}, FALSE>>}
  BY DEF Effects
<1> HIDE DEF b
<1>3. /\ e[1] \in {u, u \cup {c}, u \ {c}, {}}
      /\ e[2] \in {l, b, FALSE}
  <2>1. \A x \in {u, u \cup {c}, u \ {c}, {}}, y \in {l, b, FALSE} :
          e = <<x, y>> => e[1] = x /\ e[2] = y
    OBVIOUS
  <2>2. \E x \in {u, u \cup {c}, u \ {c}, {}}, y \in {l, b, FALSE} : e = <<x, y>>
    BY <1>2
  <2> QED
    BY <2>1, <2>2, Zenon
<1>4. e[2] \in BOOLEAN
  BY <1>1, <1>3, Zenon
<1> QED
  BY <1>3, <1>4

\* Requests for one device, under the shared lock
LEMMA DeviceStepIInv ==
  ASSUME IInv, NEW c \in Conns, AcquireShared(c) \/ DeviceOp(c) \/ DeviceLock(c)
  PROVE  IInv'
<1> USE DEF IInv, TypeOK, OpsOnCurrent, UsersConfigured, NoGhosts, Exclusion,
            StaleWalks, ThreadOfConn, RequestOfThread, NamesOwned, Walked,
            Live, Readers, Writers, OpPcs, Goto, devVars, connVars
<1>1. CASE AcquireShared(c)
  BY <1>1 DEF AcquireShared
<1>2. CASE DeviceOp(c)
  <2>1. arg[c] \in devices /\ arg[c] \in Names /\ act[c] \in DeviceRequests
    BY <1>2 DEF DeviceOp
  <2>2. PICK e \in Effects(c, users[arg[c]], locked[arg[c]]) :
          /\ users' = [users EXCEPT ![arg[c]] = e[1]]
          /\ locked' = [locked EXCEPT ![arg[c]] = e[2]]
    BY <1>2 DEF DeviceOp
  <2>3. e[1] \subseteq users[arg[c]] \cup {c} /\ e[2] \in BOOLEAN
    BY <2>1, EffectsOK
  <2>4. conn[c] = "open"
    BY <1>2 DEF DeviceOp
  <2>5. TypeOK'
    BY <1>2, <2>1, <2>2, <2>3 DEF DeviceOp
  <2>6. UsersConfigured' /\ NoGhosts'
    BY <1>2, <2>1, <2>2, <2>3, <2>4 DEF DeviceOp
  <2>7. Walked'
    BY <1>2, <2>1, <2>2, <2>3, <2>4 DEF DeviceOp
  <2> QED
    BY <1>2, <2>5, <2>6, <2>7 DEF DeviceOp
<1>3. CASE DeviceLock(c)
  <2>1. /\ arg[c] \in devices /\ UNCHANGED <<devices, users>>
        /\ locked' = [locked EXCEPT ![arg[c]] = TRUE] \/ locked' = locked
    BY <1>3 DEF DeviceLock
  <2>2. [locked EXCEPT ![arg[c]] = TRUE] \in [Names -> BOOLEAN]
    OBVIOUS
  <2>3. locked' \in [Names -> BOOLEAN]
    <3>1. locked \in [Names -> BOOLEAN]
      OBVIOUS
    <3> QED
      BY <2>1, <2>2, <3>1, Zenon
  <2>4. UsersConfigured'
    BY <2>1
  <2> QED
    BY <1>3, <2>1, <2>3, <2>4 DEF DeviceLock
<1> QED
  BY <1>1, <1>2, <1>3

\* Walks through the map
LEMMA WalkStepIInv ==
  ASSUME IInv, NEW c \in Conns, Visit(c) \/ WalkEnd(c) \/ StaleWalk(c) \/ Crash(c)
  PROVE  IInv'
<1> USE DEF IInv, TypeOK, OpsOnCurrent, UsersConfigured, NoGhosts, Exclusion,
            StaleWalks, ThreadOfConn, RequestOfThread, NamesOwned, Walked,
            Live, Readers, Writers, OpPcs, Goto, devVars, connVars
<1>1. CASE Visit(c)
  <2>1. PICK n \in todo[c] :
          /\ todo' = [todo EXCEPT ![c] = @ \ {n}]
          /\ IF act[c] = "list" THEN UNCHANGED <<users, locked>>
             ELSE /\ users' = [users EXCEPT ![n] = @ \ {c}]
                  /\ locked' = [locked EXCEPT ![n] = @ /\ c \notin users[n]]
    BY <1>1 DEF Visit
  <2>2. n \in Names
    BY <2>1
  <2>3. TypeOK'
    <3>1. locked' \in [Names -> BOOLEAN]
      <4> DEFINE b == locked[n] /\ c \notin users[n]
      <4>1. b \in BOOLEAN
        OBVIOUS
      <4>2. locked' = locked \/ locked' = [locked EXCEPT ![n] = b]
        BY <2>1
      <4> HIDE DEF b
      <4> QED
        BY <2>2, <4>1, <4>2
    <3>2. users' \in [Names -> SUBSET Conns] /\ todo' \in [Conns -> SUBSET Names]
      BY <2>1, <2>2
    <3> QED
      BY <1>1, <3>1, <3>2 DEF Visit
  <2>4. UsersConfigured'
    BY <1>1, <2>1, <2>2 DEF Visit
  <2>5. Walked' /\ NoGhosts'
    BY <1>1, <2>1, <2>2 DEF Visit
  <2> QED
    BY <1>1, <2>3, <2>4, <2>5 DEF Visit
<1>2. CASE WalkEnd(c)
  <2>1. OwnOrChosen(c, DefaultName(c)) /\ DefaultName(c) \in ConnNames
    BY NamesAreNames DEF OwnOrChosen
  <2> QED
    BY <1>2, <2>1 DEF WalkEnd
<1>3. CASE StaleWalk(c)
  BY <1>3 DEF StaleWalk
<1>4. CASE Crash(c)
  BY <1>4 DEF Crash
<1> QED
  BY <1>1, <1>2, <1>3, <1>4

\* The rest of set_conn_name and list_conn_names
LEMMA NameStepIInv ==
  ASSUME IInv, NEW c \in Conns, NameCheck(c) \/ NameSet(c) \/ NameList(c)
  PROVE  IInv'
<1> USE DEF IInv, TypeOK, OpsOnCurrent, UsersConfigured, NoGhosts, Exclusion,
            StaleWalks, ThreadOfConn, RequestOfThread, NamesOwned, Walked,
            Live, Readers, Writers, OpPcs, Goto, devVars, connVars
<1>1. CASE NameCheck(c)
  BY <1>1 DEF NameCheck
<1>2. CASE NameSet(c)
  <2>1. /\ NamesOK(conn_names')
        /\ DOMAIN conn_names' = DOMAIN conn_names \cup {c}
        /\ \A d \in DOMAIN conn_names' : OwnOrChosen(d, conn_names'[d])
    BY <1>2, NamedOK DEF NameSet
  <2>2. c \in Live
    BY <1>2 DEF NameSet
  <2> QED
    BY <1>2, <2>1, <2>2 DEF NameSet
<1>3. CASE NameList(c)
  BY <1>3 DEF NameList
<1> QED
  BY <1>1, <1>2, <1>3

\* Reloads and the file
LEMMA ReloadIInv ==
  ASSUME IInv, Sighup \/ Edit \/ \E t \in Threads : Reload(t)
  PROVE  IInv'
<1> USE DEF IInv, TypeOK, OpsOnCurrent, UsersConfigured, NoGhosts, Exclusion,
            StaleWalks, ThreadOfConn, RequestOfThread, NamesOwned, Walked,
            Live, Readers, Writers, OpPcs, Goto, devVars, connVars
<1>1. CASE Sighup
  <2>1. file.devs \subseteq Names
    BY DEF Files
  <2> QED
    BY <1>1, <2>1 DEF Sighup, ReadFile
<1>2. CASE Edit
  BY <1>2 DEF Edit
<1>3. ASSUME NEW t \in Threads, AcquireExclusive(t)
      PROVE  IInv'
  BY <1>3 DEF AcquireExclusive
<1>4. ASSUME NEW t \in Threads, Apply(t)
      PROVE  IInv'
  <2>1. Readers = {}
    BY <1>4 DEF Apply
  <2> QED
    BY <1>4, <2>1 DEF Apply
<1> QED
  BY <1>1, <1>2, <1>3, <1>4 DEF Reload

LEMMA NextIInv == IInv /\ [Next]_vars => IInv'
<1> SUFFICES ASSUME IInv, [Next]_vars PROVE IInv'
  OBVIOUS
<1>1. CASE UNCHANGED vars
  BY <1>1 DEF vars, IInv, TypeOK, OpsOnCurrent, UsersConfigured, NoGhosts, Exclusion,
     StaleWalks, ThreadOfConn, RequestOfThread, NamesOwned, Walked, Live, Readers, Writers, OpPcs
<1>2. ASSUME NEW c \in Conns, ConnNext(c)
      PROVE  IInv'
  BY <1>2, ConnStepIInv, RequestIInv, DeviceStepIInv, WalkStepIInv, NameStepIInv
     DEF ConnNext, ConnStep
<1> QED
  BY <1>1, <1>2, ReloadIInv DEF Next, Terminated

\* The inductive invariant holds in every reachable state.
THEOREM IInvHolds == Spec => []IInv
<1> QED
  BY InitIInv, NextIInv, PTL DEF Spec

-----------------------------------------------------------------------------
(* The promises of the manager.                                            *)

\* Types are kept.
THEOREM TypeCorrect == Spec => []TypeOK
<1>1. IInv => TypeOK
  BY DEF IInv
<1> QED
  BY <1>1, IInvHolds, PTL

\* A request that found its device in the map works on a device of the current
\* map, however often the map is replaced: DevManager::run keeps the shared
\* lock until the device has answered.
THEOREM RequestsOnCurrent == Spec => []OpsOnCurrent
<1>1. IInv => OpsOnCurrent
  BY DEF IInv
<1> QED
  BY <1>1, IInvHolds, PTL

\* read_conf leaves nothing of the devices that it replaces.
THEOREM NothingCarriedOver == Spec => []UsersConfigured
<1>1. IInv => UsersConfigured
  BY DEF IInv
<1> QED
  BY <1>1, IInvHolds, PTL

\* conn_close leaves no name and no membership behind, although it walks
\* through the map without the mutex.
THEOREM NothingLeftBehind == Spec => []NoGhosts
<1>1. IInv => NoGhosts
  BY DEF IInv
<1> QED
  BY <1>1, IInvHolds, PTL

LEMMA DefaultsOwned == IInv => DefaultNamesOwned
<1> SUFFICES ASSUME IInv, NEW c \in DOMAIN conn_names, NEW d \in Conns,
                    conn_names[c] = DefaultName(d)
             PROVE  c = d
  BY DEF DefaultNamesOwned
<1>1. c \in Conns
  BY DEF IInv, NoGhosts, Live
<1>2. OwnOrChosen(c, conn_names[c])
  BY DEF IInv, NamesOwned
<1> QED
  BY <1>1, <1>2, NamesDiffer

\* Nobody but connection n is called "#<n>", whatever set_conn_name is asked.
THEOREM DefaultNamesKept == Spec => []DefaultNamesOwned
<1> QED
  BY DefaultsOwned, IInvHolds, PTL

\* conn_open, whose Err nothing would catch, finds the default name free.
THEOREM OpeningNeverThrows == Spec => [][\A c \in Conns : Accept(c) => UNCHANGED status]_vars
<1>1. IInv => \A c \in Conns : Accept(c) => UNCHANGED status
  <2> SUFFICES ASSUME IInv, NEW c \in Conns, Accept(c)
               PROVE  UNCHANGED status
    OBVIOUS
  <2>1. \A d \in DOMAIN conn_names : d \in Conns
    BY DEF IInv, NoGhosts, Live
  <2>2. ~Taken(c, DefaultName(c))
    BY <2>1, DefaultsOwned DEF Taken, DefaultNamesOwned
  <2> QED
    BY <2>2 DEF Accept
<1> QED
  BY <1>1, IInvHolds, PTL

-----------------------------------------------------------------------------
(* Every device of the manager implements DeviceSharing.                   *)

\* A request for device arg[c] acts on it as the contract allows, ...
LEMMA RequestShares ==
  ASSUME IInv, NEW c \in Conns, NEW n \in Names, n = arg[c],
         DeviceOp(c) \/ DeviceLock(c)
  PROVE  Sharing(n)!Next \/ UNCHANGED <<users[n], locked[n]>>
<1> DEFINE u == users[n]
           l == locked[n]
<1>1. users \in [Names -> SUBSET Conns] /\ locked \in [Names -> BOOLEAN]
  BY DEF IInv, TypeOK
<1>2. CASE DeviceOp(c)
  <2>1. act[c] \in DeviceRequests
    BY <1>2 DEF DeviceOp, IInv, RequestOfThread, OpPcs
  <2>2. PICK e \in Effects(c, u, l) : users'[n] = e[1] /\ locked'[n] = e[2]
    BY <1>1, <1>2 DEF DeviceOp
  <2>3. CASE e \in {<<u, l>>, <<u \cup {c}, l>>}
    <3>1. CASE e = <<u, l>>
      BY <2>2, <3>1
    <3>2. CASE e = <<u \cup {c}, l>>
      <4>1. Sharing(n)!Join(c)
        BY <2>2, <3>2 DEF Sharing!Join
      <4> QED
        BY <4>1 DEF Sharing!Next
    <3> QED
      BY <2>3, <3>1, <3>2
  <2>4. CASE e = <<u, l /\ c \notin u>>
    <3>1. CASE c \in u
      <4>1. Sharing(n)!Give(c)
        BY <2>2, <2>4, <3>1 DEF Sharing!Give
      <4> QED
        BY <4>1 DEF Sharing!Next
    <3>2. CASE c \notin u
      BY <1>1, <2>2, <2>4, <3>2
    <3> QED
      BY <3>1, <3>2
  <2>5. CASE e = <<u \ {c}, l /\ c \notin u>>
    <3>1. CASE c \in u
      <4>1. Sharing(n)!Part(c)
        BY <2>2, <2>5, <3>1 DEF Sharing!Part
      <4> QED
        BY <4>1 DEF Sharing!Next
    <3>2. CASE c \notin u
      BY <1>1, <2>2, <2>5, <3>2
    <3> QED
      BY <3>1, <3>2
  <2>6. CASE e = <<{}, FALSE>>
    BY <2>2, <2>6 DEF Sharing!Next, Sharing!Drop
  <2> QED
    BY <2>1, <2>2, <2>3, <2>4, <2>5, <2>6 DEF Effects, DeviceRequests
<1>3. CASE DeviceLock(c)
  <2>1. CASE \E d \in Conns : u = {d}
    <3>1. PICK d \in Conns : u = {d}
      BY <2>1
    <3>2. Sharing(n)!Take(d)
      BY <1>1, <1>3, <3>1 DEF DeviceLock, Sharing!Take
    <3> QED
      BY <3>2 DEF Sharing!Next
  <2>2. CASE ~\E d \in Conns : u = {d}
    BY <1>3, <2>2 DEF DeviceLock
  <2> QED
    BY <2>1, <2>2
<1> QED
  BY <1>2, <1>3

\* ... and leaves the other devices alone.
LEMMA OthersShare ==
  ASSUME IInv, NEW c \in Conns, NEW n \in Names, n # arg[c],
         DeviceOp(c) \/ DeviceLock(c)
  PROVE  UNCHANGED <<users[n], locked[n]>>
BY DEF IInv, TypeOK, DeviceOp, DeviceLock

\* A walk through the map releases one device after another.
LEMMA VisitShares ==
  ASSUME IInv, NEW c \in Conns, NEW n \in Names, Visit(c)
  PROVE  Sharing(n)!Next \/ UNCHANGED <<users[n], locked[n]>>
<1>1. users \in [Names -> SUBSET Conns] /\ locked \in [Names -> BOOLEAN]
  BY DEF IInv, TypeOK
<1>2. CASE UNCHANGED <<users[n], locked[n]>>
  BY <1>2
<1>3. CASE /\ users'[n] = users[n] \ {c}
           /\ locked'[n] = (locked[n] /\ c \notin users[n])
  <2>1. CASE c \in users[n]
    <3>1. Sharing(n)!Part(c)
      BY <1>3, <2>1 DEF Sharing!Part
    <3> QED
      BY <3>1 DEF Sharing!Next
  <2>2. CASE c \notin users[n]
    BY <1>1, <1>3, <2>2
  <2> QED
    BY <2>1, <2>2
<1>4. PICK m \in todo[c] :
        \/ UNCHANGED <<users, locked>>
        \/ /\ users' = [users EXCEPT ![m] = @ \ {c}]
           /\ locked' = [locked EXCEPT ![m] = @ /\ c \notin users[m]]
  BY DEF Visit
<1> QED
  BY <1>1, <1>2, <1>3, <1>4

LEMMA StepShares ==
  ASSUME IInv, Next, NEW n \in Names
  PROVE  Sharing(n)!Next \/ UNCHANGED <<users[n], locked[n]>>
<1>1. CASE UNCHANGED <<users, locked>>
  BY <1>1
<1>2. ASSUME NEW t \in Threads, Apply(t)
      PROVE  Sharing(n)!Next
  BY <1>2 DEF Apply, Sharing!Next, Sharing!Drop
<1>3. ASSUME NEW c \in Conns, DeviceOp(c) \/ DeviceLock(c) \/ Visit(c)
      PROVE  Sharing(n)!Next \/ UNCHANGED <<users[n], locked[n]>>
  BY <1>3, RequestShares, OthersShare, VisitShares
<1>4. ASSUME NEW c \in Conns, ConnNext(c), ~(DeviceOp(c) \/ DeviceLock(c) \/ Visit(c))
      PROVE  UNCHANGED <<users, locked>>
  BY <1>4 DEF ConnNext, ConnStep, Accept, End, ConnClose, DeviceRequest,
     WalkRequest, NameRequest, NameBegins, ReloadRequest, NameListRequest,
     Crash, Erase, AcquireShared, WalkEnd, StaleWalk, NameCheck, NameSet,
     NameList, devVars
<1>5. ASSUME Sighup \/ Edit \/ (\E t \in Threads : AcquireExclusive(t)) \/ Terminated
      PROVE  UNCHANGED <<users, locked>>
  BY <1>5 DEF Sighup, Edit, AcquireExclusive, Terminated, vars, devVars
<1> QED
  BY <1>1, <1>2, <1>3, <1>4, <1>5 DEF Next, Reload

\* Requests, walks and reloads do to a device only what DeviceSharing allows:
\* a reload is like a close, conn_close like a release, and no lock is taken
\* from or given to anybody else.
THEOREM DevicesKeepContract ==
  ASSUME NEW n \in Names
  PROVE  Spec => Sharing(n)!Spec
<1>1. Init => Sharing(n)!Init
  BY DEF Init, Sharing!Init
<1>2. IInv /\ [Next]_vars => [Sharing(n)!Next]_(Sharing(n)!vars)
  <2> SUFFICES ASSUME IInv, [Next]_vars
               PROVE  Sharing(n)!Next \/ UNCHANGED <<users[n], locked[n]>>
    BY DEF Sharing!vars
  <2>1. UNCHANGED vars => UNCHANGED <<users[n], locked[n]>>
    BY DEF vars, devVars
  <2> QED
    BY <2>1, StepShares
<1> QED
  BY <1>1, <1>2, IInvHolds, PTL DEF Spec, Sharing!Spec

\* So no device of the manager is locked without a user, who alone could unlock
\* it: neither a reload, nor release_all or conn_close while others use, lock
\* and close the same devices, leaves one that nobody can use.
THEOREM LocksHaveUsers ==
  ASSUME NEW n \in Names
  PROVE  Spec => []Sharing(n)!LockHasUser
<1>1. Sharing(n)!Init => Sharing(n)!LockHasUser
  BY DEF Sharing!Init, Sharing!LockHasUser
<1>2. Sharing(n)!LockHasUser /\ [Sharing(n)!Next]_(Sharing(n)!vars) => Sharing(n)!LockHasUser'
  <2> SUFFICES ASSUME Sharing(n)!LockHasUser,
                      Sharing(n)!Next \/ UNCHANGED <<users[n], locked[n]>>
               PROVE  Sharing(n)!LockHasUser'
    BY DEF Sharing!vars
  <2>1. CASE \E c \in Conns : Sharing(n)!Join(c) \/ Sharing(n)!Part(c)
    BY <2>1 DEF Sharing!Join, Sharing!Part, Sharing!LockHasUser
  <2>2. CASE \E c \in Conns : Sharing(n)!Take(c) \/ Sharing(n)!Give(c)
    BY <2>2 DEF Sharing!Take, Sharing!Give, Sharing!LockHasUser
  <2>3. CASE Sharing(n)!Drop \/ UNCHANGED <<users[n], locked[n]>>
    BY <2>3 DEF Sharing!Drop, Sharing!LockHasUser
  <2> QED
    BY <2>1, <2>2, <2>3 DEF Sharing!Next
<1>3. Spec => Sharing(n)!Spec
  BY DevicesKeepContract
<1> QED
  BY <1>1, <1>2, <1>3, PTL DEF Sharing!Spec
=============================================================================
