----------------------------- MODULE DevManager -----------------------------
(***************************************************************************)
(* The device manager of the server (server/dev_manager.cpp): the map of   *)
(* devices, which a reload replaces as a whole, the names of connections,  *)
(* and the requests of clients that go through both.  Requests come from   *)
(* one thread per connection, conn_open and conn_close from the listener   *)
(* thread, and SIGHUP interrupts the main thread (server/device_d.cpp).    *)
(*                                                                         *)
(* A request for one device holds DevManager::data_mutex shared, a reload  *)
(* takes it exclusively to replace the map.  list, release_all and         *)
(* conn_close walk through the map without the mutex.  What happens inside *)
(* one device is module Device; here a device changes by the steps of its  *)
(* contract, DeviceContract.                                               *)
(***************************************************************************)
EXTENDS Naturals, FiniteSets

CONSTANTS
  Conns,      \* connection numbers, never given out twice
  Main,       \* the main thread, which handles SIGHUP
  Names,      \* device names
  Texts,      \* connection names that clients may choose
  Requests,   \* the requests that clients send
  MaxEdits    \* bound: how often the configuration file changes

\* "info" stands for info, log_start, log_get and log_finish, which leave the
\* users and the lock of a device alone.
DeviceRequests == {"use", "ask", "release", "lock", "unlock", "close", "info"}
RequestNames   == DeviceRequests \cup
                    {"list", "reload", "set_conn_name", "list_conn_names", "release_all"}

ASSUME MainAssumption     == Main \notin Conns
ASSUME RequestsAssumption == Requests \subseteq RequestNames
ASSUME MaxEditsAssumption == MaxEdits \in Nat

VARIABLES
  file,        \* the configuration file: correct or not, and its devices
  edits,       \* how often it was changed
  devices,     \* the keys of DevManager::devices
  users,       \* for each device, Device::users
  locked,      \* for each device, Device::locked
  conn_names,  \* DevManager::conn_names: connection -> name, partial
  conn,        \* life cycle of each connection
  pc, act,     \* where a thread is, and the request that it serves
  arg,         \* the device name or the connection name in the request
  todo,        \* devices that a walk through the map has still before it
  parsed,      \* the map built by read_conf, not yet applied
  stale,       \* threads with an iterator or reference into a replaced map
  status       \* the server is up, stopped or crashed

devVars  == <<devices, users, locked>>
connVars == <<conn_names, conn>>
vars     == <<file, edits, devices, users, locked, conn_names, conn, pc, act,
              arg, todo, parsed, stale, status>>

Threads    == Conns \cup {Main}
\* An ended connection is due when the listener has been woken after its end.
ConnStates == {"new", "open", "ended", "due", "closing", "gone"}
\* On a device, under the shared lock; "lock" is between use() and the rest of
\* Device::lock.
OpPcs      == {"op", "lock"}
Pcs        == OpPcs \cup {"idle", "sh_wait", "iter", "name_check", "name_set",
                          "name_list", "erase", "wr_wait", "apply"}

\* Names of connections: "#<conn>" is the default, an empty one asks for it.
DefaultName(c) == <<"#", c>>
NoArg          == <<"", "">>
ChosenNames    == {<<"text", t>> : t \in Texts}
ConnNames      == ChosenNames \cup {DefaultName(c) : c \in Conns}
Files          == [ok : {TRUE}, devs : SUBSET Names] \cup [ok : {FALSE}, devs : {{}}]

NamesOK(f) == \E S \in SUBSET Conns : f \in [S -> ConnNames]

TypeOK ==
  /\ file \in Files
  /\ edits \in 0 .. MaxEdits
  /\ devices \subseteq Names
  /\ users \in [Names -> SUBSET Conns]
  /\ locked \in [Names -> BOOLEAN]
  /\ NamesOK(conn_names)
  /\ conn \in [Conns -> ConnStates]
  /\ pc \in [Threads -> Pcs]
  /\ act \in [Threads -> RequestNames \cup {"none", "conn_close"}]
  /\ arg \in [Threads -> Names \cup ConnNames \cup {NoArg}]
  /\ todo \in [Conns -> SUBSET Names]
  /\ parsed \in [Threads -> SUBSET Names]
  /\ stale \subseteq Threads
  /\ status \in {"up", "stopped", "crashed"}

\* The constructor reads the file; if that fails the map is empty.
Init ==
  /\ file \in Files
  /\ edits = 0
  /\ devices = IF file.ok THEN file.devs ELSE {}
  /\ users = [n \in Names |-> {}]
  /\ locked = [n \in Names |-> FALSE]
  /\ conn_names = [c \in {} |-> NoArg]
  /\ conn = [c \in Conns |-> "new"]
  /\ pc = [t \in Threads |-> "idle"]
  /\ act = [t \in Threads |-> "none"]
  /\ arg = [t \in Threads |-> NoArg]
  /\ todo = [c \in Conns |-> {}]
  /\ parsed = [t \in Threads |-> {}]
  /\ stale = {}
  /\ status = "up"

-----------------------------------------------------------------------------
\* The thread continues at l; at "idle" the request has been answered.
Goto(t, l) ==
  /\ pc' = [pc EXCEPT ![t] = l]
  /\ act' = IF l = "idle" THEN [act EXCEPT ![t] = "none"] ELSE act
  /\ arg' = IF l = "idle" THEN [arg EXCEPT ![t] = NoArg] ELSE arg

\* Holders of the mutex
Readers == {c \in Conns : pc[c] \in OpPcs}
Writers == {t \in Threads : pc[t] = "apply"}

\* One listener thread runs conn_open and conn_close.
ListenerFree == \A c \in Conns : conn[c] # "closing"

\* Somebody else edits the configuration file.
Edit ==
  /\ edits < MaxEdits
  /\ edits' = edits + 1
  /\ file' \in Files \ {file}
  /\ UNCHANGED <<devVars, connVars, pc, act, arg, todo, parsed, stale, status>>

-----------------------------------------------------------------------------
(* Connections.                                                            *)

\* The loop of set_conn_name: the name belongs to another connection.
Taken(c, n) == \E d \in DOMAIN conn_names : d # c /\ conn_names[d] = n

\* conn_names[c] = n
Named(c, n) == [d \in DOMAIN conn_names \cup {c} |-> IF d = c THEN n ELSE conn_names[d]]

\* The listener accepts c and finds the connections that ended: HTTP_Server
\* starts the library without the channel through which their threads could
\* wake it when they end.
Woken(c) == [d \in Conns |-> IF d = c THEN "open"
                            ELSE IF conn[d] = "ended" THEN "due" ELSE conn[d]]

\* conn_open gives the default name.  An Err would leave the callback of the
\* HTTP library and end the process.
Accept(c) ==
  /\ conn[c] = "new"
  /\ ListenerFree
  /\ conn' = Woken(c)
  /\ IF Taken(c, DefaultName(c))
     THEN status' = "crashed" /\ UNCHANGED conn_names
     ELSE conn_names' = Named(c, DefaultName(c)) /\ UNCHANGED status
  /\ UNCHANGED <<file, edits, devVars, pc, act, arg, todo, parsed, stale>>

End(c) ==
  /\ conn[c] = "open"
  /\ pc[c] = "idle"
  /\ conn' = [conn EXCEPT ![c] = "ended"]
  /\ UNCHANGED <<file, edits, devVars, conn_names, pc, act, arg, todo,
                 parsed, stale, status>>

\* A thread starts to walk through the map.
StartWalk(c, a) ==
  /\ pc' = [pc EXCEPT ![c] = "iter"]
  /\ act' = [act EXCEPT ![c] = a]
  /\ todo' = [todo EXCEPT ![c] = devices]

\* Mutant: conn_close forgets the devices.
ConnClose_NoWalk(c) ==
  /\ conn[c] \in {"ended", "due"}
  /\ ListenerFree
  /\ conn' = [conn EXCEPT ![c] = "closing"]
  /\ pc' = [pc EXCEPT ![c] = "erase"]
  /\ UNCHANGED <<file, edits, devVars, conn_names, act, arg, todo, parsed, stale, status>>

\* conn_close in the listener thread; it may come before it must, a signal
\* wakes the listener as well.
ConnClose(c) ==
  /\ conn[c] \in {"ended", "due"}
  /\ ListenerFree
  /\ conn' = [conn EXCEPT ![c] = "closing"]
  /\ StartWalk(c, "conn_close")
  /\ UNCHANGED <<file, edits, devVars, conn_names, arg, parsed, stale, status>>

\* conn_names.erase at the end of conn_close
Erase(c) ==
  /\ pc[c] = "erase"
  /\ conn_names' = [d \in DOMAIN conn_names \ {c} |-> conn_names[d]]
  /\ conn' = [conn EXCEPT ![c] = "gone"]
  /\ Goto(c, "idle")
  /\ UNCHANGED <<file, edits, devVars, todo, parsed, stale, status>>

-----------------------------------------------------------------------------
(* Requests of a client, DevManager::run.                                  *)

Ready(c, r) == conn[c] = "open" /\ pc[c] = "idle" /\ r \in Requests

\* <act>/<device>[/<message>]
DeviceRequest(c) ==
  /\ \E r \in DeviceRequests, n \in Names :
       /\ Ready(c, r)
       /\ act' = [act EXCEPT ![c] = r]
       /\ arg' = [arg EXCEPT ![c] = n]
  /\ pc' = [pc EXCEPT ![c] = "sh_wait"]
  /\ UNCHANGED <<file, edits, devVars, connVars, todo, parsed, stale, status>>

\* list and release_all walk through the map.
WalkRequest(c) ==
  /\ \E r \in {"list", "release_all"} : Ready(c, r) /\ StartWalk(c, r)
  /\ UNCHANGED <<file, edits, devVars, connVars, arg, parsed, stale, status>>

\* The beginning of set_conn_name that will assign m.
NameBegins(c, m) ==
  /\ Ready(c, "set_conn_name")
  /\ arg' = [arg EXCEPT ![c] = m]
  /\ pc' = [pc EXCEPT ![c] = "name_check"]
  /\ act' = [act EXCEPT ![c] = "set_conn_name"]
  /\ UNCHANGED <<file, edits, devVars, connVars, todo, parsed, stale, status>>

\* Mutant: names that begin with # are not refused.
NameRequest_AcceptsHash(c) ==
  \E n \in ConnNames : NameBegins(c, n)

\* Mutant: an empty name is not replaced.
NameRequest_KeepsEmpty(c) ==
  \E n \in ChosenNames \cup {NoArg} : NameBegins(c, n)

\* set_conn_name: a name that begins with # is refused, an empty one becomes
\* the default.
NameRequest(c) ==
  \E n \in ChosenNames \cup {NoArg} :
    NameBegins(c, IF n = NoArg THEN DefaultName(c) ELSE n)

-----------------------------------------------------------------------------
(* A request for one device, under the shared lock.                        *)

\* Readers are preferred: a waiting reload does not keep them out.  Under the
\* shared lock: error "unknown device", or a reference to the device.
AcquireShared(c) ==
  /\ pc[c] = "sh_wait"
  /\ Writers = {}
  /\ Goto(c, IF arg[c] \in devices THEN "op" ELSE "idle")
  /\ UNCHANGED <<file, edits, devVars, connVars, todo, parsed, stale, status>>

\* What a request can do to the users u and the lock l of its device; an
\* error leaves them alone.  For lock this is only what use() does, which it
\* calls first.
Effects(c, u, l) ==
  CASE act[c] \in {"use", "ask", "lock"} -> {<<u, l>>, <<u \cup {c}, l>>}
    [] act[c] = "info"    -> {<<u, l>>}
    [] act[c] = "unlock"  -> {<<u, l /\ c \notin u>>}
    [] act[c] = "release" -> {<<u \ {c}, l /\ c \notin u>>}
    [] act[c] = "close"   -> {<<{}, FALSE>>}

DeviceOp(c) ==
  /\ pc[c] = "op"
  /\ c \notin stale
  /\ \E e \in Effects(c, users[arg[c]], locked[arg[c]]) :
       /\ users' = [users EXCEPT ![arg[c]] = e[1]]
       /\ locked' = [locked EXCEPT ![arg[c]] = e[2]]
       /\ Goto(c, IF act[c] = "lock" /\ c \in e[1] THEN "lock" ELSE "idle")
  /\ UNCHANGED <<file, edits, devices, connVars, todo, parsed, stale, status>>

\* The rest of Device::lock: there has to be one user, whoever that is by now.
DeviceLock(c) ==
  /\ pc[c] = "lock"
  /\ c \notin stale
  /\ IF \E d \in Conns : users[arg[c]] = {d}
     THEN locked' = [locked EXCEPT ![arg[c]] = TRUE] ELSE UNCHANGED locked
  /\ Goto(c, "idle")
  /\ UNCHANGED <<file, edits, devices, users, connVars, todo, parsed, stale, status>>

-----------------------------------------------------------------------------
(* Walks through the map, without the mutex.                               *)

\* Mutant: the walk waits for devices that others have locked.
Visit_WaitsForUnlock(c) ==
  /\ pc[c] = "iter"
  /\ c \notin stale
  /\ \E n \in todo[c] :
       /\ locked[n] => c \in users[n]
       /\ todo' = [todo EXCEPT ![c] = @ \ {n}]
       /\ users' = [users EXCEPT ![n] = @ \ {c}]
       /\ locked' = [locked EXCEPT ![n] = @ /\ c \notin users[n]]
  /\ UNCHANGED <<file, edits, devices, connVars, pc, act, arg, parsed, stale, status>>

\* One device: release() for release_all and conn_close, nothing for list.
Visit(c) ==
  /\ pc[c] = "iter"
  /\ c \notin stale
  /\ \E n \in todo[c] :
       /\ todo' = [todo EXCEPT ![c] = @ \ {n}]
       /\ IF act[c] = "list" THEN UNCHANGED <<users, locked>>
          ELSE /\ users' = [users EXCEPT ![n] = @ \ {c}]
               /\ locked' = [locked EXCEPT ![n] = @ /\ c \notin users[n]]
  /\ UNCHANGED <<file, edits, devices, connVars, pc, act, arg, parsed, stale, status>>

\* After the last device release_all resets the name and conn_close erases it.
WalkEnd(c) ==
  /\ pc[c] = "iter"
  /\ c \notin stale
  /\ todo[c] = {}
  /\ \/ /\ act[c] = "release_all"
        /\ pc' = [pc EXCEPT ![c] = "name_check"]
        /\ arg' = [arg EXCEPT ![c] = DefaultName(c)]
        /\ UNCHANGED act
     \/ act[c] = "conn_close" /\ Goto(c, "erase")
     \/ act[c] = "list" /\ Goto(c, "idle")
  /\ UNCHANGED <<file, edits, devVars, connVars, todo, parsed, stale, status>>

\* An iterator into the replaced map goes on somewhere in the new one (nodes
\* of the map are used again) ...
StaleWalk(c) ==
  /\ pc[c] = "iter"
  /\ c \in stale
  /\ \E S \in SUBSET devices : todo' = [todo EXCEPT ![c] = S]
  /\ stale' = stale \ {c}
  /\ UNCHANGED <<file, edits, devVars, connVars, pc, act, arg, parsed, status>>

\* ... or hits freed memory; so can a walk through the names while another
\* thread erases or assigns one.
Crash(c) ==
  /\ \/ pc[c] \in {"iter"} \cup OpPcs /\ c \in stale
     \/ /\ pc[c] \in {"name_check", "name_list"}
        /\ \E d \in Conns \ {c} : pc[d] \in {"erase", "name_set"}
  /\ status' = "crashed"
  /\ UNCHANGED <<file, edits, devVars, connVars, pc, act, arg, todo, parsed, stale>>

-----------------------------------------------------------------------------
(* set_conn_name: a test and an assignment.                                *)

NameCheck(c) ==
  /\ pc[c] = "name_check"
  /\ Goto(c, IF Taken(c, arg[c]) THEN "idle" ELSE "name_set")
  /\ UNCHANGED <<file, edits, devVars, connVars, todo, parsed, stale, status>>

\* list_conn_names and get_conn_name read the names.
NameListRequest(c) ==
  /\ Ready(c, "list_conn_names")
  /\ pc' = [pc EXCEPT ![c] = "name_list"]
  /\ act' = [act EXCEPT ![c] = "list_conn_names"]
  /\ UNCHANGED <<file, edits, devVars, connVars, arg, todo, parsed, stale, status>>

NameList(c) ==
  /\ pc[c] = "name_list"
  /\ Goto(c, "idle")
  /\ UNCHANGED <<file, edits, devVars, connVars, todo, parsed, stale, status>>

NameSet(c) ==
  /\ pc[c] = "name_set"
  /\ conn_names' = Named(c, arg[c])
  /\ Goto(c, "idle")
  /\ UNCHANGED <<file, edits, devVars, conn, todo, parsed, stale, status>>

-----------------------------------------------------------------------------
(* read_conf, for a reload request or on SIGHUP.                           *)

\* A correct file is read into a map of its own, without the mutex.
ReadFile(t) ==
  /\ file.ok
  /\ parsed' = [parsed EXCEPT ![t] = file.devs]
  /\ pc' = [pc EXCEPT ![t] = "wr_wait"]
  /\ act' = [act EXCEPT ![t] = "reload"]

\* A faulty file is an error for the client and leaves everything as it is.
ReloadRequest(c) ==
  /\ Ready(c, "reload")
  /\ ReadFile(c)
  /\ UNCHANGED <<file, edits, devVars, connVars, arg, todo, stale, status>>

\* ReloadFunc runs inside sleep() of the main loop; an Err of read_conf leaves
\* the loop, is caught at the end of main, and the server stops.
Sighup ==
  /\ pc[Main] = "idle"
  /\ \/ ReadFile(Main) /\ UNCHANGED status
     \/ ~file.ok /\ status' = "stopped" /\ UNCHANGED <<parsed, pc, act>>
  /\ UNCHANGED <<file, edits, devVars, connVars, arg, todo, stale>>

\* Mutant: the map is replaced under a shared lock.
AcquireExclusive_IgnoresReaders(t) ==
  /\ pc[t] = "wr_wait"
  /\ Writers = {}
  /\ Goto(t, "apply")
  /\ UNCHANGED <<file, edits, devVars, connVars, todo, parsed, stale, status>>

\* Mutant: a reload polls until nobody uses a device.
AcquireExclusive_WaitsForUsers(t) ==
  /\ pc[t] = "wr_wait"
  /\ Readers = {}
  /\ Writers = {}
  /\ IF \A n \in Names : users[n] = {} THEN Goto(t, "apply")
                                     ELSE UNCHANGED <<pc, act, arg>>
  /\ UNCHANGED <<file, edits, devVars, connVars, todo, parsed, stale, status>>

AcquireExclusive(t) ==
  /\ pc[t] = "wr_wait"
  /\ Readers = {}
  /\ Writers = {}
  /\ Goto(t, "apply")
  /\ UNCHANGED <<file, edits, devVars, connVars, todo, parsed, stale, status>>

\* Mutant: devices keep their users over a reload.
Apply_KeepsUsers(t) ==
  /\ pc[t] = "apply"
  /\ devices' = parsed[t]
  /\ UNCHANGED <<users, locked>>
  /\ stale' = stale \cup {c \in Conns : pc[c] \in {"iter"} \cup OpPcs}
  /\ parsed' = [parsed EXCEPT ![t] = {}]
  /\ Goto(t, "idle")
  /\ UNCHANGED <<file, edits, connVars, todo, status>>

\* devices = ret: every device is a new one
Apply(t) ==
  /\ pc[t] = "apply"
  /\ devices' = parsed[t]
  /\ users' = [n \in Names |-> {}]
  /\ locked' = [n \in Names |-> FALSE]
  /\ stale' = stale \cup {c \in Conns : pc[c] \in {"iter"} \cup OpPcs}
  /\ parsed' = [parsed EXCEPT ![t] = {}]
  /\ Goto(t, "idle")
  /\ UNCHANGED <<file, edits, connVars, todo, status>>

-----------------------------------------------------------------------------
Reload(t) == AcquireExclusive(t) \/ Apply(t)

ConnStep(c) ==
  \/ Erase(c) \/ AcquireShared(c) \/ DeviceOp(c) \/ DeviceLock(c)
  \/ Visit(c) \/ WalkEnd(c) \/ StaleWalk(c) \/ NameCheck(c) \/ NameSet(c)
  \/ NameList(c)

ConnNext(c) ==
  \/ Accept(c) \/ End(c) \/ ConnClose(c)
  \/ DeviceRequest(c) \/ WalkRequest(c) \/ NameRequest(c) \/ ReloadRequest(c)
  \/ NameListRequest(c)
  \/ ConnStep(c) \/ Crash(c)

Terminated ==
  /\ status # "up" \/ \A c \in Conns : conn[c] = "gone"
  /\ UNCHANGED vars

Next ==
  \/ status = "up" /\ \/ \E c \in Conns : ConnNext(c)
                      \/ \E t \in Threads : Reload(t)
                      \/ Sighup \/ Edit
  \/ Terminated

Spec == Init /\ [][Next]_vars

(* Threads run, operations of devices end, the exclusive lock is given to  *)
(* some waiting reload if it is free again and again, and the listener     *)
(* thread comes to some connection whose end it knows of if it is free     *)
(* again and again.  Nothing makes it look for ended connections before    *)
(* it has one to accept.                                                   *)
Fairness ==
  /\ \A c \in Conns : WF_vars(status = "up" /\ ConnStep(c))
  /\ SF_vars(status = "up" /\ \E c \in Conns : conn[c] = "due" /\ ConnClose(c))
  /\ SF_vars(status = "up" /\ \E t \in Threads : AcquireExclusive(t))
  /\ WF_vars(status = "up" /\ \E t \in Threads : Apply(t))

FairSpec == Spec /\ Fairness

-----------------------------------------------------------------------------
\* Connections that conn_close has not been called for, or not returned for
Live == {c \in Conns : conn[c] \in {"open", "ended", "due", "closing"}}

\* A request that found its device works on a device of the current map until
\* it is done, however often and by whomever the map is reloaded.
OpsOnCurrent == \A c \in Conns : pc[c] \in OpPcs => c \notin stale /\ arg[c] \in devices

\* A device that is not configured has no users and no lock: nothing of an old
\* configuration is carried over, and no request creates a user in passing.
UsersConfigured == \A n \in Names \ devices : users[n] = {} /\ ~locked[n]

\* Exactly the live connections have names, and only they use devices,
\* although conn_close walks through a map that may be replaced under it.
NoGhosts ==
  /\ DOMAIN conn_names = Live
  /\ \A n \in Names : users[n] \subseteq Live

\* "#<n>" is the name of connection n and of no other, whatever names clients
\* take and give back; so conn_open, which cannot report an error, finds its
\* default name free.
DefaultNamesOwned ==
  \A c \in DOMAIN conn_names, d \in Conns : conn_names[c] = DefaultName(d) => c = d

\* Reloads are not starved: unless requests overlap for ever (readers are
\* preferred, so nothing better can be promised), again and again a reload has
\* the exclusive lock or none waits for it, whatever clients do to the devices.
ReloadDone ==
  []<>(Readers = {} \/ status # "up") =>
    []<>(Writers # {} \/ (\A t \in Threads : pc[t] # "wr_wait") \/ status # "up")

\* Ended connections that the listener knows of are closed, one after another,
\* whatever requests others send, if the map is not replaced under the walk for
\* ever.
EndedClosed ==
  <>[](Writers = {}) =>
    <>[]((\A c \in Conns : conn[c] \notin {"due", "closing"}) \/ status # "up")

-----------------------------------------------------------------------------
(* What carries the invariants above from one step to the next.            *)

\* The mutex is held exclusively or shared.
Exclusion ==
  /\ Writers # {} => Readers = {}
  /\ \A s, t \in Writers : s = t

\* Only walks are overtaken by a reload: requests that hold a reference keep
\* it out.
StaleWalks == \A t \in stale : t \in Conns /\ pc[t] = "iter"

\* A thread works only for a connection that is open, and for a closing one
\* only in conn_close.
ThreadOfConn ==
  \A c \in Conns :
    /\ conn[c] \in {"new", "ended", "due", "gone"} => pc[c] = "idle"
    /\ conn[c] = "closing" <=> pc[c] = "erase" \/ (pc[c] = "iter" /\ act[c] = "conn_close")

\* A thread is where its request takes it.
RequestOfThread ==
  \A c \in Conns :
    /\ pc[c] \in {"sh_wait"} \cup OpPcs => act[c] \in DeviceRequests /\ arg[c] \in Names
    /\ pc[c] = "iter" => act[c] \in {"list", "release_all", "conn_close"}

\* A name in conn_names, or about to be assigned, was chosen by a client or is
\* the default name of its own connection.
OwnOrChosen(c, n) == n \in ChosenNames \/ n = DefaultName(c)
NamesOwned ==
  /\ \A c \in DOMAIN conn_names : OwnOrChosen(c, conn_names[c])
  /\ \A c \in Conns : pc[c] \in {"name_check", "name_set"} => OwnOrChosen(c, arg[c])

\* conn_close has released every device but those still before it.  If the map
\* was replaced under the walk, the reload has sent all users away.
Walked ==
  \A c \in Conns, n \in Names : conn[c] = "closing" /\ c \in users[n] =>
    pc[c] = "iter" /\ n \in todo[c] /\ c \notin stale

\* Each device by itself keeps the part of the contract of a device that does
\* not speak of the driver, whatever else the manager does, reloads included.
Sharing(n) == INSTANCE DeviceSharing WITH users <- users[n], locked <- locked[n]

IInv ==
  /\ TypeOK /\ OpsOnCurrent /\ UsersConfigured /\ NoGhosts
  /\ Exclusion /\ StaleWalks /\ ThreadOfConn /\ RequestOfThread
  /\ NamesOwned /\ Walked

-----------------------------------------------------------------------------
(* A claim about the server that its code does not keep.                   *)

\* Readme.md: "If the file contains errors server prints error message in the
\* log and keep old configuration"
ServerStaysUp == status # "stopped"
=============================================================================
