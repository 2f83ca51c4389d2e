------------------------------- MODULE Client -------------------------------
(***************************************************************************)
(* The command-line client device_c (server/device_c.cpp), several of them *)
(* at once, and what a session is worth to them.  To the server a session  *)
(* is a connection (server/http_server.cpp); to a client it is a run of    *)
(* the program.  The two are not the same: libcurl keeps a connection      *)
(* between requests and makes a new one without telling anybody when it is *)
(* gone, the server closes connections that are silent for 10 s, and the   *)
(* server may be restarted.                                                *)
(*                                                                         *)
(* There is one device.  Its methods are single steps here, except that    *)
(* use(), and lock() and ask() with it, test `locked' in one step and join *)
(* in another (module Device has all of their steps).                      *)
(***************************************************************************)
EXTENDS Naturals, Sequences, FiniteSets

CONSTANTS
  Clients,     \* runs of the program
  Acts,        \* the actions that they are started with
  Lines,       \* the requests that use_srv is given
  MaxConns     \* bound: connections that one client makes

\* use_dev without and with --lock, and the other actions that differ in the
\* requests that they send; "info" stands for every action that sends one
\* request which changes nothing.
ActNames == {"use_dev", "lock_dev", "use_srv", "ask", "close", "reload",
             "monitor", "info"}

Requests == {"use", "release", "release_all", "lock", "unlock", "close",
             "log_start", "log_get", "log_finish", "ask", "set_conn_name",
             "ping", "reload", "info"}

ASSUME ActsAssumption     == Acts \subseteq ActNames
ASSUME LinesAssumption    == Lines \subseteq Requests
ASSUME MaxConnsAssumption == MaxConns \in Nat \ {0}

VARIABLES
  act,       \* the action of each client
  phase,     \* how far it is
  todo,      \* the requests that it sends before it reads input again or ends
  pc,        \* where its request is: not sent, or in the middle of a method
  k,         \* how many connections it has made
  linked,    \* does libcurl hold a connection that still exists?
  up,        \* does the server run?
  users,     \* Device::users
  locked,    \* Device::locked
  logs,      \* the connections that have a buffer in Device::log_bufs
  ended,     \* connections that ended and that conn_close is to be called for
  due,       \* those of them that the listener has been woken after
  undone     \* history: clients that lock, and to which one of the things has
             \* happened that end a lock without a word (see Undo)

clientVars == <<act, phase, todo, pc>>
linkVars   == <<k, linked, ended, due>>
deviceVars == <<users, locked, logs>>
vars == <<clientVars, linkVars, deviceVars, up, undone>>

Conns   == Clients \X (1 .. MaxConns)
Conn(c) == <<c, k[c]>>

Interactive == {"use_dev", "lock_dev", "use_srv"}
Running     == {"opening", "session", "closing"}
Over        == {"done", "failed"}

\* Types; a client that is over has let go of its connection.
TypeOK ==
  /\ act \in [Clients -> ActNames \cup {"none"}]
  /\ phase \in [Clients -> {"off"} \cup Running \cup Over]
  /\ todo \in [Clients -> Seq(Requests)]
  /\ pc \in [Clients -> {"ready", "join", "lock"}]
  /\ k \in [Clients -> 0 .. MaxConns]
  /\ linked \in [Clients -> BOOLEAN]
  /\ up \in BOOLEAN /\ locked \in BOOLEAN
  /\ users \subseteq Conns /\ logs \subseteq Conns
  /\ ended \subseteq Conns /\ due \subseteq ended
  /\ undone \subseteq Clients
  /\ \A c \in Clients : linked[c] => up /\ phase[c] \in Running

Init ==
  /\ act = [c \in Clients |-> "none"]
  /\ phase = [c \in Clients |-> "off"]
  /\ todo = [c \in Clients |-> << >>]
  /\ pc = [c \in Clients |-> "ready"]
  /\ k = [c \in Clients |-> 0]
  /\ linked = [c \in Clients |-> FALSE]
  /\ up = TRUE
  /\ users = {} /\ locked = FALSE /\ logs = {} /\ ended = {} /\ due = {}
  /\ undone = {}

-----------------------------------------------------------------------------
(* The program: main, use_dev, use_srv, monitor.                           *)

\* Mutant: action ask does not release the device.
Opening_AskKeeps(a) ==
  CASE a = "ask"      -> <<"ask">>
    [] a = "use_dev"  -> <<"use", "set_conn_name">>
    [] a = "lock_dev" -> <<"use", "set_conn_name", "lock">>
    [] a = "use_srv"  -> <<"ping">>
    [] a = "monitor"  -> <<"log_start">>
    [] OTHER          -> <<a>>

\* What a client sends first; all of it if it is neither interactive nor a
\* monitor.
Opening(a) ==
  CASE a = "ask"      -> <<"ask", "release">>
    [] a = "use_dev"  -> <<"use", "set_conn_name">>
    [] a = "lock_dev" -> <<"use", "set_conn_name", "lock">>
    [] a = "use_srv"  -> <<"ping">>
    [] a = "monitor"  -> <<"log_start">>
    [] OTHER          -> <<a>>

Start(c) ==
  /\ phase[c] = "off"
  /\ \E a \in Acts : /\ act' = [act EXCEPT ![c] = a]
                     /\ todo' = [todo EXCEPT ![c] = Opening(a)]
  /\ phase' = [phase EXCEPT ![c] = "opening"]
  /\ UNCHANGED <<pc, linkVars, deviceVars, up, undone>>

\* The loop of use_dev, use_srv or monitor is about to begin anew.
Looping(c) == phase[c] = "session" /\ todo[c] = << >>

\* A line for use_dev or use_srv; the next turn of the loop of monitor
Line(c) ==
  /\ Looping(c)
  /\ \E r \in CASE act[c] = "use_srv" -> Lines
                [] act[c] = "monitor" -> {"log_get"}
                [] OTHER              -> {"ask"} :
       todo' = [todo EXCEPT ![c] = <<r>>]
  /\ UNCHANGED <<act, phase, pc, linkVars, deviceVars, up, undone>>

\* The end of the input, or an empty line
Quit(c) ==
  /\ Looping(c)
  /\ act[c] \in Interactive
  /\ phase' = [phase EXCEPT ![c] = "closing"]
  /\ todo' = [todo EXCEPT ![c] = <<"release_all">>]
  /\ UNCHANGED <<act, pc, linkVars, deviceVars, up, undone>>

\* Mutant: the connection outlives the program.
Moves_KeepsLink(c, p, rest) ==
  /\ phase' = [phase EXCEPT ![c] = p]
  /\ todo' = [todo EXCEPT ![c] = rest]
  /\ pc' = [pc EXCEPT ![c] = "ready"]
  /\ UNCHANGED <<act, k, linked, ended, due>>

\* get() has returned.  curl_easy_cleanup at the end of the program closes
\* the connection.
Moves(c, p, rest) ==
  /\ phase' = [phase EXCEPT ![c] = p]
  /\ todo' = [todo EXCEPT ![c] = rest]
  /\ pc' = [pc EXCEPT ![c] = "ready"]
  /\ linked' = [linked EXCEPT ![c] = @ /\ p \notin Over]
  /\ ended' = IF linked[c] /\ p \in Over THEN ended \cup {Conn(c)} ELSE ended
  /\ UNCHANGED <<act, k, due>>

\* get() returns an answer.
Answer(c) ==
  LET rest == Tail(todo[c])
      goesOn == \/ phase[c] = "session"
                \/ phase[c] = "opening" /\ act[c] \in Interactive \cup {"monitor"}
  IN  Moves(c, IF rest # << >> THEN phase[c] ELSE IF goesOn THEN "session" ELSE "done", rest)

\* Mutant: get() does not look at the HTTP code.
Error_Ignored(c) == Answer(c)

\* get() throws: the inner try of use_dev and use_srv goes on to the next line,
\* everything else ends the program.
Error(c) ==
  Moves(c, IF phase[c] = "session" /\ act[c] \in Interactive THEN "session" ELSE "failed", << >>)

\* Killed by a signal, at any time; a request that is being served is served
\* to its end.
Kill(c) ==
  /\ phase[c] \in Running
  /\ pc[c] = "ready"
  /\ Moves(c, "failed", << >>)
  /\ UNCHANGED <<deviceVars, up, undone>>

-----------------------------------------------------------------------------
(* get() and libcurl.                                                      *)

Sending(c) == phase[c] \in Running /\ pc[c] = "ready" /\ todo[c] # << >>

\* ConnFunc, MHD_CONNECTION_NOTIFY_STARTED: a request without a connection
\* makes one.  The listener has been woken to accept it and finds those that
\* ended.
Connect(c) ==
  /\ Sending(c)
  /\ up
  /\ ~linked[c]
  /\ k' = [k EXCEPT ![c] = @ + 1]
  /\ linked' = [linked EXCEPT ![c] = TRUE]
  /\ due' = ended
  /\ UNCHANGED <<clientVars, ended, deviceVars, up, undone>>

\* Nobody listens, or the connection broke before the answer.
NoServer(c) ==
  /\ (Sending(c) /\ ~up) \/ (pc[c] # "ready" /\ ~linked[c])
  /\ Error(c)
  /\ UNCHANGED <<deviceVars, up, undone>>

\* libcurl sends again what it sent over a connection that turned out dead.
Resend(c) ==
  /\ pc[c] # "ready"
  /\ ~linked[c]
  /\ pc' = [pc EXCEPT ![c] = "ready"]
  /\ UNCHANGED <<act, phase, todo, linkVars, deviceVars, up, undone>>

-----------------------------------------------------------------------------
(* The server.                                                             *)

\* A request that is in R reaches the server.
Request(c, R) == Sending(c) /\ linked[c] /\ Head(todo[c]) \in R

\* The device is not in the list (any more), the name belongs to another
\* connection, the list cannot be read, the driver reports an error.
Refuse(c) ==
  /\ Request(c, Requests \ {"ping", "release_all"})
  /\ Error(c)
  /\ UNCHANGED <<deviceVars, up, undone>>

\* The thread is in the middle of a request.
At(c, l) == pc' = [pc EXCEPT ![c] = l] /\ UNCHANGED <<act, phase, todo, linkVars>>

\* use() has returned, to ProcessRequest or to ask() or to lock().
Used(c) == IF Head(todo[c]) = "lock" THEN At(c, "lock") ELSE Answer(c)

\* The first tests of use(), which lock() and ask() call, too
Use(c) ==
  /\ Request(c, {"use", "lock", "ask"})
  /\ CASE Conn(c) \in users -> Used(c)
       [] Conn(c) \notin users /\ locked -> Error(c)
       [] OTHER -> At(c, "join")
  /\ UNCHANGED <<deviceVars, up, undone>>

\* The device or the connection is taken away from clients D, or they have to
\* share the device from now on.
Undo(D) == undone' = undone \cup {d \in D : act[d] = "lock_dev" /\ phase[d] \in Running}

\* The rest of use(), or a driver that cannot be created
Join(c) ==
  /\ pc[c] = "join"
  /\ linked[c]
  /\ \/ /\ users' = users \cup {Conn(c)}
        /\ Undo(IF locked THEN {d \in Clients : Conn(d) \in users} ELSE {})
        /\ Used(c)
     \/ UNCHANGED <<users, undone>> /\ Error(c)
  /\ UNCHANGED <<locked, logs, up>>

\* The rest of lock(): error "it is in use" unless there is one user
Lock(c) ==
  /\ pc[c] = "lock"
  /\ linked[c]
  /\ IF Cardinality(users) = 1 THEN locked' = TRUE /\ Answer(c)
                               ELSE UNCHANGED locked /\ Error(c)
  /\ UNCHANGED <<users, logs, up, undone>>

\* Requests that leave the device alone
Serve(c) ==
  /\ Request(c, {"ping", "info", "set_conn_name"})
  /\ Answer(c)
  /\ UNCHANGED <<deviceVars, up, undone>>

\* Error "device is locked by another connection"
Unlock(c) ==
  /\ Request(c, {"unlock"})
  /\ IF locked /\ Conn(c) \notin users THEN UNCHANGED locked /\ Error(c)
                                       ELSE locked' = FALSE /\ Answer(c)
  /\ UNCHANGED <<users, logs, up, undone>>

\* Device::release
Released(n) ==
  /\ users' = users \ {n}
  /\ locked' = (locked /\ n \notin users)
  /\ logs' = logs \ {n}

Release(c) ==
  /\ Request(c, {"release", "release_all"})
  /\ Released(Conn(c))
  /\ Answer(c)
  /\ UNCHANGED <<up, undone>>

\* Device::close; a reload puts new devices in the place of all the old ones.
Drop(c) ==
  /\ Request(c, {"close", "reload"})
  /\ users' = {} /\ locked' = FALSE /\ logs' = {}
  /\ Undo({d \in Clients : Conn(d) \in users})
  /\ Answer(c)
  /\ UNCHANGED up

LogStart(c) ==
  /\ Request(c, {"log_start"})
  /\ logs' = logs \cup {Conn(c)}
  /\ Answer(c)
  /\ UNCHANGED <<users, locked, up, undone>>

LogFinish(c) ==
  /\ Request(c, {"log_finish"})
  /\ logs' = logs \ {Conn(c)}
  /\ Answer(c)
  /\ UNCHANGED <<users, locked, up, undone>>

\* Mutant: without a buffer there is just nothing to print.
LogGet_Empty(c) ==
  /\ Request(c, {"log_get"})
  /\ Answer(c)
  /\ UNCHANGED <<deviceVars, up, undone>>

\* Error "Logging is off"
LogGet(c) ==
  /\ Request(c, {"log_get"})
  /\ IF Conn(c) \in logs THEN Answer(c) ELSE Error(c)
  /\ UNCHANGED <<deviceVars, up, undone>>

\* 10 s without a request: only a user at the keyboard is that slow.
Timeout(c) ==
  /\ Looping(c)
  /\ act[c] \in Interactive
  /\ linked[c]
  /\ k[c] < MaxConns
  /\ linked' = [linked EXCEPT ![c] = FALSE]
  /\ ended' = ended \cup {Conn(c)}
  /\ Undo({c})
  /\ UNCHANGED <<clientVars, k, due, deviceVars, up>>

\* Mutant: nobody calls conn_close.
ConnClose_Unhandled(n) == n \in ended /\ UNCHANGED vars

\* ConnFunc, MHD_CONNECTION_NOTIFY_CLOSED, which only the listener calls: it
\* must come for the connections in due, and may come earlier.
ConnClose(n) ==
  /\ n \in ended
  /\ Released(n)
  /\ ended' = ended \ {n} /\ due' = due \ {n}
  /\ UNCHANGED <<clientVars, k, linked, up, undone>>

\* The server ends; what clients have sent stays without an answer.
Stop ==
  /\ up
  /\ \A c \in Clients : k[c] < MaxConns
  /\ up' = FALSE
  /\ linked' = [c \in Clients |-> FALSE]
  /\ users' = {} /\ locked' = FALSE /\ logs' = {} /\ ended' = {} /\ due' = {}
  /\ Undo({c \in Clients : linked[c]})
  /\ UNCHANGED <<clientVars, k>>

Restart ==
  /\ ~up
  /\ up' = TRUE
  /\ UNCHANGED <<clientVars, linkVars, deviceVars, undone>>

-----------------------------------------------------------------------------
\* Steps of a client that waits for nobody, and of the thread that serves it
Step(c) ==
  \/ Connect(c) \/ NoServer(c) \/ Resend(c) \/ Refuse(c) \/ Use(c) \/ Join(c)
  \/ Lock(c) \/ Serve(c) \/ Unlock(c) \/ Release(c) \/ Drop(c)
  \/ LogStart(c) \/ LogFinish(c) \/ LogGet(c)

\* Every client is over and the server has noticed.
Terminated ==
  /\ \A c \in Clients : phase[c] \in Over
  /\ ended = {}
  /\ UNCHANGED vars

Next ==
  \/ \E c \in Clients : Start(c) \/ Line(c) \/ Quit(c) \/ Kill(c) \/ Timeout(c) \/ Step(c)
  \/ \E n \in Conns : ConnClose(n)
  \/ Stop \/ Restart
  \/ Terminated

Spec == Init /\ [][Next]_vars

(* Programs and threads run and a monitor asks every 0.1 s; a user types   *)
(* when he likes, and nothing makes a server start again.  The end of a    *)
(* connection does not wake the listener; the next connection does.        *)
FairSpec ==
  /\ Spec
  /\ \A c \in Clients : WF_vars(Step(c)) /\ WF_vars(act[c] = "monitor" /\ Line(c))
  /\ WF_vars(\E n \in due : ConnClose(n))

-----------------------------------------------------------------------------
\* use_dev --lock has said #OK: nobody else uses the device and it stays
\* locked, whatever other clients try, until the session itself ends; except
\* after a restart, 10 s of silence, a close or reload, or after a use() that
\* slipped in between its own test of `locked' and its insertion.
LockKept ==
  \A c \in Clients \ undone :
    act[c] = "lock_dev" /\ phase[c] = "session" => locked /\ users = {Conn(c)}

\* Nothing stays with a connection that no client holds and no conn_close is
\* to come for, across reconnections and restarts; and a client that ended as
\* it should holds nothing at that very moment, before the server has noticed
\* the end of its connection: whoever comes next finds the device free.
NothingHeld ==
  /\ \A n \in users \cup logs : n \in ended \/ (linked[n[1]] /\ n = Conn(n[1]))
  /\ \A c \in Clients : phase[c] = "done" /\ act[c] \in Interactive \cup {"ask"}
                          => Conn(c) \notin users \cup logs

\* What a client that ended, failed or was killed held through any of its
\* connections is free again, once the listener has been woken after their
\* end; until then nothing makes it (Readme.md: "Locks and connection name are
\* still there, and can affect the client").
LetGo ==
  \A c \in Clients :
    phase[c] \in Over /\ (\A n \in ended : n[1] = c => n \in due)
      ~> \A n \in users \cup logs : n[1] # c

\* A monitor whose buffer is gone (the device was closed, the list reloaded, the
\* server restarted) ends with an error and does not print nothing for ever.
MonitorStops ==
  \A c \in Clients :
    act[c] = "monitor" /\ phase[c] = "session" /\ Conn(c) \notin logs ~> phase[c] \in Over

\* The device of this module behaves as the part of the contract of a device
\* that does not speak of the driver, restarts of the server included.
Sharing == INSTANCE DeviceSharing

-----------------------------------------------------------------------------
(* The inductive invariant behind LockKept and NothingHeld.                *)

\* Where a client can be in what its action makes it send
Script(c) ==
  /\ phase[c] \in {"off"} \cup Over => todo[c] = << >>
  /\ phase[c] = "opening" =>
       \/ act[c] # "none" /\ todo[c] = Opening(act[c])
       \/ act[c] = "ask" /\ todo[c] = <<"release">>
       \/ act[c] = "use_dev" /\ todo[c] = <<"set_conn_name">>
       \/ act[c] = "lock_dev" /\ todo[c] \in {<<"set_conn_name", "lock">>, <<"lock">>}
  /\ phase[c] = "session" => act[c] \in Interactive \cup {"monitor"}
  /\ phase[c] = "session" /\ todo[c] # << >> =>
       \E r \in Requests : todo[c] = <<r>> /\ (act[c] = "lock_dev" => r = "ask")
  /\ phase[c] = "closing" => todo[c] = <<"release_all">>
  /\ pc[c] # "ready" => /\ phase[c] \in Running /\ todo[c] # << >>
                        /\ Head(todo[c]) \in {"use", "lock", "ask"}
  /\ pc[c] = "lock" => Head(todo[c]) = "lock"

\* The connections of a client: only the last one can be alive, and there is
\* room for the one that it may need next.
Links(c) ==
  /\ linked[c] => k[c] > 0 /\ Conn(c) \notin ended
  /\ phase[c] \in {"off"} \cup Running /\ ~linked[c] => k[c] < MaxConns
  /\ \A n \in ended : n[1] = c => n[2] <= k[c]

\* What a client that locks has reached, and nothing has undone
Holds(c) ==
  act[c] = "lock_dev" /\ c \notin undone =>
    /\ phase[c] = "opening" /\ Head(todo[c]) # "use" => linked[c] /\ Conn(c) \in users
    /\ phase[c] = "session" => linked[c] /\ locked /\ users = {Conn(c)}

IInv ==
  /\ TypeOK /\ NothingHeld
  /\ IsFiniteSet(users)
  /\ \A c \in Clients : Script(c) /\ Links(c) /\ Holds(c)
=============================================================================
