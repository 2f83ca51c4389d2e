---------------------------- MODULE ClientProofs ----------------------------
(* Proofs about Client, for any clients, actions, input lines and number   *)
(* of connections.                                                         *)
EXTENDS Client, FiniteSetTheorems, SequenceTheorems, TLAPS

-----------------------------------------------------------------------------
(* Sequences of requests.                                                  *)

\* One to three requests, the first one and the others
LEMMA Few ==
  /\ \A a : Head(<<a>>) = a /\ Tail(<<a>>) = << >> /\ <<a>> # << >>
  /\ \A a, b : Head(<<a, b>>) = a /\ Tail(<<a, b>>) = <<b>> /\ <<a, b>> # << >>
  /\ \A a, b, d : /\ Head(<<a, b, d>>) = a /\ Tail(<<a, b, d>>) = <<b, d>>
                  /\ <<a, b, d>> # << >>
<1>1. \A a : Head(<<a>>) = a /\ Tail(<<a>>) = << >> /\ <<a>> # << >>
  OBVIOUS
<1>2. \A a, b : Head(<<a, b>>) = a /\ Tail(<<a, b>>) = <<b>> /\ <<a, b>> # << >>
  OBVIOUS
<1>3. \A a, b, d : /\ Head(<<a, b, d>>) = a /\ Tail(<<a, b, d>>) = <<b, d>>
                  /\ <<a, b, d>> # << >>
  OBVIOUS
<1> QED
  BY <1>1, <1>2, <1>3

\* What a client is about to send, by what it is doing
LEMMA Sends ==
  ASSUME NEW c \in Clients, TypeOK, Script(c), todo[c] # << >>
  PROVE  /\ phase[c] \in Running /\ Head(todo[c]) \in Requests
         /\ Tail(todo[c]) \in Seq(Requests)
         /\ phase[c] = "closing" => Head(todo[c]) = "release_all" /\ Tail(todo[c]) = << >>
         /\ phase[c] = "session" => Tail(todo[c]) = << >>
         /\ phase[c] = "session" /\ act[c] = "lock_dev" => Head(todo[c]) = "ask"
         /\ phase[c] = "opening" /\ act[c] = "ask" =>
              \/ Head(todo[c]) = "ask" /\ Tail(todo[c]) = <<"release">>
              \/ Head(todo[c]) = "release" /\ Tail(todo[c]) = << >>
         /\ phase[c] = "opening" /\ act[c] = "use_dev" =>
              \/ Head(todo[c]) = "use" /\ Tail(todo[c]) = <<"set_conn_name">>
              \/ Head(todo[c]) = "set_conn_name" /\ Tail(todo[c]) = << >>
         /\ phase[c] = "opening" /\ act[c] = "lock_dev" =>
              \/ Head(todo[c]) = "use" /\ Tail(todo[c]) = <<"set_conn_name", "lock">>
              \/ Head(todo[c]) = "set_conn_name" /\ Tail(todo[c]) = <<"lock">>
              \/ Head(todo[c]) = "lock" /\ Tail(todo[c]) = << >>
         /\ phase[c] = "opening" /\ act[c] \notin {"ask", "use_dev", "lock_dev"}
              => Tail(todo[c]) = << >>
<1>1. phase[c] \in Running /\ todo[c] \in Seq(Requests)
  BY DEF TypeOK, Script
<1>2. Head(todo[c]) \in Requests /\ Tail(todo[c]) \in Seq(Requests)
  BY <1>1, HeadTailProperties
<1>3. /\ phase[c] = "closing" => Head(todo[c]) = "release_all" /\ Tail(todo[c]) = << >>
      /\ phase[c] = "session" => Tail(todo[c]) = << >>
      /\ phase[c] = "session" /\ act[c] = "lock_dev" => Head(todo[c]) = "ask"
  <2>1. "release_all" \in Requests
    BY DEF Requests
  <2>2. \A a \in Requests : Head(<<a>>) = a /\ Tail(<<a>>) = << >>
    BY Few
  <2> HIDE DEF Requests
  <2>3. phase[c] = "closing" => todo[c] = <<"release_all">>
    BY DEF Script
  <2>4. phase[c] = "session" =>
          \E r \in Requests : todo[c] = <<r>> /\ (act[c] = "lock_dev" => r = "ask")
    BY DEF Script
  <2> QED
    BY <2>1, <2>2, <2>3, <2>4
<1>4. ASSUME phase[c] = "opening"
      PROVE  act[c] \in ActNames /\ act[c] # "none"
  BY <1>4 DEF Script, TypeOK
<1>5. /\ {"ask", "release", "use", "set_conn_name", "lock"} \subseteq Requests
      /\ ActNames \ {"ask", "use_dev", "lock_dev", "use_srv", "monitor"} \subseteq Requests
      /\ {"ping", "log_start"} \subseteq Requests
  BY DEF Requests, ActNames
<1>6. ASSUME phase[c] = "opening"
      PROVE  /\ act[c] = "ask" => todo[c] \in {<<"ask", "release">>, <<"release">>}
             /\ act[c] = "use_dev" => todo[c] \in {<<"use", "set_conn_name">>, <<"set_conn_name">>}
             /\ act[c] = "lock_dev" => todo[c] \in {<<"use", "set_conn_name", "lock">>,
                                                    <<"set_conn_name", "lock">>, <<"lock">>}
             /\ act[c] \notin {"ask", "use_dev", "lock_dev"} => \E a \in Requests : todo[c] = <<a>>
  BY <1>4, <1>5, <1>6 DEF Script, Opening
<1> QED
  <2>1. phase[c] = "opening" /\ act[c] = "ask" =>
          \/ Head(todo[c]) = "ask" /\ Tail(todo[c]) = <<"release">>
          \/ Head(todo[c]) = "release" /\ Tail(todo[c]) = << >>
    <3>1. todo[c] = <<"ask", "release">> => Head(todo[c]) = "ask" /\ Tail(todo[c]) = <<"release">>
      BY Few
    <3>2. todo[c] = <<"release">> => Head(todo[c]) = "release" /\ Tail(todo[c]) = << >>
      BY Few
    <3> QED
      BY <1>6, <3>1, <3>2
  <2>2. phase[c] = "opening" /\ act[c] = "use_dev" =>
          \/ Head(todo[c]) = "use" /\ Tail(todo[c]) = <<"set_conn_name">>
          \/ Head(todo[c]) = "set_conn_name" /\ Tail(todo[c]) = << >>
    <3>1. todo[c] = <<"use", "set_conn_name">> =>
            Head(todo[c]) = "use" /\ Tail(todo[c]) = <<"set_conn_name">>
      BY Few
    <3>2. todo[c] = <<"set_conn_name">> =>
            Head(todo[c]) = "set_conn_name" /\ Tail(todo[c]) = << >>
      BY Few
    <3> QED
      BY <1>6, <3>1, <3>2
  <2>3. phase[c] = "opening" /\ act[c] = "lock_dev" =>
          \/ Head(todo[c]) = "use" /\ Tail(todo[c]) = <<"set_conn_name", "lock">>
          \/ Head(todo[c]) = "set_conn_name" /\ Tail(todo[c]) = <<"lock">>
          \/ Head(todo[c]) = "lock" /\ Tail(todo[c]) = << >>
    <3>1. todo[c] = <<"use", "set_conn_name", "lock">> =>
            Head(todo[c]) = "use" /\ Tail(todo[c]) = <<"set_conn_name", "lock">>
      BY Few
    <3>2. todo[c] = <<"set_conn_name", "lock">> =>
            Head(todo[c]) = "set_conn_name" /\ Tail(todo[c]) = <<"lock">>
      BY Few
    <3>3. todo[c] = <<"lock">> => Head(todo[c]) = "lock" /\ Tail(todo[c]) = << >>
      BY Few
    <3> QED
      BY <1>6, <3>1, <3>2, <3>3
  <2>4. phase[c] = "opening" /\ act[c] \notin {"ask", "use_dev", "lock_dev"}
          => Tail(todo[c]) = << >>
    <3>1. \A a : todo[c] = <<a>> => Tail(todo[c]) = << >>
      BY Few
    <3> QED
      BY <1>6, <3>1
  <2> QED
    BY <1>1, <1>2, <1>3, <2>1, <2>2, <2>3, <2>4

-----------------------------------------------------------------------------
(* Steps of one client.                                                    *)

\* Nothing changes for the clients but c, which loses its connection when it
\* is over.
Turned(c) ==
  /\ act' = act /\ k' = k /\ due' = due
  /\ \A d \in Clients \ {c} : /\ phase'[d] = phase[d] /\ todo'[d] = todo[d]
                              /\ pc'[d] = pc[d] /\ linked'[d] = linked[d]
  /\ linked'[c] <=> linked[c] /\ phase'[c] \notin Over
  /\ ended' = IF linked[c] /\ phase'[c] \in Over THEN ended \cup {Conn(c)} ELSE ended
  /\ phase'[c] \in Running \cup Over

\* The part of TypeOK that is about clients and connections
Typed ==
  /\ act \in [Clients -> ActNames \cup {"none"}]
  /\ phase \in [Clients -> {"off"} \cup Running \cup Over]
  /\ todo \in [Clients -> Seq(Requests)]
  /\ pc \in [Clients -> {"ready", "join", "lock"}]
  /\ k \in [Clients -> 0 .. MaxConns]
  /\ linked \in [Clients -> BOOLEAN]
  /\ ended \subseteq Conns /\ due \subseteq ended
  /\ \A c \in Clients : linked[c] => up /\ phase[c] \in Running

\* The last connection of a client is one that it can make.
LEMMA ConnOK ==
  ASSUME NEW c \in Clients, TypeOK, Links(c), linked[c]
  PROVE  Conn(c) \in Conns
  BY MaxConnsAssumption DEF TypeOK, Links, Conns, Conn

\* get() returns or throws, the program ends.
LEMMA MovesKeep ==
  ASSUME NEW c \in Clients, TypeOK, \A d \in Clients : Script(d) /\ Links(d),
         phase[c] \in Running, UNCHANGED up,
         NEW p \in Running \cup Over, NEW rest \in Seq(Requests), Moves(c, p, rest)
  PROVE  /\ Typed' /\ Turned(c) /\ \A d \in Clients : Links(d)'
         /\ \A d \in Clients \ {c} : Script(d)'
         /\ phase'[c] = p /\ todo'[c] = rest /\ pc'[c] = "ready"
<1>1. /\ act' = act /\ k' = k /\ due' = due
      /\ phase' = [phase EXCEPT ![c] = p] /\ todo' = [todo EXCEPT ![c] = rest]
      /\ pc' = [pc EXCEPT ![c] = "ready"]
      /\ ended' = IF linked[c] /\ p \in Over THEN ended \cup {Conn(c)} ELSE ended
  BY DEF Moves
<1>2. /\ linked' \in [Clients -> BOOLEAN]
      /\ \A d \in Clients \ {c} : linked'[d] = linked[d]
      /\ linked'[c] <=> linked[c] /\ p \notin Over
  BY DEF Moves, TypeOK
<1>3. /\ phase'[c] = p /\ todo'[c] = rest /\ pc'[c] = "ready"
      /\ \A d \in Clients \ {c} : phase'[d] = phase[d] /\ todo'[d] = todo[d] /\ pc'[d] = pc[d]
  BY <1>1 DEF TypeOK
<1>4. Turned(c)
  BY <1>1, <1>2, <1>3 DEF Turned
<1>5. Typed'
  <2>1. ended' \subseteq Conns /\ due' \subseteq ended'
    BY <1>1, ConnOK DEF TypeOK
  <2>2. /\ phase' \in [Clients -> {"off"} \cup Running \cup Over]
        /\ todo' \in [Clients -> Seq(Requests)]
        /\ pc' \in [Clients -> {"ready", "join", "lock"}]
    <3> HIDE DEF Requests
    <3> QED
      BY <1>1 DEF TypeOK
  <2>3. \A d \in Clients : linked'[d] => up' /\ phase'[d] \in Running
    BY <1>2, <1>3 DEF TypeOK
  <2> QED
    BY <1>1, <1>2, <2>1, <2>2, <2>3 DEF TypeOK, Typed
<1>6. \A d \in Clients : Links(d)'
  <2> TAKE d \in Clients
  <2>1. CASE d = c
    BY <1>1, <1>2, <1>3, <2>1 DEF Links, Conn, Over, Running, TypeOK
  <2>2. CASE d # c
    BY <1>1, <1>2, <1>3, <2>2 DEF Links, Conn
  <2> QED
    BY <2>1, <2>2
<1>7. \A d \in Clients \ {c} : Script(d)'
  BY <1>1, <1>3 DEF Script
<1> QED
  BY <1>3, <1>4, <1>5, <1>6, <1>7

\* The thread that serves a request goes on.
LEMMA AtKeeps ==
  ASSUME NEW c \in Clients, TypeOK, \A d \in Clients : Script(d) /\ Links(d),
         todo[c] # << >>, UNCHANGED up,
         NEW l \in {"join", "lock"}, At(c, l), l = "lock" => Head(todo[c]) = "lock",
         Head(todo[c]) \in {"use", "lock", "ask"}
  PROVE  /\ Typed' /\ Turned(c) /\ \A d \in Clients : Links(d)' /\ Script(d)'
         /\ phase' = phase /\ todo' = todo
<1>1. /\ pc' = [pc EXCEPT ![c] = l] /\ UNCHANGED <<act, phase, todo, linkVars>>
      /\ phase[c] \in Running
  BY DEF At, TypeOK, Script
<1>2. Typed'
  BY <1>1 DEF linkVars, TypeOK, Typed
<1>3. Turned(c)
  BY <1>1 DEF linkVars, TypeOK, Turned, Running, Over
<1>4. \A d \in Clients : Links(d)' /\ Script(d)'
  BY <1>1 DEF linkVars, TypeOK, Links, Script, Conn
<1> QED
  BY <1>1, <1>2, <1>3, <1>4

\* get() returns an answer: a client is done after what it had to do, and the
\* session of use_dev --lock begins with the answer to lock.
LEMMA AnswerKeeps ==
  ASSUME NEW c \in Clients, TypeOK, \A d \in Clients : Script(d) /\ Links(d),
         todo[c] # << >>, UNCHANGED up, Answer(c)
  PROVE  /\ Typed' /\ Turned(c) /\ \A d \in Clients : Links(d)' /\ Script(d)'
         /\ phase'[c] = "done" /\ act[c] \in Interactive \cup {"ask"} =>
              Head(todo[c]) \in {"release", "release_all"}
         /\ act[c] = "lock_dev" =>
              /\ phase'[c] = "opening" => phase[c] = "opening" /\ Head(todo'[c]) # "use"
              /\ phase'[c] = "session" =>
                   phase[c] = "session" \/ (phase[c] = "opening" /\ Head(todo[c]) = "lock")
<1> DEFINE rest == Tail(todo[c])
           goesOn == \/ phase[c] = "session"
                     \/ phase[c] = "opening" /\ act[c] \in Interactive \cup {"monitor"}
           p == IF rest # << >> THEN phase[c] ELSE IF goesOn THEN "session" ELSE "done"
<1>1. phase[c] \in Running /\ rest \in Seq(Requests)
  BY Sends
<1>2. p \in Running \cup Over
  BY <1>1 DEF Running, Over
<1>3. Moves(c, p, rest)
  BY DEF Answer
<1>4. /\ Typed' /\ Turned(c) /\ \A d \in Clients : Links(d)'
      /\ \A d \in Clients \ {c} : Script(d)'
      /\ phase'[c] = p /\ todo'[c] = rest /\ pc'[c] = "ready"
  BY <1>1, <1>2, <1>3, MovesKeep
<1>5. act' = act
  BY <1>4 DEF Turned
<1>6. CASE rest # << >>
  <2>1. /\ p = "opening" /\ phase[c] = "opening"
        /\ act[c] \in {"ask", "use_dev", "lock_dev"}
    <3>1. phase[c] # "closing" /\ phase[c] # "session"
      BY <1>6, Sends
    <3>2. phase[c] = "opening"
      BY <1>1, <3>1 DEF Running
    <3>3. act[c] \in {"ask", "use_dev", "lock_dev"}
      BY <1>6, <3>2, Sends
    <3>4. p = phase[c]
      BY <1>6
    <3> HIDE DEF p
    <3> QED
      BY <3>2, <3>3, <3>4
  <2>2. \/ act[c] = "ask" /\ rest = <<"release">>
        \/ act[c] = "use_dev" /\ rest = <<"set_conn_name">>
        \/ act[c] = "lock_dev" /\ rest \in {<<"set_conn_name", "lock">>, <<"lock">>}
    BY <1>6, <2>1, Sends
  <2>3. Script(c)'
    BY <1>4, <1>5, <1>6, <2>1, <2>2 DEF Script, Running, Over
  <2>4. act[c] = "lock_dev" => Head(rest) # "use"
    <3>1. Head(<<"set_conn_name", "lock">>) = "set_conn_name" /\ Head(<<"lock">>) = "lock"
      BY Few
    <3> QED
      BY <2>1, <2>2, <3>1
  <2> QED
    BY <1>4, <2>1, <2>3, <2>4
<1>7. CASE rest = << >>
  <2>1. p = IF \/ phase[c] = "opening" /\ act[c] \in Interactive \cup {"monitor"}
               \/ phase[c] = "session"
            THEN "session" ELSE "done"
    BY <1>7
  <2>2. phase[c] = "session" => act[c] \in Interactive \cup {"monitor"}
    BY DEF Script
  <2>3. Script(c)'
    BY <1>4, <1>5, <1>7, <2>1, <2>2 DEF Script, Running, Over
  <2>4. p = "done" /\ act[c] \in Interactive \cup {"ask"} =>
          Head(todo[c]) \in {"release", "release_all"}
    <3>1. phase[c] \in {"opening", "closing"} => \/ phase[c] = "closing"
                                                 \/ phase[c] = "opening"
      OBVIOUS
    <3>2. phase[c] = "opening" /\ act[c] = "ask" => Head(todo[c]) = "release"
      <4>1. <<"release">> # << >>
        BY Few
      <4> QED
        BY <1>7, <4>1, Sends
    <3>3. phase[c] = "closing" => Head(todo[c]) = "release_all"
      BY Sends
    <3> QED
      BY <1>1, <2>1, <3>2, <3>3 DEF Running
  <2>5. ASSUME act[c] = "lock_dev", phase[c] = "opening"
        PROVE  Head(todo[c]) = "lock"
    <3>1. <<"set_conn_name", "lock">> # << >> /\ <<"lock">> # << >>
      BY Few
    <3> QED
      BY <1>7, <2>5, <3>1, Sends
  <2>6. p # "opening" /\ (p = "session" => phase[c] \in {"opening", "session"})
    BY <2>1
  <2> QED
    BY <1>4, <2>3, <2>4, <2>5, <2>6
<1> QED
  BY <1>6, <1>7

\* get() throws.
LEMMA ErrorKeeps ==
  ASSUME NEW c \in Clients, TypeOK, \A d \in Clients : Script(d) /\ Links(d),
         todo[c] # << >>, UNCHANGED up, Error(c)
  PROVE  /\ Typed' /\ Turned(c) /\ \A d \in Clients : Links(d)' /\ Script(d)'
         /\ phase'[c] \in {"session", "failed"}
         /\ phase'[c] = "session" => phase[c] = "session"
<1> DEFINE p == IF phase[c] = "session" /\ act[c] \in Interactive THEN "session" ELSE "failed"
<1>1. phase[c] \in Running /\ << >> \in Seq(Requests)
  BY Sends
<1>2. p \in Running \cup Over
  BY DEF Running, Over
<1>3. Moves(c, p, << >>)
  BY DEF Error
<1>4. /\ Typed' /\ Turned(c) /\ \A d \in Clients : Links(d)'
      /\ \A d \in Clients \ {c} : Script(d)'
      /\ phase'[c] = p /\ todo'[c] = << >> /\ pc'[c] = "ready"
  BY <1>1, <1>2, <1>3, MovesKeep
<1>5. Script(c)'
  BY <1>4 DEF Script, Turned
<1> QED
  BY <1>4, <1>5

-----------------------------------------------------------------------------
(* What the steps of one client mean for connections and for locks.        *)

\* Only a live connection gets something, and not by the last request.
LEMMA HeldKept ==
  ASSUME NEW c \in Clients, TypeOK, Links(c), NothingHeld, Turned(c), phase[c] \in Running,
         users' \subseteq users \cup {Conn(c)}, logs' \subseteq logs \cup {Conn(c)},
         Conn(c) \in users' \cup logs' => Conn(c) \in users \cup logs \/ linked[c],
         phase'[c] = "done" /\ act[c] \in Interactive \cup {"ask"} =>
           Conn(c) \notin users' \cup logs'
  PROVE  NothingHeld'
<1>1. \A d \in Clients : Conn(d)' = Conn(d)
  BY DEF Turned, Conn
<1>2. ASSUME NEW n \in users' \cup logs'
      PROVE  n \in ended' \/ (linked'[n[1]] /\ n = Conn(n[1])')
  <2>1. n \in ended \/ (linked[n[1]] /\ n = Conn(n[1]))
    <3>1. CASE n \in users \cup logs
      BY <3>1 DEF NothingHeld
    <3>2. CASE n \notin users \cup logs
      BY <3>2 DEF Conn
    <3> QED
      BY <3>1, <3>2
  <2>2. CASE n \in ended
    BY <2>2 DEF Turned
  <2>3. CASE n \notin ended
    <3>1. n = Conn(n[1]) /\ linked[n[1]]
      BY <2>1, <2>3
    <3>2. n[1] \in Clients
      <4>1. n \in users \cup logs \cup {Conn(c)}
        OBVIOUS
      <4> QED
        BY <4>1 DEF TypeOK, Conns, Conn
    <3>3. CASE n[1] = c
      BY <1>1, <3>1, <3>3 DEF Turned
    <3>4. CASE n[1] # c
      BY <1>1, <3>1, <3>2, <3>4 DEF Turned
    <3> QED
      BY <3>3, <3>4
  <2> QED
    BY <2>2, <2>3
<1>3. ASSUME NEW d \in Clients, phase'[d] = "done", act'[d] \in Interactive \cup {"ask"}
      PROVE  Conn(d)' \notin users' \cup logs'
  <2>1. CASE d = c
    BY <1>1, <1>3, <2>1 DEF Turned
  <2>2. CASE d # c
    <3>1. Conn(d) \notin users \cup logs
      BY <1>3, <2>2 DEF Turned, NothingHeld
    <3>2. Conn(d) # Conn(c)
      BY <2>2 DEF Conn
    <3> QED
      BY <1>1, <3>1, <3>2
  <2> QED
    BY <2>1, <2>2
<1> QED
  BY <1>2, <1>3 DEF NothingHeld

\* A step of one client takes nothing from another one that has locked the
\* device, unless that one is told to be undone.
LEMMA OthersHold ==
  ASSUME NEW c \in Clients, TypeOK, Turned(c), \A d \in Clients : Holds(d),
         undone \subseteq undone',
         \A d \in Clients \ {c} :
           act[d] = "lock_dev" /\ phase[d] \in Running /\ d \notin undone' =>
             /\ Conn(d) \in users => Conn(d) \in users'
             /\ locked /\ users = {Conn(d)} => locked' /\ users' = users
  PROVE  \A d \in Clients \ {c} : Holds(d)'
<1> TAKE d \in Clients \ {c}
<1>1. /\ Conn(d)' = Conn(d) /\ act' = act /\ phase'[d] = phase[d] /\ todo'[d] = todo[d]
      /\ linked'[d] = linked[d]
  BY DEF Turned, Conn
<1>2. SUFFICES ASSUME act[d] = "lock_dev", d \notin undone', phase[d] \in {"opening", "session"}
               PROVE  Holds(d)'
  BY <1>1 DEF Holds
<1>3. /\ Conn(d) \in users => Conn(d) \in users'
      /\ locked /\ users = {Conn(d)} => locked' /\ users' = users
  BY <1>2 DEF Running
<1>4. Holds(d) /\ d \notin undone
  BY <1>2
<1> QED
  BY <1>1, <1>2, <1>3, <1>4 DEF Holds

\* The invariant after a step of one client, from its parts
LEMMA StepKeeps ==
  ASSUME NEW c \in Clients, IInv, Typed', Turned(c), phase[c] \in Running,
         \A d \in Clients : Links(d)' /\ Script(d)',
         UNCHANGED up, locked' \in BOOLEAN, undone \subseteq undone', undone' \subseteq Clients,
         IsFiniteSet(users'),
         users' \subseteq users \cup {Conn(c)}, logs' \subseteq logs \cup {Conn(c)},
         Conn(c) \in users' \cup logs' => Conn(c) \in users \cup logs \/ linked[c],
         phase'[c] = "done" /\ act[c] \in Interactive \cup {"ask"} =>
           Conn(c) \notin users' \cup logs',
         \A d \in Clients \ {c} :
           act[d] = "lock_dev" /\ phase[d] \in Running /\ d \notin undone' =>
             /\ Conn(d) \in users => Conn(d) \in users'
             /\ locked /\ users = {Conn(d)} => locked' /\ users' = users,
         Holds(c)'
  PROVE  IInv'
<1>1. NothingHeld'
  BY HeldKept DEF IInv
<1>2. \A d \in Clients \ {c} : Holds(d)'
  BY OthersHold DEF IInv
<1>3. users' \subseteq Conns /\ logs' \subseteq Conns
  <2>1. linked[c] => Conn(c) \in Conns
    BY ConnOK DEF IInv
  <2>2. users \subseteq Conns /\ logs \subseteq Conns
    BY DEF IInv, TypeOK
  <2> QED
    BY <2>1, <2>2
<1>4. TypeOK'
  <2>1. up' \in BOOLEAN
    BY DEF IInv, TypeOK
  <2> QED
    BY <1>3, <2>1 DEF TypeOK, Typed
<1> QED
  BY <1>1, <1>2, <1>4 DEF IInv

-----------------------------------------------------------------------------
(* The actions.                                                            *)

\* An answer that changes nothing, or something of others than a lock
LEMMA HoldsAnswered ==
  ASSUME NEW c \in Clients, IInv, todo[c] # << >>, UNCHANGED up, Answer(c), linked[c],
         undone \subseteq undone',
         act[c] = "lock_dev" /\ c \notin undone' =>
           /\ phase[c] = "opening" => Conn(c) \in users'
           /\ phase[c] = "session" => users' = users /\ (locked => locked')
           /\ phase[c] = "opening" /\ Head(todo[c]) = "lock" => users' = {Conn(c)} /\ locked'
  PROVE  Holds(c)'
<1>1. /\ Turned(c) /\ phase[c] \in Running
      /\ act[c] = "lock_dev" =>
           /\ phase'[c] = "opening" => phase[c] = "opening" /\ Head(todo'[c]) # "use"
           /\ phase'[c] = "session" =>
                phase[c] = "session" \/ (phase[c] = "opening" /\ Head(todo[c]) = "lock")
  BY AnswerKeeps, Sends DEF IInv
<1>2. SUFFICES ASSUME act[c] = "lock_dev", c \notin undone', phase'[c] \in {"opening", "session"}
               PROVE  Holds(c)'
  BY <1>1 DEF Holds, Turned
<1>3. Conn(c)' = Conn(c) /\ linked'[c]
  BY <1>1, <1>2 DEF Turned, Conn, Over
<1>4. Holds(c) /\ c \notin undone
  BY <1>2 DEF IInv
<1>5. CASE phase'[c] = "opening"
  BY <1>1, <1>2, <1>3, <1>5 DEF Holds
<1>6. CASE phase'[c] = "session"
  BY <1>1, <1>2, <1>3, <1>4, <1>6 DEF Holds
<1> QED
  BY <1>2, <1>5, <1>6

\* An error leaves the session as it is.
LEMMA HoldsErred ==
  ASSUME NEW c \in Clients, IInv, todo[c] # << >>, Error(c),
         UNCHANGED <<users, locked, up>>, undone \subseteq undone'
  PROVE  Holds(c)'
<1>1. /\ Turned(c) /\ phase'[c] \in {"session", "failed"}
      /\ phase'[c] = "session" => phase[c] = "session"
  BY ErrorKeeps DEF IInv
<1> QED
  BY <1>1 DEF IInv, Holds, Turned, Conn, Over

\* An error
LEMMA ErrorIInv ==
  ASSUME NEW c \in Clients, IInv, todo[c] # << >>, Error(c), UNCHANGED <<deviceVars, up, undone>>
  PROVE  IInv'
<1>1. /\ Typed' /\ Turned(c) /\ \A d \in Clients : Links(d)' /\ Script(d)'
      /\ phase'[c] # "done" /\ phase[c] \in Running
  BY ErrorKeeps, Sends DEF IInv
<1>2. Holds(c)'
  BY HoldsErred DEF deviceVars
<1>3. locked' \in BOOLEAN /\ undone' \subseteq Clients /\ IsFiniteSet(users')
  BY DEF deviceVars, IInv, TypeOK
<1> QED
  BY <1>1, <1>2, <1>3, StepKeeps DEF deviceVars

\* An answer to a request that changes nothing
LEMMA AnswerIInv ==
  ASSUME NEW c \in Clients, IInv, todo[c] # << >>, linked[c], Answer(c),
         UNCHANGED <<deviceVars, up, undone>>,
         Head(todo[c]) \notin {"release", "release_all", "lock"},
         Head(todo[c]) = "use" => Conn(c) \in users
  PROVE  IInv'
<1>1. /\ Typed' /\ Turned(c) /\ \A d \in Clients : Links(d)' /\ Script(d)'
      /\ phase[c] \in Running
      /\ phase'[c] = "done" /\ act[c] \in Interactive \cup {"ask"} =>
           Head(todo[c]) \in {"release", "release_all"}
  BY AnswerKeeps, Sends DEF IInv
<1>2. Holds(c)'
  <2>1. act[c] = "lock_dev" /\ c \notin undone /\ phase[c] = "opening" => Conn(c) \in users
    BY DEF IInv, Holds
  <2> QED
    BY <2>1, HoldsAnswered DEF deviceVars
<1>3. locked' \in BOOLEAN /\ undone' \subseteq Clients /\ IsFiniteSet(users')
  BY DEF deviceVars, IInv, TypeOK
<1> QED
  BY <1>1, <1>2, <1>3, StepKeeps DEF deviceVars

\* The thread goes on with its request.
LEMMA AtIInv ==
  ASSUME NEW c \in Clients, IInv, todo[c] # << >>, NEW l \in {"join", "lock"},
         At(c, l), l = "lock" => Head(todo[c]) = "lock",
         Head(todo[c]) \in {"use", "lock", "ask"},
         UNCHANGED <<deviceVars, up, undone>>
  PROVE  IInv'
<1>1. /\ Typed' /\ Turned(c) /\ \A d \in Clients : Links(d)' /\ Script(d)'
      /\ phase[c] \in Running /\ phase' = phase /\ todo' = todo
  BY AtKeeps, Sends DEF IInv
<1>2. Holds(c)'
  BY <1>1 DEF deviceVars, IInv, Holds, Turned, Conn, Running, Over
<1>3. locked' \in BOOLEAN /\ undone' \subseteq Clients /\ IsFiniteSet(users')
  BY DEF deviceVars, IInv, TypeOK
<1>4. phase'[c] # "done"
  BY <1>1 DEF Running
<1> QED
  BY <1>1, <1>2, <1>3, <1>4, StepKeeps DEF deviceVars

\* A request that the server receives
LEMMA Received ==
  ASSUME NEW c \in Clients, IInv, NEW R, Request(c, R)
  PROVE  todo[c] # << >> /\ linked[c] /\ Head(todo[c]) \in R /\ phase[c] \in Running
  BY DEF Request, Sending

\* Requests that leave the device and its buffers alone
LEMMA ReadersIInv ==
  ASSUME NEW c \in Clients, IInv, Refuse(c) \/ Use(c) \/ Serve(c) \/ LogGet(c)
  PROVE  IInv'
<1>1. CASE Refuse(c)
  BY <1>1, Received, ErrorIInv DEF Refuse
<1>2. CASE Use(c)
  <2>1. /\ todo[c] # << >> /\ linked[c] /\ Head(todo[c]) \in {"use", "lock", "ask"}
        /\ UNCHANGED <<deviceVars, up, undone>>
    BY <1>2, Received DEF Use
  <2>2. CASE Conn(c) \in users
    <3>1. Used(c)
      BY <1>2, <2>2 DEF Use
    <3>2. CASE Head(todo[c]) = "lock"
      BY <2>1, <3>1, <3>2, AtIInv DEF Used
    <3>3. CASE Head(todo[c]) # "lock"
      BY <2>1, <2>2, <3>1, <3>3, AnswerIInv DEF Used
    <3> QED
      BY <3>2, <3>3
  <2>3. CASE Conn(c) \notin users
    <3>1. Error(c) \/ At(c, "join")
      BY <1>2, <2>3 DEF Use
    <3> QED
      BY <2>1, <3>1, ErrorIInv, AtIInv
  <2> QED
    BY <2>2, <2>3
<1>3. CASE Serve(c)
  BY <1>3, Received, AnswerIInv DEF Serve
<1>4. CASE LogGet(c)
  <2>1. /\ todo[c] # << >> /\ linked[c] /\ Head(todo[c]) = "log_get"
        /\ UNCHANGED <<deviceVars, up, undone>>
    BY <1>4, Received DEF LogGet
  <2> QED
    BY <1>4, <2>1, ErrorIInv, AnswerIInv DEF LogGet
<1> QED
  BY <1>1, <1>2, <1>3, <1>4

\* Buffers for the log
LEMMA LogsIInv ==
  ASSUME NEW c \in Clients, IInv, LogStart(c) \/ LogFinish(c)
  PROVE  IInv'
<1>1. /\ todo[c] # << >> /\ linked[c] /\ Head(todo[c]) \in {"log_start", "log_finish"}
      /\ Answer(c) /\ UNCHANGED <<users, locked, up, undone>> /\ logs' \subseteq logs \cup {Conn(c)}
  BY Received DEF LogStart, LogFinish
<1>2. /\ Typed' /\ Turned(c) /\ \A d \in Clients : Links(d)' /\ Script(d)'
      /\ phase[c] \in Running
      /\ ~(phase'[c] = "done" /\ act[c] \in Interactive \cup {"ask"})
  BY <1>1, AnswerKeeps, Sends DEF IInv
<1>3. Holds(c)'
  <2>1. act[c] = "lock_dev" /\ c \notin undone /\ phase[c] = "opening" => Conn(c) \in users
    BY <1>1 DEF IInv, Holds
  <2> QED
    BY <1>1, <2>1, HoldsAnswered
<1>4. locked' \in BOOLEAN /\ undone' \subseteq Clients /\ IsFiniteSet(users')
  BY <1>1 DEF IInv, TypeOK
<1> QED
  BY <1>1, <1>2, <1>3, <1>4, StepKeeps

\* A connection joins the users; the one who has locked is undone.
LEMMA JoinIInv ==
  ASSUME NEW c \in Clients, IInv, Join(c)
  PROVE  IInv'
<1>1. todo[c] # << >> /\ linked[c] /\ phase[c] \in Running /\ UNCHANGED <<locked, logs, up>>
  BY DEF Join, IInv, Script
<1>2. CASE UNCHANGED <<users, undone>> /\ Error(c)
  BY <1>1, <1>2, ErrorIInv DEF deviceVars
<1>3. ASSUME users' = users \cup {Conn(c)},
             Undo(IF locked THEN {d \in Clients : Conn(d) \in users} ELSE {}), Used(c)
      PROVE  IInv'
  <2>1. /\ undone \subseteq undone' /\ undone' \subseteq Clients
        /\ \A d \in Clients : locked /\ Conn(d) \in users /\ act[d] = "lock_dev"
                                /\ phase[d] \in Running => d \in undone'
    BY <1>3 DEF Undo, IInv, TypeOK
  <2>2. /\ Typed' /\ Turned(c) /\ \A d \in Clients : Links(d)' /\ Script(d)'
        /\ phase'[c] = "done" /\ act[c] \in Interactive \cup {"ask"} =>
             Head(todo[c]) \in {"release", "release_all"}
    <3>1. CASE Head(todo[c]) = "lock"
      <4>1. At(c, "lock")
        BY <1>3, <3>1 DEF Used
      <4> QED
        BY <1>1, <3>1, <4>1, AtKeeps DEF IInv, Running
    <3>2. CASE Head(todo[c]) # "lock"
      <4>1. Answer(c)
        BY <1>3, <3>2 DEF Used
      <4> QED
        BY <1>1, <4>1, AnswerKeeps DEF IInv
    <3> QED
      BY <3>1, <3>2
  <2>3. Head(todo[c]) \notin {"release", "release_all"}
    BY DEF Join, IInv, Script
  <2>4. Holds(c)'
    <3>1. CASE Head(todo[c]) = "lock"
      <4>1. At(c, "lock")
        BY <1>3, <3>1 DEF Used
      <4>2. phase' = phase /\ todo' = todo
        BY <4>1 DEF At
      <4> QED
        BY <1>1, <1>3, <2>1, <2>2, <4>2 DEF IInv, Holds, Turned, Conn, Running, Over
    <3>2. CASE Head(todo[c]) # "lock"
      <4>1. Answer(c)
        BY <1>3, <3>2 DEF Used
      <4>2. ASSUME act[c] = "lock_dev", c \notin undone', phase[c] = "session"
            PROVE  users' = users
        BY <1>3, <2>1, <4>2 DEF IInv, Holds
      <4> QED
        BY <1>1, <1>3, <2>1, <3>2, <4>1, <4>2, HoldsAnswered
    <3> QED
      BY <3>1, <3>2
  <2>5. IsFiniteSet(users')
    BY <1>3, FS_AddElement DEF IInv
  <2>6. locked' \in BOOLEAN
    BY <1>1 DEF IInv, TypeOK
  <2> QED
    BY <1>1, <1>3, <2>1, <2>2, <2>3, <2>4, <2>5, <2>6, StepKeeps
<1> QED
  BY <1>2, <1>3 DEF Join

\* lock(): one user, who is the one that the test use() has let in
LEMMA LockIInv ==
  ASSUME NEW c \in Clients, IInv, Lock(c)
  PROVE  IInv'
<1>1. /\ todo[c] # << >> /\ linked[c] /\ phase[c] \in Running /\ Head(todo[c]) = "lock"
      /\ UNCHANGED <<users, logs, up, undone>>
  BY DEF Lock, IInv, Script
<1>2. CASE Cardinality(users) # 1
  BY <1>1, <1>2, ErrorIInv DEF Lock, deviceVars
<1>3. CASE Cardinality(users) = 1
  <2>1. locked' = TRUE /\ Answer(c)
    BY <1>3 DEF Lock
  <2>2. PICK u : users = {u}
    BY <1>3, FS_Singleton DEF IInv
  <2>3. Holds(c)'
    <3>1. act[c] = "lock_dev" /\ c \notin undone => phase[c] # "session"
      BY <1>1, Sends DEF IInv
    <3>2. act[c] = "lock_dev" /\ c \notin undone /\ phase[c] = "opening" => Conn(c) \in users
      BY <1>1 DEF IInv, Holds
    <3> QED
      BY <1>1, <2>1, <2>2, <3>1, <3>2, HoldsAnswered
  <2>4. /\ Typed' /\ Turned(c) /\ \A d \in Clients : Links(d)' /\ Script(d)'
        /\ ~(phase'[c] = "done" /\ act[c] \in Interactive \cup {"ask"})
    BY <1>1, <2>1, AnswerKeeps DEF IInv
  <2>5. undone' \subseteq Clients /\ IsFiniteSet(users')
    BY <1>1 DEF IInv, TypeOK
  <2> QED
    BY <1>1, <2>1, <2>3, <2>4, <2>5, StepKeeps
<1> QED
  BY <1>2, <1>3

\* unlock(): of a locked device only by a user
LEMMA UnlockIInv ==
  ASSUME NEW c \in Clients, IInv, Unlock(c)
  PROVE  IInv'
<1>1. /\ todo[c] # << >> /\ linked[c] /\ phase[c] \in Running /\ Head(todo[c]) = "unlock"
      /\ UNCHANGED <<users, logs, up, undone>>
  BY Received DEF Unlock
<1>2. CASE locked /\ Conn(c) \notin users
  BY <1>1, <1>2, ErrorIInv DEF Unlock, deviceVars
<1>3. CASE ~(locked /\ Conn(c) \notin users)
  <2>1. locked' = FALSE /\ Answer(c)
    BY <1>3 DEF Unlock
  <2>2. act[c] = "lock_dev" => phase[c] \notin {"opening", "session"}
    BY <1>1, Sends DEF IInv
  <2>3. Holds(c)'
    BY <1>1, <2>1, <2>2, HoldsAnswered
  <2>4. /\ Typed' /\ Turned(c) /\ \A d \in Clients : Links(d)' /\ Script(d)'
        /\ ~(phase'[c] = "done" /\ act[c] \in Interactive \cup {"ask"})
    BY <1>1, <2>1, AnswerKeeps DEF IInv
  <2>5. undone' \subseteq Clients /\ IsFiniteSet(users')
    BY <1>1 DEF IInv, TypeOK
  <2>6. \A d \in Clients \ {c} : ~(locked /\ users = {Conn(d)})
    BY <1>3 DEF Conn
  <2> QED
    BY <1>1, <2>1, <2>3, <2>4, <2>5, <2>6, StepKeeps
<1> QED
  BY <1>2, <1>3

\* Device::release at the request of a user: only his own things
LEMMA ReleaseIInv ==
  ASSUME NEW c \in Clients, IInv, Release(c)
  PROVE  IInv'
<1>1. /\ todo[c] # << >> /\ linked[c] /\ phase[c] \in Running
      /\ Head(todo[c]) \in {"release", "release_all"} /\ Answer(c) /\ UNCHANGED <<up, undone>>
      /\ users' = users \ {Conn(c)} /\ locked' = (locked /\ Conn(c) \notin users)
      /\ logs' = logs \ {Conn(c)}
  BY Received DEF Release, Released
<1>2. act[c] = "lock_dev" => phase[c] \notin {"opening", "session"}
  BY <1>1, Sends DEF IInv
<1>3. Holds(c)'
  BY <1>1, <1>2, HoldsAnswered
<1>4. Typed' /\ Turned(c) /\ \A d \in Clients : Links(d)' /\ Script(d)'
  BY <1>1, AnswerKeeps DEF IInv
<1>5. undone' \subseteq Clients /\ IsFiniteSet(users') /\ locked' \in BOOLEAN
  BY <1>1, FS_RemoveElement DEF IInv, TypeOK
<1>6. ASSUME NEW d \in Clients \ {c}
      PROVE  /\ Conn(d) \in users => Conn(d) \in users'
             /\ locked /\ users = {Conn(d)} => locked' /\ users' = users
  <2>1. Conn(d) # Conn(c)
    BY <1>6 DEF Conn
  <2> QED
    BY <1>1, <2>1
<1> QED
  BY <1>1, <1>3, <1>4, <1>5, <1>6, StepKeeps

\* Device::close, reload: every user is undone.
LEMMA DropIInv ==
  ASSUME NEW c \in Clients, IInv, Drop(c)
  PROVE  IInv'
<1>1. /\ todo[c] # << >> /\ linked[c] /\ phase[c] \in Running
      /\ Head(todo[c]) \in {"close", "reload"} /\ Answer(c) /\ UNCHANGED up
      /\ users' = {} /\ locked' = FALSE /\ logs' = {}
  BY Received DEF Drop
<1>2. /\ undone \subseteq undone' /\ undone' \subseteq Clients
      /\ \A d \in Clients : act[d] = "lock_dev" /\ phase[d] \in Running /\ Conn(d) \in users
                              => d \in undone'
  BY DEF Drop, Undo, IInv, TypeOK
<1>3. act[c] = "lock_dev" => phase[c] \notin {"opening", "session"}
  BY <1>1, Sends DEF IInv
<1>4. Holds(c)'
  BY <1>1, <1>2, <1>3, HoldsAnswered
<1>5. Typed' /\ Turned(c) /\ \A d \in Clients : Links(d)' /\ Script(d)'
  BY <1>1, AnswerKeeps DEF IInv
<1>6. IsFiniteSet(users')
  BY <1>1, FS_EmptySet
<1> QED
  BY <1>1, <1>2, <1>4, <1>5, <1>6, StepKeeps

\* What the user, and the loop of monitor, make a client send
LEMMA InputIInv ==
  ASSUME NEW c \in Clients, IInv, Start(c) \/ Line(c) \/ Quit(c)
  PROVE  IInv'
<1> USE DEF IInv
<1>1. UNCHANGED <<pc, linkVars, deviceVars, up, undone>> /\ pc[c] = "ready"
  BY DEF Start, Line, Quit, Looping, Script, Running, linkVars, deviceVars, clientVars
<1>2. \A d \in Clients : Conn(d)' = Conn(d)
  BY <1>1 DEF linkVars, Conn
<1>3. CASE Start(c)
  <2>1. PICK a \in Acts : /\ act' = [act EXCEPT ![c] = a] /\ todo' = [todo EXCEPT ![c] = Opening(a)]
                          /\ phase' = [phase EXCEPT ![c] = "opening"] /\ phase[c] = "off"
    BY <1>3 DEF Start
  <2>2. /\ a \in ActNames /\ a # "none" /\ Opening(a) \in Seq(Requests) /\ Opening(a) # << >>
        /\ a = "lock_dev" => Head(Opening(a)) = "use"
    <3>1. a \in ActNames /\ a # "none"
      BY ActsAssumption DEF ActNames
    <3>2. /\ {"ask", "release", "use", "set_conn_name", "lock", "ping", "log_start"} \subseteq Requests
          /\ ActNames \ {"ask", "use_dev", "lock_dev", "use_srv", "monitor"} \subseteq Requests
      BY DEF Requests, ActNames
    <3>3. Opening(a) \in {<<"ask", "release">>, <<"use", "set_conn_name">>,
                          <<"use", "set_conn_name", "lock">>, <<"ping">>, <<"log_start">>}
          \/ \E r \in Requests : Opening(a) = <<r>>
      BY <3>1, <3>2 DEF Opening
    <3>4. Opening(a) \in Seq(Requests)
      <4>1. /\ "ask" \in Requests /\ "release" \in Requests /\ "use" \in Requests
            /\ "set_conn_name" \in Requests /\ "lock" \in Requests
            /\ "ping" \in Requests /\ "log_start" \in Requests
        BY DEF Requests
      <4> HIDE DEF Requests
      <4>2. /\ <<"ask", "release">> \in Seq(Requests) /\ <<"use", "set_conn_name">> \in Seq(Requests)
            /\ <<"use", "set_conn_name", "lock">> \in Seq(Requests)
            /\ <<"ping">> \in Seq(Requests) /\ <<"log_start">> \in Seq(Requests)
            /\ \A r \in Requests : <<r>> \in Seq(Requests)
        BY <4>1
      <4> QED
        BY <3>3, <4>2
    <3>5. Opening(a) # << >>
      BY <3>3, Few
    <3>6. a = "lock_dev" => Opening(a) = <<"use", "set_conn_name", "lock">>
      BY DEF Opening
    <3> QED
      BY <3>1, <3>4, <3>5, <3>6, Few
  <2>3. TypeOK'
    <3> HIDE DEF Requests
    <3> QED
      BY <1>1, <1>2, <2>1, <2>2 DEF TypeOK, linkVars, deviceVars, Running, Over
  <2>4. \A d \in Clients : Script(d)'
    <3> TAKE d \in Clients
    <3>1. CASE d = c
      BY <1>1, <2>1, <2>2, <3>1 DEF Script, TypeOK, Running, Over
    <3>2. CASE d # c
      BY <1>1, <2>1, <3>2 DEF Script, TypeOK
    <3> QED
      BY <3>1, <3>2
  <2>5. NothingHeld' /\ \A d \in Clients : Links(d)'
    <3>1. /\ users' = users /\ logs' = logs /\ ended' = ended /\ linked' = linked /\ k' = k
          /\ phase'[c] \in Running /\ phase[c] \in {"off"} \cup Running
          /\ \A d \in Clients \ {c} : phase'[d] = phase[d] /\ act'[d] = act[d]
      BY <1>1, <2>1 DEF linkVars, deviceVars, TypeOK, Running
    <3>2. NothingHeld'
      <4>1. \A n \in users' \cup logs' : n \in ended' \/ (linked'[n[1]] /\ n = Conn(n[1])')
        BY <3>1 DEF NothingHeld, Conn
      <4>2. phase'[c] # "done"
        BY <3>1 DEF Running
      <4>3. \A d \in Clients : phase'[d] = "done" /\ act'[d] \in Interactive \cup {"ask"}
                                => Conn(d)' \notin users' \cup logs'
        BY <1>2, <3>1, <4>2 DEF NothingHeld
      <4> QED
        BY <4>1, <4>3 DEF NothingHeld
    <3>3. \A d \in Clients : Links(d)'
      BY <1>2, <3>1 DEF Links, Running
    <3> QED
      BY <3>2, <3>3
  <2>6. \A d \in Clients : Holds(d)'
    <3> TAKE d \in Clients
    <3>1. CASE d = c
      BY <1>1, <2>1, <2>2, <3>1 DEF Holds, TypeOK
    <3>2. CASE d # c
      BY <1>1, <1>2, <2>1, <3>2 DEF Holds, TypeOK, linkVars, deviceVars
    <3> QED
      BY <3>1, <3>2
  <2> QED
    BY <1>1, <2>3, <2>4, <2>5, <2>6 DEF deviceVars
<1>4. CASE Line(c) \/ Quit(c)
  <2>1. PICK r \in Requests, p \in {"session", "closing"} :
          /\ act' = act /\ todo' = [todo EXCEPT ![c] = <<r>>]
          /\ phase' = [phase EXCEPT ![c] = p] /\ phase[c] = "session"
          /\ p = "closing" => r = "release_all"
          /\ p = "session" /\ act[c] = "lock_dev" => r = "ask"
    <3>1. CASE Quit(c)
      <4>1. "release_all" \in Requests
        BY DEF Requests
      <4> QED
        BY <3>1, <4>1 DEF Quit, Looping
    <3>2. CASE Line(c)
      <4>1. PICK r \in CASE act[c] = "use_srv" -> Lines
                         [] act[c] = "monitor" -> {"log_get"}
                         [] OTHER              -> {"ask"} :
               todo' = [todo EXCEPT ![c] = <<r>>]
        BY <3>2 DEF Line
      <4>2. r \in Requests /\ (act[c] = "lock_dev" => r = "ask")
        BY LinesAssumption DEF Requests
      <4>3. act' = act /\ phase' = [phase EXCEPT ![c] = "session"] /\ phase[c] = "session"
        BY <3>2 DEF Line, Looping, TypeOK
      <4> QED
        BY <4>1, <4>2, <4>3
    <3> QED
      BY <1>4, <3>1, <3>2
  <2>2. <<r>> \in Seq(Requests) /\ <<r>> # << >>
    <3> HIDE DEF Requests
    <3> QED
      BY Few
  <2>3. TypeOK'
    <3> HIDE DEF Requests
    <3> QED
      BY <1>1, <1>2, <2>1, <2>2 DEF TypeOK, linkVars, deviceVars, Running, Over
  <2>4. \A d \in Clients : Script(d)'
    <3> TAKE d \in Clients
    <3>1. CASE d = c
      BY <1>1, <2>1, <2>2, <3>1 DEF Script, TypeOK, Running, Over
    <3>2. CASE d # c
      BY <1>1, <2>1, <3>2 DEF Script, TypeOK
    <3> QED
      BY <3>1, <3>2
  <2>5. NothingHeld' /\ \A d \in Clients : Links(d)'
    <3>1. /\ users' = users /\ logs' = logs /\ ended' = ended /\ linked' = linked /\ k' = k
          /\ phase'[c] \in Running /\ phase[c] \in {"off"} \cup Running
          /\ \A d \in Clients \ {c} : phase'[d] = phase[d] /\ act'[d] = act[d]
      BY <1>1, <2>1 DEF linkVars, deviceVars, TypeOK, Running
    <3>2. NothingHeld'
      <4>1. \A n \in users' \cup logs' : n \in ended' \/ (linked'[n[1]] /\ n = Conn(n[1])')
        BY <3>1 DEF NothingHeld, Conn
      <4>2. phase'[c] # "done"
        BY <3>1 DEF Running
      <4>3. \A d \in Clients : phase'[d] = "done" /\ act'[d] \in Interactive \cup {"ask"}
                                => Conn(d)' \notin users' \cup logs'
        BY <1>2, <3>1, <4>2 DEF NothingHeld
      <4> QED
        BY <4>1, <4>3 DEF NothingHeld
    <3>3. \A d \in Clients : Links(d)'
      BY <1>2, <3>1 DEF Links, Running
    <3> QED
      BY <3>2, <3>3
  <2>6. \A d \in Clients : Holds(d)'
    BY <1>1, <1>2, <2>1 DEF Holds, TypeOK, linkVars, deviceVars
  <2> QED
    BY <1>1, <2>3, <2>4, <2>5, <2>6 DEF deviceVars
<1> QED
  BY <1>3, <1>4

\* A program is killed.
LEMMA KillIInv ==
  ASSUME NEW c \in Clients, IInv, Kill(c)
  PROVE  IInv'
<1>1. /\ phase[c] \in Running /\ Moves(c, "failed", << >>) /\ UNCHANGED <<deviceVars, up, undone>>
      /\ "failed" \in Running \cup Over /\ << >> \in Seq(Requests)
  BY DEF Kill, Over
<1>2. /\ Typed' /\ Turned(c) /\ \A d \in Clients : Links(d)'
      /\ \A d \in Clients \ {c} : Script(d)'
      /\ phase'[c] = "failed" /\ todo'[c] = << >> /\ pc'[c] = "ready"
  BY <1>1, MovesKeep DEF IInv
<1>3. Script(c)' /\ Holds(c)'
  BY <1>2 DEF Script, Holds
<1>4. locked' \in BOOLEAN /\ undone' \subseteq Clients /\ IsFiniteSet(users')
  BY <1>1 DEF deviceVars, IInv, TypeOK
<1> QED
  BY <1>1, <1>2, <1>3, <1>4, StepKeeps DEF deviceVars

\* No server, or no connection: an error; sent again
LEMMA LostIInv ==
  ASSUME NEW c \in Clients, IInv, NoServer(c) \/ Resend(c)
  PROVE  IInv'
<1>1. CASE NoServer(c)
  <2>1. todo[c] # << >>
    BY <1>1 DEF NoServer, Sending, IInv, Script
  <2> QED
    BY <1>1, <2>1, ErrorIInv DEF NoServer
<1>2. CASE Resend(c)
  <2>1. /\ pc' = [pc EXCEPT ![c] = "ready"]
        /\ UNCHANGED <<act, phase, todo, linkVars, deviceVars, up, undone>>
    BY <1>2 DEF Resend
  <2>2. TypeOK'
    BY <2>1 DEF IInv, TypeOK, linkVars, deviceVars, Conn
  <2>3. NothingHeld' /\ \A d \in Clients : Links(d)' /\ Script(d)' /\ Holds(d)'
    BY <2>1 DEF IInv, TypeOK, NothingHeld, Links, Script, Holds, linkVars, deviceVars, Conn
  <2> QED
    BY <2>1, <2>2, <2>3 DEF IInv, deviceVars
<1> QED
  BY <1>1, <1>2

\* A new connection
LEMMA ConnectIInv ==
  ASSUME NEW c \in Clients, IInv, Connect(c)
  PROVE  IInv'
<1> USE DEF IInv
<1>1. /\ phase[c] \in Running /\ up /\ ~linked[c] /\ k[c] \in 0 .. MaxConns /\ k[c] < MaxConns
      /\ k' = [k EXCEPT ![c] = @ + 1] /\ linked' = [linked EXCEPT ![c] = TRUE]
      /\ due' = ended
      /\ UNCHANGED <<clientVars, ended, deviceVars, up, undone>>
  BY DEF Connect, Sending, Links, TypeOK
<1>2. /\ k' \in [Clients -> 0 .. MaxConns] /\ linked' \in [Clients -> BOOLEAN]
      /\ k'[c] = k[c] + 1 /\ linked'[c]
      /\ \A d \in Clients \ {c} : k'[d] = k[d] /\ linked'[d] = linked[d] /\ Conn(d)' = Conn(d)
  <2>1. \A n \in 0 .. MaxConns : n < MaxConns => n + 1 \in 0 .. MaxConns
    BY MaxConnsAssumption
  <2> QED
    BY <1>1, <2>1 DEF TypeOK, Conn
<1>3. TypeOK'
  <2> HIDE DEF Requests
  <2> QED
    BY <1>1, <1>2 DEF TypeOK, clientVars, deviceVars
<1>4. \A d \in Clients : Script(d)'
  BY <1>1 DEF Script, clientVars
<1>5. Conn(c)' \notin users \cup logs \cup ended
  <2>1. \A n \in ended : n[1] = c => n[2] <= k[c] /\ n[2] \in Int
    BY DEF Links, TypeOK, Conns
  <2>2. Conn(c)' = <<c, k[c] + 1>>
    BY <1>2 DEF Conn
  <2>3. Conn(c)' \notin ended
    BY <1>1, <2>1, <2>2
  <2>4. Conn(c)' \notin users \cup logs
    BY <1>1, <2>2, <2>3 DEF NothingHeld, Conn
  <2> QED
    BY <2>3, <2>4
<1>6. \A d \in Clients : Links(d)'
  <2> TAKE d \in Clients
  <2>1. CASE d = c
    <3>1. \A n \in ended : n[1] = c => n[2] <= k[c] + 1
      <4>1. \A n \in ended : n[1] = c => n[2] <= k[c] /\ n[2] \in Int
        BY DEF Links, TypeOK, Conns
      <4> QED
        BY <1>1, <4>1
    <3>2. k'[c] > 0
      BY <1>1, <1>2
    <3> QED
      BY <1>1, <1>2, <1>5, <2>1, <3>1, <3>2 DEF Links
  <2>2. CASE d # c
    BY <1>1, <1>2, <2>2 DEF Links, clientVars
  <2> QED
    BY <2>1, <2>2
<1>7. NothingHeld'
  <2>1. ASSUME NEW n \in users \cup logs
        PROVE  n \in ended \/ (linked'[n[1]] /\ n = Conn(n[1])')
    <3>1. n \in ended \/ (linked[n[1]] /\ n = Conn(n[1]) /\ n[1] # c)
      BY <1>1 DEF NothingHeld
    <3>2. n[1] \in Clients
      BY DEF TypeOK, Conns
    <3> QED
      BY <1>2, <3>1, <3>2
  <2>2. \A d \in Clients : phase[d] = "done" /\ act[d] \in Interactive \cup {"ask"}
                             => Conn(d)' \notin users \cup logs
    BY <1>2, <1>5 DEF NothingHeld
  <2> QED
    BY <1>1, <2>1, <2>2 DEF NothingHeld, clientVars, deviceVars
<1>8. \A d \in Clients : Holds(d)'
  <2> TAKE d \in Clients
  <2>1. CASE d = c
    BY <1>1, <2>1 DEF Holds, clientVars, deviceVars
  <2>2. CASE d # c
    BY <1>1, <1>2, <2>2 DEF Holds, clientVars, deviceVars
  <2> QED
    BY <2>1, <2>2
<1> QED
  BY <1>1, <1>3, <1>4, <1>6, <1>7, <1>8 DEF deviceVars

\* 10 s of silence
LEMMA TimeoutIInv ==
  ASSUME NEW c \in Clients, IInv, Timeout(c)
  PROVE  IInv'
<1> USE DEF IInv
<1>1. /\ linked[c] /\ k[c] < MaxConns /\ phase[c] = "session"
      /\ linked' = [linked EXCEPT ![c] = FALSE] /\ ended' = ended \cup {Conn(c)}
      /\ UNCHANGED <<clientVars, k, due, deviceVars, up>>
      /\ Conn(c) \in Conns
  BY ConnOK DEF Timeout, Looping
<1>2. /\ linked' \in [Clients -> BOOLEAN] /\ ~linked'[c]
      /\ \A d \in Clients \ {c} : linked'[d] = linked[d] /\ Conn(d) # Conn(c)
      /\ \A d \in Clients : Conn(d)' = Conn(d)
  BY <1>1 DEF TypeOK, Conn
<1>3. /\ undone \subseteq undone' /\ undone' \subseteq Clients
      /\ act[c] = "lock_dev" => c \in undone'
  BY <1>1 DEF Timeout, Undo, TypeOK, Running
<1>4. TypeOK'
  <2> HIDE DEF Requests
  <2> QED
    BY <1>1, <1>2, <1>3 DEF TypeOK, clientVars, deviceVars
<1>5. \A d \in Clients : Script(d)'
  BY <1>1 DEF Script, clientVars
<1>6. \A d \in Clients : Links(d)'
  <2> TAKE d \in Clients
  <2>1. k[d] \in Nat
    BY DEF TypeOK
  <2>2. \A n \in ended' : n[1] = d => n[2] <= k[d]
    <3>1. Conn(c)[1] = c /\ Conn(c)[2] = k[c]
      BY DEF Conn
    <3>2. \A n \in ended : n[1] = d => n[2] <= k[d]
      BY DEF Links
    <3>3. \A n \in ended' : n \in ended \/ n = Conn(c)
      BY <1>1
    <3> QED
      BY <2>1, <3>1, <3>2, <3>3
  <2>3. linked'[d] => k[d] > 0 /\ Conn(d) \notin ended'
    BY <1>1, <1>2 DEF Links
  <2> QED
    BY <1>1, <1>2, <2>2, <2>3 DEF Links, clientVars
<1>7. NothingHeld'
  <2>1. ASSUME NEW n \in users \cup logs
        PROVE  n \in ended' \/ (linked'[n[1]] /\ n = Conn(n[1]))
    <3>1. n \in ended \/ (linked[n[1]] /\ n = Conn(n[1]))
      BY DEF NothingHeld
    <3>2. n[1] \in Clients
      BY DEF TypeOK, Conns
    <3> QED
      BY <1>1, <1>2, <3>1, <3>2
  <2>2. \A d \in Clients : phase[d] = "done" /\ act[d] \in Interactive \cup {"ask"}
                             => Conn(d) \notin users \cup logs
    BY DEF NothingHeld
  <2>3. /\ phase' = phase /\ act' = act /\ users' = users /\ logs' = logs
        /\ \A m : Conn(m)' = Conn(m)
    BY <1>1 DEF clientVars, deviceVars, Conn
  <2> QED
    BY <2>1, <2>2, <2>3 DEF NothingHeld
<1>8. \A d \in Clients : Holds(d)'
  BY <1>1, <1>2, <1>3 DEF Holds, clientVars, deviceVars
<1> QED
  BY <1>1, <1>4, <1>5, <1>6, <1>7, <1>8 DEF deviceVars

\* The server notices the end of a connection.
LEMMA ConnCloseIInv ==
  ASSUME NEW n \in Conns, IInv, ConnClose(n)
  PROVE  IInv'
<1> USE DEF IInv
<1>1. /\ n \in ended /\ ended' = ended \ {n} /\ due' = due \ {n}
      /\ UNCHANGED <<clientVars, k, linked, up, undone>>
      /\ users' = users \ {n} /\ locked' = (locked /\ n \notin users) /\ logs' = logs \ {n}
      /\ \A d \in Clients : Conn(d)' = Conn(d)
  BY DEF ConnClose, Released, Conn
<1>2. locked' \in BOOLEAN /\ IsFiniteSet(users')
  BY <1>1, FS_RemoveElement DEF TypeOK
<1>3. TypeOK'
  <2> HIDE DEF Requests
  <2> QED
    BY <1>1, <1>2 DEF TypeOK, clientVars
<1>4. \A d \in Clients : Script(d)' /\ Links(d)'
  BY <1>1 DEF Script, Links, clientVars
<1>5. NothingHeld'
  <2>1. ASSUME NEW x \in users' \cup logs'
        PROVE  x \in ended' \/ (linked'[x[1]] /\ x = Conn(x[1])')
    BY <1>1 DEF NothingHeld, Conn
  <2>2. \A d \in Clients : phase'[d] = "done" /\ act'[d] \in Interactive \cup {"ask"}
                             => Conn(d)' \notin users' \cup logs'
    BY <1>1 DEF NothingHeld, clientVars
  <2> QED
    BY <2>1, <2>2 DEF NothingHeld
<1>6. \A d \in Clients : Holds(d)'
  <2> TAKE d \in Clients
  <2>1. linked[d] => Conn(d) # n
    BY <1>1 DEF Links
  <2>2. linked[d] /\ Conn(d) \in users => Conn(d) \in users'
    BY <1>1, <2>1
  <2>3. linked[d] /\ locked /\ users = {Conn(d)} => locked' /\ users' = {Conn(d)}
    BY <1>1, <2>1
  <2> QED
    BY <1>1, <2>2, <2>3 DEF Holds, clientVars
<1> QED
  BY <1>2, <1>3, <1>4, <1>5, <1>6

\* The server ends and starts.
LEMMA ServerIInv ==
  ASSUME IInv, Stop \/ Restart
  PROVE  IInv'
<1> USE DEF IInv
<1>1. CASE Stop
  <2>1. /\ \A c \in Clients : k[c] < MaxConns
        /\ up' = FALSE /\ linked' = [c \in Clients |-> FALSE]
        /\ users' = {} /\ locked' = FALSE /\ logs' = {} /\ ended' = {} /\ due' = {}
        /\ UNCHANGED <<clientVars, k>>
    BY <1>1 DEF Stop
  <2>2. /\ undone \subseteq undone' /\ undone' \subseteq Clients
        /\ \A d \in Clients : act[d] = "lock_dev" /\ phase[d] \in Running /\ linked[d]
                                => d \in undone'
    BY <1>1 DEF Stop, Undo, TypeOK
  <2>3. TypeOK'
    <3> HIDE DEF Requests
    <3> QED
      BY <2>1, <2>2 DEF TypeOK, clientVars
  <2>4. \A d \in Clients : Script(d)' /\ Links(d)'
    <3> TAKE d \in Clients
    <3>1. Script(d)'
      BY <2>1 DEF Script, clientVars
    <3>2. Links(d)'
      BY <2>1 DEF Links
    <3> QED
      BY <3>1, <3>2
  <2>5. NothingHeld' /\ IsFiniteSet(users')
    BY <2>1, FS_EmptySet DEF NothingHeld
  <2>6. \A d \in Clients : Holds(d)'
    BY <2>1, <2>2 DEF Holds, clientVars, Running
  <2> QED
    BY <2>3, <2>4, <2>5, <2>6
<1>2. CASE Restart
  <2>1. up' = TRUE /\ UNCHANGED <<clientVars, linkVars, deviceVars, undone>>
    BY <1>2 DEF Restart
  <2>2. TypeOK'
    <3> HIDE DEF Requests
    <3> QED
      BY <2>1 DEF TypeOK, clientVars, linkVars, deviceVars
  <2>3. NothingHeld' /\ \A d \in Clients : Links(d)' /\ Script(d)' /\ Holds(d)'
    BY <2>1 DEF NothingHeld, Links, Script, Holds, clientVars, linkVars, deviceVars, Conn
  <2> QED
    BY <2>1, <2>2, <2>3 DEF deviceVars
<1> QED
  BY <1>1, <1>2

\* No client has started.
LEMMA InitIInv == Init => IInv
<1> SUFFICES ASSUME Init PROVE IInv
  OBVIOUS
<1>1. TypeOK
  <2>1. 0 \in 0 .. MaxConns /\ << >> \in Seq(Requests)
    BY MaxConnsAssumption
  <2> HIDE DEF Requests
  <2> QED
    BY <2>1 DEF Init, TypeOK
<1>2. \A c \in Clients : Script(c) /\ Links(c) /\ Holds(c)
  BY MaxConnsAssumption DEF Init, Script, Links, Holds
<1> QED
  BY <1>1, <1>2, FS_EmptySet DEF Init, IInv, NothingHeld

LEMMA NextIInv == IInv /\ [Next]_vars => IInv'
<1> SUFFICES ASSUME IInv, [Next]_vars PROVE IInv'
  OBVIOUS
<1>1. CASE UNCHANGED vars
  <2>1. UNCHANGED <<clientVars, linkVars, deviceVars, up, undone>>
    BY <1>1 DEF vars, clientVars, linkVars, deviceVars
  <2>2. TypeOK' /\ IsFiniteSet(users')
    <3> HIDE DEF Requests
    <3> QED
      BY <2>1 DEF IInv, TypeOK, clientVars, linkVars, deviceVars, Conn
  <2>3. NothingHeld' /\ \A d \in Clients : Links(d)' /\ Script(d)' /\ Holds(d)'
    BY <2>1 DEF IInv, NothingHeld, Links, Script, Holds, clientVars, linkVars, deviceVars, Conn
  <2> QED
    BY <2>2, <2>3 DEF IInv
<1>2. ASSUME NEW c \in Clients,
             Start(c) \/ Line(c) \/ Quit(c) \/ Kill(c) \/ Timeout(c) \/ Step(c)
      PROVE  IInv'
  <2>1. CASE Step(c)
    BY <2>1, ConnectIInv, LostIInv, ReadersIInv, JoinIInv, LockIInv, UnlockIInv,
       ReleaseIInv, DropIInv, LogsIInv DEF Step
  <2> QED
    BY <1>2, <2>1, InputIInv, KillIInv, TimeoutIInv
<1>3. ASSUME NEW n \in Conns, ConnClose(n)
      PROVE  IInv'
  BY <1>3, ConnCloseIInv
<1>4. CASE Stop \/ Restart
  BY <1>4, ServerIInv
<1>5. CASE Terminated
  BY <1>1, <1>5 DEF Terminated
<1> QED
  BY <1>1, <1>2, <1>3, <1>4, <1>5 DEF Next

-----------------------------------------------------------------------------
(* Theorems                                                                *)

\* Clients, connections and the server fit together at every time.
THEOREM IInvHolds == Spec => []IInv
<1> QED
  BY InitIInv, NextIInv, PTL DEF Spec

\* A client that is over has let go of its connection.
THEOREM TypeCorrect == Spec => []TypeOK
<1>1. IInv => TypeOK
  BY DEF IInv
<1> QED
  BY <1>1, IInvHolds, PTL

\* use_dev --lock: the device stays locked by its only user.
THEOREM LocksAreKept == Spec => []LockKept
<1>1. IInv => LockKept
  BY DEF IInv, Holds, LockKept
<1> QED
  BY <1>1, IInvHolds, PTL

\* use_dev --lock: two sessions never hold the device at the same time, unless
\* it was taken away from one of them; both would be its only user.
THEOREM LocksExclude ==
  Spec => [](\A c, d \in Clients \ undone :
               /\ act[c] = "lock_dev" /\ phase[c] = "session"
               /\ act[d] = "lock_dev" /\ phase[d] = "session"
               => c = d)
<1>1. LockKept => \A c, d \in Clients \ undone :
                    /\ act[c] = "lock_dev" /\ phase[c] = "session"
                    /\ act[d] = "lock_dev" /\ phase[d] = "session"
                    => c = d
  <2>1. \A c, d \in Clients : Conn(c) = Conn(d) => c = d
    BY DEF Conn
  <2>2. \A m, n : {m} = {n} => m = n
    OBVIOUS
  <2> HIDE DEF Conn
  <2> QED
    BY <2>1, <2>2 DEF LockKept
<1> QED
  BY <1>1, LocksAreKept, PTL

\* release_all, conn_close: nothing stays with a connection that is gone.
THEOREM NothingStays == Spec => []NothingHeld
<1>1. IInv => NothingHeld
  BY DEF IInv
<1> QED
  BY <1>1, IInvHolds, PTL

-----------------------------------------------------------------------------
(* The device that the clients share implements DeviceSharing.             *)

\* release(), on request or from conn_close
LEMMA ReleasedShares ==
  ASSUME IInv, NEW n \in Conns, Released(n)
  PROVE  Sharing!Next \/ UNCHANGED <<users, locked>>
<1>1. CASE n \in users
  <2>1. Sharing!Part(n)
    BY <1>1 DEF Released, Sharing!Part
  <2> QED
    BY <2>1 DEF Sharing!Next
<1>2. CASE n \notin users
  BY <1>2 DEF Released, IInv, TypeOK
<1> QED
  BY <1>1, <1>2

\* lock() counts one user, who has the lock then, whoever asked for it.
LEMMA LockShares ==
  ASSUME IInv, NEW c \in Clients, Lock(c)
  PROVE  Sharing!Next \/ UNCHANGED <<users, locked>>
<1>1. CASE Cardinality(users) = 1
  <2>1. PICK n : users = {n}
    BY <1>1, FS_Singleton DEF IInv
  <2>2. n \in Conns /\ Sharing!Take(n)
    BY <1>1, <2>1 DEF Lock, Sharing!Take, IInv, TypeOK
  <2> QED
    BY <2>2 DEF Sharing!Next
<1>2. CASE Cardinality(users) # 1
  BY <1>2 DEF Lock
<1> QED
  BY <1>1, <1>2

\* Only a user unlocks; if the device is not locked nothing happens.
LEMMA UnlockShares ==
  ASSUME IInv, NEW c \in Clients, Unlock(c)
  PROVE  Sharing!Next \/ UNCHANGED <<users, locked>>
<1>1. CASE locked /\ Conn(c) \in users
  <2>1. Sharing!Give(Conn(c))
    BY <1>1 DEF Unlock, Sharing!Give
  <2>2. Conn(c) \in Conns
    BY <1>1 DEF IInv, TypeOK
  <2> QED
    BY <2>1, <2>2 DEF Sharing!Next
<1>2. CASE ~(locked /\ Conn(c) \in users)
  BY <1>2 DEF Unlock, IInv, TypeOK
<1> QED
  BY <1>1, <1>2

LEMMA StepShares ==
  ASSUME IInv, Next
  PROVE  Sharing!Next \/ UNCHANGED <<users, locked>>
<1>1. ASSUME NEW c \in Clients,
             Start(c) \/ Line(c) \/ Quit(c) \/ Kill(c) \/ Timeout(c)
      PROVE  UNCHANGED <<users, locked>>
  BY <1>1 DEF Start, Line, Quit, Kill, Timeout, deviceVars
<1>2. ASSUME NEW c \in Clients, Step(c)
      PROVE  Sharing!Next \/ UNCHANGED <<users, locked>>
  <2>1. CASE \/ Connect(c) \/ NoServer(c) \/ Resend(c) \/ Refuse(c) \/ Use(c)
             \/ Serve(c) \/ LogStart(c) \/ LogFinish(c) \/ LogGet(c)
    BY <2>1 DEF Connect, NoServer, Resend, Refuse, Use, Serve, LogStart,
       LogFinish, LogGet, deviceVars
  <2>2. CASE Join(c)
    <3>1. Conn(c) \in Conns
      BY <2>2, ConnOK DEF Join, IInv
    <3>2. Sharing!Join(Conn(c)) \/ UNCHANGED <<users, locked>>
      BY <2>2 DEF Join, Sharing!Join
    <3> QED
      BY <3>1, <3>2 DEF Sharing!Next
  <2>3. CASE Release(c)
    <3>1. Conn(c) \in Conns
      BY <2>3, ConnOK DEF Release, Request, IInv
    <3> QED
      BY <2>3, <3>1, ReleasedShares DEF Release
  <2>4. CASE Drop(c)
    BY <2>4 DEF Drop, Sharing!Next, Sharing!Drop
  <2> QED
    BY <1>2, <2>1, <2>2, <2>3, <2>4, LockShares, UnlockShares DEF Step
<1>3. ASSUME NEW n \in Conns, ConnClose(n)
      PROVE  Sharing!Next \/ UNCHANGED <<users, locked>>
  BY <1>3, ReleasedShares DEF ConnClose
<1>4. CASE Stop
  BY <1>4 DEF Stop, Sharing!Next, Sharing!Drop
<1>5. CASE Restart \/ Terminated
  BY <1>5 DEF Restart, Terminated, vars, deviceVars
<1> QED
  BY <1>1, <1>2, <1>3, <1>4, <1>5 DEF Next

\* Whatever clients do, and when the server restarts, users and lock change as
\* DeviceSharing allows: what LocksAreKept says of sessions does not come from
\* a device that is kinder than the one in Device.
THEOREM DeviceKeepsContract == Spec => Sharing!Spec
<1>1. Init => Sharing!Init
  BY DEF Init, Sharing!Init
<1>2. IInv /\ [Next]_vars => [Sharing!Next]_(Sharing!vars)
  <2> SUFFICES ASSUME IInv, [Next]_vars
               PROVE  Sharing!Next \/ UNCHANGED <<users, locked>>
    BY DEF Sharing!vars
  <2>1. UNCHANGED vars => UNCHANGED <<users, locked>>
    BY DEF vars, deviceVars
  <2> QED
    BY <2>1, StepShares
<1> QED
  BY <1>1, <1>2, IInvHolds, PTL DEF Spec, Sharing!Spec

\* So the device is never locked without a user, whatever clients are killed,
\* reconnect or send close, and when the server restarts.
THEOREM LockHasUserHolds == Spec => []Sharing!LockHasUser
<1>1. Sharing!Init => Sharing!LockHasUser
  BY DEF Sharing!Init, Sharing!LockHasUser
<1>2. Sharing!LockHasUser /\ [Sharing!Next]_(Sharing!vars) => Sharing!LockHasUser'
  BY DEF Sharing!LockHasUser, Sharing!Next, Sharing!vars, Sharing!Join, Sharing!Part,
     Sharing!Take, Sharing!Give, Sharing!Drop
<1> QED
  BY <1>1, <1>2, DeviceKeepsContract, PTL DEF Sharing!Spec
=============================================================================
