---------------------------- MODULE OpeningProofs ----------------------------
(* Proofs about Opening, for any devices, clients, device lists, options   *)
(* and numbers of descriptors.                                             *)
EXTENDS Opening, FiniteSetTheorems, WellFoundedInduction, TLAPS

USE UsersAssumption, BoundsAssumption, ListsAssumption

-----------------------------------------------------------------------------
(* Settings of serial ports.                                               *)

\* -raw 1 with -vmin 0, or reading without waiting, lets every read end.
LEMMA OptionsThatEnd ==
  ASSUME NEW o, NEW p,
         \/ "ndelay" \notin DOMAIN o \/ o["ndelay"] = 1
         \/ {"raw", "vmin"} \subseteq DOMAIN o /\ o["raw"] = 1 /\ o["vmin"] = 0
  PROVE  ReadEnds(o, Configured(o, p))
<1>1. CASE "ndelay" \notin DOMAIN o \/ o["ndelay"] = 1
  BY <1>1 DEF ReadEnds, NonBlocking
<1>2. CASE {"raw", "vmin"} \subseteq DOMAIN o /\ o["raw"] = 1 /\ o["vmin"] = 0
  <2> DEFINE S == SetRaw(o, SetParity(o, SetSingle(o, p.flags)))
  <2>1. "icanon" \notin S
    BY <1>2 DEF SetRaw
  <2> HIDE DEF S
  <2>2. "icanon" \notin SetCombined(o, S)
    BY <2>1 DEF SetCombined, set_opt
  <2>3. Configured(o, p).flags = SetCombined(o, S) /\ Configured(o, p).vmin = 0
    BY <1>2 DEF Configured, S
  <2> QED
    BY <2>2, <2>3 DEF ReadEnds
<1> QED
  BY <1>1, <1>2

\* f ++ g takes what f has from f.
LEMMA LeftWins ==
  ASSUME NEW f, NEW g, NEW x \in DOMAIN f
  PROVE  x \in DOMAIN (f ++ g) /\ (f ++ g)[x] = f[x]
BY DEF ++

LEMMA RightAdds ==
  ASSUME NEW f, NEW g, NEW x, x \notin DOMAIN f
  PROVE  x \in DOMAIN (f ++ g) <=> x \in DOMAIN g
BY DEF ++

\* Every derived driver has options of that kind, whatever the user gives, and
\* waits for nothing but the timeout.
LEMMA DerivedOptions ==
  ASSUME NEW k \in SerialKinds \ {"serial"}, NEW u
  PROVE  LET o == Options(k, u)
         IN  /\ \/ "ndelay" \notin DOMAIN o \/ o["ndelay"] = 1
                \/ {"raw", "vmin"} \subseteq DOMAIN o /\ o["raw"] = 1 /\ o["vmin"] = 0
             /\ "vmin" \in DOMAIN o => o["vmin"] = 0
<1> DEFINE Waits(o) == {"raw", "vmin"} \subseteq DOMAIN o /\ o["raw"] = 1 /\ o["vmin"] = 0
           Returns(o) == ("ndelay" \notin DOMAIN o \/ o["ndelay"] = 1) /\ "vmin" \notin DOMAIN o
<1>1. /\ DOMAIN Common = {"parity", "raw"} /\ Common["raw"] = 1
      /\ DOMAIN Timed = {"vmin", "ndelay"} /\ Timed["vmin"] = 0
  BY DEF Common, Timed
<1>2. Waits(Common ++ Timed)
  BY <1>1 DEF ++
<1>3. ASSUME NEW o, NEW g, Waits(o) PROVE Waits(o ++ g)
  BY <1>3, LeftWins
<1>4. \/ Waits(Options(k, u))
      \/ Returns(Options(k, u))
  <2>1. CASE k \in {"serial_simple", "serial_asm340"}
    <3>1. ASSUME NEW g, NEW h, NEW e PROVE Waits(Common ++ Timed ++ g ++ h ++ e)
      <4> HIDE DEF Waits
      <4> QED
        BY <1>2, <1>3
    <3> HIDE DEF Waits
    <3> QED
      BY <2>1, <3>1 DEF Options, serial_simple, serial_asm340
  <2>2. CASE k \in {"serial_tenma_ps", "serial_vs_ld", "serial_hm310t"}
    <3> HIDE DEF Waits
    <3> QED
      BY <1>2, <1>3, <2>2 DEF Options, serial_tenma_ps, serial_vs_ld, serial_hm310t
  <2>3. CASE k = "serial_et"
    BY <2>3, <1>1 DEF Options, serial_et, ++
  <2>4. CASE k \in {"serial_l300", "serial_jds6600"}
    <3>1. Returns(serial_l300) /\ Returns(serial_jds6600)
      BY <1>1 DEF serial_l300, serial_jds6600, ++
    <3> HIDE DEF Returns
    <3> QED
      BY <2>4, <3>1 DEF Options
  <2> QED
    BY <2>1, <2>2, <2>3, <2>4 DEF SerialKinds
<1> QED
  BY <1>4

\* The port has settings after a driver has configured it, and those of a
\* derived driver let its reads end.
LEMMA ConfiguredOK ==
  ASSUME NEW k \in SerialKinds, NEW u \in Given(k), NEW p,
         p.flags \subseteq Flags, p.vmin \in 0 .. 255
  PROVE  /\ Configured(Options(k, u), p).flags \subseteq Flags
         /\ Configured(Options(k, u), p).vmin \in 0 .. 255
         /\ k # "serial" => ReadEnds(Options(k, u), Configured(Options(k, u), p))
<1> DEFINE o == Options(k, u)
<1>1. "vmin" \in DOMAIN o => o["vmin"] \in 0 .. 255
  <2>1. CASE k = "serial"
    BY <2>1, VminAssumption DEF Options, Given
  <2>2. CASE k # "serial"
    BY <2>2, DerivedOptions
  <2> QED
    BY <2>1, <2>2
<1>2. k # "serial" => ReadEnds(o, Configured(o, p))
  BY DerivedOptions, OptionsThatEnd
<1> HIDE DEF o
<1>3. Configured(o, p).vmin \in 0 .. 255
  BY <1>1 DEF Configured
<1>4. SetSingle(o, p.flags) \subseteq Flags
  BY DEF SetSingle
<1>5. ASSUME NEW S \in SUBSET Flags PROVE SetParity(o, S) \subseteq Flags
  BY DEF SetParity, Flags
<1>6. ASSUME NEW S \in SUBSET Flags PROVE SetRaw(o, S) \subseteq Flags
  BY DEF SetRaw, Flags
<1>7. ASSUME NEW S \in SUBSET Flags PROVE SetCombined(o, S) \subseteq Flags
  BY DEF SetCombined, set_opt, Flags
<1>8. Configured(o, p).flags \subseteq Flags
  BY <1>4, <1>5, <1>6, <1>7 DEF Configured
<1> QED
  BY <1>2, <1>3, <1>8 DEF o

-----------------------------------------------------------------------------
(* Descriptors.                                                            *)

\* A number that is at least one to take has the highest of them.
LEMMA HighestExists ==
  ASSUME NEW S \in SUBSET Fds, S # {}
  PROVE  \E n \in S : \A m \in S : m <= n
<1> DEFINE T == {MaxFds - n : n \in S}
           R == OpToRel(<, Nat)
<1>1. T \subseteq Nat /\ T # {}
  <2>1. \A n \in S : MaxFds - n \in Nat
    BY DEF Fds
  <2> QED
    BY <2>1
<1>2. IsWellFoundedOn(R, Nat)
  BY NatLessThanWellFounded
<1> HIDE DEF R
<1>3. PICK x \in T : \A y \in T : <<y, x>> \notin R
  BY <1>1, <1>2, WFMin
<1>4. \A y \in T : ~(y < x)
  BY <1>1, <1>3 DEF R, OpToRel
<1>5. PICK n \in S : x = MaxFds - n
  OBVIOUS
<1>6. \A m \in S : ~(MaxFds - m < MaxFds - n)
  BY <1>4, <1>5
<1>7. \A m \in S : m \in Fds
  OBVIOUS
<1> HIDE DEF T
<1> QED
  BY <1>5, <1>6, <1>7 DEF Fds

\* u holds the last of the numbers that it takes.
LEMMA TakeGives ==
  ASSUME NEW u \in Users, NEW S \in SUBSET Free, Take(u, S), TypeOK
  PROVE  /\ \E m \in S : fd' = [fd EXCEPT ![u] = m]
         /\ fds' = [n \in Fds |-> IF n \in S THEN u ELSE fds[n]]
         /\ fds' \in [Fds -> Users \cup {Nobody}]
<1>1. S \subseteq Fds
  BY DEF Free
<1>2. \E n \in S : \A m \in S : m <= n
  BY <1>1, HighestExists DEF Take
<1> QED
  BY <1>1, <1>2 DEF Take, TypeOK

\* open(2) takes free numbers, and one takes one.
LEMMA LowestFree ==
  ASSUME NEW n
  PROVE  Lowest(n) \in SUBSET Free
BY DEF Lowest

LEMMA LowestOne ==
  ASSUME NEW i \in Lowest(1), NEW k \in Lowest(1)
  PROVE  i = k
<1> DEFINE Below(x) == {j \in Free : j < x}
<1>1. ASSUME NEW x \in Lowest(1) PROVE Below(x) = {}
  <2>1. IsFiniteSet(Fds)
    BY FS_Interval DEF Fds
  <2>2. IsFiniteSet(Below(x)) /\ Cardinality(Below(x)) \in Nat
    BY <2>1, FS_Subset, FS_CardinalityType DEF Free
  <2>3. Cardinality(Below(x)) < 1
    BY DEF Lowest
  <2> QED
    BY <2>2, <2>3, FS_EmptySet
<1>2. i \in Free /\ k \in Free /\ Free \subseteq Nat
  BY DEF Lowest, Free, Fds
<1> QED
  BY <1>1, <1>2

\* A set without two members
LEMMA AtMostOne ==
  ASSUME NEW S \in SUBSET Free, ~(Cardinality(S) > 1), NEW i \in S, NEW k \in S
  PROVE  i = k
<1>1. IsFiniteSet(S)
  <2>1. IsFiniteSet(Fds) /\ S \in SUBSET Fds
    BY FS_Interval DEF Free, Fds
  <2> QED
    BY <2>1, FS_Subset
<1>2. Cardinality(S) \in Nat /\ Cardinality(S) # 0
  BY <1>1, FS_CardinalityType, FS_EmptySet
<1>3. Cardinality(S) = 1
  BY <1>2
<1> QED
  BY <1>1, <1>3, FS_Singleton

-----------------------------------------------------------------------------
(* The inductive invariant.                                                *)

\* Before the first driver is opened
LEMMA InitIInv == Init => IInv
<1> SUFFICES ASSUME Init PROVE IInv
  OBVIOUS
<1>1. port.flags \subseteq Flags /\ port.vmin \in 0 .. 255
  BY DEF Init, NewPort, Flags
<1> QED
  <2>1. TypeOK
    BY <1>1 DEF Init, TypeOK, Users, NoFd, States
  <2>2. LifeCycle
    BY DEF Init, LifeCycle, Users, NoFd
  <2>3. OwnsWhatItHolds /\ DescriptorsOwned
    BY UsersAssumption DEF Init, OwnsWhatItHolds, DescriptorsOwned, Users, NoFd
  <2>4. LastOneReads
    BY UsersAssumption DEF Init, LastOneReads
  <2> QED
    BY <2>1, <2>2, <2>3, <2>4 DEF IInv

\* Connections of clients
LEMMA ClientIInv ==
  ASSUME IInv, NEW c \in Clients, Accept(c) \/ Hangup(c)
  PROVE  IInv'
<1> USE DEF IInv, TypeOK, LifeCycle, OwnsWhatItHolds, LastOneReads, DescriptorsOwned,
            Closing, Users, NoFd, Fds, config, programs, serial
<1>1. CASE Accept(c)
  <2>1. UNCHANGED <<config, state, programs, serial, left, twice>>
    BY <1>1 DEF Accept
  <2>2. /\ \E m \in Lowest(1) : fd' = [fd EXCEPT ![c] = m]
        /\ fds' = [n \in Fds |-> IF n \in Lowest(1) THEN c ELSE fds[n]]
        /\ fds' \in [Fds -> Users \cup {Nobody}]
    BY <1>1, TakeGives, LowestFree DEF Accept
  <2> QED
    BY <2>1, <2>2, LowestFree DEF Free
<1>2. CASE Hangup(c)
  BY <1>2 DEF Hangup, Give, CloseNumber
<1> QED
  BY <1>1, <1>2

\* Numbers that a constructor takes with the object constructed, or without
LEMMA TakesOK ==
  ASSUME IInv, NEW d \in Devs, Constructs(d, AllKinds \ {"test"}),
         NEW S \in SUBSET Free, Take(d, S),
         NEW s \in {"greeting", "dpt", "open"}, Goto(d, s),
         s = "greeting" => kind[d] = "spp", s = "dpt" => kind[d] = "serial_hm310t",
         left' = left \cup {d} \/ (left' = left /\ \A i, k \in S : i = k),
         UNCHANGED <<config, signalled, twice>>
  PROVE  /\ LifeCycle' /\ OwnsWhatItHolds' /\ DescriptorsOwned'
         /\ fds' \in [Fds -> Users \cup {Nobody}] /\ fd' \in [Users -> Fds \cup {NoFd}]
         /\ state' \in [Devs -> States] /\ left' \subseteq Devs
         /\ \A e \in Devs : state'[e] = "closed" => fd'[e] = NoFd
<1> USE DEF IInv, TypeOK, LifeCycle, OwnsWhatItHolds, DescriptorsOwned,
            Closing, Users, NoFd, config, Constructs, Goto, States
<1>1. PICK m \in S : fd' = [fd EXCEPT ![d] = m]
  BY TakeGives
<1>2. fds' = [n \in Fds |-> IF n \in S THEN d ELSE fds[n]]
  BY TakeGives
<1>3. /\ d # Nobody /\ m \in Fds /\ m # NoFd /\ S \subseteq Fds
      /\ \A n \in S : fds[n] = Nobody
  BY DEF Free, Fds
<1>4. LifeCycle'
  BY <1>1, <1>3
<1>5. OwnsWhatItHolds'
  BY <1>1, <1>2, <1>3
<1>6. DescriptorsOwned'
  BY <1>1, <1>2, <1>3
<1>7. /\ fds' \in [Fds -> Users \cup {Nobody}] /\ fd' \in [Users -> Fds \cup {NoFd}]
      /\ state' \in [Devs -> States] /\ left' \subseteq Devs
      /\ \A e \in Devs : state'[e] = "closed" => fd'[e] = NoFd
  BY <1>1, <1>2, <1>3
<1> QED
  BY <1>4, <1>5, <1>6, <1>7

LEMMA LosesOK ==
  ASSUME IInv, NEW d \in Devs, NEW S \in SUBSET Free, Lose(d, S),
         UNCHANGED <<config, state, signalled, twice>>
  PROVE  /\ LifeCycle' /\ OwnsWhatItHolds' /\ DescriptorsOwned'
         /\ fds' \in [Fds -> Users \cup {Nobody}] /\ left' \subseteq Devs
BY DEF IInv, TypeOK, LifeCycle, OwnsWhatItHolds, DescriptorsOwned,
       Closing, Users, NoFd, config, Free, Lose

\* Constructors that succeed
LEMMA OpenIInv ==
  ASSUME IInv, NEW d \in Devs,
         OpenTest(d) \/ OpenHandle(d) \/ OpenSerial(d) \/ OpenSpp(d)
  PROVE  IInv'
<1> DEFINE Taken == /\ LifeCycle' /\ OwnsWhatItHolds' /\ DescriptorsOwned'
                    /\ fds' \in [Fds -> Users \cup {Nobody}] /\ fd' \in [Users -> Fds \cup {NoFd}]
                    /\ state' \in [Devs -> States] /\ left' \subseteq Devs
                    /\ \A e \in Devs : state'[e] = "closed" => fd'[e] = NoFd
<1> USE DEF IInv, config, programs, serial
<1>1. CASE OpenTest(d)
  BY <1>1 DEF OpenTest, TypeOK, LifeCycle, OwnsWhatItHolds, LastOneReads, DescriptorsOwned,
              Closing, Users, NoFd, Constructs, Goto, States
<1>2. CASE OpenHandle(d)
  <2>1. Taken
    BY <1>2, LowestFree, LowestOne, TakesOK DEF OpenHandle, Constructs, AllKinds, OtherKinds
  <2> QED
    BY <1>2, <2>1 DEF OpenHandle, LastOneReads, TypeOK, Constructs, Goto
<1>3. CASE OpenSerial(d)
  <2>1. Taken
    <3> DEFINE s == IF kind[d] = "serial_hm310t" THEN "dpt" ELSE "open"
    <3>1. /\ s \in {"greeting", "dpt", "open"} /\ s # "greeting"
          /\ s = "dpt" => kind[d] = "serial_hm310t"
      OBVIOUS
    <3>2. Goto(d, s) /\ Take(d, Lowest(1)) /\ UNCHANGED <<config, signalled, twice, left>>
      BY <1>3 DEF OpenSerial
    <3>3. Constructs(d, AllKinds \ {"test"})
      BY <1>3 DEF OpenSerial, Constructs, AllKinds, SerialKinds
    <3> HIDE DEF s
    <3> QED
      BY <3>1, <3>2, <3>3, LowestFree, LowestOne, TakesOK
  <2>2. kind[d] \in SerialKinds /\ opts[d] \in Given(kind[d])
    BY <1>3 DEF OpenSerial, Constructs, TypeOK
  <2>3. port' = Configured(Options(kind[d], opts[d]), port) /\ conf' = d
    BY <1>3 DEF OpenSerial
  <2>4. port'.flags \subseteq Flags /\ port'.vmin \in 0 .. 255 /\ LastOneReads'
    <3>1. port.flags \subseteq Flags /\ port.vmin \in 0 .. 255
      BY DEF TypeOK
    <3>2. /\ port'.flags \subseteq Flags /\ port'.vmin \in 0 .. 255
          /\ kind[d] # "serial" => ReadEnds(Options(kind[d], opts[d]), port')
      BY <2>2, <2>3, <3>1, ConfiguredOK
    <3>3. UNCHANGED <<kind, opts>>
      BY <1>3 DEF OpenSerial, config
    <3> QED
      BY <2>2, <2>3, <3>2, <3>3 DEF LastOneReads
  <2>5. kind[d] # "spp"
    BY <2>2 DEF SerialKinds
  <2>6. /\ UNCHANGED <<config, programs, left, twice>> /\ state[d] = "closed"
        /\ \A e \in Devs \ {d} : state'[e] = state[e]
        /\ state'[d] # "closed"
    BY <1>3 DEF OpenSerial, Goto, Constructs, TypeOK
  <2>7. TypeOK'
    BY <2>1, <2>3, <2>4, <2>5, <2>6 DEF TypeOK
  <2> QED
    BY <2>1, <2>4, <2>7
<1>4. CASE OpenSpp(d)
  <2>1. Taken
    BY <1>4, LowestFree, LowestOne, TakesOK DEF OpenSpp, Constructs, AllKinds, OtherKinds
  <2> QED
    BY <1>4, <2>1 DEF OpenSpp, LastOneReads, TypeOK, Constructs, Goto
<1> QED
  BY <1>1, <1>2, <1>3, <1>4

\* Constructors that fail after they have taken something, and drv_net
LEMMA OpenFailsIInv ==
  ASSUME IInv, NEW d \in Devs,
         OpenFails(d) \/ OpenNet(d) \/ OpenSerialFails(d) \/ OpenSppFails(d)
  PROVE  IInv'
<1> DEFINE Lost == /\ LifeCycle' /\ OwnsWhatItHolds' /\ DescriptorsOwned'
                   /\ fds' \in [Fds -> Users \cup {Nobody}] /\ left' \subseteq Devs
<1> USE DEF IInv, config, programs, serial
<1>1. CASE OpenFails(d)
  <2>1. Lost
    BY <1>1, LowestFree, LosesOK DEF OpenFails
  <2> QED
    BY <1>1, <2>1 DEF OpenFails, Lose, LastOneReads, TypeOK
<1>2. CASE OpenNet(d)
  <2>1. PICK n \in 1 .. MaxAddrs :
          \/ /\ Take(d, Lowest(n))
             /\ Goto(d, "open")
             /\ left' = IF Cardinality(Lowest(n)) > 1 THEN left \cup {d} ELSE left
          \/ Lose(d, Lowest(n)) /\ UNCHANGED state
    BY <1>2 DEF OpenNet
  <2>2. Constructs(d, {"net"}) /\ UNCHANGED <<config, programs, serial, twice>>
    BY <1>2 DEF OpenNet
  <2>3. CASE Take(d, Lowest(n)) /\ Goto(d, "open")
             /\ left' = IF Cardinality(Lowest(n)) > 1 THEN left \cup {d} ELSE left
    <3>1. left' = left \cup {d} \/ (left' = left /\ \A i, k \in Lowest(n) : i = k)
      <4>1. CASE Cardinality(Lowest(n)) > 1
        BY <2>3, <4>1
      <4>2. CASE ~(Cardinality(Lowest(n)) > 1)
        BY <2>3, <4>2, LowestFree, AtMostOne
      <4> QED
        BY <4>1, <4>2
    <3>2. /\ LifeCycle' /\ OwnsWhatItHolds' /\ DescriptorsOwned'
          /\ fds' \in [Fds -> Users \cup {Nobody}] /\ fd' \in [Users -> Fds \cup {NoFd}]
          /\ state' \in [Devs -> States] /\ left' \subseteq Devs
          /\ \A e \in Devs : state'[e] = "closed" => fd'[e] = NoFd
      BY <2>2, <2>3, <3>1, LowestFree, TakesOK DEF Constructs, AllKinds, OtherKinds
    <3> QED
      BY <2>2, <2>3, <3>2 DEF LastOneReads, TypeOK, Constructs, Goto
  <2>4. CASE Lose(d, Lowest(n)) /\ UNCHANGED state
    <3>1. Lost
      BY <2>2, <2>4, LowestFree, LosesOK
    <3> QED
      BY <2>2, <2>4, <3>1 DEF Lose, LastOneReads, TypeOK
  <2> QED
    BY <2>1, <2>3, <2>4
<1>3. CASE OpenSerialFails(d)
  <2>1. Lost
    BY <1>3, LowestFree, LosesOK DEF OpenSerialFails
  <2>2. UNCHANGED <<config, state, programs, fd, twice>>
    BY <1>3 DEF OpenSerialFails, Lose
  <2>3. kind[d] \in SerialKinds /\ opts[d] \in Given(kind[d])
    BY <1>3 DEF OpenSerialFails, Constructs, TypeOK
  <2>4. \/ port' = port /\ conf' = conf
        \/ port' = Configured(Options(kind[d], opts[d]), port) /\ conf' = Nobody
    BY <1>3 DEF OpenSerialFails
  <2>5. /\ port'.flags \subseteq Flags /\ port'.vmin \in 0 .. 255
        /\ conf' = Nobody \/ (port' = port /\ conf' = conf)
    <3>1. port.flags \subseteq Flags /\ port.vmin \in 0 .. 255
      BY DEF TypeOK
    <3>2. /\ Configured(Options(kind[d], opts[d]), port).flags \subseteq Flags
          /\ Configured(Options(kind[d], opts[d]), port).vmin \in 0 .. 255
      BY <2>3, <3>1, ConfiguredOK
    <3>3. CASE port' = port /\ conf' = conf
      BY <3>1, <3>3
    <3>4. CASE port' = Configured(Options(kind[d], opts[d]), port) /\ conf' = Nobody
      BY <3>2, <3>4
    <3> QED
      BY <2>4, <3>3, <3>4
  <2> QED
    BY <2>1, <2>2, <2>5 DEF TypeOK, LastOneReads
<1>4. CASE OpenSppFails(d)
  <2>1. Lost
    BY <1>4, LowestFree, LosesOK DEF OpenSppFails
  <2> QED
    BY <1>4, <2>1 DEF OpenSppFails, Lose, LastOneReads, TypeOK
<1> QED
  BY <1>1, <1>2, <1>3, <1>4

\* A destructor closes the number that it holds: its own, or one that nobody
\* else has got since, or that is remembered in twice.
LEMMA ClosesOK ==
  ASSUME IInv, NEW d \in Devs, state[d] # "closed", fd[d] # NoFd, CloseNumber(d),
         NEW s \in {"closed", "term", "reap"}, Goto(d, s),
         \/ s = "closed" /\ fd' = [fd EXCEPT ![d] = NoFd]
         \/ s # "closed" /\ fd' = fd,
         ~twice' => ~twice /\ (d \in Closing => fds[fd[d]] = Nobody),
         left' = left
  PROVE  OwnsWhatItHolds' /\ DescriptorsOwned' /\ fds' \in [Fds -> Users \cup {Nobody}]
<1> USE DEF IInv, TypeOK, OwnsWhatItHolds, Closing, Users
<1>1. /\ fds' = [fds EXCEPT ![fd[d]] = Nobody] /\ fd[d] \in Fds
      /\ state' = [state EXCEPT ![d] = s] /\ d # Nobody
  BY DEF CloseNumber, Goto
<1>2. ASSUME NEW e \in Devs \ left, NEW n \in Fds, fds'[n] = e
      PROVE  fd'[e] = n /\ state'[e] \in {"greeting", "dpt", "open"}
  <2>1. n # fd[d] /\ fds[n] = e
    BY <1>1, <1>2
  <2>2. e # d
    BY <2>1
  <2> QED
    BY <1>1, <2>1, <2>2
<1>3. ASSUME NEW u \in Users \ Closing', fd'[u] # NoFd, ~twice'
      PROVE  fds'[fd'[u]] = u
  <2>1. u # d /\ u \notin Closing /\ fd'[u] = fd[u] /\ fd[u] \in Fds
    BY <1>1, <1>3
  <2>2. fds[fd[u]] = u
    BY <1>3, <2>1 DEF DescriptorsOwned
  <2>3. fds[fd[d]] # u
    BY <1>1, <1>3, <2>1 DEF DescriptorsOwned
  <2> QED
    BY <1>1, <2>1, <2>2, <2>3
<1>4. \A e \in Devs : state'[e] = "closed" /\ e \notin left => \A n \in Fds : fds'[n] # e
  BY <1>2
<1>5. fds' \in [Fds -> Users \cup {Nobody}]
  BY <1>1
<1> QED
  BY <1>2, <1>3, <1>4, <1>5 DEF DescriptorsOwned

\* The ends of constructors, and destructors
LEMMA DriverStepIInv ==
  ASSUME IInv, NEW d \in Devs, DriverStep(d) \/ Destroy(d) \/ ProgramEnds(d)
  PROVE  IInv'
<1> DEFINE Closed == /\ OwnsWhatItHolds' /\ DescriptorsOwned'
                     /\ fds' \in [Fds -> Users \cup {Nobody}]
<1> USE DEF IInv, TypeOK, LifeCycle, LastOneReads, States, config, programs, serial
<1>1. CASE ReadDpt(d)
  <2>1. CASE Goto(d, "open") /\ UNCHANGED <<fds, fd>>
    BY <1>1, <2>1 DEF ReadDpt, OwnsWhatItHolds, DescriptorsOwned, Closing, Goto, Users
  <2>2. CASE Goto(d, "closed") /\ Give(d)
    <3>1. state[d] = "dpt" /\ fd[d] # NoFd /\ d \notin Closing
      BY <1>1 DEF ReadDpt, Closing
    <3>2. Closed
      BY <1>1, <2>2, <3>1, ClosesOK DEF ReadDpt, Give
    <3> QED
      BY <1>1, <2>2, <3>1, <3>2 DEF ReadDpt, Goto, Give, Users
  <2> QED
    BY <1>1, <2>1, <2>2 DEF ReadDpt
<1>7. ASSUME state[d] \in {"greeting", "open"}, kind[d] = "spp", CloseInput(d),
             UNCHANGED <<config, programs, serial, left, twice>>
      PROVE  IInv'
  <2>1. fd[d] # NoFd /\ d \notin Closing /\ state[d] # "closed"
    BY <1>7 DEF Closing
  <2>2. Closed
    BY <1>7, <2>1, ClosesOK DEF CloseInput
  <2> QED
    BY <1>7, <2>1, <2>2 DEF Goto, CloseInput, Users
<1>2. CASE Greeting(d)
  <2>1. CASE Goto(d, "open") /\ UNCHANGED <<fds, fd>>
    BY <1>2, <2>1 DEF Greeting, OwnsWhatItHolds, DescriptorsOwned, Closing, Goto, Users
  <2> QED
    BY <1>2, <1>7, <2>1 DEF Greeting
<1>3. CASE Destroy(d)
  <2>1. CASE kind[d] = "spp"
    BY <1>3, <1>7, <2>1 DEF Destroy
  <2>2. CASE kind[d] = "test"
    <3>1. /\ state[d] = "open" /\ Goto(d, "closed") /\ UNCHANGED <<fds, fd>>
          /\ UNCHANGED <<config, programs, serial, left, twice>>
      BY <1>3, <2>2 DEF Destroy
    <3>2. fd[d] = NoFd /\ d \notin signalled
      BY <2>2, <3>1
    <3>3. \A n \in Fds : fds[n] = d => d \in left
      BY <3>2 DEF OwnsWhatItHolds, Fds, NoFd
    <3>4. OwnsWhatItHolds' /\ DescriptorsOwned'
      BY <3>1, <3>2, <3>3 DEF OwnsWhatItHolds, DescriptorsOwned, Closing, Goto, Users
    <3> QED
      BY <2>2, <3>1, <3>2, <3>4 DEF Goto
  <2>3. CASE kind[d] \notin {"spp", "test"}
    <3>1. /\ state[d] = "open" /\ fd[d] # NoFd /\ d \notin Closing
          /\ Goto(d, "closed") /\ Give(d) /\ UNCHANGED <<config, programs, serial, left, twice>>
      BY <1>3, <2>3 DEF Destroy, Closing
    <3>2. Closed
      BY <3>1, ClosesOK DEF Give
    <3> QED
      BY <2>3, <3>1, <3>2 DEF Goto, Give, Users
  <2> QED
    BY <2>1, <2>2, <2>3
<1>4. CASE Term(d)
  <2>1. state[d] = "term" /\ fd[d] # NoFd /\ kind[d] = "spp"
    BY <1>4 DEF Term
  <2>2. twice' \in BOOLEAN /\ (~twice' => ~twice /\ fds[fd[d]] = Nobody)
    BY <1>4 DEF Term
  <2>3. Closed
    BY <1>4, <2>1, <2>2, ClosesOK DEF Term
  <2> QED
    BY <1>4, <2>1, <2>2, <2>3 DEF Term, Goto
<1> USE DEF OwnsWhatItHolds, DescriptorsOwned, Closing, Users, Goto
<1>5. CASE Reap(d)
  BY <1>5 DEF Reap
<1>6. CASE ProgramEnds(d)
  BY <1>6 DEF ProgramEnds
<1> QED
  BY <1>1, <1>2, <1>3, <1>4, <1>5, <1>6 DEF DriverStep

\* Other users of the serial port
LEMMA PortIInv ==
  ASSUME IInv, Ping \/ Replug
  PROVE  IInv'
<1>1. UNCHANGED <<config, state, programs, fds, fd, left, twice>> /\ conf' = Nobody
  BY DEF Ping, Replug
<1>2. port'.flags \subseteq Flags /\ port'.vmin \in 0 .. 255
  <2>1. CASE Ping
    BY <2>1, ConfiguredOK DEF Ping, IInv, TypeOK
  <2>2. CASE Replug
    BY <2>2 DEF Replug, NewPort, Flags
  <2> QED
    BY <2>1, <2>2
<1> QED
  BY <1>1, <1>2 DEF IInv, TypeOK, LifeCycle, OwnsWhatItHolds, LastOneReads, DescriptorsOwned,
     Closing, config, programs

LEMMA NextIInv == IInv /\ [Next]_vars => IInv'
<1> SUFFICES ASSUME IInv, [Next]_vars PROVE IInv'
  OBVIOUS
<1>1. CASE UNCHANGED vars
  BY <1>1 DEF vars, config, programs, serial, IInv, TypeOK, LifeCycle, OwnsWhatItHolds,
     LastOneReads, DescriptorsOwned, Closing
<1>2. ASSUME NEW c \in Clients, Accept(c) \/ Hangup(c)
      PROVE  IInv'
  BY <1>2, ClientIInv
<1>3. ASSUME NEW d \in Devs,
             \/ Refuse(d) \/ OpenTest(d) \/ OpenHandle(d) \/ OpenFails(d) \/ OpenNet(d)
             \/ OpenSerial(d) \/ OpenSerialFails(d) \/ OpenSpp(d) \/ OpenSppFails(d)
             \/ Destroy(d) \/ DriverStep(d) \/ ProgramEnds(d)
      PROVE  IInv'
  BY <1>1, <1>3, OpenIInv, OpenFailsIInv, DriverStepIInv DEF Refuse
<1>4. CASE Ping \/ Replug
  BY <1>4, PortIInv
<1> QED
  BY <1>1, <1>2, <1>3, <1>4 DEF Next

-----------------------------------------------------------------------------
(* Theorems                                                                *)

\* Drivers, descriptors and the settings of the port fit together whatever is
\* opened, closed and plugged in any order.
THEOREM IInvHolds == Spec => []IInv
<1> QED
  BY InitIInv, NextIInv, PTL DEF Spec

\* Every driver is in a state of its kind, and a closed one holds nothing.
THEOREM TypeCorrect == Spec => []TypeOK
<1>1. IInv => TypeOK
  BY DEF IInv
<1> QED
  BY <1>1, IInvHolds, PTL

\* Constructors and destructors of the drivers: apart from the errors of
\* drv_usbtmc, drv_serial and IOFilter and the addresses of drv_net, what was
\* taken is given back, and nobody else's is closed before the second close of
\* an SPP driver.
THEOREM NothingLeaks == Spec => []DescriptorsOwned
<1>1. IInv => DescriptorsOwned
  BY DEF IInv
<1> QED
  BY <1>1, IInvHolds, PTL

\* add_opts of the derived serial drivers and the constructor of Driver_serial
\* leave no setting of an earlier user under which a read waits for ever.
THEOREM DerivedReadsEnd == Spec => []ReadTimesOut
<1>1. IInv => ReadTimesOut
  BY DEF IInv, LastOneReads, ReadTimesOut
<1> QED
  BY <1>1, IInvHolds, PTL

-----------------------------------------------------------------------------
(* What the derived drivers do set, and what they inherit.                 *)

Has(o, name, v) == name \in DOMAIN o /\ o[name] = v

\* Options that come first stay.
LEMMA HasStays ==
  ASSUME NEW o, NEW name, NEW v, Has(o, name, v), NEW g
  PROVE  Has(o ++ g, name, v)
BY LeftWins DEF Has

LEMMA CommonHas == Has(Common, "parity", "8N1") /\ Has(Common, "raw", 1)
BY DEF Common, Has

\* Every derived driver puts -parity 8N1 and -raw 1.
LEMMA DerivedRawOptions ==
  ASSUME NEW k \in SerialKinds \ {"serial"}, NEW u
  PROVE  Has(Options(k, u), "parity", "8N1") /\ Has(Options(k, u), "raw", 1)
<1> DEFINE H(o) == Has(o, "parity", "8N1") /\ Has(o, "raw", 1)
<1>1. H(Common)
  BY CommonHas
<1>2. ASSUME NEW o, NEW g, H(o) PROVE H(o ++ g)
  BY <1>2, HasStays
<1> HIDE DEF H
<1>3. CASE k \in {"serial_simple", "serial_asm340"}
  <2>1. ASSUME NEW f, NEW g, NEW h, NEW e PROVE H(Common ++ f ++ g ++ h ++ e)
    BY <1>1, <1>2
  <2>2. H(Options(k, u))
    BY <1>3, <2>1 DEF Options, serial_simple, serial_asm340
  <2> QED
    BY <2>2 DEF H
<1>4. CASE k \in {"serial_tenma_ps", "serial_vs_ld", "serial_hm310t"}
  <2>1. H(Options(k, u))
    BY <1>1, <1>2, <1>4 DEF Options, serial_tenma_ps, serial_vs_ld, serial_hm310t
  <2> QED
    BY <2>1 DEF H
<1>5. CASE k \in {"serial_et", "serial_l300", "serial_jds6600"}
  <2>1. H(Options(k, u))
    BY <1>1, <1>2, <1>5 DEF Options, serial_et, serial_l300, serial_jds6600
  <2> QED
    BY <2>1 DEF H
<1> QED
  BY <1>3, <1>4, <1>5 DEF SerialKinds

\* With these the port does not wait for ends of lines, raises no signals,
\* echoes nothing and checks no parity.
LEMMA RawFlags ==
  ASSUME NEW o, NEW p, Has(o, "parity", "8N1"), Has(o, "raw", 1)
  PROVE  Configured(o, p).flags \cap {"icanon", "isig", "echo", "parenb"} = {}
<1> DEFINE S == SetSingle(o, p.flags)
           T == SetParity(o, S)
           R == SetRaw(o, T)
<1>1. "parenb" \notin T
  <2> HIDE DEF S
  <2> QED
    BY DEF SetParity, Has
<1>2. R = T \ {"icanon", "isig", "echo"}
  BY DEF SetRaw, Has
<1> HIDE DEF T
<1>3. {"icanon", "isig", "echo", "parenb"} \cap R = {}
  BY <1>1, <1>2
<1> HIDE DEF R
<1>4. {"icanon", "isig", "echo", "parenb"} \cap SetCombined(o, R) = {}
  BY <1>3 DEF SetCombined, set_opt
<1>5. Configured(o, p).flags = SetCombined(o, R)
  BY DEF Configured, R, T
<1> QED
  BY <1>4, <1>5

\* A derived driver that configured the port last talks to its device byte by
\* byte and without parity, whatever settings it found.
DerivedRaw ==
  conf \in Devs /\ kind[conf] # "serial" =>
    port.flags \cap {"icanon", "isig", "echo", "parenb"} = {}

\* The input settings that change bytes and that no option of drv_serial_hm310t
\* is about
Inherited == {"icrnl", "inlcr", "igncr", "iuclc", "istrip", "parmrk"}

\* The constructor of drv_serial_hm310t makes the port fit for the binary
\* protocol exactly if the last user of the port has left it without them.
InheritsBinary ==
  \A d \in Devs : OpenSerial(d) /\ kind[d] = "serial_hm310t" =>
    (Transparent(port') <=> port.flags \cap Inherited = {})

LEMMA StepDerivedRaw == IInv /\ DerivedRaw /\ [Next]_vars => DerivedRaw'
<1> SUFFICES ASSUME IInv, DerivedRaw, [Next]_vars PROVE DerivedRaw'
  OBVIOUS
<1>1. CASE UNCHANGED <<config, serial>>
  BY <1>1 DEF DerivedRaw, config, serial
<1>2. ASSUME NEW d \in Devs, OpenSerial(d)
      PROVE  DerivedRaw'
  <2>1. /\ kind[d] \in SerialKinds /\ port' = Configured(Options(kind[d], opts[d]), port)
        /\ conf' = d /\ kind' = kind
    BY <1>2 DEF OpenSerial, Constructs, config
  <2>2. CASE kind[d] = "serial"
    BY <2>1, <2>2 DEF DerivedRaw
  <2>3. CASE kind[d] # "serial"
    <3>1. Configured(Options(kind[d], opts[d]), port).flags \cap {"icanon", "isig", "echo", "parenb"} = {}
      BY <2>1, <2>3, DerivedRawOptions, RawFlags
    <3> QED
      BY <2>1, <3>1 DEF DerivedRaw
  <2> QED
    BY <2>2, <2>3
<1>3. CASE conf' = Nobody
  BY <1>3, UsersAssumption DEF DerivedRaw
<1>4. ASSUME NEW d \in Devs, OpenSerialFails(d)
      PROVE  DerivedRaw'
  <2>1. UNCHANGED config /\ (UNCHANGED serial \/ conf' = Nobody)
    BY <1>4 DEF OpenSerialFails
  <2> QED
    BY <1>1, <1>3, <2>1
<1>5. ASSUME NEW d \in Devs, DriverStep(d)
      PROVE  UNCHANGED <<config, serial>>
  BY <1>5 DEF DriverStep, ReadDpt, Greeting, Term, Reap
<1>6. ASSUME NEW d \in Devs,
             \/ Refuse(d) \/ OpenTest(d) \/ OpenHandle(d) \/ OpenFails(d) \/ OpenNet(d)
             \/ OpenSpp(d) \/ OpenSppFails(d) \/ Destroy(d) \/ ProgramEnds(d)
      PROVE  UNCHANGED <<config, serial>>
  BY <1>6 DEF Refuse, OpenTest, OpenHandle, OpenFails, OpenNet, OpenSpp, OpenSppFails,
     Destroy, ProgramEnds, vars
<1>7. ASSUME NEW c \in Clients, Accept(c) \/ Hangup(c)
      PROVE  UNCHANGED <<config, serial>>
  BY <1>7 DEF Accept, Hangup
<1>8. CASE Ping \/ Replug
  BY <1>3, <1>8 DEF Ping, Replug
<1>9. CASE UNCHANGED vars
  BY <1>1, <1>9 DEF vars
<1> QED
  BY <1>1, <1>2, <1>4, <1>5, <1>6, <1>7, <1>8, <1>9 DEF Next

\* add_opts of the derived serial drivers: -raw 1 and -parity 8N1 hold for
\* every device that configured its port last.
THEOREM DerivedPortsRaw == Spec => []DerivedRaw
<1>1. Init => DerivedRaw
  BY UsersAssumption DEF Init, DerivedRaw
<1> QED
  BY <1>1, StepDerivedRaw, IInvHolds, PTL DEF Spec

\* The options of drv_serial_hm310t
LEMMA BinaryOptions ==
  LET o == serial_hm310t
  IN  /\ Has(o, "parity", "8N1") /\ Has(o, "raw", 1) /\ Has(o, "sfc", 0) /\ Has(o, "opost", 0)
      /\ DOMAIN o \cap (Flags \cup {"lcase", "nlcnv"}) = {"opost"}
<1>1. /\ DOMAIN Common = {"parity", "raw"} /\ Common["parity"] = "8N1" /\ Common["raw"] = 1
      /\ DOMAIN Timed = {"vmin", "ndelay"}
  BY DEF Common, Timed
<1> DEFINE e == [sfc |-> 0, opost |-> 0]
<1>2. DOMAIN e = {"sfc", "opost"} /\ e["sfc"] = 0 /\ e["opost"] = 0
  OBVIOUS
<1> HIDE DEF e
<1>3. serial_hm310t = (Common ++ Timed) ++ e
  BY DEF serial_hm310t, e
<1>4. DOMAIN (Common ++ Timed) = {"parity", "raw", "vmin", "ndelay"}
  BY <1>1 DEF ++
<1>5. DOMAIN serial_hm310t = {"parity", "raw", "vmin", "ndelay", "sfc", "opost"}
  BY <1>2, <1>3, <1>4 DEF ++
<1>6. serial_hm310t["sfc"] = 0 /\ serial_hm310t["opost"] = 0
  BY <1>2, <1>3, <1>4 DEF ++
<1>7. Has(serial_hm310t, "parity", "8N1") /\ Has(serial_hm310t, "raw", 1)
  BY <1>3, CommonHas, HasStays
<1> QED
  BY <1>5, <1>6, <1>7 DEF Has, Flags

\* What these options do to the flags
LEMMA BinaryFlags ==
  ASSUME NEW p, p.flags \subseteq Flags
  PROVE  LET F == Configured(serial_hm310t, p).flags
         IN  /\ F \cap {"ixon", "opost", "icanon", "isig", "echo"} = {}
             /\ F \cap Inherited = p.flags \cap Inherited
<1> DEFINE o == serial_hm310t
           S == SetSingle(o, p.flags)
           T == SetParity(o, S)
           R == SetRaw(o, T)
           F == SetCombined(o, R)
<1>1. /\ Has(o, "parity", "8N1") /\ Has(o, "raw", 1) /\ Has(o, "sfc", 0) /\ Has(o, "opost", 0)
      /\ DOMAIN o \cap (Flags \cup {"lcase", "nlcnv"}) = {"opost"}
  BY BinaryOptions
<1> HIDE DEF o
<1>2. S = p.flags \ {"opost"}
  <2>1. \A f \in Flags : f \in DOMAIN o <=> f = "opost"
    BY <1>1
  <2>2. "opost" \in Flags /\ o["opost"] # 1
    BY <1>1 DEF Has, Flags
  <2>3. \A f \in Flags : f \in S <=> f \in p.flags /\ f # "opost"
    BY <2>1, <2>2 DEF SetSingle
  <2>4. S \subseteq Flags
    BY DEF SetSingle
  <2> HIDE DEF S
  <2> QED
    BY <2>3, <2>4
<1> HIDE DEF S
<1>3. T = S \ {"parenb"}
  BY <1>1 DEF SetParity, Has
<1> HIDE DEF T
<1>4. R = T \ {"icanon", "isig", "echo"}
  BY <1>1 DEF SetRaw, Has
<1> HIDE DEF R
<1>5. F = R \ {"ixon"}
  <2>1. "lcase" \notin DOMAIN o /\ "nlcnv" \notin DOMAIN o
    BY <1>1 DEF Flags
  <2>2. "sfc" \in DOMAIN o /\ o["sfc"] # 1
    BY <1>1 DEF Has
  <2> QED
    BY <2>1, <2>2 DEF SetCombined, set_opt
<1>6. Configured(serial_hm310t, p).flags = F
  BY DEF Configured, R, T, S, o
<1> HIDE DEF F
<1>7. F = p.flags \ {"opost", "parenb", "icanon", "isig", "echo", "ixon"}
  BY <1>2, <1>3, <1>4, <1>5
<1> QED
  BY <1>6, <1>7 DEF Inherited

\* The constructor of Driver_serial_hm310t: of the settings that would break
\* its protocol it resets all but the six that it inherits (BinarySafe).
THEOREM BinaryInherits == Spec => [][InheritsBinary]_vars
<1>1. ASSUME TypeOK, NEW d \in Devs, OpenSerial(d), kind[d] = "serial_hm310t"
      PROVE  Transparent(port') <=> port.flags \cap Inherited = {}
  <2>1. port' = Configured(serial_hm310t, port)
    BY <1>1 DEF OpenSerial, Options
  <2>2. /\ port'.flags \cap {"ixon", "opost", "icanon", "isig", "echo"} = {}
        /\ port'.flags \cap Inherited = port.flags \cap Inherited
    BY <1>1, <2>1, BinaryFlags DEF TypeOK
  <2>3. port'.flags \subseteq Flags
    <3>1. port.flags \subseteq Flags /\ port.vmin \in 0 .. 255 /\ opts[d] \in Given(kind[d])
      BY <1>1 DEF TypeOK
    <3>2. "serial_hm310t" \in SerialKinds /\ Options("serial_hm310t", opts[d]) = serial_hm310t
      BY DEF SerialKinds, Options
    <3>3. Configured(Options("serial_hm310t", opts[d]), port).flags \subseteq Flags
      BY <1>1, <3>1, <3>2, ConfiguredOK
    <3> QED
      BY <2>1, <3>2, <3>3
  <2>4. Transparent(port') <=> port'.flags \cap Inherited = {}
    BY <2>2, <2>3 DEF Transparent, Inherited, Flags
  <2> QED
    BY <2>2, <2>4
<1>2. TypeOK => InheritsBinary
  BY <1>1 DEF InheritsBinary
<1> QED
  BY <1>2, TypeCorrect, PTL DEF Spec
=============================================================================
