------------------------------- MODULE Opening -------------------------------
(***************************************************************************)
(* Opening and closing drivers: what Driver::create and the destructors of *)
(* the drivers take from the system and give back (server/drv.cpp and the  *)
(* constructors and destructors in server/drv_*.cpp).                      *)
(*                                                                         *)
(* Devices are opened and closed one by one (data_mutex of module Device)  *)
(* but independently of each other and of the connections of clients; all  *)
(* of them share the descriptors of the server process, numbers that are   *)
(* used again as soon as they are free.  Serial devices and programs       *)
(* outside the server share the settings of a serial port, which outlive   *)
(* them (module SerialPort).                                               *)
(*                                                                         *)
(* A driver that holds a library handle (gpib, vxi) is treated like one    *)
(* with a descriptor.  A pipe counts as one descriptor, and of the two     *)
(* pipes of an SPP program that runs only the one to its input is          *)
(* modelled; the other is closed once, at the end of the program.          *)
(***************************************************************************)
EXTENDS SerialPort, Naturals, FiniteSets

CONSTANTS
  Devs,        \* devices of the server
  Clients,     \* connections of clients
  Nobody,      \* owner of a free descriptor
  MaxFds,      \* bound: descriptors of the process
  MaxAddrs,    \* bound: addresses that a host name stands for
  Lists,       \* device lists: the driver of each device
  UserOptions  \* options of the "serial" driver that users choose

OtherKinds == {"test", "spp", "usbtmc", "net", "net_gpib_prologix", "gpib", "vxi"}
AllKinds   == SerialKinds \cup OtherKinds

ASSUME UsersAssumption == Devs \cap Clients = {} /\ Nobody \notin Devs \cup Clients
ASSUME BoundsAssumption == MaxFds \in Nat /\ MaxAddrs \in Nat \ {0}
ASSUME ListsAssumption  == Lists \subseteq [Devs -> AllKinds]
\* "vmin should be in [0..255]", or the driver is not constructed.
ASSUME VminAssumption ==
  \A o \in UserOptions : "vmin" \in DOMAIN o => o["vmin"] \in 0 .. 255

VARIABLES
  kind, opts,  \* driver and options of each device
  state,       \* life cycle of its driver
  prog,        \* its SPP program: none, running, done
  signalled,   \* SPP programs that have got SIGTERM
  fds,         \* owner of each descriptor
  fd,          \* the number that a driver or a connection holds
  port,        \* settings of the serial port
  conf,        \* history: the device that configured it last, or Nobody
  left,        \* history: drivers that have lost a descriptor
  twice        \* history: IOFilter has closed a descriptor of somebody else

config   == <<kind, opts>>
programs == <<prog, signalled>>
serial   == <<port, conf>>
vars     == <<config, state, programs, fds, fd, serial, left, twice>>

Users  == Devs \cup Clients
Fds    == 1 .. MaxFds
NoFd   == 0
Free   == {n \in Fds : fds[n] = Nobody}
States == {"closed", "greeting", "dpt", "open", "term", "reap"}

\* Options that the user gives to driver k
Given(k) ==
  CASE k = "serial" -> UserOptions
    [] k \in {"serial_simple", "serial_asm340"} -> {<<>>, [sfc |-> 0]}
    [] OTHER -> {<<>>}

TypeOK ==
  /\ kind \in Lists
  /\ \A d \in Devs : opts[d] \in Given(kind[d])
  /\ state \in [Devs -> States]
  /\ prog \in [Devs -> {"none", "running", "done"}]
  /\ signalled \subseteq Devs
  /\ fds \in [Fds -> Users \cup {Nobody}]
  /\ fd \in [Users -> Fds \cup {NoFd}]
  /\ port.flags \subseteq Flags /\ port.vmin \in 0 .. 255
  /\ conf \in Devs \cup {Nobody}
  /\ left \subseteq Devs /\ twice \in BOOLEAN
  /\ \A d \in Devs : /\ prog[d] # "none" <=> kind[d] = "spp" /\ state[d] # "closed"
                     /\ state[d] = "closed" => fd[d] = NoFd /\ d \notin signalled

Init ==
  /\ kind \in Lists
  /\ opts \in {o \in [Devs -> UNION {Given(k) : k \in AllKinds}] :
                 \A d \in Devs : o[d] \in Given(kind[d])}
  /\ state = [d \in Devs |-> "closed"]
  /\ prog = [d \in Devs |-> "none"] /\ signalled = {}
  /\ fds = [n \in Fds |-> Nobody]
  /\ fd = [u \in Users |-> NoFd]
  /\ port = NewPort /\ conf = Nobody
  /\ left = {} /\ twice = FALSE

-----------------------------------------------------------------------------
(* Descriptors                                                             *)

\* The n lowest free numbers
Lowest(n) == {i \in Free : Cardinality({j \in Free : j < i}) < n}

\* u takes descriptors S and holds the last of them.
Take(u, S) ==
  /\ S # {}
  /\ fds' = [n \in Fds |-> IF n \in S THEN u ELSE fds[n]]
  /\ fd' = [fd EXCEPT ![u] = CHOOSE n \in S : \A m \in S : m <= n]

\* ::close(fd): the number, whoever has it
CloseNumber(u) == fds' = [fds EXCEPT ![fd[u]] = Nobody]

Give(u) == CloseNumber(u) /\ fd' = [fd EXCEPT ![u] = NoFd]

\* u takes descriptors S and forgets them.
Lose(u, S) ==
  /\ S # {}
  /\ fds' = [n \in Fds |-> IF n \in S THEN u ELSE fds[n]]
  /\ left' = left \cup {u}
  /\ UNCHANGED fd

Accept(c) ==
  /\ fd[c] = NoFd
  /\ Take(c, Lowest(1))
  /\ UNCHANGED <<config, state, programs, serial, left, twice>>

Hangup(c) ==
  /\ fd[c] # NoFd
  /\ Give(c)
  /\ UNCHANGED <<config, state, programs, serial, left, twice>>

-----------------------------------------------------------------------------
(* Constructors                                                            *)

Goto(d, s) == state' = [state EXCEPT ![d] = s]

\* drv_net_gpib_prologix takes -addr out of the options of drv_net, which
\* does not work without it.
Complete(k) == k # "net_gpib_prologix"

Constructs(d, K) == state[d] = "closed" /\ kind[d] \in K /\ Complete(kind[d])

\* A constructor that throws before it has taken anything changes nothing: a
\* missing or unknown option, no device file, no descriptor, an unknown driver.
Refuse(d) == state[d] = "closed" /\ UNCHANGED vars

OpenTest(d) ==
  /\ Constructs(d, {"test"})
  /\ Goto(d, "open")
  /\ UNCHANGED <<config, programs, fds, fd, serial, left, twice>>

\* drv_usbtmc, drv_gpib, drv_vxi: open the device, clear it, set timeouts
OpenHandle(d) ==
  /\ Constructs(d, {"usbtmc", "gpib", "vxi"})
  /\ Take(d, Lowest(1))
  /\ Goto(d, "open")
  /\ UNCHANGED <<config, programs, serial, left, twice>>

\* Mutant: drv_gpib does not catch the Err of its settings.
OpenFails_NoCatch(d) ==
  /\ Constructs(d, {"usbtmc", "gpib"})
  /\ fds' = [n \in Fds |-> IF n \in Lowest(1) THEN d ELSE fds[n]]
  /\ left' = IF kind[d] = "usbtmc" THEN left \cup {d} ELSE left
  /\ UNCHANGED <<config, state, programs, fd, serial, twice>>

\* An Err of drv_usbtmc after open: a destructor does not run for an object
\* that is not constructed.  drv_gpib and drv_vxi give their handles back.
OpenFails(d) ==
  /\ Constructs(d, {"usbtmc"})
  /\ Lose(d, Lowest(1))
  /\ UNCHANGED <<config, state, programs, serial, twice>>

\* drv_net tries the addresses of the host one after another, with a socket
\* for each; only the last one is closed by the destructor.
OpenNet(d) ==
  /\ Constructs(d, {"net"})
  /\ \E n \in 1 .. MaxAddrs :
       \/ /\ Take(d, Lowest(n))
          /\ Goto(d, "open")
          /\ left' = IF Cardinality(Lowest(n)) > 1 THEN left \cup {d} ELSE left
       \/ Lose(d, Lowest(n)) /\ UNCHANGED state
  /\ UNCHANGED <<config, programs, serial, twice>>

\* drv_serial opens the port and sets its options; drv_serial_hm310t then
\* reads the positions of decimal points from the device.
OpenSerial(d) ==
  /\ Constructs(d, SerialKinds)
  /\ Take(d, Lowest(1))
  /\ port' = Configured(Options(kind[d], opts[d]), port)
  /\ conf' = d
  /\ Goto(d, IF kind[d] = "serial_hm310t" THEN "dpt" ELSE "open")
  /\ UNCHANGED <<config, programs, left, twice>>

\* An Err of Driver_serial after ::open: for an option before the settings are
\* written, or for -read_cond, which the user gives to two of the drivers and
\* which is looked at after that
OpenSerialFails(d) ==
  /\ Constructs(d, SerialKinds)
  /\ Lose(d, Lowest(1))
  /\ \/ UNCHANGED serial
     \/ /\ kind[d] \in {"serial", "serial_simple"}
        /\ port' = Configured(Options(kind[d], opts[d]), port)
        /\ conf' = Nobody
  /\ UNCHANGED <<config, state, programs, twice>>

\* read_dpt; if it fails, the base object is destroyed.
ReadDpt(d) ==
  /\ state[d] = "dpt"
  /\ \/ Goto(d, "open") /\ UNCHANGED <<fds, fd>>
     \/ Goto(d, "closed") /\ Give(d)
  /\ UNCHANGED <<config, programs, serial, left, twice>>

\* drv_spp starts the program ...
OpenSpp(d) ==
  /\ Constructs(d, {"spp"})
  /\ Take(d, Lowest(1))
  /\ prog' = [prog EXCEPT ![d] = "running"]
  /\ Goto(d, "greeting")
  /\ UNCHANGED <<config, signalled, serial, left, twice>>

\* ... unless IOFilter gets only one of its pipes, or no process: it throws an
\* Err without closing what it has.
OpenSppFails(d) ==
  /\ Constructs(d, {"spp"})
  /\ \E n \in 1 .. 2 : Lose(d, Lowest(n))
  /\ UNCHANGED <<config, state, programs, serial, twice>>

-----------------------------------------------------------------------------
(* Destructors, and the end of an SPP program                              *)

\* IOFilter::close_input
CloseInput(d) == CloseNumber(d) /\ Goto(d, "term") /\ UNCHANGED fd

\* ... and reads its first lines, in which it introduces itself.  Anything
\* else, or nothing within -open_timeout, and the program is stopped.
Greeting(d) ==
  /\ state[d] = "greeting"
  /\ \/ Goto(d, "open") /\ UNCHANGED <<fds, fd>>
     \/ CloseInput(d)
  /\ UNCHANGED <<config, programs, serial, left, twice>>

\* Device::close, or the last user leaves
Destroy(d) ==
  /\ state[d] = "open"
  /\ IF kind[d] = "spp" THEN CloseInput(d)
     ELSE /\ Goto(d, "closed")
          /\ IF kind[d] = "test" THEN UNCHANGED <<fds, fd>> ELSE Give(d)
  /\ UNCHANGED <<config, programs, serial, left, twice>>

\* Mutant: the filter is destroyed without term().
Term_NoSignal(d) ==
  /\ state[d] = "term"
  /\ UNCHANGED signalled
  /\ CloseNumber(d)
  /\ twice' = (twice \/ fds[fd[d]] # Nobody)
  /\ Goto(d, "reap")
  /\ UNCHANGED <<config, prog, fd, serial, left>>

\* term() polls until the program has ended or -close_timeout is over, and
\* then sends it SIGTERM.  The destructor of IOFilter closes the input again:
\* by now the number may belong to somebody else.
Term(d) ==
  /\ state[d] = "term"
  /\ signalled' = IF prog[d] = "running" THEN signalled \cup {d} ELSE signalled
  /\ CloseNumber(d)
  /\ twice' = (twice \/ fds[fd[d]] # Nobody)
  /\ Goto(d, "reap")
  /\ UNCHANGED <<config, prog, fd, serial, left>>

\* Mutant: the number is kept.
Reap_KeepsFd(d) ==
  /\ state[d] = "reap"
  /\ prog[d] = "done"
  /\ prog' = [prog EXCEPT ![d] = "none"]
  /\ signalled' = signalled \ {d}
  /\ Goto(d, "closed")
  /\ UNCHANGED <<config, fds, fd, serial, left, twice>>

\* waitpid() without a timeout
Reap(d) ==
  /\ state[d] = "reap"
  /\ prog[d] = "done"
  /\ prog' = [prog EXCEPT ![d] = "none"]
  /\ signalled' = signalled \ {d}
  /\ fd' = [fd EXCEPT ![d] = NoFd]
  /\ Goto(d, "closed")
  /\ UNCHANGED <<config, fds, serial, left, twice>>

-----------------------------------------------------------------------------
(* The world outside                                                       *)

\* A program ends: by itself, at the end of its input, by SIGTERM.
ProgramEnds(d) ==
  /\ prog[d] = "running"
  /\ prog' = [prog EXCEPT ![d] = "done"]
  /\ UNCHANGED <<config, state, signalled, fds, fd, serial, left, twice>>

\* Only a server with a serial device cares for the port.
UsesPort == \E d \in Devs : kind[d] \in SerialKinds

\* device_ping, as in a udev rule, opens the port with a driver of its own.
Ping ==
  /\ UsesPort
  /\ \E k \in SerialKinds : \E u \in Given(k) :
       port' = Configured(Options(k, u), port)
  /\ conf' = Nobody
  /\ UNCHANGED <<config, state, programs, fds, fd, left, twice>>

\* The port is unplugged and comes back.
Replug ==
  /\ UsesPort
  /\ port' = NewPort
  /\ conf' = Nobody
  /\ UNCHANGED <<config, state, programs, fds, fd, left, twice>>

-----------------------------------------------------------------------------
DriverStep(d) == ReadDpt(d) \/ Greeting(d) \/ Term(d) \/ Reap(d)

Next ==
  \/ \E c \in Clients : Accept(c) \/ Hangup(c)
  \/ \E d \in Devs :
       \/ Refuse(d) \/ OpenTest(d) \/ OpenHandle(d) \/ OpenFails(d) \/ OpenNet(d)
       \/ OpenSerial(d) \/ OpenSerialFails(d) \/ OpenSpp(d) \/ OpenSppFails(d)
       \/ Destroy(d) \/ DriverStep(d) \/ ProgramEnds(d)
  \/ Ping \/ Replug

Spec == Init /\ [][Next]_vars

(* Reads and timeouts of a constructor or destructor end, and SPP programs *)
(* do not survive SIGTERM.                                                 *)
Fairness ==
  \A d \in Devs : WF_vars(DriverStep(d)) /\ WF_vars(d \in signalled /\ ProgramEnds(d))

FairSpec == Spec /\ Fairness

-----------------------------------------------------------------------------
\* Drivers of SPP programs whose input is closed
Closing == {d \in Devs : state[d] \in {"term", "reap"}}

\* A closed driver has given everything back, unless one of its constructors
\* threw an Err between open and the end (drv_usbtmc, drv_serial, IOFilter of
\* drv_spp) or tried several addresses (drv_net); and what an open driver or a
\* connection holds is its own, until the second close of an SPP driver has
\* hit somebody else.
DescriptorsOwned ==
  /\ \A d \in Devs : state[d] = "closed" /\ d \notin left => \A n \in Fds : fds[n] # d
  /\ \A u \in Users \ Closing : fd[u] # NoFd /\ ~twice => fds[fd[u]] = u

\* A read of every derived serial driver ends although the device is silent,
\* whoever used the port before and with whatever settings, as long as nobody
\* has configured the port since: ask() holds the device for that long.
ReadTimesOut ==
  \A d \in Devs :
    state[d] \in {"dpt", "open"} /\ kind[d] # "serial" /\ conf = d =>
      ReadEnds(Options(kind[d], opts[d]), port)

\* Opening and closing of a device ends: they hold data_mutex, and every
\* client of the device waits for it.
OpeningEnds ==
  \A d \in Devs : state[d] \notin {"closed", "open"} ~> state[d] \in {"closed", "open"}

-----------------------------------------------------------------------------
(* The inductive invariant behind DescriptorsOwned and ReadTimesOut.       *)

\* Where drivers of each kind can be, and who holds a number
LifeCycle ==
  \A d \in Devs : /\ state[d] \in {"greeting", "term", "reap"} => kind[d] = "spp"
                  /\ state[d] = "dpt" => kind[d] = "serial_hm310t"
                  /\ kind[d] = "test" => fd[d] = NoFd
                  /\ fd[d] = NoFd => kind[d] = "test" \/ state[d] = "closed"
                  /\ d \in signalled => state[d] = "reap"

\* A driver that has lost nothing owns no number but the one that it holds,
\* and that until its destructor closes it.
OwnsWhatItHolds ==
  \A d \in Devs \ left, n \in Fds :
    fds[n] = d => fd[d] = n /\ state[d] \in {"greeting", "dpt", "open"}

\* Reads end for the device that configured the port last, open or not.
LastOneReads ==
  conf \in Devs => /\ kind[conf] \in SerialKinds
                   /\ kind[conf] # "serial" =>
                        ReadEnds(Options(kind[conf], opts[conf]), port)

IInv == TypeOK /\ LifeCycle /\ OwnsWhatItHolds /\ LastOneReads /\ DescriptorsOwned

-----------------------------------------------------------------------------
\* drv_serial_hm310t.h: "The device uses binary modbus protocol for
\* communication": its driver has to read and write every byte as it is.
BinarySafe ==
  \A d \in Devs : state[d] \in {"dpt", "open"} /\ kind[d] = "serial_hm310t" /\ conf = d =>
    Transparent(port)
=============================================================================
