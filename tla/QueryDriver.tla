---------------------------- MODULE QueryDriver ----------------------------
(***************************************************************************)
(* Asking an instrument through a driver: write a message and, if an       *)
(* answer is expected, read it (server/drv_net, drv_usbtmc, drv_gpib,      *)
(* drv_vxi, drv_serial, drv_spp; drv_utils).  The server calls one ask()   *)
(* of a driver at a time (cmd_mutex, module Device), but the instrument    *)
(* answers in its own time, in pieces perhaps, or not at all.              *)
(*                                                                         *)
(* A message is what the drivers and the instrument tell apart:            *)
(*   "command"  no question mark            "idn"   *idn?                  *)
(*   "query"    one in the first word       "text"  one in a later word    *)
(* A piece of an answer is <<n, t>>: n is the number of the ask that it    *)
(* answers, t is "more", or ends the answer: "OK", or "Err" where the      *)
(* protocol has errors (nack, #Error), or "bad", a line that the simple    *)
(* pipe protocol does not allow.                                           *)
(*                                                                         *)
(* Kinds "serial", "ack" and "ndelay" are drv_serial without -ack_str,     *)
(* with it, and in non-blocking mode, which drv_serial_et, _l300 and       *)
(* _jds6600 use and drv_serial itself unless -ndelay 0 is given            *)
(* (NonBlocking of module SerialPort).                                     *)
(***************************************************************************)
EXTENDS Naturals, Sequences

CONSTANTS
  Kinds,      \* the drivers
  Messages,   \* the messages that clients send
  MaxAsks     \* bound: how many asks there are

SerialKinds == {"serial", "ack", "ndelay"}
AllKinds    == SerialKinds \cup {"net", "usbtmc", "gpib", "vxi", "spp"}
AllMessages == {"command", "query", "idn", "text"}
Conds       == {"always", "never", "qmark", "qmark1w"}
Tokens      == {"more", "OK", "Err", "bad"}

ASSUME KindsAssumption    == Kinds \subseteq AllKinds
ASSUME MessagesAssumption == Messages \subseteq AllMessages
ASSUME MaxAsksAssumption  == MaxAsks \in Nat

VARIABLES
  kind, cond, idn,   \* which driver, option -read_cond, is -idn given
  auto_abort,        \* Driver_usbtmc::auto_abort
  asks,              \* number of the current ask
  msg, pc,           \* its message, where the driver is in it
  got,               \* variable ret of read(): pieces of the answer
  wire,              \* pieces that wait in the input buffer of the driver
  instr,             \* messages that the instrument has not dealt with
  alive,             \* the other end of the connection exists
  last,              \* the last ask that returned since the driver was opened
  gaveup             \* history: an ask ended without its answer, and nothing
                     \* has been done about the answer that may still come

vars == <<kind, cond, idn, auto_abort, asks, msg, pc, got, wire, instr, alive,
          last, gaveup>>
options == <<kind, cond, idn, auto_abort>>

NoAsk  == [n |-> 0, read |-> FALSE, ok |-> FALSE, got |-> <<>>]
Pieces == (1 .. MaxAsks) \X Tokens

TypeOK ==
  /\ kind \in Kinds /\ cond \in Conds /\ idn \in BOOLEAN /\ auto_abort \in BOOLEAN
  /\ asks \in 0 .. MaxAsks
  /\ msg \in Messages \cup {"none"}
  /\ pc \in {"idle", "write", "read"}
  /\ got \in Seq(Pieces) /\ wire \in Seq(Pieces)
  /\ instr \in Seq([n : 1 .. MaxAsks, m : Messages, begun : BOOLEAN])
  /\ alive \in BOOLEAN /\ gaveup \in BOOLEAN
  /\ last \in [n : 0 .. MaxAsks, read : BOOLEAN, ok : BOOLEAN, got : Seq(Pieces)]
  /\ pc = "idle" => got = <<>>

-----------------------------------------------------------------------------
(* Which messages have answers: the driver's opinion and the instrument's. *)

\* The position of '?' against npos and against that of ' '
check_read_cond(m, c) ==
  CASE c = "always"  -> TRUE
    [] c = "never"   -> FALSE
    [] c = "qmark"   -> m \in {"query", "idn", "text"}
    [] c = "qmark1w" -> m \in {"query", "idn"}

\* ask() of drv_spp has no read condition.
Reads(m) == kind = "spp" \/ check_read_cond(m, cond)

\* With acknowledgement and in the pipe protocol every message is answered.
Answers(k, m) == k \in {"ack", "spp"} \/ m \in {"query", "idn"}

\* The option fits the instrument: no answer is left unread on purpose.
Suits(k, c) ==
  k = "spp" \/ \A m \in Messages : Answers(k, m) => check_read_cond(m, c)

Init ==
  /\ kind \in Kinds /\ cond \in {c \in Conds : Suits(kind, c)}
  /\ idn \in BOOLEAN
  /\ auto_abort \in IF kind = "usbtmc" THEN BOOLEAN ELSE {FALSE}
  /\ asks = 0 /\ msg = "none" /\ pc = "idle"
  /\ got = <<>> /\ wire = <<>> /\ instr = <<>>
  /\ alive = TRUE /\ gaveup = FALSE
  /\ last = NoAsk

-----------------------------------------------------------------------------
(* ask() and write()                                                       *)

\* Mutant: variable ret outlives the call.
Return_KeepsGot(n, ok, answer) ==
  /\ last' = [n |-> n, read |-> pc = "read", ok |-> ok, got |-> answer]
  /\ pc' = "idle"
  /\ got' = got
  /\ msg' = "none"

\* Ask n ends: with an answer if ok, with an Err if not.
Return(n, ok, answer) ==
  /\ last' = [n |-> n, read |-> pc = "read", ok |-> ok, got |-> answer]
  /\ pc' = "idle"
  /\ got' = <<>>
  /\ msg' = "none"

\* Option -idn; drv_spp compares the other way round.
Overridden(m) == idn /\ (IF kind = "spp" THEN m # "idn" ELSE m = "idn")

Ask ==
  /\ pc = "idle"
  /\ asks < MaxAsks
  /\ asks' = asks + 1
  /\ \E m \in Messages :
       IF Overridden(m) THEN Return(asks + 1, TRUE, <<>>)
       ELSE msg' = m /\ pc' = "write" /\ UNCHANGED <<got, last>>
  /\ UNCHANGED <<options, wire, instr, alive, gaveup>>

Write ==
  /\ pc = "write"
  /\ instr' = IF alive THEN Append(instr, [n |-> asks, m |-> msg, begun |-> FALSE])
                       ELSE instr
  /\ IF Reads(msg) THEN pc' = "read" /\ UNCHANGED <<got, msg, last>>
                   ELSE Return(asks, TRUE, <<>>)
  /\ UNCHANGED <<options, asks, wire, alive, gaveup>>

\* USBTMC_IOCTL_CLEAR: "clear input and output buffers"
Clears == kind = "usbtmc" /\ ~auto_abort

\* The message could not be sent.  drv_usbtmc clears, drv_serial flushes;
\* drv_spp does not look at the state of its stream.
WriteError ==
  /\ pc = "write"
  /\ kind # "spp"
  /\ wire' = IF Clears \/ kind \in SerialKinds THEN <<>> ELSE wire
  /\ instr' = IF Clears THEN <<>> ELSE instr
  /\ gaveup' = (gaveup /\ ~Clears)
  /\ UNCHANGED asks
  /\ Return(asks, FALSE, <<>>)
  /\ UNCHANGED <<options, alive>>

-----------------------------------------------------------------------------
(* read(), one action for every driver                                     *)

Reading(K) == pc = "read" /\ kind \in K

Ends(p) == p[2] # "more"

\* read() returns an answer or throws an Err; what the buffer holds then
ReadReturns(ok, answer, rest) ==
  /\ wire' = rest
  /\ UNCHANGED <<asks, instr, alive, gaveup>>
  /\ Return(asks, ok, answer)
  /\ UNCHANGED options

\* read() goes on with what it has read so far
ReadsOn(rest) ==
  /\ got' = got \o SubSeq(wire, 1, Len(wire) - Len(rest))
  /\ wire' = rest
  /\ UNCHANGED <<options, asks, msg, pc, instr, alive, last, gaveup>>

\* One recv(), one read(): everything that is in the buffer
ReadBuffer ==
  /\ Reading({"net", "serial", "ndelay"})
  /\ wire # <<>>
  /\ ReadReturns(TRUE, wire, <<>>)

\* Messages have an end on the bus: the length of the first one
MessageLen == CHOOSE i \in 1 .. Len(wire) : Ends(wire[i]) /\ \A j \in 1 .. i - 1 : ~Ends(wire[j])
HasMessage == \E i \in 1 .. Len(wire) : Ends(wire[i])

ReadMessage ==
  /\ Reading({"gpib", "vxi"})
  /\ HasMessage
  /\ ReadReturns(TRUE, SubSeq(wire, 1, MessageLen), SubSeq(wire, MessageLen + 1, Len(wire)))

\* Bit 4 of the status byte: more data, in the buffer or to come
MessageAvailable(rest) == rest # <<>> \/ (instr # <<>> /\ instr[1].begun)

\* Mutant: the status byte is not read.
ReadTmc_Once ==
  /\ Reading({"usbtmc"})
  /\ wire # <<>>
  /\ ReadReturns(TRUE, got \o <<Head(wire)>>, Tail(wire))

\* The loop of drv_usbtmc: a transfer, then the status byte
ReadTmc ==
  /\ Reading({"usbtmc"})
  /\ wire # <<>>
  /\ IF MessageAvailable(Tail(wire)) THEN ReadsOn(Tail(wire))
     ELSE ReadReturns(TRUE, got \o <<Head(wire)>>, <<>>)

\* The loop of drv_serial with -ack_str and -nack_str: until the data end with
\* one of them
ReadAck ==
  /\ Reading({"ack"})
  /\ wire # <<>>
  /\ IF Ends(wire[Len(wire)])
     THEN ReadReturns(wire[Len(wire)][2] = "OK", got \o wire, <<>>)
     ELSE ReadsOn(<<>>)

\* read_spp, line by line: text, OK, an error
ReadSpp ==
  /\ Reading({"spp"})
  /\ wire # <<>>
  /\ wire[1][2] # "bad"
  /\ IF Ends(wire[1]) THEN ReadReturns(wire[1][2] = "OK", got \o <<wire[1]>>, Tail(wire))
                      ELSE ReadsOn(Tail(wire))

\* An Err; if there was a chance to clear the instrument, it is cleared.
ReadFails(rest, cleared) ==
  /\ wire' = IF cleared THEN <<>> ELSE rest
  /\ instr' = IF cleared THEN <<>> ELSE instr
  /\ gaveup' = ~cleared
  /\ UNCHANGED asks
  /\ Return(asks, FALSE, <<>>)
  /\ UNCHANGED <<options, alive>>

\* read_spp: a line that begins with the special character is not protected;
\* the rest of the answer stays in the pipe.
ReadBadLine ==
  /\ Reading({"spp"})
  /\ wire # <<>>
  /\ wire[1][2] = "bad"
  /\ ReadFails(Tail(wire), FALSE)

\* Mutant: an error is repeated for ever.
Timeout_Retries ==
  /\ Reading(AllKinds \ {"ndelay"})
  /\ IF kind \in {"gpib", "vxi"} THEN ~HasMessage ELSE wire = <<>>
  /\ UNCHANGED vars

\* Mutant: the device is not cleared after a failed transfer.
Timeout_NoClear ==
  /\ Reading(AllKinds \ {"ndelay"})
  /\ IF kind \in {"gpib", "vxi"} THEN ~HasMessage ELSE wire = <<>>
  /\ gaveup' = ~Clears
  /\ UNCHANGED <<asks, wire, instr>>
  /\ Return(asks, FALSE, <<>>)
  /\ UNCHANGED <<options, alive>>

\* Nothing came in time, or the program has ended.  drv_usbtmc clears the device; the others leave it,
\* and drv_serial does not even flush its buffer.
Timeout ==
  /\ Reading(AllKinds \ {"ndelay"})
  /\ IF kind \in {"gpib", "vxi"} THEN ~HasMessage ELSE wire = <<>>
  /\ ReadFails(wire, Clears)

\* The status byte cannot be read: an Err, and what was read is lost.
StatusError ==
  /\ Reading({"usbtmc"})
  /\ wire # <<>>
  /\ ReadFails(Tail(wire), FALSE)

\* An error of the port: drv_serial flushes its buffers (-flush_on_err).
PortError ==
  /\ Reading(SerialKinds)
  /\ ReadFails(<<>>, FALSE)

\* Non-blocking mode: no data yet is an empty answer.  The end of a network
\* connection is one, too.
ReadNothing ==
  /\ pc = "read"
  /\ wire = <<>>
  /\ kind = "ndelay" \/ (kind = "net" /\ ~alive)
  /\ gaveup' = TRUE
  /\ UNCHANGED <<asks, wire, instr>>
  /\ Return(asks, TRUE, <<>>)
  /\ UNCHANGED <<options, alive>>

-----------------------------------------------------------------------------
(* The other end, and the server opening the driver anew.                  *)

\* Where an answer can come in several pieces without being torn apart
Framed == kind \in {"usbtmc", "gpib", "vxi", "ack", "spp"}

\* The instrument deals with its messages one after another.
Instrument ==
  /\ instr # <<>>
  /\ LET r == instr[1]
     IN  IF ~Answers(kind, r.m) THEN instr' = Tail(instr) /\ UNCHANGED wire
         ELSE \/ /\ Framed /\ ~r.begun
                 /\ instr' = [instr EXCEPT ![1].begun = TRUE]
                 /\ \E t \in {"more"} \cup (IF kind = "spp" THEN {"bad"} ELSE {}) :
                      wire' = Append(wire, <<r.n, t>>)
              \/ /\ instr' = Tail(instr)
                 /\ \E t \in {"OK"} \cup (IF kind \in {"ack", "spp"} THEN {"Err"} ELSE {}) :
                      wire' = Append(wire, <<r.n, t>>)
  /\ UNCHANGED <<options, asks, msg, pc, got, alive, last, gaveup>>

\* A device closes its network connection, a program ends.
Hangup ==
  /\ kind \in {"net", "spp"}
  /\ alive
  /\ alive' = FALSE
  /\ instr' = <<>>
  /\ UNCHANGED <<options, asks, msg, pc, got, wire, last, gaveup>>

\* Device::close(), and use() that runs the constructor: a new connection or
\* program, or a device clear.  A serial port is only opened again.
Reopen ==
  /\ pc = "idle"
  /\ wire' = <<>>
  /\ instr' = IF kind \in SerialKinds THEN instr ELSE <<>>
  /\ gaveup' = (gaveup /\ kind \in SerialKinds /\ instr # <<>>)
  /\ alive' = TRUE
  /\ last' = NoAsk
  /\ UNCHANGED <<options, asks, msg, pc, got>>

-----------------------------------------------------------------------------
DriverStep ==
  \/ Write \/ WriteError
  \/ ReadBuffer \/ ReadMessage \/ ReadTmc \/ ReadAck \/ ReadSpp \/ ReadBadLine
  \/ Timeout \/ StatusError \/ PortError \/ ReadNothing

Next == Ask \/ DriverStep \/ Instrument \/ Hangup \/ Reopen

Spec == Init /\ [][Next]_vars

\* System calls of the driver return, at the latest with a timeout.
FairSpec == Spec /\ WF_vars(DriverStep)

-----------------------------------------------------------------------------
\* An answer that ask() returns is the answer to its message, all of it and
\* not an error, as long as no ask has been given up since the instrument was
\* last cleared: in whatever pieces it came, and whatever was asked before.
InSync ==
  last.ok /\ last.read /\ ~gaveup =>
    LET a == last.got
    IN  /\ a # <<>> /\ a[Len(a)] = <<last.n, "OK">>
        /\ \A i \in 1 .. Len(a) - 1 : a[i] = <<last.n, "more">>

\* When the driver is idle no answer waits in the buffer and none is on its
\* way, unless an ask has been given up.
NoLeftover ==
  pc = "idle" /\ ~gaveup =>
    /\ wire = <<>>
    /\ \A i \in 1 .. Len(instr) : ~Answers(kind, instr[i].m)

\* ask() returns: no loop of a read() goes on for ever, and the thread gives
\* the device back to the others.
AskReturns == pc # "idle" ~> pc = "idle"

-----------------------------------------------------------------------------
(* The inductive invariant behind InSync and NoLeftover.                   *)

\* The driver has a message, and has read nothing before it has sent it.
Asking ==
  /\ Suits(kind, cond)
  /\ pc # "idle" => msg \in Messages /\ asks > 0
  /\ pc # "read" => got = <<>>

\* Which pieces a protocol has; one answer is begun at a time.
Protocol ==
  /\ \A i \in 1 .. Len(wire) :
       /\ wire[i][2] = "more" => Framed
       /\ wire[i][2] = "Err"  => kind \in {"ack", "spp"}
       /\ wire[i][2] = "bad"  => kind = "spp"
  /\ \A i \in 1 .. Len(instr) : instr[i].begun => i = 1 /\ Answers(kind, instr[i].m)

\* Nobody is going to answer.
NoneToCome == \A i \in 1 .. Len(instr) : ~Answers(kind, instr[i].m)

\* What is on its way while an answer is read is this answer: only its end is
\* missing, or the end is the last piece and nothing comes after it.
OwnAnswer ==
  /\ \A i \in 1 .. Len(instr) : Answers(kind, instr[i].m) => i = Len(instr) /\ instr[i].n = asks
  /\ \A i \in 1 .. Len(got) : got[i] = <<asks, "more">>
  /\ \A i \in 1 .. Len(wire) :
       /\ wire[i][1] = asks
       /\ wire[i][2] \in {"OK", "Err"} => i = Len(wire) /\ NoneToCome

\* The status byte tells whether there is more.
Status ==
  kind = "usbtmc" /\ (got # <<>> \/ wire # <<>>) =>
    \/ wire # <<>> /\ wire[Len(wire)][2] = "OK"
    \/ instr # <<>> /\ instr[1].begun

InTurn == ~gaveup => IF pc = "read" THEN OwnAnswer /\ Status ELSE wire = <<>> /\ NoneToCome

IInv == TypeOK /\ Asking /\ Protocol /\ InTurn /\ InSync
=============================================================================
