------------------------------- MODULE Hm310t -------------------------------
(***************************************************************************)
(* The driver of the HM310T power supply (server/drv_serial_hm310t): a     *)
(* command of a client is one or two Modbus transactions over drv_serial,  *)
(* a request and its response each.  A response to function 3 (read a      *)
(* register) does not say which register it is about, a response to        *)
(* function 6 (write) repeats the request, and the supply may answer late, *)
(* in pieces or with an exception.                                         *)
(*                                                                         *)
(* Registers: "dpt" positions of the decimal points, "volt" for all single *)
(* ones, "oppH" and "oppL" for the ones that come in pairs.  Values are    *)
(* words, numbers of 32 bits are pairs of words; conversion from and to    *)
(* decimal numbers is left out.  Commands that need no transaction         *)
(* (identification, syntax errors) leave no trace.                         *)
(***************************************************************************)
EXTENDS Naturals, Sequences

CONSTANTS
  Words,      \* the values that are written to single registers
  Powers,     \* the values, in units of the last digit, of pairs
  MaxCmds     \* bound: how many commands there are, opening included

Word == 65536

ASSUME WordsAssumption   == Words \subseteq 0 .. Word - 1
ASSUME PowersAssumption  == Powers \subseteq Nat
ASSUME MaxCmdsAssumption == MaxCmds \in Nat

VARIABLES
  open,    \* does the driver exist (Device::drv)?
  dpt,     \* Ve, Ie and Pe, as one value
  cmd,     \* the command that the driver works on, "none" when it is idle
  todo,    \* its transactions that are not finished
  pc,      \* what comes next: writing the request or reading the response
  done,    \* its finished transactions, with the words that they have read
  clean,   \* history: no older response was to come when the command began
  torn,    \* history: an opp command has failed, and none that began with no
           \* older response to come has succeeded since
  cmds,    \* number of commands so far
  wire,    \* pieces of responses in the input buffer of the port
  instr,   \* requests that the supply has not answered
  regs,    \* its registers
  result,  \* outcome of the last command
  reading  \* the number it has read

vars == <<open, dpt, cmd, todo, pc, done, clean, torn, cmds, wire, instr, regs,
          result, reading>>
driverVars == <<open, dpt, cmd, todo, pc, done, clean, torn, cmds, result, reading>>

Registers == {"dpt", "volt", "oppH", "oppL"}
Values    == 0 .. Word - 1

Commands == {"open", "dpt?", "volt?", "opp?", "volt", "opp"}

\* A request: function code, address, value (0 for function 3)
Request == [fn : {3, 6}, addr : Registers, val : Values]

\* A response.  fn is 128 more for an exception; addr is not in the message
\* if fn is 3.  It arrives in two pieces.
Response == [fn : {3, 6, 131, 134}, addr : Registers, val : Values]
Piece    == Response \X {"head", "tail"}

\* Types; only an existing driver works, and it opens only when it is closed.
TypeOK ==
  /\ open \in BOOLEAN /\ clean \in BOOLEAN /\ torn \in BOOLEAN
  /\ dpt \in Values
  /\ cmd \in Commands \cup {"none"}
  /\ todo \in Seq(Request) /\ done \in Seq(Request)
  /\ pc \in {"write", "read"}
  /\ cmds \in 0 .. MaxCmds
  /\ wire \in Seq(Piece)
  /\ instr \in Seq([req : Request, sent : Seq(Response)])
  /\ regs \in [Registers -> Values]
  /\ result \in {"none", "OK", "Err"}
  /\ reading \in Values \X Values
  /\ cmd = "none" <=> todo = << >>
  /\ cmd \in {"none", "open"} \/ open

Quiet == wire = << >> /\ instr = << >>

Init ==
  /\ open = FALSE /\ dpt = 0
  /\ cmd = "none" /\ todo = << >> /\ pc = "write" /\ done = << >>
  /\ clean = TRUE /\ torn = FALSE /\ cmds = 0
  /\ result = "none" /\ reading = <<0, 0>>
  /\ wire = << >> /\ instr = << >>
  /\ regs = [r \in Registers |-> IF r = "dpt" THEN 563 ELSE 0]

-----------------------------------------------------------------------------
(* Commands.                                                               *)

Read(a)     == [fn |-> 3, addr |-> a, val |-> 0]
Write(a, v) == [fn |-> 6, addr |-> a, val |-> v]

\* A command begins.
Begin(c, transactions) ==
  /\ cmd = "none"
  /\ cmds < MaxCmds
  /\ cmds' = cmds + 1
  /\ cmd' = c /\ todo' = transactions /\ pc' = "write" /\ done' = << >>
  /\ clean' = Quiet
  /\ result' = "none" /\ reading' = <<0, 0>>
  /\ UNCHANGED <<open, dpt, torn, wire, instr, regs>>

\* The constructor reads the positions of the decimal points.
Open == ~open /\ Begin("open", <<Read("dpt")>>)

\* ask(): read_dpt, read_volt and the others that read one word, read_pwr; the
\* compiler chooses which word read_pwr asks for first.
AskRead ==
  /\ open
  /\ \/ Begin("dpt?", <<Read("dpt")>>)
     \/ Begin("volt?", <<Read("volt")>>)
     \/ Begin("opp?", <<Read("oppH"), Read("oppL")>>)
     \/ Begin("opp?", <<Read("oppL"), Read("oppH")>>)

\* The two words of a pair
High(p) == (p \div Word) % Word
Low(p)  == p % Word

\* Mutant: the wrong mask for the low word
AskWrite_OffByOne ==
  /\ open
  /\ \/ \E w \in Words : Begin("volt", <<Write("volt", w)>>)
     \/ \E p \in Powers :
          Begin("opp", <<Write("oppH", High(p)), Write("oppL", p % (Word - 1))>>)

\* ask() of something else: write(), write_volt and the others, write_pwr
AskWrite ==
  /\ open
  /\ \/ \E w \in Words : Begin("volt", <<Write("volt", w)>>)
     \/ \E p \in Powers :
          Begin("opp", <<Write("oppH", High(p)), Write("oppL", Low(p))>>)

\* Mutant: an error leaves the other transactions to the next command.
Finish_KeepsTodo(outcome) ==
  /\ cmd' = "none" /\ todo' = Tail(todo) /\ pc' = "write"
  /\ result' = outcome
  /\ UNCHANGED <<clean, torn, cmds, regs>>

\* The command is finished.
Finish(outcome) ==
  /\ cmd' = "none" /\ todo' = << >> /\ pc' = "write"
  /\ result' = outcome
  /\ torn' = IF cmd = "opp" THEN outcome = "Err" \/ (torn /\ ~clean) ELSE torn
  /\ UNCHANGED <<clean, cmds, regs>>

\* An Err: everything that was left to do is dropped.
Fail == Finish("Err") /\ UNCHANGED <<open, dpt, done, reading>>

\* Device::close().  The kernel drops what is in the buffer of the port.
Close ==
  /\ open
  /\ cmd = "none"
  /\ open' = FALSE
  /\ wire' = << >>
  /\ UNCHANGED <<dpt, cmd, todo, pc, done, clean, torn, cmds, instr, regs, result, reading>>

-----------------------------------------------------------------------------
(* Transactions: modbus_func3 and modbus_func6.                            *)

SendRequest ==
  /\ cmd # "none"
  /\ pc = "write"
  /\ instr' = Append(instr, [req |-> todo[1], sent |-> << >>])
  /\ pc' = "read"
  /\ UNCHANGED <<open, dpt, cmd, todo, done, clean, torn, cmds, wire, regs, result, reading>>

\* Driver_serial::write fails and flushes.
SendError ==
  /\ cmd # "none"
  /\ pc = "write"
  /\ wire' = << >>
  /\ UNCHANGED instr
  /\ Fail

\* Mutant: the response to function 6 is not compared with the request.
Accepts_AnyEcho(t, w) ==
  /\ Len(w) = 2
  /\ w[1] = <<w[2][1], "head">> /\ w[2][2] = "tail"
  /\ w[2][1].fn = t.fn

\* What one read() of the port has brought is one whole response, with the
\* right function code, and for function 6 the same as the request.
Accepts(t, w) ==
  /\ Len(w) = 2
  /\ w[1] = <<w[2][1], "head">> /\ w[2][2] = "tail"
  /\ LET r == w[2][1] IN IF t.fn = 3 THEN r.fn = 3 ELSE r = t

\* The values of the bits of a word
Bit == <<1, 2, 4, 8, 16, 32, 64, 128, 256, 512, 1024, 2048, 4096, 8192, 16384, 32768>>

\* Word h shifted to the left in 32 bits, by less than 32
Shifted(h, by) ==
  IF by >= 16 THEN <<Low(h * Bit[by - 15]), 0>>
              ELSE <<High(h * Bit[by + 1]), Low(h * Bit[by + 1])>>

\* The number of read_pwr, H << 16 + L: the sum is made first.  A shift by 32
\* or more has no meaning in C++: processors shift by the remainder, or all
\* bits out.
PowerNumbers(h, l) ==
  IF l < 16 THEN {Shifted(h, 16 + l)} ELSE {Shifted(h, (16 + l) % 32), <<0, 0>>}

\* What a command may return after its last word v
Numbers(v) ==
  CASE cmd \in {"dpt?", "volt?"}               -> {<<0, v>>}
    [] cmd = "opp?" /\ todo[1].addr = "oppL" -> PowerNumbers(done[1].val, v)
    [] cmd = "opp?" /\ todo[1].addr = "oppH" -> PowerNumbers(v, done[1].val)
    [] OTHER                                 -> {<<0, 0>>}

\* A transaction is done: the next one, or the end of the command
Advance(v) ==
  /\ done' = Append(done, [todo[1] EXCEPT !.val = v])
  /\ IF Len(todo) = 1
     THEN /\ Finish("OK")
          /\ dpt' = IF cmd \in {"open", "dpt?"} THEN v ELSE dpt
          /\ open' = (open \/ cmd = "open")
          /\ reading' \in Numbers(v)
     ELSE /\ todo' = Tail(todo) /\ pc' = "write"
          /\ UNCHANGED <<open, dpt, cmd, clean, torn, cmds, regs, result, reading>>

\* Driver_serial::read returns whatever is in the buffer.
ReadResponse ==
  /\ pc = "read"
  /\ wire # << >>
  /\ wire' = << >>
  /\ UNCHANGED instr
  /\ IF Accepts(todo[1], wire) THEN Advance(wire[1][1].val) ELSE Fail

\* Pieces of two responses that happen to have the length and the function
\* code of one: the checksum is not looked at.
ReadMixed ==
  /\ pc = "read"
  /\ Len(wire) = 2
  /\ wire[1][2] = "tail" /\ wire[2][2] = "head"
  /\ todo[1].fn = 3
  /\ wire' = << >>
  /\ UNCHANGED instr
  /\ \E v \in Words : Advance(v)

\* Mutant: after a timeout the driver sends the request again.
ReadTimeout_Retry ==
  /\ pc = "read"
  /\ wire = << >>
  /\ pc' = "write"
  /\ UNCHANGED <<open, dpt, cmd, todo, done, clean, torn, cmds, wire, instr, regs, result, reading>>

\* Nothing in time: an Err; a late response stays in the buffer.
ReadTimeout ==
  /\ pc = "read"
  /\ wire = << >>
  /\ UNCHANGED <<wire, instr>>
  /\ Fail

\* read() fails, and flushes.
ReadError ==
  /\ pc = "read"
  /\ wire' = << >>
  /\ UNCHANGED instr
  /\ Fail

-----------------------------------------------------------------------------
(* The supply.                                                             *)

\* It carries out a request or refuses it, and begins to answer ...
Execute ==
  /\ instr # << >>
  /\ instr[1].sent = << >>
  /\ LET q == instr[1].req
         Replies(r) == /\ instr' = [instr EXCEPT ![1].sent = <<r>>]
                       /\ wire' = Append(wire, <<r, "head">>)
     IN  \/ /\ q.fn = 3
            /\ Replies([q EXCEPT !.val = regs[q.addr]])
            /\ UNCHANGED regs
         \/ /\ q.fn = 6
            /\ regs' = [regs EXCEPT ![q.addr] = q.val]
            /\ Replies(q)
         \/ Replies([q EXCEPT !.fn = q.fn + 128]) /\ UNCHANGED regs
  /\ UNCHANGED driverVars

\* ... and sends the rest.
Reply ==
  /\ instr # << >>
  /\ instr[1].sent # << >>
  /\ wire' = Append(wire, <<instr[1].sent[1], "tail">>)
  /\ instr' = Tail(instr)
  /\ UNCHANGED <<driverVars, regs>>

-----------------------------------------------------------------------------
Command == Open \/ AskRead \/ AskWrite \/ Close
Transact ==
  \/ SendRequest \/ SendError
  \/ ReadResponse \/ ReadMixed \/ ReadTimeout \/ ReadError
Supply == Execute \/ Reply

\* All commands of the instance have been given.
Terminated == cmds = MaxCmds /\ cmd = "none" /\ UNCHANGED vars

Next == Command \/ Transact \/ Supply \/ Terminated

Spec == Init /\ [][Next]_vars

-----------------------------------------------------------------------------
\* The command that is being worked on succeeds in this step.
Succeeds == cmd # "none" /\ result' = "OK"

\* What the finished transactions of the command say of the registers is so.
Holds(fns) ==
  \A i \in 1 .. Len(done') : done'[i].fn \in fns => regs[done'[i].addr] = done'[i].val

\* A command that sets a register and succeeds has set it, and a pair as a
\* whole, even when responses to older commands that were given up arrive
\* meanwhile: an echo can be late, but it shows that its value was written.
WriteConfirmed ==
  [][Succeeds => Holds({6}) /\ (cmd = "opp" => Len(done') = 2)]_vars

\* The power limit of the supply is the one of some opp command, or the one it
\* was switched on with, and not the high word of one and the low word of
\* another: except while the two words are being written, and after an opp
\* command failed, which nothing undoes, until the next one has succeeded.
LimitWhole ==
  cmd # "opp" /\ ~torn =>
    <<regs["oppH"], regs["oppL"]>> \in {<<High(p), Low(p)>> : p \in Powers \cup {0}}

\* The words that a command reads are the ones of its own registers, if no
\* response to an older command was to come when it began; and then it leaves
\* nothing behind for the next one either.  So are the decimal points that
\* scale every later value, and the number returned for a single register; the
\* one for a pair ("opp? -- get over power protection [W] (doesn not work?)",
\* drv_serial_hm310t.h) is the number in its two registers if the low word is 0.
ReadsOwn ==
  [][Succeeds /\ clean =>
       /\ Holds({3})
       /\ cmd \in {"open", "dpt?"} => dpt' = regs["dpt"]
       /\ cmd \in {"dpt?", "volt?"} => reading' = <<0, regs[todo[1].addr]>>
       /\ cmd = "opp?" /\ regs["oppL"] = 0 => reading' = <<regs["oppH"], 0>>
       /\ Quiet']_vars

-----------------------------------------------------------------------------
(* The inductive invariant behind WriteConfirmed, LimitWhole and ReadsOwn. *)

\* The transactions of every command, finished and to do
Planned ==
  /\ cmd \in {"open", "dpt?"} => todo = <<Read("dpt")>> /\ done = << >>
  /\ cmd = "volt?" => todo = <<Read("volt")>> /\ done = << >>
  /\ cmd = "volt"  => done = << >> /\ \E w \in Words : todo = <<Write("volt", w)>>
  /\ cmd = "opp?"  =>
       \E a \in {"oppH", "oppL"} :
         LET b == IF a = "oppH" THEN "oppL" ELSE "oppH" IN
         \/ todo = <<Read(a), Read(b)>> /\ done = << >>
         \/ todo = <<Read(b)>> /\ \E v \in Values : done = <<[Read(a) EXCEPT !.val = v]>>
  /\ cmd = "opp"   =>
       \E p \in Powers :
         \/ todo = <<Write("oppH", High(p)), Write("oppL", Low(p))>> /\ done = << >>
         \/ todo = <<Write("oppL", Low(p))>> /\ done = <<Write("oppH", High(p))>>
  /\ IF cmd = "none" THEN pc = "write" ELSE result = "none"

\* r is what the supply may say to request q, and its registers are still so.
Answers(r, q) ==
  /\ r.addr = q.addr /\ r.fn \in {q.fn, q.fn + 128}
  /\ r.fn = 6 => r = q
  /\ r.fn \in {3, 6} => regs[r.addr] = r.val

\* The supply works on its oldest request, and what came last from it tells
\* what it has done last.
Answering ==
  /\ \A i \in 1 .. Len(instr) :
       instr[i].sent # << >> => i = 1 /\ Answers(instr[1].sent[1], instr[1].req)
  /\ wire # << >> => LET r == wire[Len(wire)][1] IN r.fn = 6 => regs[r.addr] = r.val

\* A register is not written again after its echo was read, or the echo of
\* that is in the buffer.
StillWritten ==
  cmd # "none" =>
    \A i \in 1 .. Len(done) :
      done[i].fn = 6 =>
        \/ regs[done[i].addr] = done[i].val
        \/ \E j \in 1 .. Len(wire) : /\ wire[j][2] = "head"
                                     /\ wire[j][1].fn = 6 /\ wire[j][1].addr = done[i].addr

\* In a command that began with no older response to come, there is only its
\* own request, and its response.
OwnOnly ==
  cmd # "none" /\ clean =>
    /\ pc = "write" => Quiet
    /\ pc = "read" =>
         \/ wire = << >> /\ instr = <<[req |-> todo[1], sent |-> << >>]>>
         \/ \E r \in Response :
              /\ Answers(r, todo[1])
              /\ \/ wire = <<<<r, "head">>>> /\ instr = <<[req |-> todo[1], sent |-> <<r>>]>>
                 \/ wire = <<<<r, "head">>, <<r, "tail">>>> /\ instr = << >>
    /\ \A i \in 1 .. Len(done) : regs[done[i].addr] = done[i].val

OppWrite(m) == m.fn = 6 /\ m.addr \in {"oppH", "oppL"}

\* As long as no opp command has failed the only write to a pair that is under
\* way is the one of the current command.
PairsInOrder ==
  ~torn =>
    /\ \A i \in 1 .. Len(instr) :
         OppWrite(instr[i].req) =>
           /\ cmd = "opp" /\ pc = "read" /\ i = Len(instr) /\ instr[i].req = todo[1]
           /\ \A j \in 1 .. Len(wire) : OppWrite(wire[j][1]) => wire[j][2] = "head"
    /\ \A j \in 1 .. Len(wire) :
         OppWrite(wire[j][1]) => cmd = "opp" /\ pc = "read" /\ wire[j][1] = todo[1]
    /\ cmd = "opp" => \A i \in 1 .. Len(done) : regs[done[i].addr] = done[i].val

IInv ==
  /\ TypeOK /\ Planned /\ Answering /\ StillWritten /\ OwnOnly /\ PairsInOrder
  /\ LimitWhole
=============================================================================
