---------------------------- MODULE Hm310tProofs ----------------------------
(* Proofs about Hm310t, for any words, powers and number of commands.      *)
EXTENDS Hm310t, SequenceTheorems, TLAPS

-----------------------------------------------------------------------------
(* Words and sequences.                                                    *)

\* Words are numbers below 65536, and 0 is one.
LEMMA WordsAreNumbers ==
  Values \subseteq Nat /\ 0 \in Values /\ \A v \in Values : v < 65536
<1>1. Word \in Nat /\ 0 < Word /\ Word = 65536
  BY DEF Word
<1>2. \A w \in Nat : \A v \in 0 .. w - 1 : v \in Nat /\ v < w
  OBVIOUS
<1>3. \A w \in Nat : 0 < w => 0 \in 0 .. w - 1
  OBVIOUS
<1> HIDE DEF Word
<1> QED
  BY <1>1, <1>2, <1>3 DEF Values

\* Both words of a pair are words.
LEMMA HalvesAreWords ==
  ASSUME NEW p \in Nat
  PROVE  High(p) \in Values /\ Low(p) \in Values
<1>1. Word \in Nat \ {0}
  BY DEF Word
<1> HIDE DEF Word
<1>2. \A n, w \in Nat : w # 0 => n \div w \in Nat
  OBVIOUS
<1>3. \A n, w \in Nat : w # 0 => n % w \in 0 .. w - 1
  OBVIOUS
<1>4. p \div Word \in Nat
  BY <1>1, <1>2
<1> QED
  BY <1>1, <1>3, <1>4 DEF High, Low, Values

\* read_pwr makes numbers of 32 bits.
LEMMA PowerNumbersOK ==
  ASSUME NEW h \in Values, NEW l \in Values
  PROVE  PowerNumbers(h, l) \subseteq Values \X Values
<1>1. /\ Values \subseteq Nat /\ 0 \in Values
  BY WordsAreNumbers
<1>2. \A i \in 1 .. 16 : Bit[i] \in Nat
  BY DEF Bit
<1>3. \A by \in 0 .. 31 : Shifted(h, by) \in Values \X Values
  <2> SUFFICES ASSUME NEW by \in 0 .. 31 PROVE Shifted(h, by) \in Values \X Values
    OBVIOUS
  <2>1. CASE by >= 16
    <3>1. by - 15 \in 1 .. 16
      BY <2>1
    <3>2. h * Bit[by - 15] \in Nat
      BY <1>1, <1>2, <3>1
    <3> QED
      BY <1>1, <2>1, <3>2, HalvesAreWords DEF Shifted
  <2>2. CASE ~(by >= 16)
    <3>1. by + 1 \in 1 .. 16
      BY <2>2
    <3>2. h * Bit[by + 1] \in Nat
      BY <1>1, <1>2, <3>1
    <3> QED
      BY <2>2, <3>2, HalvesAreWords DEF Shifted
  <2> QED
    BY <2>1, <2>2
<1>4. l \in Nat /\ (l < 16 => 16 + l \in 0 .. 31) /\ (16 + l) % 32 \in 0 .. 31
  BY <1>1
<1> QED
  BY <1>1, <1>3, <1>4 DEF PowerNumbers

\* ... and the right one of a high word with a low word of 0.
LEMMA PowerOfHigh ==
  ASSUME NEW h \in Values
  PROVE  PowerNumbers(h, 0) = {<<h, 0>>}
<1>1. Shifted(h, 16) = <<Low(h * Bit[1]), 0>>
  BY DEF Shifted
<1>2. Low(h * Bit[1]) = h
  <2>1. Bit[1] = 1
    BY DEF Bit
  <2>2. h \in Nat /\ h < 65536
    BY WordsAreNumbers
  <2>3. h * Bit[1] = h
    BY <2>1, <2>2
  <2>4. h % 65536 = h
    BY <2>2
  <2> QED
    BY <2>3, <2>4 DEF Low, Word
<1> QED
  BY <1>1, <1>2 DEF PowerNumbers

\* Requests that the driver makes
LEMMA RequestsOK ==
  /\ \A a \in Registers : Read(a) \in Request
  /\ \A a \in Registers, v \in Values : Write(a, v) \in Request
<1>1. 0 \in Values
  BY DEF Values, Word
<1> QED
  BY <1>1 DEF Read, Write, Request

\* Short sequences
LEMMA OneTwo ==
  ASSUME NEW S, NEW a \in S, NEW b \in S
  PROVE  /\ <<a>> \in Seq(S) /\ Len(<<a>>) = 1 /\ <<a>>[1] = a /\ Tail(<<a>>) = << >>
         /\ <<a, b>> \in Seq(S) /\ Len(<<a, b>>) = 2 /\ <<a, b>>[1] = a /\ <<a, b>>[2] = b
         /\ Tail(<<a, b>>) = <<b>> /\ Append(<<a>>, b) = <<a, b>> /\ Append(<< >>, a) = <<a>>
         /\ <<a>> # << >> /\ <<a, b>> # << >>
<1>1. <<a>> \in Seq(S) /\ Len(<<a>>) = 1 /\ <<a>>[1] = a /\ Tail(<<a>>) = << >> /\ <<a>> # << >>
  OBVIOUS
<1>2. <<a, b>> \in Seq(S) /\ Len(<<a, b>>) = 2 /\ <<a, b>>[1] = a /\ <<a, b>>[2] = b
  OBVIOUS
<1>3. Tail(<<a, b>>) = <<b>> /\ Append(<< >>, a) = <<a>> /\ <<a, b>> # << >>
  OBVIOUS
<1>4. Append(<<a>>, b) = <<a, b>>
  <2>1. /\ Append(<<a>>, b) \in Seq(S) /\ Len(Append(<<a>>, b)) = 2
        /\ Append(<<a>>, b)[1] = a /\ Append(<<a>>, b)[2] = b
    BY <1>1, AppendProperties
  <2> QED
    <3>1. \A i \in 1 .. 2 : Append(<<a>>, b)[i] = <<a, b>>[i]
      BY <2>1, <1>2
    <3> QED
      BY <2>1, <1>2, <3>1, SeqEqual
<1> QED
  BY <1>1, <1>2, <1>3, <1>4

\* The kinds of commands, and how far each is
LEMMA Plans ==
  ASSUME TypeOK, Planned, cmd # "none"
  PROVE  /\ todo \in Seq(Request) /\ todo # << >> /\ todo[1] \in Request
         /\ \/ /\ cmd \notin {"volt", "opp"} /\ todo[1].fn = 3
               /\ cmd = "opp?" /\ Len(todo) = 1 => done[1].val \in Values
               /\ \A i \in 1 .. Len(done) : done[i].fn = 3
               /\ cmd \in {"open", "dpt?"} => todo[1].addr = "dpt"
            \/ cmd = "volt" /\ todo[1].fn = 6 /\ done = << >> /\ todo[1].addr = "volt"
            \/ /\ cmd = "opp" /\ todo[1].fn = 6
               /\ \/ todo[1].addr = "oppH" /\ Len(todo) = 2 /\ done = << >>
                  \/ /\ todo[1].addr = "oppL" /\ Len(todo) = 1
                     /\ Len(done) = 1 /\ done[1].addr = "oppH"
<1>1. todo \in Seq(Request) /\ todo # << >> /\ todo[1] \in Request
  BY DEF TypeOK
<1>2. CASE cmd \in {"open", "dpt?", "volt?", "volt"}
  BY <1>1, <1>2 DEF Planned, Read, Write
<1>3. CASE cmd = "opp?"
  <2>1. PICK a \in {"oppH", "oppL"}, b \in {"oppH", "oppL"} :
          \/ todo = <<Read(a), Read(b)>> /\ done = << >>
          \/ todo = <<Read(b)>> /\ \E v \in Values : done = <<[Read(a) EXCEPT !.val = v]>>
    BY <1>3 DEF Planned
  <2>2. CASE todo = <<Read(a), Read(b)>> /\ done = << >>
    <3>1. todo[1].fn = 3 /\ Len(todo) = 2 /\ Len(done) = 0
      BY <2>2 DEF Read
    <3> QED
      BY <1>1, <1>3, <3>1
  <2>3. CASE todo = <<Read(b)>> /\ \E v \in Values : done = <<[Read(a) EXCEPT !.val = v]>>
    <3>1. PICK v \in Values : done = <<[Read(a) EXCEPT !.val = v]>>
      BY <2>3
    <3>2. todo[1].fn = 3 /\ Len(done) = 1 /\ done[1].fn = 3 /\ done[1].val = v
      BY <2>3, <3>1 DEF Read
    <3> QED
      BY <1>1, <1>3, <3>2
  <2> QED
    BY <2>1, <2>2, <2>3
<1>4. CASE cmd = "opp"
  BY <1>1, <1>4 DEF Planned, Write
<1> QED
  BY <1>1, <1>2, <1>3, <1>4 DEF TypeOK, Commands

-----------------------------------------------------------------------------
(* The inductive invariant.                                                *)

\* Before the driver is opened
LEMMA InitIInv == Init => IInv
<1> SUFFICES ASSUME Init PROVE IInv
  OBVIOUS
<1>1. 563 \in Values /\ 0 \in Values
  BY DEF Values, Word
<1>2. TypeOK
  <2>1. regs \in [Registers -> Values]
    BY <1>1 DEF Init
  <2> QED
    <3>1. instr \in Seq([req : Request, sent : Seq(Response)]) /\ wire \in Seq(Piece)
      BY DEF Init
    <3>2. todo \in Seq(Request) /\ done \in Seq(Request) /\ cmds \in 0 .. MaxCmds
      BY MaxCmdsAssumption DEF Init
    <3> QED
      BY <1>1, <2>1, <3>1, <3>2 DEF Init, TypeOK
<1>3. LimitWhole
  <2>1. High(0) = 0 /\ Low(0) = 0
    BY DEF High, Low, Word
  <2> QED
    BY <2>1 DEF Init, LimitWhole, Registers
<1> QED
  BY <1>2, <1>3 DEF Init, IInv, Planned, Answering, StillWritten, OwnOnly, PairsInOrder

\* The beginning of a command
LEMMA BeginIInv ==
  ASSUME IInv, NEW c \in Commands, NEW t \in Seq(Request), t # << >>, Begin(c, t),
         open \/ c = "open", Planned'
  PROVE  IInv'
<1> USE DEF IInv, Begin
<1>1. TypeOK'
  <2>1. clean' \in BOOLEAN /\ cmds' \in 0 .. MaxCmds
    BY MaxCmdsAssumption DEF TypeOK, Quiet
  <2>2. reading' \in Values \X Values
    <3>1. 0 \in Values
      BY DEF Values, Word
    <3> QED
      BY <3>1
  <2> QED
    BY <2>1, <2>2 DEF TypeOK, Commands
<1>2. Answering'
  BY DEF Answering, Answers
<1>3. StillWritten'
  BY DEF StillWritten
<1>6. OwnOnly'
  <2>1. clean' => Quiet'
    BY DEF Quiet
  <2>2. pc' = "write" /\ done' = << >>
    OBVIOUS
  <2> QED
    BY <2>1, <2>2 DEF OwnOnly
<1>4. PairsInOrder'
  BY DEF PairsInOrder
<1>5. LimitWhole'
  BY DEF LimitWhole
<1> QED
  BY <1>1, <1>2, <1>3, <1>4, <1>5, <1>6

LEMMA CommandIInv ==
  ASSUME IInv, Command
  PROVE  IInv'
<1>1. CASE Open
  <2>1. Begin("open", <<Read("dpt")>>)
    BY <1>1 DEF Open
  <2>2. Read("dpt") \in Request
    BY RequestsOK DEF Registers
  <2>3. Planned'
    BY <2>1 DEF Planned, Begin
  <2> QED
    BY <2>1, <2>2, <2>3, BeginIInv, OneTwo DEF Commands
<1>2. CASE AskRead
  <2>1. \A a \in Registers : Read(a) \in Request
    BY RequestsOK
  <2>2. CASE Begin("dpt?", <<Read("dpt")>>)
    <3>1. Planned'
      BY <2>2 DEF Planned, Begin
    <3> QED
      BY <1>2, <2>1, <2>2, <3>1, BeginIInv, OneTwo DEF Commands, AskRead, Registers
  <2>3. CASE Begin("volt?", <<Read("volt")>>)
    <3>1. Planned'
      BY <2>3 DEF Planned, Begin
    <3> QED
      BY <1>2, <2>1, <2>3, <3>1, BeginIInv, OneTwo DEF Commands, AskRead, Registers
  <2>4. CASE Begin("opp?", <<Read("oppH"), Read("oppL")>>)
    <3>1. Planned'
      BY <2>4 DEF Planned, Begin
    <3> QED
      BY <1>2, <2>1, <2>4, <3>1, BeginIInv, OneTwo DEF Commands, AskRead, Registers
  <2>5. CASE Begin("opp?", <<Read("oppL"), Read("oppH")>>)
    <3>1. Planned'
      BY <2>5 DEF Planned, Begin
    <3> QED
      BY <1>2, <2>1, <2>5, <3>1, BeginIInv, OneTwo DEF Commands, AskRead, Registers
  <2> QED
    BY <1>2, <2>2, <2>3, <2>4, <2>5 DEF AskRead
<1>3. CASE AskWrite
  <2>1. \A a \in Registers, v \in Values : Write(a, v) \in Request
    BY RequestsOK
  <2>2. ASSUME NEW w \in Words, Begin("volt", <<Write("volt", w)>>)
        PROVE  IInv'
    <3>1. Planned'
      BY <2>2 DEF Planned, Begin
    <3>2. Write("volt", w) \in Request
      BY <2>1, WordsAssumption DEF Registers, Values
    <3> QED
      BY <1>3, <2>2, <3>1, <3>2, BeginIInv, OneTwo DEF Commands, AskWrite
  <2>3. ASSUME NEW p \in Powers,
               Begin("opp", <<Write("oppH", High(p)), Write("oppL", Low(p))>>)
        PROVE  IInv'
    <3>1. Planned'
      BY <2>3 DEF Planned, Begin
    <3>2. Write("oppH", High(p)) \in Request /\ Write("oppL", Low(p)) \in Request
      BY <2>1, PowersAssumption, HalvesAreWords DEF Registers
    <3> QED
      BY <1>3, <2>3, <3>1, <3>2, BeginIInv, OneTwo DEF Commands, AskWrite
  <2> QED
    BY <1>3, <2>2, <2>3 DEF AskWrite
<1>4. CASE Close
  <2> USE <1>4 DEF Close, IInv
  <2>1. TypeOK'
    <3>1. wire' \in Seq(Piece)
      BY EmptySeq
    <3> QED
      BY <3>1 DEF TypeOK
  <2>2. Planned' /\ StillWritten' /\ OwnOnly' /\ LimitWhole'
    BY DEF Planned, StillWritten, OwnOnly, LimitWhole
  <2>3. Answering'
    BY DEF Answering, Answers
  <2>4. PairsInOrder'
    BY DEF PairsInOrder
  <2> QED
    BY <2>1, <2>2, <2>3, <2>4
<1> QED
  BY <1>1, <1>2, <1>3, <1>4 DEF Command

\* An Err
LEMMA FailIInv ==
  ASSUME IInv, cmd # "none", Fail, wire' = wire \/ wire' = << >>, UNCHANGED instr
  PROVE  IInv'
<1>0. /\ cmd' = "none" /\ todo' = << >> /\ pc' = "write" /\ result' = "Err"
      /\ UNCHANGED <<open, dpt, done, clean, cmds, regs, reading>>
      /\ cmd = "opp" => torn' = TRUE
      /\ cmd # "opp" => torn' = torn
  BY DEF Fail, Finish
<1> USE <1>0 DEF IInv
<1>1. TypeOK'
  <2>1. wire' \in Seq(Piece)
    <3>1. wire \in Seq(Piece) /\ << >> \in Seq(Piece)
      BY EmptySeq DEF TypeOK
    <3> QED
      BY <3>1
  <2>2. torn' \in BOOLEAN
    BY DEF TypeOK
  <2> QED
    BY <2>1, <2>2 DEF TypeOK
<1>2. Planned' /\ StillWritten' /\ OwnOnly'
  BY DEF Planned, StillWritten, OwnOnly
<1>3. Answering'
  BY DEF Answering, Answers
<1>4. PairsInOrder'
  <2> SUFFICES ASSUME ~torn' PROVE PairsInOrder'
    BY DEF PairsInOrder
  <2>1. ~torn /\ cmd # "opp"
    OBVIOUS
  <2> QED
    BY <2>1 DEF PairsInOrder
<1>5. LimitWhole'
  BY DEF LimitWhole
<1> QED
  BY <1>1, <1>2, <1>3, <1>4, <1>5

\* The driver writes a request.
LEMMA SendIInv ==
  ASSUME IInv, SendRequest
  PROVE  IInv'
<1> USE DEF IInv, SendRequest
<1> DEFINE q == [req |-> todo[1], sent |-> << >>]
<1>1. todo \in Seq(Request) /\ todo # << >> /\ todo[1] \in Request
  BY DEF TypeOK
<1>2. /\ instr' \in Seq([req : Request, sent : Seq(Response)])
      /\ Len(instr') = Len(instr) + 1 /\ Len(instr) \in Nat /\ instr'[Len(instr) + 1] = q
      /\ \A i \in 1 .. Len(instr) : instr'[i] = instr[i]
  BY <1>1, AppendProperties DEF TypeOK
<1>3. TypeOK'
  BY <1>2 DEF TypeOK
<1>4. Planned' /\ Answering' /\ StillWritten' /\ LimitWhole'
  BY <1>2 DEF Planned, Answering, Answers, StillWritten, LimitWhole
<1>5. OwnOnly'
  BY DEF OwnOnly, Quiet
<1>6. PairsInOrder'
  <2> SUFFICES ASSUME ~torn PROVE PairsInOrder'
    BY DEF PairsInOrder
  <2>1. pc = "write" /\ pc' = "read"
    OBVIOUS
  <2>2. ASSUME NEW i \in 1 .. Len(instr'), OppWrite(instr'[i].req)
        PROVE  i = Len(instr) + 1 /\ instr'[i].req = todo[1]
    BY <1>2, <2>1, <2>2 DEF PairsInOrder
  <2>3. \A j \in 1 .. Len(wire) : ~OppWrite(wire[j][1])
    BY <2>1 DEF PairsInOrder
  <2>4. OppWrite(todo[1]) => cmd = "opp"
    BY <1>1 DEF OppWrite, Planned, Read, Write, TypeOK, Commands
  <2> QED
    BY <1>2, <2>1, <2>2, <2>3, <2>4 DEF PairsInOrder
<1> QED
  BY <1>3, <1>4, <1>5, <1>6

\* What a response that is accepted says: a write is carried out and the
\* writes before it still are; without older responses it is the own one, and
\* so it is for pairs as long as no opp command has failed.
Says(v) ==
  /\ pc = "read" /\ v \in Values /\ wire' = << >> /\ UNCHANGED instr
  /\ todo[1].fn = 6 => v = todo[1].val /\ regs[todo[1].addr] = v
  /\ \A i \in 1 .. Len(done) : done[i].fn = 6 => regs[done[i].addr] = done[i].val
  /\ clean => instr = << >> /\ regs[todo[1].addr] = v
  /\ ~torn /\ cmd = "opp" => \A i \in 1 .. Len(instr) : ~OppWrite(instr[i].req)

\* Every response that the driver accepts is such a one.
LEMMA AcceptedSays ==
  ASSUME IInv, ReadResponse /\ Accepts(todo[1], wire)
  PROVE  Says(wire[1][1].val) /\ Advance(wire[1][1].val)
<1> DEFINE r == wire[2][1]
<1>1. /\ pc = "read" /\ wire' = << >> /\ UNCHANGED instr /\ Advance(wire[1][1].val)
      /\ Len(wire) = 2 /\ wire[1] = <<r, "head">> /\ wire[2][2] = "tail"
      /\ IF todo[1].fn = 3 THEN r.fn = 3 ELSE r = todo[1]
  BY DEF ReadResponse, Accepts
<1>2. /\ wire[1][1] = r /\ wire[1][2] = "head" /\ r \in Response /\ cmd # "none"
      /\ todo[1] \in Request
  <2>1. cmd # "none"
    BY <1>1 DEF IInv, Planned
  <2>2. wire[2] \in Piece
    <3>1. wire \in Seq(Piece) /\ 2 \in 1 .. Len(wire)
      BY <1>1 DEF IInv, TypeOK
    <3> QED
      BY <3>1, ElementOfSeq
  <2> QED
    BY <1>1, <2>1, <2>2, Plans DEF IInv, Piece
<1>3. r.val \in Values
  BY <1>2 DEF Response
<1>4. todo[1].fn = 6 => r = todo[1] /\ regs[todo[1].addr] = r.val
  BY <1>1, <1>2 DEF IInv, Answering
<1>5. ASSUME NEW i \in 1 .. Len(done), done[i].fn = 6
      PROVE  regs[done[i].addr] = done[i].val
  <2>1. cmd = "opp" /\ todo[1].addr = "oppL" /\ todo[1].fn = 6 /\ done[i].addr = "oppH"
    BY <1>2, <1>5, Plans DEF IInv
  <2>2. \A j \in 1 .. Len(wire) : wire[j][2] = "head" => wire[j][1].addr = "oppL"
    <3>1. \A j \in 1 .. Len(wire) : j = 1 \/ j = 2
      BY <1>1
    <3> QED
      BY <1>1, <1>2, <1>4, <2>1, <3>1
  <2> QED
    BY <1>2, <1>5, <2>1, <2>2 DEF IInv, StillWritten
<1>6. ASSUME clean PROVE instr = << >> /\ regs[todo[1].addr] = r.val
  <2>1. PICK s \in Response :
          /\ Answers(s, todo[1])
          /\ wire = <<<<s, "head">>, <<s, "tail">>>> /\ instr = << >>
    <3>1. wire # << >> /\ \A s \in Response : wire # <<<<s, "head">>>>
      <4>1. /\ Len(<< >>) = 0
            /\ \A s \in Response : Len(<<<<s, "head">>>>) = 1
        OBVIOUS
      <4>2. Len(wire) = 2
        BY <1>1
      <4> QED
        BY <4>1, <4>2
    <3> QED
      BY <1>1, <1>2, <1>6, <3>1 DEF IInv, OwnOnly
  <2>2. s = r
    BY <1>2, <2>1
  <2> QED
    BY <1>1, <1>2, <2>1, <2>2 DEF Answers, Request
<1>7. ASSUME ~torn, cmd = "opp" PROVE \A i \in 1 .. Len(instr) : ~OppWrite(instr[i].req)
  <2>1. OppWrite(wire[2][1])
    BY <1>1, <1>2, <1>4, <1>7 DEF IInv, Planned, OppWrite, Write
  <2> QED
    BY <1>1, <1>7, <2>1 DEF IInv, PairsInOrder
<1> QED
  BY <1>1, <1>2, <1>3, <1>4, <1>5, <1>6, <1>7 DEF Says

LEMMA MixedSays ==
  ASSUME IInv, ReadMixed
  PROVE  \E v \in Words : Says(v) /\ Advance(v)
<1>1. /\ pc = "read" /\ wire' = << >> /\ UNCHANGED instr /\ todo[1].fn = 3
      /\ Len(wire) = 2 /\ wire[1][2] = "tail"
  BY DEF ReadMixed
<1>2. PICK v \in Words : Advance(v)
  BY DEF ReadMixed
<1>3. v \in Values
  BY WordsAssumption DEF Values
<1>4. cmd # "none"
  BY <1>1 DEF IInv, Planned
<1>5. ~clean
  <2> SUFFICES ASSUME clean PROVE FALSE
    OBVIOUS
  <2>1. wire = << >> \/ \E r \in Response : wire[1] = <<r, "head">>
    BY <1>1, <1>4 DEF IInv, OwnOnly
  <2>2. wire # << >>
    BY <1>1
  <2>3. PICK r \in Response : wire[1] = <<r, "head">>
    BY <2>1, <2>2
  <2>4. wire[1][2] = "head"
    BY <2>3
  <2> QED
    BY <1>1, <2>4
<1>6. cmd # "opp" /\ \A i \in 1 .. Len(done) : done[i].fn = 3
  BY <1>1, <1>4, Plans DEF IInv
<1> QED
  BY <1>1, <1>2, <1>3, <1>5, <1>6 DEF Says

\* A transaction ends.
LEMMA AdvanceIInv ==
  ASSUME IInv, NEW v, Says(v), Advance(v)
  PROVE  IInv'
<1> DEFINE d == [todo[1] EXCEPT !.val = v]
<1>1. cmd # "none"
  BY DEF IInv, Planned, Says
<1>2. /\ todo \in Seq(Request) /\ todo # << >> /\ todo[1] \in Request
      /\ done \in Seq(Request) /\ regs \in [Registers -> Values]
  BY <1>1, Plans DEF IInv, TypeOK
<1>3. d \in Request /\ d.addr = todo[1].addr /\ d.fn = todo[1].fn /\ d.val = v
      /\ (d.fn = 6 => d = todo[1])
  BY <1>2 DEF Says, Request
<1>4. /\ done' = Append(done, d) /\ done' \in Seq(Request)
      /\ Len(done') = Len(done) + 1 /\ done'[Len(done) + 1] = d
      /\ \A i \in 1 .. Len(done) : done'[i] = done[i]
  BY <1>2, <1>3, AppendProperties DEF Advance
<1>5. wire' = << >> /\ wire' \in Seq(Piece) /\ UNCHANGED <<instr, regs>>
  BY EmptySeq DEF Says, Advance, Finish
<1>6. Answering'
  BY <1>5 DEF IInv, Answering, Answers
<1>7. CASE Len(todo) = 1
  <2>1. /\ cmd' = "none" /\ todo' = << >> /\ pc' = "write" /\ result' = "OK"
        /\ dpt' \in {v, dpt} /\ open' = (open \/ cmd = "open")
        /\ UNCHANGED <<clean, cmds, regs>>
        /\ cmd # "opp" => torn' = torn
        /\ cmd = "opp" => torn' = (torn /\ ~clean)
    BY <1>7 DEF Advance, Finish
  <2>2. TypeOK'
    <3>1. dpt' \in Values /\ open' \in BOOLEAN /\ torn' \in BOOLEAN
      BY <2>1 DEF IInv, TypeOK, Says
    <3>2. v \in Values /\ 0 \in Values
      <4>1. v \in Values
        BY DEF Says
      <4> QED
        BY <4>1, WordsAreNumbers
    <3>3. cmd = "opp?" => done[1].val \in Values
      BY <1>1, <1>7, Plans DEF IInv
    <3>4. Numbers(v) \subseteq Values \X Values
      BY <3>2, <3>3, PowerNumbersOK DEF Numbers
    <3>5. reading' \in Values \X Values
      BY <1>7, <3>4 DEF Advance
    <3> QED
      BY <1>4, <1>5, <2>1, <3>1, <3>5 DEF IInv, TypeOK
  <2>3. Planned' /\ StillWritten' /\ OwnOnly'
    BY <2>1 DEF Planned, StillWritten, OwnOnly
  <2>4. ~torn' => \A i \in 1 .. Len(instr) : ~OppWrite(instr[i].req)
    <3>1. CASE cmd = "opp" /\ clean
      BY <3>1 DEF Says
    <3>2. CASE cmd = "opp" /\ ~clean
      BY <2>1, <3>2 DEF Says
    <3>3. CASE cmd # "opp"
      BY <2>1, <3>3 DEF IInv, PairsInOrder
    <3> QED
      BY <3>1, <3>2, <3>3
  <2>5. PairsInOrder'
    BY <1>5, <2>1, <2>4 DEF PairsInOrder
  <2>6. LimitWhole'
    <3>1. CASE cmd = "opp"
      <4>1. PICK p \in Powers : todo[1] = Write("oppL", Low(p)) /\ done = <<Write("oppH", High(p))>>
        BY <1>7, <3>1, OneTwo DEF IInv, Planned
      <4>2. regs["oppL"] = Low(p) /\ regs["oppH"] = High(p)
        BY <4>1 DEF Says, Write
      <4> QED
        BY <1>5, <4>2 DEF LimitWhole
    <3>2. CASE cmd # "opp"
      BY <1>5, <2>1, <3>2 DEF IInv, LimitWhole
    <3> QED
      BY <3>1, <3>2
  <2> QED
    BY <1>6, <2>2, <2>3, <2>5, <2>6 DEF IInv
<1>8. CASE Len(todo) # 1
  <2>1. /\ todo' = Tail(todo) /\ pc' = "write"
        /\ UNCHANGED <<open, dpt, cmd, clean, torn, cmds, regs, result, reading>>
    BY <1>8 DEF Advance
  <2>2. cmd \in {"opp?", "opp"} /\ Len(todo) = 2 /\ done = << >>
    BY <1>1, <1>8, OneTwo DEF IInv, TypeOK, Commands, Planned
  <2>3. Tail(todo) \in Seq(Request) /\ Tail(todo) # << >>
    <3>1. Tail(todo) \in Seq(Request) /\ Len(Tail(todo)) = 1
      BY <1>2, <2>2, HeadTailProperties
    <3> QED
      <4> DEFINE t == Tail(todo)
      <4>1. \A x : Len(x) = 1 => x # << >>
        OBVIOUS
      <4>2. t \in Seq(Request) /\ Len(t) = 1
        BY <3>1
      <4> HIDE DEF t
      <4>3. t # << >>
        BY <4>1, <4>2
      <4> QED
        BY <4>2, <4>3 DEF t
  <2>4. TypeOK'
    BY <1>4, <1>5, <2>1, <2>2, <2>3 DEF IInv, TypeOK
  <2>5. done' = <<d>>
    BY <1>4, <2>2
  <2>6. Planned'
    <3>1. CASE cmd = "opp?"
      <4>1. PICK a \in {"oppH", "oppL"} :
              todo = <<Read(a), Read(IF a = "oppH" THEN "oppL" ELSE "oppH")>>
        BY <2>2, <3>1, OneTwo DEF IInv, Planned
      <4>2. Tail(todo) = <<Read(IF a = "oppH" THEN "oppL" ELSE "oppH")>> /\ todo[1] = Read(a)
        BY <4>1
      <4>3. v \in Values /\ d = [Read(a) EXCEPT !.val = v]
        BY <4>2 DEF Says
      <4> QED
        BY <2>1, <2>5, <3>1, <4>2, <4>3 DEF IInv, Planned
    <3>2. CASE cmd = "opp"
      <4>1. PICK p \in Powers : todo = <<Write("oppH", High(p)), Write("oppL", Low(p))>>
        BY <2>2, <3>2, OneTwo DEF IInv, Planned
      <4>2. Tail(todo) = <<Write("oppL", Low(p))>> /\ todo[1] = Write("oppH", High(p))
        BY <4>1
      <4>3. d = todo[1]
        BY <1>3, <4>2 DEF Write
      <4> QED
        BY <2>1, <2>5, <3>2, <4>2, <4>3 DEF IInv, Planned
    <3> QED
      BY <2>2, <3>1, <3>2
  <2>7. StillWritten' /\ OwnOnly' /\ PairsInOrder'
    <3>1. \A i \in 1 .. Len(done') : done'[i] = d
      BY <1>4, <2>2
    <3>2. (clean \/ d.fn = 6) => regs[d.addr] = d.val
      BY <1>3 DEF Says
    <3>3. StillWritten'
      BY <1>5, <3>1, <3>2 DEF StillWritten
    <3>4. OwnOnly'
      BY <1>5, <2>1, <3>1, <3>2 DEF OwnOnly, Quiet, Says
    <3>5. cmd = "opp" => todo[1].fn = 6
      BY <1>1, Plans DEF IInv
    <3>6. PairsInOrder'
      BY <1>3, <1>5, <2>1, <2>2, <3>1, <3>2, <3>5 DEF IInv, PairsInOrder, Says
    <3> QED
      BY <3>3, <3>4, <3>6
  <2> QED
    BY <1>6, <2>1, <2>2, <2>4, <2>6, <2>7 DEF IInv, LimitWhole
<1> QED
  BY <1>7, <1>8

\* A command of the driver goes on.
LEMMA TransactIInv ==
  ASSUME IInv, Transact
  PROVE  IInv'
<1>1. CASE SendRequest
  BY <1>1, SendIInv
<1>2. CASE SendError
  BY <1>2, FailIInv DEF SendError
<1>3. CASE ReadResponse
  <2>1. CASE Accepts(todo[1], wire)
    BY <1>3, <2>1, AcceptedSays, AdvanceIInv
  <2>2. CASE ~Accepts(todo[1], wire)
    BY <1>3, <2>2, FailIInv DEF ReadResponse, IInv, Planned
  <2> QED
    BY <2>1, <2>2
<1>4. CASE ReadMixed
  BY <1>4, MixedSays, AdvanceIInv
<1>5. CASE ReadTimeout
  BY <1>5, FailIInv DEF ReadTimeout, IInv, Planned
<1>6. CASE ReadError
  BY <1>6, FailIInv DEF ReadError, IInv, Planned
<1> QED
  BY <1>1, <1>2, <1>3, <1>4, <1>5, <1>6 DEF Transact

\* The supply carries out its oldest request or refuses it.
LEMMA ExecuteIInv ==
  ASSUME IInv, Execute
  PROVE  IInv'
<1> DEFINE q == instr[1].req
           n == Len(wire)
<1>1. /\ instr \in Seq([req : Request, sent : Seq(Response)]) /\ instr # << >>
      /\ Len(instr) \in Nat \ {0} /\ 1 \in 1 .. Len(instr)
      /\ instr[1] = [req |-> q, sent |-> << >>] /\ instr[1].sent = << >> /\ q \in Request
      /\ wire \in Seq(Piece) /\ n \in Nat /\ UNCHANGED driverVars
      /\ regs \in [Registers -> Values]
  <2>1. /\ instr \in Seq([req : Request, sent : Seq(Response)]) /\ instr # << >>
        /\ wire \in Seq(Piece) /\ regs \in [Registers -> Values]
    BY DEF Execute, IInv, TypeOK
  <2>2. Len(instr) \in Nat \ {0} /\ n \in Nat
    BY <2>1, EmptySeq, LenProperties
  <2>3. instr[1] \in [req : Request, sent : Seq(Response)]
    <3>1. 1 \in 1 .. Len(instr)
      BY <2>2
    <3> QED
      BY <2>1, <3>1, ElementOfSeq
  <2>4. instr[1].sent = << >> /\ UNCHANGED driverVars
    BY DEF Execute
  <2> QED
    BY <2>1, <2>2, <2>3, <2>4
<1>2. PICK r :
        /\ instr' = [instr EXCEPT ![1].sent = <<r>>]
        /\ wire' = Append(wire, <<r, "head">>)
        /\ \/ /\ q.fn = 3 /\ r = [q EXCEPT !.val = regs[q.addr]] /\ regs' = regs
           \/ q.fn = 6 /\ r = q /\ regs' = [regs EXCEPT ![q.addr] = q.val]
           \/ r = [q EXCEPT !.fn = q.fn + 128] /\ regs' = regs
  BY DEF Execute
<1>3. /\ r \in Response /\ r.addr = q.addr /\ r.fn \in {q.fn, q.fn + 128}
      /\ r.fn = 6 => r = q /\ q.fn = 6 /\ regs' = [regs EXCEPT ![q.addr] = q.val]
      /\ r.fn # 6 => regs' = regs
      /\ r.fn = 3 => r.val = regs[q.addr]
      /\ regs' \in [Registers -> Values]
      /\ r.fn \in {3, 6} => regs'[r.addr] = r.val
  <2>1. CASE q.fn = 3 /\ r = [q EXCEPT !.val = regs[q.addr]] /\ regs' = regs
    <3>1. q.addr \in Registers /\ regs[q.addr] \in Values
      BY <1>1 DEF Request
    <3>2. r = [fn |-> 3, addr |-> q.addr, val |-> regs[q.addr]]
      BY <1>1, <2>1 DEF Request
    <3>3. r \in Response
      BY <3>1, <3>2 DEF Response
    <3> QED
      BY <1>1, <2>1, <3>2, <3>3
  <2>2. CASE q.fn = 6 /\ r = q /\ regs' = [regs EXCEPT ![q.addr] = q.val]
    BY <1>1, <2>2 DEF Request, Response
  <2>3. CASE r = [q EXCEPT !.fn = q.fn + 128] /\ regs' = regs
    <3>1. /\ r.fn = q.fn + 128 /\ r.addr = q.addr /\ r.val = q.val
          /\ r = [fn |-> q.fn + 128, addr |-> q.addr, val |-> q.val]
      BY <1>1, <2>3 DEF Request
    <3>2. q.fn + 128 \in {131, 134}
      BY <1>1 DEF Request
    <3> QED
      <4>1. r \in Response
        BY <1>1, <3>1, <3>2 DEF Request, Response
      <4>2. r.fn \notin {3, 6}
        BY <3>1, <3>2
      <4> QED
        BY <1>1, <2>3, <3>1, <4>1, <4>2
  <2> QED
    BY <1>2, <2>1, <2>2, <2>3
<1>4. /\ wire' \in Seq(Piece) /\ Len(wire') = n + 1 /\ wire'[n + 1] = <<r, "head">>
      /\ \A j \in 1 .. n : wire'[j] = wire[j]
      /\ \A j \in 1 .. Len(wire') : \/ j \in 1 .. n /\ wire'[j] = wire[j]
                                    \/ wire'[j][1] = r /\ wire'[j][2] = "head"
  <2>1. /\ wire' \in Seq(Piece) /\ Len(wire') = n + 1 /\ wire'[n + 1] = <<r, "head">>
        /\ \A j \in 1 .. n : wire'[j] = wire[j]
    <3> DEFINE p == <<r, "head">>
    <3>1. p \in Piece
      BY <1>3 DEF Piece
    <3>2. wire \in Seq(Piece) /\ wire' = Append(wire, p)
      BY <1>1, <1>2
    <3> HIDE DEF p
    <3> QED
      BY <1>1, <3>1, <3>2, AppendProperties DEF p
  <2>2. \A j \in 1 .. n + 1 : j \in 1 .. n \/ j = n + 1
    BY <1>1
  <2> QED
    BY <2>1, <2>2
<1>5. /\ instr' \in Seq([req : Request, sent : Seq(Response)]) /\ Len(instr') = Len(instr)
      /\ instr'[1] = [req |-> q, sent |-> <<r>>]
      /\ \A i \in 2 .. Len(instr) : instr'[i] = instr[i]
  <2> DEFINE e == [req |-> q, sent |-> <<r>>]
  <2>1. instr[1] \in [req : Request, sent : Seq(Response)] /\ 1 \in 1 .. Len(instr)
    BY <1>1
  <2>2. e \in [req : Request, sent : Seq(Response)]
    BY <1>1, <1>3
  <2>3. [instr[1] EXCEPT !.sent = <<r>>] = e
    BY <2>1
  <2>4. instr' = [instr EXCEPT ![1] = e]
    BY <1>1, <1>2, <2>1, <2>3
  <2> HIDE DEF e
  <2> QED
    BY <1>1, <2>1, <2>2, <2>4, ExceptSeq DEF e
<1>6. TypeOK'
  BY <1>1, <1>3, <1>4, <1>5 DEF driverVars, IInv, TypeOK
<1>7. Planned'
  BY <1>1 DEF driverVars, IInv, Planned
<1>8. Answering'
  <2>1. /\ instr'[1].req = q /\ instr'[1].sent # << >> /\ instr'[1].sent[1] = r
        /\ \A i \in 1 .. Len(instr') : i = 1 \/ (i \in 2 .. Len(instr) /\ instr'[i] = instr[i])
    <3>1. Len(instr) \in Nat
      BY <1>1
    <3>2. \A i \in 1 .. Len(instr') : i = 1 \/ i \in 2 .. Len(instr)
      BY <1>5, <3>1
    <3>3. instr'[1].req = q /\ instr'[1].sent = <<r>>
      BY <1>5
    <3> QED
      BY <1>5, <3>2, <3>3
  <2>2. \A i \in 2 .. Len(instr) : instr[i].sent = << >>
    BY <1>1 DEF IInv, Answering
  <2>3. Answers(instr[1].sent[1], instr[1].req)'
    BY <1>3, <2>1 DEF Answers
  <2>4. \A i \in 1 .. Len(instr') : instr'[i].sent # << >> => i = 1
    BY <2>1, <2>2
  <2>5. wire'[Len(wire')][1] = r
    BY <1>4
  <2> QED
    BY <1>3, <2>3, <2>4, <2>5 DEF Answering
<1>9. StillWritten'
  <2> SUFFICES ASSUME cmd # "none", NEW i \in 1 .. Len(done), done[i].fn = 6
               PROVE  \/ regs'[done[i].addr] = done[i].val
                      \/ \E j \in 1 .. Len(wire') :
                           /\ wire'[j][2] = "head"
                           /\ wire'[j][1].fn = 6 /\ wire'[j][1].addr = done[i].addr
    BY <1>1 DEF driverVars, StillWritten
  <2>1. CASE r.fn = 6 /\ r.addr = done[i].addr
    <3>1. n + 1 \in 1 .. Len(wire') /\ wire'[n + 1][1] = r /\ wire'[n + 1][2] = "head"
      BY <1>1, <1>4
    <3> QED
      BY <2>1, <3>1
  <2>2. CASE ~(r.fn = 6 /\ r.addr = done[i].addr)
    <3>1. regs'[done[i].addr] = regs[done[i].addr]
      <4>1. done[i] \in Request
        BY ElementOfSeq DEF IInv, TypeOK
      <4> QED
        BY <1>1, <1>3, <2>2, <4>1 DEF Request
    <3>2. CASE regs[done[i].addr] = done[i].val
      BY <3>1, <3>2
    <3>3. CASE \E j \in 1 .. n : /\ wire[j][2] = "head"
                                 /\ wire[j][1].fn = 6 /\ wire[j][1].addr = done[i].addr
      <4>1. PICK j \in 1 .. n : /\ wire[j][2] = "head"
                                /\ wire[j][1].fn = 6 /\ wire[j][1].addr = done[i].addr
        BY <3>3
      <4>2. n \in Nat /\ Len(wire') = n + 1
        BY <1>1, <1>4
      <4>3. j \in 1 .. Len(wire')
        BY <4>2
      <4>4. wire'[j] = wire[j]
        BY <1>4
      <4> QED
        BY <4>1, <4>3, <4>4
    <3> QED
      BY <3>2, <3>3 DEF IInv, StillWritten
  <2> QED
    BY <2>1, <2>2
<1>10. OwnOnly'
  <2> SUFFICES ASSUME cmd # "none", clean PROVE OwnOnly'
    BY <1>1 DEF driverVars, OwnOnly
  <2>1. /\ pc = "read" /\ wire = << >> /\ instr = <<[req |-> todo[1], sent |-> << >>]>>
        /\ \A i \in 1 .. Len(done) : regs[done[i].addr] = done[i].val
    <3>1. \A s : instr # <<[req |-> todo[1], sent |-> <<s>>]>>
      BY <1>1
    <3> QED
      BY <1>1, <3>1 DEF IInv, OwnOnly, Quiet, TypeOK
  <2>2. q = todo[1]
    BY <2>1
  <2>3. wire' = <<<<r, "head">>>> /\ instr' = <<[req |-> todo[1], sent |-> <<r>>]>>
    <3>1. Len(instr) = 1 /\ Len(wire) = 0
      BY <2>1
    <3>2. wire' = <<<<r, "head">>>>
      BY <1>2, <2>1
    <3>3. <<[req |-> todo[1], sent |-> <<r>>]>> \in Seq([req : Request, sent : Seq(Response)])
      BY <1>1, <1>3, <2>2
    <3> QED
      BY <1>5, <2>2, <3>1, <3>2, <3>3, SeqEqual
  <2>4. \A i \in 1 .. Len(done) : r.fn = 6 => done[i].addr # r.addr
    BY <1>3, <2>2, Plans DEF IInv
  <2>5. \A i \in 1 .. Len(done) : regs'[done[i].addr] = done[i].val
    <3>1. \A i \in 1 .. Len(done) : done[i] \in Request
      BY ElementOfSeq DEF IInv, TypeOK
    <3> QED
      BY <1>1, <1>3, <2>1, <2>4, <3>1 DEF Request
  <2> QED
    BY <1>1, <1>3, <2>1, <2>2, <2>3, <2>5 DEF driverVars, OwnOnly, Answers
<1>11. PairsInOrder' /\ LimitWhole'
  <2>1. OppWrite(r) <=> OppWrite(q) /\ r = q
    BY <1>3 DEF OppWrite
  <2>2. ~OppWrite(r) => regs'["oppH"] = regs["oppH"] /\ regs'["oppL"] = regs["oppL"]
    BY <1>1, <1>3 DEF OppWrite, Request, Registers
  <2>3. ASSUME ~torn, OppWrite(q)
        PROVE  cmd = "opp" /\ pc = "read" /\ q = todo[1]
    BY <1>1, <2>3 DEF IInv, PairsInOrder
  <2>4. LimitWhole'
    BY <1>1, <2>1, <2>2, <2>3 DEF driverVars, IInv, LimitWhole
  <2>5. ASSUME ~torn
        PROVE  \A j \in 1 .. Len(wire') :
                 OppWrite(wire'[j][1]) => cmd = "opp" /\ pc = "read" /\ wire'[j][1] = todo[1]
    BY <1>1, <1>4, <2>1, <2>3, <2>5 DEF IInv, PairsInOrder
  <2>6. ASSUME ~torn, NEW i \in 1 .. Len(instr'), OppWrite(instr'[i].req)
        PROVE  /\ cmd = "opp" /\ pc = "read" /\ i = Len(instr') /\ instr'[i].req = todo[1]
               /\ \A j \in 1 .. Len(wire') : OppWrite(wire'[j][1]) => wire'[j][2] = "head"
    <3>1. instr'[i].req = instr[i].req
      <4>1. i = 1 \/ i \in 2 .. Len(instr)
        BY <1>1, <1>5
      <4> QED
        BY <1>1, <1>5, <4>1
    <3>2. i \in 1 .. Len(instr) /\ OppWrite(instr[i].req)
      BY <1>5, <2>6, <3>1
    <3>3. /\ cmd = "opp" /\ pc = "read" /\ i = Len(instr) /\ instr[i].req = todo[1]
          /\ \A j \in 1 .. Len(wire) : OppWrite(wire[j][1]) => wire[j][2] = "head"
      BY <1>1, <2>6, <3>2 DEF IInv, PairsInOrder
    <3>4. \A j \in 1 .. Len(wire') : OppWrite(wire'[j][1]) => wire'[j][2] = "head"
      BY <1>4, <3>3
    <3> QED
      BY <1>5, <3>1, <3>3, <3>4
  <2>7. ASSUME ~torn, cmd = "opp", NEW i \in 1 .. Len(done)
        PROVE  regs'[done[i].addr] = done[i].val
    <3>1. regs[done[i].addr] = done[i].val /\ done[i].addr = "oppH"
      BY <2>7, Plans DEF IInv, PairsInOrder
    <3>2. CASE OppWrite(r)
      <4>1. r.addr = todo[1].addr /\ todo[1].addr # "oppH"
        BY <2>1, <2>3, <2>7, <3>2, Plans DEF IInv
      <4> QED
        BY <1>1, <1>3, <3>1, <4>1 DEF Registers
    <3>3. CASE ~OppWrite(r)
      BY <2>2, <3>1, <3>3
    <3> QED
      BY <3>2, <3>3
  <2> QED
    BY <1>1, <2>4, <2>5, <2>6, <2>7 DEF driverVars, PairsInOrder
<1> QED
  BY <1>6, <1>7, <1>8, <1>9, <1>10, <1>11 DEF IInv

\* The supply sends the rest of its response.
LEMMA ReplyIInv ==
  ASSUME IInv, Reply
  PROVE  IInv'
<1> DEFINE q == instr[1].req
           r == instr[1].sent[1]
           n == Len(wire)
           m == Len(instr)
<1>1. /\ instr \in Seq([req : Request, sent : Seq(Response)]) /\ instr # << >>
      /\ m \in Nat \ {0} /\ 1 \in 1 .. m /\ instr[1].sent # << >>
      /\ instr[1] \in [req : Request, sent : Seq(Response)]
      /\ wire \in Seq(Piece) /\ n \in Nat /\ UNCHANGED <<driverVars, regs>>
  <2>1. /\ instr \in Seq([req : Request, sent : Seq(Response)]) /\ instr # << >>
        /\ wire \in Seq(Piece)
    BY DEF Reply, IInv, TypeOK
  <2>2. m \in Nat \ {0} /\ n \in Nat
    BY <2>1, EmptySeq, LenProperties
  <2>3. 1 \in 1 .. m
    BY <2>2
  <2>4. instr[1] \in [req : Request, sent : Seq(Response)]
    BY <2>1, <2>3, ElementOfSeq
  <2>5. instr[1].sent # << >> /\ UNCHANGED <<driverVars, regs>>
    BY DEF Reply
  <2> QED
    BY <2>1, <2>2, <2>3, <2>4, <2>5
<1>2. Answers(r, q) /\ q \in Request /\ r \in Response
  <2>1. instr[1].sent \in Seq(Response) /\ Len(instr[1].sent) \in Nat \ {0}
    BY <1>1, EmptySeq
  <2>2. 1 \in 1 .. Len(instr[1].sent)
    BY <2>1
  <2>3. r \in Response
    BY <2>1, <2>2, ElementOfSeq
  <2> QED
    BY <1>1, <2>3 DEF IInv, Answering
<1>3. /\ instr' \in Seq([req : Request, sent : Seq(Response)]) /\ Len(instr') = m - 1
      /\ \A i \in 1 .. m - 1 : instr'[i] = instr[i + 1] /\ i + 1 \in 2 .. m
      /\ \A i \in 1 .. m - 1 : instr'[i].sent = << >>
  <2>1. /\ instr' \in Seq([req : Request, sent : Seq(Response)]) /\ Len(instr') = m - 1
        /\ \A i \in 1 .. m - 1 : instr'[i] = instr[i + 1]
    BY <1>1, HeadTailProperties DEF Reply
  <2>2. \A i \in 1 .. m - 1 : i + 1 \in 2 .. m /\ i + 1 \in 1 .. m /\ i + 1 # 1
    BY <1>1
  <2>3. \A i \in 1 .. m : instr[i].sent # << >> => i = 1
    BY DEF IInv, Answering
  <2> QED
    BY <2>1, <2>2, <2>3
<1>4. /\ wire' \in Seq(Piece) /\ Len(wire') = n + 1 /\ wire'[n + 1] = <<r, "tail">>
      /\ \A j \in 1 .. n : wire'[j] = wire[j]
      /\ \A j \in 1 .. Len(wire') : \/ j \in 1 .. n /\ wire'[j] = wire[j]
                                    \/ wire'[j][1] = r
  <2>1. <<r, "tail">> \in Piece
    BY <1>2 DEF Piece
  <2>2. /\ wire' \in Seq(Piece) /\ Len(wire') = n + 1 /\ wire'[n + 1] = <<r, "tail">>
        /\ \A j \in 1 .. n : wire'[j] = wire[j]
    BY <1>1, <2>1, AppendProperties DEF Reply
  <2>3. \A j \in 1 .. n + 1 : j \in 1 .. n \/ j = n + 1
    BY <1>1
  <2> QED
    BY <2>2, <2>3
<1>5. TypeOK' /\ Planned' /\ LimitWhole'
  <2>1. TypeOK'
    BY <1>1, <1>3, <1>4 DEF driverVars, IInv, TypeOK
  <2>2. Planned'
    BY <1>1 DEF driverVars, IInv, Planned
  <2>3. LimitWhole'
    BY <1>1 DEF driverVars, IInv, LimitWhole
  <2> QED
    BY <2>1, <2>2, <2>3
<1>6. Answering'
  <2>1. \A i \in 1 .. Len(instr') : instr'[i].sent = << >>
    BY <1>3
  <2>2. wire'[Len(wire')][1] = r
    BY <1>4
  <2>3. r.fn = 6 => regs'[r.addr] = r.val
    BY <1>1, <1>2 DEF Answers
  <2> QED
    BY <2>1, <2>2, <2>3 DEF Answering
<1>7. StillWritten'
  <2> SUFFICES ASSUME cmd # "none", NEW i \in 1 .. Len(done), done[i].fn = 6,
                      regs[done[i].addr] # done[i].val
               PROVE  \E j \in 1 .. Len(wire') :
                        /\ wire'[j][2] = "head"
                        /\ wire'[j][1].fn = 6 /\ wire'[j][1].addr = done[i].addr
    BY <1>1 DEF driverVars, StillWritten
  <2>1. PICK j \in 1 .. n : /\ wire[j][2] = "head"
                            /\ wire[j][1].fn = 6 /\ wire[j][1].addr = done[i].addr
    BY DEF IInv, StillWritten
  <2>2. wire'[j] = wire[j] /\ j \in 1 .. Len(wire')
    BY <1>1, <1>4, <2>1
  <2> QED
    BY <2>1, <2>2
<1>8. OwnOnly'
  <2> SUFFICES ASSUME cmd # "none", clean PROVE OwnOnly'
    BY <1>1 DEF driverVars, OwnOnly
  <2>1. PICK s \in Response :
          /\ pc = "read" /\ Answers(s, todo[1])
          /\ wire = <<<<s, "head">>>> /\ instr = <<[req |-> todo[1], sent |-> <<s>>]>>
    BY <1>1 DEF IInv, OwnOnly, Quiet, TypeOK
  <2>2. r = s /\ m = 1 /\ n = 1
    BY <2>1
  <2>3. instr' = << >>
    BY <1>3, <2>2, EmptySeq
  <2>4. wire' = <<<<s, "head">>, <<s, "tail">>>>
    <3>1. <<s, "head">> \in Piece /\ <<s, "tail">> \in Piece
      BY DEF Piece
    <3>2. wire' = Append(wire, <<s, "tail">>)
      BY <2>2 DEF Reply
    <3> DEFINE a == <<s, "head">>
               b == <<s, "tail">>
    <3>3. wire = <<a>>
      BY <2>1
    <3>4. a \in Piece /\ b \in Piece /\ wire' = Append(<<a>>, b)
      BY <3>1, <3>2, <3>3
    <3> HIDE DEF a, b
    <3>5. Append(<<a>>, b) = <<a, b>>
      BY <3>4, OneTwo
    <3> QED
      BY <3>4, <3>5 DEF a, b
  <2>5. \A i \in 1 .. Len(done) : regs[done[i].addr] = done[i].val
    BY DEF IInv, OwnOnly
  <2> QED
    BY <1>1, <2>1, <2>3, <2>4, <2>5 DEF driverVars, OwnOnly, Answers
<1>9. PairsInOrder'
  <2>1. OppWrite(r) => OppWrite(q) /\ r = q
    BY <1>2 DEF OppWrite, Answers
  <2>2. ASSUME ~torn
        PROVE  \A j \in 1 .. Len(wire') :
                 OppWrite(wire'[j][1]) => cmd = "opp" /\ pc = "read" /\ wire'[j][1] = todo[1]
    BY <1>1, <1>4, <2>1, <2>2 DEF IInv, PairsInOrder
  <2>3. ASSUME ~torn, NEW i \in 1 .. Len(instr'), OppWrite(instr'[i].req)
        PROVE  /\ cmd = "opp" /\ pc = "read" /\ i = Len(instr') /\ instr'[i].req = todo[1]
               /\ \A j \in 1 .. Len(wire') : OppWrite(wire'[j][1]) => wire'[j][2] = "head"
    <3>1. i + 1 \in 1 .. m /\ instr'[i] = instr[i + 1] /\ i + 1 # 1
      BY <1>1, <1>3
    <3>2. /\ cmd = "opp" /\ pc = "read" /\ i + 1 = m /\ instr'[i].req = todo[1]
          /\ \A j \in 1 .. n : OppWrite(wire[j][1]) => wire[j][2] = "head"
      BY <2>3, <3>1 DEF IInv, PairsInOrder
    <3>3. ~OppWrite(q)
      BY <1>1, <2>3, <3>1, <3>2 DEF IInv, PairsInOrder
    <3>4. i = Len(instr')
      BY <1>1, <1>3, <3>2
    <3>5. \A j \in 1 .. Len(wire') : OppWrite(wire'[j][1]) => wire'[j][2] = "head"
      <4>1. ~OppWrite(r)
        BY <2>1, <3>3
      <4> QED
        BY <1>4, <3>2, <4>1
    <3> QED
      BY <3>2, <3>4, <3>5
  <2> QED
    BY <1>1, <2>2, <2>3 DEF driverVars, IInv, PairsInOrder
<1> QED
  BY <1>5, <1>6, <1>7, <1>8, <1>9 DEF IInv

LEMMA NextIInv == IInv /\ [Next]_vars => IInv'
<1> SUFFICES ASSUME IInv, [Next]_vars PROVE IInv'
  OBVIOUS
<1>1. CASE UNCHANGED vars
  BY <1>1 DEF vars, IInv, TypeOK, Planned, Answering, Answers, StillWritten, OwnOnly,
     Quiet, PairsInOrder, LimitWhole
<1>2. CASE Command
  BY <1>2, CommandIInv
<1>3. CASE Transact
  BY <1>3, TransactIInv
<1>4. CASE Supply
  BY <1>4, ExecuteIInv, ReplyIInv DEF Supply
<1>5. CASE Terminated
  BY <1>1, <1>5 DEF Terminated
<1> QED
  BY <1>1, <1>2, <1>3, <1>4, <1>5 DEF Next

-----------------------------------------------------------------------------
(* Theorems                                                                *)

\* The driver, the port and the supply fit together whatever is late, torn
\* apart, refused or given up.
THEOREM IInvHolds == Spec => []IInv
<1> QED
  BY InitIInv, NextIInv, PTL DEF Spec

\* Only an existing driver works, and it opens only when it is closed.
THEOREM TypeCorrect == Spec => []TypeOK
<1>1. IInv => TypeOK
  BY DEF IInv
<1> QED
  BY <1>1, IInvHolds, PTL

\* write_pwr: the two words of a power limit belong together.
THEOREM LimitIsWhole == Spec => []LimitWhole
<1>1. IInv => LimitWhole
  BY DEF IInv
<1> QED
  BY <1>1, IInvHolds, PTL

\* A command succeeds only with an accepted response to its last transaction.
LEMMA Success ==
  ASSUME IInv, [Next]_vars, Succeeds
  PROVE  \E v : Says(v) /\ Advance(v) /\ Len(todo) = 1
<1>1. cmd # "none" /\ result = "none" /\ result' = "OK"
  BY DEF Succeeds, IInv, Planned
<1>2. ASSUME NEW v, Says(v), Advance(v)
      PROVE  Len(todo) = 1
  BY <1>1, <1>2 DEF Advance
<1>3. CASE Transact
  <2>1. ReadResponse \/ ReadMixed
    BY <1>1, <1>3 DEF Transact, SendRequest, SendError, ReadTimeout, ReadError,
       Fail, Finish
  <2>2. CASE ReadResponse
    <3>1. Accepts(todo[1], wire)
      BY <1>1, <2>2 DEF ReadResponse, Fail, Finish
    <3> QED
      BY <1>2, <2>2, <3>1, AcceptedSays
  <2>3. CASE ReadMixed
    BY <1>2, <2>3, MixedSays
  <2> QED
    BY <2>1, <2>2, <2>3
<1> QED
  BY <1>1, <1>3 DEF Next, vars, Command, Open, AskRead, AskWrite, Begin, Close, Supply,
     Execute, Reply, driverVars, Terminated

\* A command that succeeds has finished all its transactions, and the last
\* one with the word of the response that was accepted.
LEMMA Outcome ==
  ASSUME IInv, cmd # "none", NEW v, Says(v), Advance(v), Len(todo) = 1
  PROVE  /\ cmd = "opp" => Len(done') = 2
         /\ \A i \in 1 .. Len(done') :
              \/ i \in 1 .. Len(done) /\ done'[i] = done[i]
              \/ done'[i].fn = todo[1].fn /\ done'[i].addr = todo[1].addr /\ done'[i].val = v
<1> DEFINE d == [todo[1] EXCEPT !.val = v]
<1>1. todo[1] \in Request /\ done \in Seq(Request) /\ (cmd = "opp" => Len(done) = 1)
  BY Plans DEF IInv, TypeOK
<1>2. d \in Request /\ d.addr = todo[1].addr /\ d.fn = todo[1].fn /\ d.val = v
  BY <1>1 DEF Says, Request
<1>3. /\ Len(done') = Len(done) + 1 /\ done'[Len(done) + 1] = d /\ Len(done) \in Nat
      /\ \A i \in 1 .. Len(done) : done'[i] = done[i]
  <2>1. done' = Append(done, d)
    BY DEF Advance
  <2> HIDE DEF d
  <2> QED
    BY <1>1, <1>2, <2>1, AppendProperties, LenProperties
<1>4. \A i \in 1 .. Len(done') : i \in 1 .. Len(done) \/ i = Len(done) + 1
  BY <1>3
<1> HIDE DEF d
<1>5. ASSUME cmd = "opp"
      PROVE  Len(done') = 2
  <2>1. Len(done) = 1 /\ Len(done') = Len(done) + 1
    BY <1>1, <1>3, <1>5
  <2> QED
    BY <2>1
<1> QED
  BY <1>2, <1>3, <1>4, <1>5

\* modbus_func6: a command that sets a register and succeeds has set it.
THEOREM WritesConfirmed == Spec => WriteConfirmed
<1>1. ASSUME IInv, [Next]_vars, Succeeds
      PROVE  Holds({6}) /\ (cmd = "opp" => Len(done') = 2)
  <2>1. PICK v : Says(v) /\ Advance(v) /\ Len(todo) = 1
    BY <1>1, Success
  <2>2. cmd # "none"
    BY <1>1 DEF Succeeds
  <2>3. Holds({6})
    BY <1>1, <2>1, <2>2, Outcome DEF Holds, Says
  <2> QED
    BY <1>1, <2>1, <2>2, <2>3, Outcome
<1> QED
  BY <1>1, IInvHolds, PTL DEF Spec, WriteConfirmed

\* modbus_func3: a command that began with no older response to come returns
\* what its own registers hold, and leaves nothing behind.
THEOREM ReadsAreOwn == Spec => ReadsOwn
<1>1. ASSUME IInv, [Next]_vars, Succeeds, clean
      PROVE  /\ Holds({3})
             /\ cmd \in {"open", "dpt?"} => dpt' = regs["dpt"]
             /\ cmd \in {"dpt?", "volt?"} => reading' = <<0, regs[todo[1].addr]>>
             /\ cmd = "opp?" /\ regs["oppL"] = 0 => reading' = <<regs["oppH"], 0>>
             /\ Quiet'
  <2>1. PICK v : Says(v) /\ Advance(v) /\ Len(todo) = 1
    BY <1>1, Success
  <2>2. cmd # "none"
    BY <1>1 DEF Succeeds
  <2>3. regs[todo[1].addr] = v /\ \A i \in 1 .. Len(done) : regs[done[i].addr] = done[i].val
    BY <1>1, <2>1, <2>2 DEF Says, IInv, OwnOnly
  <2>4. Holds({3})
    BY <1>1, <2>1, <2>2, <2>3, Outcome DEF Holds
  <2>5. cmd \in {"open", "dpt?"} => dpt' = regs["dpt"]
    <3>1. cmd \in {"open", "dpt?"} => todo[1].addr = "dpt"
      BY <1>1, <2>2, Plans DEF IInv
    <3> QED
      BY <2>1, <2>3, <3>1 DEF Advance
  <2>6. Quiet'
    BY <1>1, <2>1 DEF Says, Quiet
  <2>7. cmd \in {"dpt?", "volt?"} => reading' = <<0, regs[todo[1].addr]>>
    BY <2>1, <2>3 DEF Advance, Numbers
  <2>8. ASSUME cmd = "opp?", regs["oppL"] = 0
        PROVE  reading' = <<regs["oppH"], 0>>
    <3>1. reading' \in Numbers(v)
      BY <2>1 DEF Advance
    <3>2. regs["oppH"] \in Values
      BY <1>1 DEF IInv, TypeOK, Registers
    <3>3. PICK a \in {"oppH", "oppL"} :
            LET b == IF a = "oppH" THEN "oppL" ELSE "oppH" IN
            \/ todo = <<Read(a), Read(b)>> /\ done = << >>
            \/ todo = <<Read(b)>> /\ \E w \in Values : done = <<[Read(a) EXCEPT !.val = w]>>
      BY <1>1, <2>8 DEF IInv, Planned
    <3> DEFINE b == IF a = "oppH" THEN "oppL" ELSE "oppH"
    <3>4. PICK w \in Values : todo = <<Read(b)>> /\ done = <<[Read(a) EXCEPT !.val = w]>>
      BY <2>1, <3>3
    <3>5. todo[1].addr = b /\ done[1].val = w /\ done[1].addr = a /\ Len(done) = 1
      BY <3>4 DEF Read
    <3>6. regs[b] = v /\ regs[a] = w
      BY <2>3, <3>5
    <3>7. Numbers(v) = PowerNumbers(regs["oppH"], 0)
      <4>1. CASE a = "oppH"
        BY <2>8, <3>5, <3>6, <4>1 DEF Numbers
      <4>2. CASE a = "oppL"
        BY <2>8, <3>5, <3>6, <4>2 DEF Numbers
      <4> QED
        BY <4>1, <4>2
    <3> QED
      BY <3>1, <3>2, <3>7, PowerOfHigh
  <2> QED
    BY <2>4, <2>5, <2>6, <2>7, <2>8
<1> QED
  BY <1>1, IInvHolds, PTL DEF Spec, ReadsOwn

-----------------------------------------------------------------------------
(* Whatever fails, is late or is torn apart.                               *)

\* q is a request that some command makes.
Commanded(q) ==
  q.fn = 6 =>
    \/ q.addr = "volt" /\ q.val \in Words
    \/ q.addr = "oppH" /\ \E p \in Powers : q.val = High(p)
    \/ q.addr = "oppL" /\ \E p \in Powers : q.val = Low(p)

\* Every register holds what some command has written to it, or what it held
\* when the supply was switched on: no error, late response or mixture of two
\* puts the word of one register into another, and only which high word
\* stands beside which low word can be wrong (LimitWhole).
RegistersCommanded ==
  /\ regs["dpt"] = 563
  /\ regs["volt"] \in Words \cup {0}
  /\ \E p \in Powers \cup {0} : regs["oppH"] = High(p)
  /\ \E p \in Powers \cup {0} : regs["oppL"] = Low(p)

CommandedInv ==
  /\ RegistersCommanded
  /\ \A i \in 1 .. Len(instr) : Commanded(instr[i].req)

\* The transactions of a command are commanded.
LEMMA ToDoCommanded ==
  ASSUME TypeOK, Planned, cmd # "none"
  PROVE  Commanded(todo[1])
<1>1. CASE cmd \in {"open", "dpt?", "volt?", "opp?"}
  <2>1. todo[1].fn = 3
    BY <1>1, Plans
  <2> QED
    BY <2>1 DEF Commanded
<1>2. CASE cmd = "volt"
  <2>1. PICK w \in Words : todo = <<Write("volt", w)>>
    BY <1>2 DEF Planned
  <2> QED
    BY <2>1 DEF Commanded, Write
<1>3. CASE cmd = "opp"
  <2>1. PICK p \in Powers :
          todo[1] = Write("oppH", High(p)) \/ todo[1] = Write("oppL", Low(p))
    BY <1>3 DEF Planned
  <2> QED
    BY <2>1 DEF Commanded, Write
<1> QED
  BY <1>1, <1>2, <1>3 DEF TypeOK, Commands

LEMMA StepCommanded == IInv /\ CommandedInv /\ [Next]_vars => CommandedInv'
<1> SUFFICES ASSUME IInv, CommandedInv, [Next]_vars
             PROVE  CommandedInv'
  OBVIOUS
<1> DEFINE Entry == [req : Request, sent : Seq(Response)]
<1>1. instr \in Seq(Entry)
  BY DEF IInv, TypeOK
<1>2. CASE UNCHANGED <<instr, regs>>
  BY <1>2 DEF CommandedInv, RegistersCommanded
<1>3. CASE SendRequest
  <2> DEFINE q == [req |-> todo[1], sent |-> << >>]
  <2>1. cmd # "none" /\ instr' = Append(instr, q) /\ UNCHANGED regs
    BY <1>3 DEF SendRequest
  <2>2. todo[1] \in Request /\ Commanded(todo[1])
    BY <2>1, Plans, ToDoCommanded DEF IInv
  <2>3. q \in Entry /\ q.req = todo[1]
    BY <2>2
  <2> HIDE DEF q, Entry
  <2>4. /\ Len(instr') = Len(instr) + 1 /\ Len(instr) \in Nat
        /\ instr'[Len(instr) + 1] = q
        /\ \A i \in 1 .. Len(instr) : instr'[i] = instr[i]
    BY <1>1, <2>1, <2>3, AppendProperties, LenProperties
  <2>5. \A i \in 1 .. Len(instr') : i \in 1 .. Len(instr) \/ i = Len(instr) + 1
    BY <2>4
  <2>6. ASSUME NEW i \in 1 .. Len(instr')
        PROVE  Commanded(instr'[i].req)
    BY <2>2, <2>3, <2>4, <2>5 DEF CommandedInv
  <2>7. RegistersCommanded'
    BY <2>1 DEF CommandedInv, RegistersCommanded
  <2> QED
    BY <2>6, <2>7 DEF CommandedInv, Commanded
<1>4. CASE Execute
  <2> DEFINE q == instr[1].req
  <2>1. 1 \in 1 .. Len(instr) /\ Len(instr) \in Nat
    BY <1>1, <1>4, EmptySeq, LenProperties DEF Execute
  <2>2. q \in Request /\ Commanded(q)
    <3>1. instr[1] \in Entry
      BY <1>1, <2>1, ElementOfSeq
    <3> QED
      BY <2>1, <3>1 DEF CommandedInv
  <2>3. PICK r : instr' = [instr EXCEPT ![1].sent = <<r>>]
    BY <1>4 DEF Execute
  <2>4. /\ Len(instr') = Len(instr)
        /\ \A i \in 1 .. Len(instr) : instr'[i].req = instr[i].req
    BY <1>1, <2>1, <2>3
  <2>5. RegistersCommanded'
    <3>1. regs \in [Registers -> Values]
      BY DEF IInv, TypeOK
    <3>2. CASE UNCHANGED regs
      BY <3>2 DEF CommandedInv, RegistersCommanded
    <3>3. CASE q.fn = 6 /\ regs' = [regs EXCEPT ![q.addr] = q.val]
      <4>1. \A a \in Registers : regs'[a] = IF a = q.addr THEN q.val ELSE regs[a]
        BY <3>1, <3>3
      <4> HIDE DEF q
      <4>2. CASE q.addr = "volt" /\ q.val \in Words
        BY <4>1, <4>2 DEF CommandedInv, RegistersCommanded, Registers
      <4>3. CASE q.addr = "oppH" /\ \E p \in Powers : q.val = High(p)
        BY <4>1, <4>3 DEF CommandedInv, RegistersCommanded, Registers
      <4>4. CASE q.addr = "oppL" /\ \E p \in Powers : q.val = Low(p)
        BY <4>1, <4>4 DEF CommandedInv, RegistersCommanded, Registers
      <4> QED
        BY <2>2, <3>3, <4>2, <4>3, <4>4 DEF Commanded
    <3> QED
      BY <1>4, <3>2, <3>3 DEF Execute
  <2> QED
    BY <2>4, <2>5 DEF CommandedInv, Commanded
<1>5. CASE Reply
  <2>1. instr # << >> /\ instr' = Tail(instr) /\ UNCHANGED regs
    BY <1>5 DEF Reply
  <2> HIDE DEF Entry
  <2>2. /\ Len(instr') = Len(instr) - 1 /\ Len(instr) \in Nat
        /\ \A i \in 1 .. Len(instr) - 1 : instr'[i] = instr[i + 1]
    BY <1>1, <2>1, HeadTailProperties, LenProperties
  <2>3. \A i \in 1 .. Len(instr') : i + 1 \in 1 .. Len(instr) /\ instr'[i] = instr[i + 1]
    BY <2>2
  <2>4. RegistersCommanded'
    BY <2>1 DEF CommandedInv, RegistersCommanded
  <2> QED
    BY <2>3, <2>4 DEF CommandedInv, Commanded
<1> QED
  <2>1. CASE Command \/ Terminated \/ UNCHANGED vars
    BY <1>2, <2>1 DEF Command, Open, AskRead, AskWrite, Begin, Close, Terminated, vars
  <2>2. CASE Transact
    <3>1. CASE SendError \/ ReadTimeout \/ ReadError
      BY <1>2, <3>1 DEF SendError, ReadTimeout, ReadError, Fail, Finish
    <3>2. CASE ReadResponse \/ ReadMixed
      BY <1>2, <3>2 DEF ReadResponse, ReadMixed, Fail, Advance, Finish
    <3> QED
      BY <1>3, <2>2, <3>1, <3>2 DEF Transact
  <2> QED
    BY <1>4, <1>5, <2>1, <2>2 DEF Next, Supply

\* write(), modbus_func6: every register of the supply always holds what a
\* command meant for that register, whatever has failed in between.
THEOREM RegistersAreCommanded == Spec => []RegistersCommanded
<1>1. Init => CommandedInv
  <2> SUFFICES ASSUME Init PROVE CommandedInv
    OBVIOUS
  <2>1. High(0) = 0 /\ Low(0) = 0
    BY DEF High, Low, Word
  <2>2. regs = [r \in Registers |-> IF r = "dpt" THEN 563 ELSE 0] /\ instr = << >>
    BY DEF Init
  <2>3. /\ regs["dpt"] = 563 /\ regs["volt"] = 0
        /\ regs["oppH"] = 0 /\ regs["oppL"] = 0
    BY <2>2 DEF Registers
  <2> QED
    BY <2>1, <2>2, <2>3 DEF CommandedInv, RegistersCommanded
<1>2. CommandedInv => RegistersCommanded
  BY DEF CommandedInv
<1> QED
  BY <1>1, <1>2, StepCommanded, IInvHolds, PTL DEF Spec
=============================================================================
