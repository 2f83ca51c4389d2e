------------------------- MODULE QueryDriverProofs -------------------------
(* Proofs about QueryDriver, for any drivers, messages and number of asks. *)
EXTENDS QueryDriver, SequenceTheorems, WellFoundedInduction, TLAPS

-----------------------------------------------------------------------------
(* Numbers and sequences.                                                  *)

\* Every set of numbers that is not empty has a least one.
LEMMA Least ==
  ASSUME NEW T \in SUBSET Nat, T # {}
  PROVE  \E x \in T : \A y \in T : ~(y < x)
<1> DEFINE R == {ss \in Nat \X Nat : ss[1] < ss[2]}
<1>1. IsWellFoundedOn(R, Nat)
  BY NatLessThanWellFounded DEF OpToRel
<1>2. \A x, y \in Nat : <<y, x>> \in R <=> y < x
  OBVIOUS
<1> HIDE DEF R
<1>3. PICK x \in T : \A y \in T : <<y, x>> \notin R
  BY <1>1, WFMin
<1> QED
  BY <1>2, <1>3

\* The first message that is complete
LEMMA FirstMessage ==
  ASSUME wire \in Seq(Pieces), HasMessage
  PROVE  /\ MessageLen \in 1 .. Len(wire) /\ Ends(wire[MessageLen])
         /\ \A j \in 1 .. MessageLen - 1 : ~Ends(wire[j])
<1> DEFINE T == {i \in 1 .. Len(wire) : Ends(wire[i])}
<1>1. Len(wire) \in Nat
  BY LenProperties
<1>2. T \in SUBSET Nat /\ T # {}
  BY <1>1 DEF HasMessage
<1>3. \E i \in T : \A j \in T : ~(j < i)
  <2> HIDE DEF T
  <2> QED
    BY <1>2, Least
<1>4. PICK i \in T : \A j \in T : ~(j < i)
  BY <1>3
<1>5. \A j \in 1 .. i - 1 : j \in 1 .. Len(wire) /\ j < i
  BY <1>1, <1>4
<1>6. \E m \in 1 .. Len(wire) : Ends(wire[m]) /\ \A j \in 1 .. m - 1 : ~Ends(wire[j])
  BY <1>4, <1>5
<1> QED
  BY <1>6 DEF MessageLen

\* The pieces that one read takes
LEMMA Taken ==
  ASSUME NEW S, NEW s \in Seq(S), s # <<>>
  PROVE  /\ Len(s) \in Nat \ {0} /\ 1 \in 1 .. Len(s) /\ Len(s) \in 1 .. Len(s)
         /\ s[1] \in S /\ s[Len(s)] \in S /\ Head(s) = s[1]
         /\ Tail(s) \in Seq(S) /\ Len(Tail(s)) = Len(s) - 1
         /\ \A i \in 1 .. Len(Tail(s)) : i + 1 \in 1 .. Len(s) /\ Tail(s)[i] = s[i + 1]
         /\ \A i \in 1 .. Len(Tail(s)) : i + 1 # 1 /\ (i + 1 = Len(s) => i = Len(Tail(s)))
         /\ Tail(s) = <<>> => Len(s) = 1
         /\ Len(s) = 1 => Len(Tail(s)) = 0
<1>1. Len(s) \in Nat \ {0}
  BY EmptySeq
<1>2. 1 \in 1 .. Len(s) /\ Len(s) \in 1 .. Len(s)
  BY <1>1
<1>3. s[1] \in S /\ s[Len(s)] \in S
  BY <1>2, ElementOfSeq
<1>4. /\ Tail(s) \in Seq(S) /\ Len(Tail(s)) = Len(s) - 1
      /\ \A i \in 1 .. Len(Tail(s)) : Tail(s)[i] = s[i + 1]
  BY HeadTailProperties
<1>5. \A i \in 1 .. Len(Tail(s)) : i + 1 \in 1 .. Len(s)
  BY <1>1, <1>4
<1>6. Tail(s) = <<>> => Len(s) = 1
  <2>1. Tail(s) = <<>> => Len(Tail(s)) = 0
    BY EmptySeq
  <2> QED
    BY <1>1, <1>4, <2>1
<1>7. Head(s) = s[1]
  OBVIOUS
<1>8. /\ \A i \in 1 .. Len(Tail(s)) : i + 1 # 1 /\ (i + 1 = Len(s) => i = Len(Tail(s)))
      /\ Len(s) = 1 => Len(Tail(s)) = 0
  <2> DEFINE m == Len(Tail(s))
             n == Len(s)
  <2>1. m = n - 1 /\ n \in Nat
    BY <1>1, <1>4
  <2> HIDE DEF m, n
  <2>2. \A i \in 1 .. m : i + 1 # 1 /\ (i + 1 = n => i = m)
    BY <2>1
  <2>3. n = 1 => m = 0
    BY <2>1
  <2> QED
    BY <2>2, <2>3 DEF m, n
<1> QED
  BY <1>1, <1>2, <1>3, <1>4, <1>5, <1>6, <1>7, <1>8

\* One more piece after what was read before
LEMMA Joined ==
  ASSUME NEW S, NEW s \in Seq(S), NEW p \in S
  PROVE  /\ s \o <<p>> \in Seq(S) /\ Len(s \o <<p>>) = Len(s) + 1 /\ s \o <<p>> # <<>>
         /\ (s \o <<p>>)[Len(s) + 1] = p
         /\ \A i \in 1 .. Len(s) : (s \o <<p>>)[i] = s[i]
<1>1. s \o <<p>> = Append(s, p)
  BY AppendIsConcat
<1> QED
  BY <1>1, AppendProperties

-----------------------------------------------------------------------------
(* The end of an ask.                                                      *)

LEMMA ReturnIInv ==
  ASSUME IInv, UNCHANGED options, asks' \in 0 .. MaxAsks,
         NEW n \in 0 .. MaxAsks, NEW ok \in BOOLEAN, NEW answer \in Seq(Pieces),
         Return(n, ok, answer), alive' \in BOOLEAN, gaveup' \in BOOLEAN,
         wire' \in Seq(Pieces), instr' \in {instr, <<>>},
         Protocol', ~gaveup' => wire' = <<>> /\ NoneToCome',
         ok /\ pc = "read" /\ ~gaveup' =>
           /\ answer # <<>> /\ answer[Len(answer)] = <<n, "OK">>
           /\ \A i \in 1 .. Len(answer) - 1 : answer[i] = <<n, "more">>
  PROVE  IInv'
<1>1. /\ last' = [n |-> n, read |-> pc = "read", ok |-> ok, got |-> answer]
      /\ pc' = "idle" /\ got' = <<>> /\ msg' = "none"
  BY DEF Return
<1>2. TypeOK'
  <2>1. last' \in [n : 0 .. MaxAsks, read : BOOLEAN, ok : BOOLEAN, got : Seq(Pieces)]
    BY <1>1
  <2>2. instr' \in Seq([n : 1 .. MaxAsks, m : Messages, begun : BOOLEAN])
    <3> DEFINE R == [n : 1 .. MaxAsks, m : Messages, begun : BOOLEAN]
    <3>1. instr \in Seq(R)
      BY DEF IInv, TypeOK
    <3> HIDE DEF R
    <3>2. instr' \in Seq(R)
      BY <3>1, EmptySeq
    <3> QED
      BY <3>2 DEF R
  <2>3. got' \in Seq(Pieces)
    BY <1>1
  <2> QED
    BY <1>1, <2>1, <2>2, <2>3 DEF IInv, TypeOK, options
<1>3. Asking'
  BY <1>1 DEF IInv, Asking, options, Suits
<1>4. InTurn'
  BY <1>1 DEF InTurn
<1>5. InSync'
  BY <1>1 DEF InSync
<1> QED
  BY <1>2, <1>3, <1>4, <1>5 DEF IInv

\* An ask ends without an answer: nothing of it remains, or it is given up.
LEMMA ErrIInv ==
  ASSUME IInv, UNCHANGED <<options, asks, alive>>, Return(asks, FALSE, <<>>),
         wire' \in Seq(Pieces), instr' \in {instr, <<>>}, gaveup' \in BOOLEAN,
         \A i \in 1 .. Len(wire') : \E j \in 1 .. Len(wire) : wire'[i] = wire[j],
         ~gaveup' => wire' = <<>> /\ NoneToCome'
  PROVE  IInv'
<1>1. Protocol'
  BY DEF IInv, Protocol, options, Framed, Answers
<1>2. asks \in 0 .. MaxAsks /\ asks' = asks /\ alive' \in BOOLEAN /\ <<>> \in Seq(Pieces)
  BY DEF IInv, TypeOK
<1> QED
  BY <1>1, <1>2, ReturnIInv

-----------------------------------------------------------------------------
(* ask() and write()                                                       *)

LEMMA AskIInv ==
  ASSUME IInv, Ask
  PROVE  IInv'
<1>1. /\ pc = "idle" /\ asks' = asks + 1 /\ UNCHANGED <<options, wire, instr, alive, gaveup>>
      /\ asks' \in 0 .. MaxAsks /\ asks' > 0
  BY MaxAsksAssumption DEF Ask, IInv, TypeOK
<1>2. Protocol'
  BY <1>1 DEF IInv, Protocol, options, Framed, Answers
<1>3. CASE Return(asks + 1, TRUE, <<>>)
  <2>1. ~gaveup' => wire' = <<>> /\ NoneToCome'
    BY <1>1 DEF IInv, InTurn, NoneToCome, Answers, options
  <2>2. alive' \in BOOLEAN /\ gaveup' \in BOOLEAN /\ wire' \in Seq(Pieces) /\ <<>> \in Seq(Pieces)
    BY <1>1 DEF IInv, TypeOK
  <2>3. Return(asks', TRUE, <<>>)
    BY <1>1, <1>3
  <2> QED
    BY <1>1, <1>2, <2>1, <2>2, <1>3, ReturnIInv
<1>4. ASSUME NEW m \in Messages, msg' = m, pc' = "write", UNCHANGED <<got, last>>
      PROVE  IInv'
  <2>1. TypeOK' /\ Asking' /\ InSync'
    BY <1>1, <1>4 DEF IInv, TypeOK, Asking, InSync, options, Suits
  <2>2. InTurn'
    BY <1>1, <1>4 DEF IInv, InTurn, NoneToCome, Answers, options
  <2> QED
    BY <1>2, <2>1, <2>2 DEF IInv
<1> QED
  BY <1>3, <1>4 DEF Ask

LEMMA WriteIInv ==
  ASSUME IInv, Write
  PROVE  IInv'
<1> DEFINE R == [n : 1 .. MaxAsks, m : Messages, begun : BOOLEAN]
           q == [n |-> asks, m |-> msg, begun |-> FALSE]
<1>1. /\ pc = "write" /\ UNCHANGED <<options, asks, wire, alive, gaveup>>
      /\ instr' = IF alive THEN Append(instr, q) ELSE instr
      /\ q \in R /\ instr \in Seq(R) /\ got = <<>>
  BY DEF Write, IInv, TypeOK, Asking
<1>2. /\ instr' \in Seq(R) /\ Len(instr') \in {Len(instr), Len(instr) + 1} /\ Len(instr) \in Nat
      /\ \A i \in 1 .. Len(instr) : instr'[i] = instr[i]
      /\ \A i \in 1 .. Len(instr') : i \in 1 .. Len(instr) \/ (i = Len(instr') /\ instr'[i] = q)
  <2> HIDE DEF R, q
  <2>1. CASE alive
    <3>1. /\ instr' \in Seq(R) /\ Len(instr') = Len(instr) + 1 /\ Len(instr) \in Nat
          /\ \A i \in 1 .. Len(instr) : instr'[i] = instr[i]
          /\ instr'[Len(instr) + 1] = q
      BY <1>1, <2>1, AppendProperties, LenProperties
    <3>2. \A i \in 1 .. Len(instr') : i \in 1 .. Len(instr) \/ i = Len(instr) + 1
      BY <3>1
    <3> QED
      BY <3>1, <3>2
  <2>2. CASE ~alive
    BY <1>1, <2>2, LenProperties
  <2> QED
    BY <2>1, <2>2
<1>3. Protocol'
  <2>1. ASSUME NEW i \in 1 .. Len(instr'), instr'[i].begun
        PROVE  i = 1 /\ Answers(kind, instr'[i].m)
    <3>1. ~q.begun
      OBVIOUS
    <3>2. i \in 1 .. Len(instr) /\ instr'[i] = instr[i]
      BY <1>2, <2>1, <3>1
    <3> QED
      BY <2>1, <3>2 DEF IInv, Protocol
  <2> QED
    BY <1>1, <2>1 DEF IInv, Protocol, options, Framed, Answers
<1>4. CASE Reads(msg)
  <2>1. pc' = "read" /\ UNCHANGED <<got, msg, last>>
    BY <1>4 DEF Write
  <2>2. TypeOK' /\ Asking' /\ InSync'
    BY <1>1, <1>2, <2>1 DEF IInv, TypeOK, Asking, InSync, options, Suits
  <2>3. ASSUME ~gaveup
        PROVE  OwnAnswer' /\ Status'
    <3>1. wire = <<>> /\ NoneToCome
      BY <1>1, <2>3 DEF IInv, InTurn
    <3>2. \A i \in 1 .. Len(instr') : Answers(kind, instr'[i].m) => i = Len(instr') /\ instr'[i].n = asks
      BY <1>2, <3>1 DEF NoneToCome
    <3> QED
      BY <1>1, <2>1, <3>1, <3>2 DEF OwnAnswer, Status, options, Answers
  <2> QED
    BY <1>1, <1>3, <2>1, <2>2, <2>3 DEF IInv, InTurn
<1>5. CASE ~Reads(msg)
  <2>1. Return(asks, TRUE, <<>>)
    BY <1>5 DEF Write
  <2>2. ~Answers(kind, msg)
    BY <1>1, <1>5 DEF IInv, Asking, Suits, Reads
  <2>3. TypeOK'
    BY <1>1, <1>2, <2>1 DEF IInv, TypeOK, Return, options
  <2>4. Asking' /\ InSync'
    BY <1>1, <2>1 DEF IInv, Asking, InSync, Return, options, Suits
  <2>5. ~gaveup => wire' = <<>> /\ NoneToCome'
    BY <1>1, <1>2, <2>2 DEF IInv, InTurn, NoneToCome, Answers, options
  <2>6. InTurn'
    BY <1>1, <2>1, <2>5 DEF InTurn, Return
  <2> QED
    BY <1>3, <2>3, <2>4, <2>6 DEF IInv
<1> QED
  BY <1>4, <1>5

LEMMA WriteErrorIInv ==
  ASSUME IInv, WriteError
  PROVE  IInv'
<1>1. /\ pc = "write" /\ UNCHANGED <<options, asks, alive>> /\ Return(asks, FALSE, <<>>)
      /\ wire' \in {wire, <<>>} /\ instr' \in {instr, <<>>} /\ gaveup' = (gaveup /\ ~Clears)
      /\ Clears => wire' = <<>> /\ instr' = <<>>
  BY DEF WriteError
<1>2. wire' \in Seq(Pieces) /\ gaveup' \in BOOLEAN
  BY <1>1, EmptySeq DEF IInv, TypeOK
<1>3. \A i \in 1 .. Len(wire') : \E j \in 1 .. Len(wire) : wire'[i] = wire[j]
  BY <1>1
<1>4. ~gaveup' => wire' = <<>> /\ NoneToCome'
  <2>1. CASE Clears
    BY <1>1, <2>1 DEF NoneToCome
  <2>2. CASE ~Clears
    <3>1. ~gaveup' => wire = <<>> /\ NoneToCome
      BY <1>1, <2>2 DEF IInv, InTurn
    <3> QED
      BY <1>1, <3>1 DEF NoneToCome, Answers, options
  <2> QED
    BY <2>1, <2>2
<1> QED
  BY <1>1, <1>2, <1>3, <1>4, ErrIInv

-----------------------------------------------------------------------------
(* read()                                                                  *)

\* An Err
LEMMA FailsIInv ==
  ASSUME IInv, NEW rest \in Seq(Pieces), NEW cleared \in BOOLEAN, ReadFails(rest, cleared),
         \A i \in 1 .. Len(rest) : \E j \in 1 .. Len(wire) : rest[i] = wire[j]
  PROVE  IInv'
<1>1. UNCHANGED <<options, asks, alive>> /\ Return(asks, FALSE, <<>>)
  BY DEF ReadFails
<1>2. CASE cleared = TRUE
  <2>1. wire' = <<>> /\ instr' = <<>> /\ gaveup' = FALSE
    BY <1>2 DEF ReadFails
  <2>2. wire' \in Seq(Pieces) /\ Len(wire') = 0 /\ Len(instr') = 0
    BY <2>1, EmptySeq
  <2>3. NoneToCome' /\ \A i \in 1 .. Len(wire') : \E j \in 1 .. Len(wire) : wire'[i] = wire[j]
    BY <2>2 DEF NoneToCome
  <2>4. instr' \in {instr, <<>>} /\ gaveup' \in BOOLEAN
    BY <2>1
  <2> QED
    BY <1>1, <2>1, <2>2, <2>3, <2>4, ErrIInv
<1>3. CASE cleared = FALSE
  <2>1. wire' = rest /\ instr' = instr /\ gaveup' = TRUE
    BY <1>3 DEF ReadFails
  <2> QED
    BY <1>1, <2>1, ErrIInv
<1> QED
  BY <1>2, <1>3

LEMMA FailuresIInv ==
  ASSUME IInv, ReadBadLine \/ Timeout \/ StatusError \/ PortError
  PROVE  IInv'
<1>1. wire \in Seq(Pieces)
  BY DEF IInv, TypeOK
<1>2. CASE ReadBadLine \/ StatusError
  <2>1. wire # <<>> /\ ReadFails(Tail(wire), FALSE)
    BY <1>2 DEF ReadBadLine, StatusError
  <2> QED
    BY <1>1, <2>1, Taken, FailsIInv
<1>3. CASE Timeout
  <2>1. ReadFails(wire, Clears) /\ Clears \in BOOLEAN
    BY <1>3 DEF Timeout, Clears
  <2> QED
    BY <1>1, <2>1, FailsIInv
<1>4. CASE PortError
  <2>1. ReadFails(<<>>, FALSE)
    BY <1>4 DEF PortError
  <2>2. <<>> \in Seq(Pieces) /\ \A i \in 1 .. Len(<<>>) : \E j \in 1 .. Len(wire) : <<>>[i] = wire[j]
    BY EmptySeq
  <2> QED
    BY <2>1, <2>2, FailsIInv
<1> QED
  BY <1>2, <1>3, <1>4

LEMMA ReadNothingIInv ==
  ASSUME IInv, ReadNothing
  PROVE  IInv'
<1>1. /\ UNCHANGED <<options, asks, wire, instr, alive>> /\ gaveup' = TRUE
      /\ Return(asks, TRUE, <<>>) /\ asks' = asks
  BY DEF ReadNothing
<1>2. Protocol'
  BY <1>1 DEF IInv, Protocol, options, Framed, Answers
<1>3. asks \in 0 .. MaxAsks /\ alive' \in BOOLEAN /\ wire' \in Seq(Pieces) /\ <<>> \in Seq(Pieces)
  BY <1>1 DEF IInv, TypeOK
<1> QED
  BY <1>1, <1>2, <1>3, ReturnIInv

\* An answer, or an error that came in its place
LEMMA ReturnsIInv ==
  ASSUME IInv, pc = "read", NEW ok \in BOOLEAN, NEW answer \in Seq(Pieces),
         NEW rest \in Seq(Pieces), ReadReturns(ok, answer, rest),
         \A i \in 1 .. Len(rest) : \E j \in 1 .. Len(wire) : rest[i] = wire[j],
         ~gaveup => rest = <<>> /\ NoneToCome,
         ok /\ ~gaveup =>
           /\ answer # <<>> /\ answer[Len(answer)] = <<asks, "OK">>
           /\ \A i \in 1 .. Len(answer) - 1 : answer[i] = <<asks, "more">>
  PROVE  IInv'
<1>1. /\ wire' = rest /\ UNCHANGED <<options, asks, instr, alive, gaveup>>
      /\ Return(asks, ok, answer) /\ asks' = asks
  BY DEF ReadReturns
<1>2. Protocol'
  BY <1>1 DEF IInv, Protocol, options, Framed, Answers
<1>3. asks \in 0 .. MaxAsks /\ alive' \in BOOLEAN /\ gaveup' \in BOOLEAN
  BY <1>1 DEF IInv, TypeOK
<1>4. ~gaveup' => wire' = <<>> /\ NoneToCome'
  BY <1>1 DEF NoneToCome, Answers, options
<1> QED
  BY <1>1, <1>2, <1>3, <1>4, ReturnIInv

\* What may be in the buffer while the own answer is read
LEMMA OwnPieces ==
  ASSUME IInv, pc = "read", ~gaveup, NEW i \in 1 .. Len(wire)
  PROVE  /\ wire[i] \in Pieces
         /\ wire[i][2] = "more" => wire[i] = <<asks, "more">>
         /\ wire[i][2] = "OK" => wire[i] = <<asks, "OK">>
         /\ wire[i][2] \in {"OK", "Err"} => i = Len(wire) /\ NoneToCome
         /\ wire[i][2] \in Tokens
         /\ wire[i][2] = "bad" => kind = "spp"
         /\ wire[i][2] = "Err" => kind \in {"ack", "spp"}
         /\ wire[i][2] = "more" => Framed
<1>1. wire[i] \in Pieces
  BY ElementOfSeq DEF IInv, TypeOK
<1>2. wire[i] = <<wire[i][1], wire[i][2]>> /\ wire[i][2] \in Tokens
  BY <1>1 DEF Pieces
<1>3. wire[i][1] = asks /\ (wire[i][2] \in {"OK", "Err"} => i = Len(wire) /\ NoneToCome)
  BY DEF IInv, InTurn, OwnAnswer
<1> QED
  BY <1>1, <1>2, <1>3 DEF IInv, Protocol

\* One recv(), one read(); a message of the bus
LEMMA WholeIInv ==
  ASSUME IInv, ReadBuffer \/ ReadMessage
  PROVE  IInv'
<1>1. /\ wire \in Seq(Pieces) /\ wire # <<>> /\ pc = "read" /\ Len(wire) \in Nat \ {0}
      /\ kind \in {"net", "serial", "ndelay", "gpib", "vxi"}
  <2>1. wire \in Seq(Pieces)
    BY DEF IInv, TypeOK
  <2>2. pc = "read" /\ kind \in {"net", "serial", "ndelay", "gpib", "vxi"} /\ wire # <<>>
    <3>1. CASE ReadBuffer
      BY <3>1 DEF ReadBuffer, Reading
    <3>2. CASE ReadMessage
      <4>1. PICK i \in 1 .. Len(wire) : Ends(wire[i])
        BY <3>2 DEF ReadMessage, HasMessage
      <4>2. Len(wire) # 0
        BY <2>1, <4>1
      <4> QED
        BY <3>2, <4>2, EmptySeq DEF ReadMessage, Reading
    <3> QED
      BY <3>1, <3>2
  <2> QED
    BY <2>1, <2>2, EmptySeq
<1>2. ASSUME ~gaveup, NEW i \in 1 .. Len(wire), Ends(wire[i])
      PROVE  wire[i] = <<asks, "OK">> /\ i = Len(wire) /\ NoneToCome
  BY <1>1, <1>2, OwnPieces DEF Ends, Tokens
<1>3. CASE ReadBuffer
  <2>1. ReadReturns(TRUE, wire, <<>>) /\ kind \in {"net", "serial", "ndelay"}
    BY <1>3 DEF ReadBuffer, Reading
  <2>2. ASSUME ~gaveup
        PROVE  Len(wire) = 1 /\ wire[Len(wire)] = <<asks, "OK">> /\ NoneToCome
    <3>1. \A i \in 1 .. Len(wire) : Ends(wire[i])
      BY <1>1, <2>1, <2>2, OwnPieces DEF Ends, Framed
    <3>2. 1 \in 1 .. Len(wire)
      BY <1>1
    <3>3. Ends(wire[1])
      BY <3>1, <3>2
    <3> QED
      BY <1>2, <2>2, <3>2, <3>3
  <2>3. <<>> \in Seq(Pieces) /\ \A i \in 1 .. Len(<<>>) : \E j \in 1 .. Len(wire) : <<>>[i] = wire[j]
    BY EmptySeq
  <2>4. ASSUME ~gaveup
        PROVE  /\ wire[Len(wire)] = <<asks, "OK">> /\ NoneToCome
               /\ \A i \in 1 .. Len(wire) - 1 : wire[i] = <<asks, "more">>
    <3>1. Len(wire) = 1
      BY <2>2, <2>4
    <3>2. \A i \in 1 .. Len(wire) - 1 : FALSE
      BY <3>1
    <3> QED
      BY <2>2, <2>4, <3>2
  <2> QED
    BY <1>1, <2>1, <2>3, <2>4, ReturnsIInv
<1>4. CASE ReadMessage
  <2> DEFINE n == MessageLen
             answer == SubSeq(wire, 1, n)
             rest == SubSeq(wire, n + 1, Len(wire))
  <2>1. ReadReturns(TRUE, answer, rest) /\ HasMessage
    BY <1>4 DEF ReadMessage
  <2>2. n \in 1 .. Len(wire) /\ Ends(wire[n]) /\ \A j \in 1 .. n - 1 : ~Ends(wire[j])
    BY <1>1, <2>1, FirstMessage
  <2> HIDE DEF n
  <2>3. /\ answer \in Seq(Pieces) /\ Len(answer) = n
        /\ \A i \in 1 .. n : answer[i] = wire[i]
    <3>1. \A i \in 1 .. n : wire[i] \in Pieces
      BY <1>1, <2>2, ElementOfSeq
    <3>2. 1 \in Int /\ n \in Int /\ 1 <= n
      BY <1>1, <2>2
    <3>3. /\ answer \in Seq(Pieces) /\ Len(answer) = IF 1 <= n THEN n - 1 + 1 ELSE 0
          /\ \A i \in 1 .. n - 1 + 1 : answer[i] = wire[1 + i - 1]
      BY <3>1, <3>2, SubSeqProperties
    <3> QED
      BY <3>2, <3>3
  <2>4. /\ rest \in Seq(Pieces) /\ (n = Len(wire) => rest = <<>>)
        /\ \A i \in 1 .. Len(rest) : \E j \in 1 .. Len(wire) : rest[i] = wire[j]
    <3> DEFINE m == n + 1
               l == Len(wire)
    <3>1. \A i \in m .. l : wire[i] \in Pieces
      BY <1>1, <2>2, ElementOfSeq
    <3>2. m \in Int /\ l \in Int /\ l \in Nat /\ m \in 2 .. l + 1
      BY <1>1, <2>2
    <3>3. rest = SubSeq(wire, m, l)
      OBVIOUS
    <3>4. n = Len(wire) => l < m
      BY <1>1
    <3> HIDE DEF m, l, rest
    <3>5. /\ rest \in Seq(Pieces) /\ Len(rest) = IF m <= l THEN l - m + 1 ELSE 0
          /\ \A i \in 1 .. l - m + 1 : rest[i] = wire[m + i - 1]
      BY <3>1, <3>2, <3>3, SubSeqProperties
    <3>6. \A i \in 1 .. Len(rest) : i \in 1 .. l - m + 1 /\ m + i - 1 \in 1 .. l
      BY <3>2, <3>5
    <3>7. n = Len(wire) => rest = <<>>
      BY <3>2, <3>3, <3>4, SubSeqEmpty
    <3> QED
      BY <3>5, <3>6, <3>7 DEF l
  <2>5. ASSUME ~gaveup
        PROVE  /\ rest = <<>> /\ NoneToCome /\ answer # <<>> /\ answer[Len(answer)] = <<asks, "OK">>
               /\ \A i \in 1 .. Len(answer) - 1 : answer[i] = <<asks, "more">>
    <3>1. wire[n] = <<asks, "OK">> /\ n = Len(wire) /\ NoneToCome
      BY <1>2, <2>2, <2>5
    <3>2. \A i \in 1 .. n - 1 : i \in 1 .. Len(wire) /\ i \in 1 .. n /\ wire[i] = <<asks, "more">>
      <4>1. \A i \in 1 .. n - 1 : i \in 1 .. Len(wire) /\ i \in 1 .. n
        BY <1>1, <2>2
      <4>2. \A i \in 1 .. n - 1 : wire[i][2] = "more"
        BY <2>2 DEF Ends
      <4> QED
        BY <1>1, <2>5, <4>1, <4>2, OwnPieces
    <3>3. n \in 1 .. n /\ answer # <<>>
      <4>1. Len(answer) # 0
        BY <1>1, <2>2, <2>3
      <4> QED
        BY <1>1, <2>2, <4>1
    <3> QED
      BY <2>3, <2>4, <3>1, <3>2, <3>3
  <2> QED
    <3> HIDE DEF answer, rest
    <3> QED
      BY <1>1, <2>1, <2>3, <2>4, <2>5, ReturnsIInv
<1> QED
  BY <1>3, <1>4

\* A turn of a loop: what was read is kept.
LEMMA ReadsOnIInv ==
  ASSUME IInv, pc = "read", NEW rest \in Seq(Pieces), ReadsOn(rest), got' \in Seq(Pieces),
         \A i \in 1 .. Len(rest) : \E j \in 1 .. Len(wire) :
           rest[i] = wire[j] /\ (j = Len(wire) => i = Len(rest)),
         ~gaveup => (\A i \in 1 .. Len(got') : got'[i] = <<asks, "more">>) /\ Status'
  PROVE  IInv'
<1>1. /\ wire' = rest /\ pc' = pc
      /\ UNCHANGED <<options, asks, msg, pc, instr, alive, last, gaveup>>
  BY DEF ReadsOn
<1>2. TypeOK' /\ Asking' /\ InSync'
  BY <1>1 DEF IInv, TypeOK, Asking, InSync, options, Suits
<1>3. Protocol'
  BY <1>1 DEF IInv, Protocol, options, Framed, Answers
<1>4. ASSUME ~gaveup
      PROVE  OwnAnswer'
  <2>1. OwnAnswer
    BY <1>4 DEF IInv, InTurn
  <2>2. \A i \in 1 .. Len(wire') :
          /\ wire'[i][1] = asks
          /\ wire'[i][2] \in {"OK", "Err"} => i = Len(wire') /\ NoneToCome
    BY <1>1, <2>1 DEF OwnAnswer
  <2> QED
    BY <1>1, <1>4, <2>1, <2>2 DEF OwnAnswer, NoneToCome, Answers, options
<1> QED
  BY <1>1, <1>2, <1>3, <1>4 DEF IInv, InTurn

\* The first piece is taken, and the others stay.
LEMMA FirstTaken ==
  ASSUME wire \in Seq(Pieces), wire # <<>>, got \in Seq(Pieces), ReadsOn(Tail(wire))
  PROVE  /\ got' \in Seq(Pieces) /\ Len(got') = Len(got) + 1 /\ got'[Len(got) + 1] = wire[1]
         /\ \A i \in 1 .. Len(got) : got'[i] = got[i]
<1>1. Len(wire) \in Nat \ {0} /\ wire[1] \in Pieces /\ Len(Tail(wire)) = Len(wire) - 1
  BY Taken
<1>2. SubSeq(wire, 1, 1) = <<wire[1]>>
  <2>1. 1 \in 1 .. Len(wire) /\ 1 \in 1 .. 1
    BY <1>1
  <2>2. SubSeq(wire, 1, 1) = <<wire[1]>> \o SubSeq(wire, 1 + 1, 1)
    BY <2>1, SubSeqRecursiveFirst
  <2>3. SubSeq(wire, 1 + 1, 1) = <<>>
    BY SubSeqEmpty
  <2>4. <<wire[1]>> \in Seq(Pieces)
    BY <1>1
  <2> QED
    BY <2>2, <2>3, <2>4, ConcatEmptySeq
<1>3. got' = got \o <<wire[1]>>
  BY <1>1, <1>2 DEF ReadsOn
<1> QED
  BY <1>1, <1>3, Joined

\* The loop of drv_usbtmc
LEMMA ReadTmcIInv ==
  ASSUME IInv, ReadTmc
  PROVE  IInv'
<1>1. /\ wire \in Seq(Pieces) /\ wire # <<>> /\ got \in Seq(Pieces) /\ pc = "read" /\ kind = "usbtmc"
  BY DEF IInv, TypeOK, ReadTmc, Reading
<1>2. /\ Len(wire) \in Nat \ {0} /\ 1 \in 1 .. Len(wire) /\ Head(wire) = wire[1]
      /\ Tail(wire) \in Seq(Pieces) /\ Len(Tail(wire)) = Len(wire) - 1
      /\ \A i \in 1 .. Len(Tail(wire)) : i + 1 \in 1 .. Len(wire) /\ Tail(wire)[i] = wire[i + 1]
      /\ (Tail(wire) = <<>> => Len(wire) = 1) /\ wire[1] \in Pieces
  BY <1>1, Taken
<1>3. ~gaveup => OwnAnswer /\ Status
  BY <1>1 DEF IInv, InTurn
<1>4. CASE MessageAvailable(Tail(wire))
  <2>1. ReadsOn(Tail(wire))
    BY <1>4 DEF ReadTmc
  <2>2. /\ got' \in Seq(Pieces) /\ Len(got') = Len(got) + 1 /\ got'[Len(got) + 1] = wire[1]
        /\ \A i \in 1 .. Len(got) : got'[i] = got[i]
    BY <1>1, <2>1, FirstTaken
  <2>3. ASSUME ~gaveup
        PROVE  (\A i \in 1 .. Len(got') : got'[i] = <<asks, "more">>) /\ Status'
    <3>1. wire[1][2] # "OK"
      <4>1. Tail(wire) # <<>> => Len(wire) # 1
        <5>1. Tail(wire) # <<>> => Len(Tail(wire)) # 0
          BY <1>2, EmptySeq
        <5> QED
          BY <1>2, <5>1
      <4>2. ASSUME wire[1][2] = "OK" PROVE FALSE
        <5>1. Len(wire) = 1 /\ NoneToCome
          BY <1>1, <1>2, <2>3, <4>2, OwnPieces
        <5>2. instr # <<>> /\ instr[1].begun
          BY <1>4, <4>1, <5>1 DEF MessageAvailable
        <5>3. 1 \in 1 .. Len(instr)
          <6>1. Len(instr) \in Nat \ {0}
            BY <5>2, EmptySeq DEF IInv, TypeOK
          <6> QED
            BY <6>1
        <5>4. Answers(kind, instr[1].m)
          BY <5>2, <5>3 DEF IInv, Protocol
        <5> QED
          BY <5>1, <5>3, <5>4 DEF NoneToCome
      <4> QED
        BY <4>2
    <3>2. wire[1] = <<asks, "more">>
      BY <1>1, <1>2, <2>3, <3>1, OwnPieces DEF Tokens
    <3>3. \A i \in 1 .. Len(got') : i \in 1 .. Len(got) \/ i = Len(got) + 1
      <4>1. Len(got) \in Nat
        BY <1>1, LenProperties
      <4> QED
        BY <2>2, <4>1
    <3>4. \A i \in 1 .. Len(got') : got'[i] = <<asks, "more">>
      BY <1>3, <2>2, <2>3, <3>2, <3>3 DEF OwnAnswer
    <3>5. Status'
      <4>1. wire' = Tail(wire) /\ instr' = instr /\ kind' = kind
        BY <2>1 DEF ReadsOn, options
      <4>2. CASE instr # <<>> /\ instr[1].begun
        BY <4>1, <4>2 DEF Status
      <4>3. CASE ~(instr # <<>> /\ instr[1].begun)
        <5>1. Tail(wire) # <<>>
          BY <1>4, <4>3 DEF MessageAvailable
        <5>2. wire[Len(wire)][2] = "OK"
          BY <1>1, <1>3, <2>3, <4>3 DEF Status
        <5>3. Len(Tail(wire)) \in 1 .. Len(Tail(wire)) /\ Len(Tail(wire)) + 1 = Len(wire)
          <6>1. Len(Tail(wire)) \in Nat \ {0}
            BY <1>2, <5>1, EmptySeq
          <6> QED
            BY <1>2, <6>1
        <5>4. Tail(wire)[Len(Tail(wire))] = wire[Len(wire)]
          BY <1>2, <5>3
        <5> QED
          BY <4>1, <5>1, <5>2, <5>4 DEF Status
      <4> QED
        BY <4>2, <4>3
    <3> QED
      BY <3>4, <3>5
  <2>4. \A i \in 1 .. Len(Tail(wire)) : \E j \in 1 .. Len(wire) :
          Tail(wire)[i] = wire[j] /\ (j = Len(wire) => i = Len(Tail(wire)))
    <3>1. \A i \in 1 .. Len(Tail(wire)) : i + 1 = Len(wire) => i = Len(Tail(wire))
      BY <1>1, Taken
    <3> QED
      BY <1>2, <3>1
  <2> QED
    BY <1>1, <1>2, <2>1, <2>2, <2>3, <2>4, ReadsOnIInv
<1>5. CASE ~MessageAvailable(Tail(wire))
  <2> DEFINE answer == got \o <<wire[1]>>
  <2>1. /\ ReadReturns(TRUE, answer, <<>>) /\ Len(wire) = 1
        /\ ~(instr # <<>> /\ instr[1].begun)
    BY <1>2, <1>5 DEF ReadTmc, MessageAvailable
  <2>2. /\ answer \in Seq(Pieces) /\ Len(answer) = Len(got) + 1 /\ answer # <<>>
        /\ answer[Len(got) + 1] = wire[1]
        /\ \A i \in 1 .. Len(got) : answer[i] = got[i]
    BY <1>1, <1>2, Joined
  <2> HIDE DEF answer
  <2>3. ASSUME ~gaveup
        PROVE  /\ NoneToCome /\ answer[Len(answer)] = <<asks, "OK">>
               /\ \A i \in 1 .. Len(answer) - 1 : answer[i] = <<asks, "more">>
    <3>1. wire[1][2] = "OK"
      BY <1>1, <1>3, <2>1, <2>3 DEF Status
    <3>2. wire[1] = <<asks, "OK">> /\ NoneToCome
      BY <1>1, <1>2, <2>3, <3>1, OwnPieces
    <3>3. \A i \in 1 .. Len(got) : got[i] = <<asks, "more">>
      BY <1>3, <2>3 DEF OwnAnswer
    <3>4. Len(answer) - 1 = Len(got)
      <4>1. Len(got) \in Nat
        BY <1>1, LenProperties
      <4> QED
        BY <2>2, <4>1
    <3> QED
      BY <2>2, <3>2, <3>3, <3>4
  <2>4. <<>> \in Seq(Pieces) /\ \A i \in 1 .. Len(<<>>) : \E j \in 1 .. Len(wire) : <<>>[i] = wire[j]
    BY EmptySeq
  <2> QED
    BY <1>1, <2>1, <2>2, <2>3, <2>4, ReturnsIInv
<1> QED
  BY <1>4, <1>5

\* The loop of drv_serial
LEMMA ReadAckIInv ==
  ASSUME IInv, ReadAck
  PROVE  IInv'
<1>1. /\ wire \in Seq(Pieces) /\ wire # <<>> /\ got \in Seq(Pieces) /\ pc = "read" /\ kind = "ack"
  BY DEF IInv, TypeOK, ReadAck, Reading
<1> DEFINE l == Len(wire)
           g == Len(got)
<1>2. l \in Nat \ {0} /\ l \in 1 .. l /\ g \in Nat
  BY <1>1, Taken, LenProperties
<1>3. /\ got \o wire \in Seq(Pieces) /\ Len(got \o wire) = g + l
      /\ \A i \in 1 .. g + l : (got \o wire)[i] = IF i <= g THEN got[i] ELSE wire[i - g]
  BY <1>1, ConcatProperties
<1>4. ASSUME ~gaveup
      PROVE  /\ \A i \in 1 .. g : got[i] = <<asks, "more">>
             /\ \A i \in 1 .. l : i # l => wire[i] = <<asks, "more">>
             /\ wire[l][2] = "more" => wire[l] = <<asks, "more">>
             /\ wire[l][2] = "OK" => wire[l] = <<asks, "OK">>
             /\ Ends(wire[l]) => NoneToCome
  <2>1. \A i \in 1 .. g : got[i] = <<asks, "more">>
    BY <1>1, <1>4 DEF IInv, InTurn, OwnAnswer
  <2>2. \A i \in 1 .. l : i # l => wire[i] = <<asks, "more">>
    BY <1>1, <1>4, OwnPieces DEF Tokens
  <2>3. /\ wire[l][2] = "more" => wire[l] = <<asks, "more">>
        /\ wire[l][2] = "OK" => wire[l] = <<asks, "OK">>
        /\ Ends(wire[l]) => NoneToCome
    BY <1>1, <1>2, <1>4, OwnPieces DEF Tokens, Ends
  <2> QED
    BY <2>1, <2>2, <2>3
<1>5. ASSUME ~gaveup
      PROVE  \A i \in 1 .. g + l - 1 : (got \o wire)[i] = <<asks, "more">>
  <2> TAKE i \in 1 .. g + l - 1
  <2>1. i \in 1 .. g + l /\ (i <= g => i \in 1 .. g)
        /\ (~(i <= g) => i - g \in 1 .. l /\ i - g # l)
    BY <1>2
  <2> QED
    BY <1>3, <1>4, <1>5, <2>1
<1>6. g + l \in 1 .. g + l /\ (got \o wire)[g + l] = wire[l] /\ got \o wire # <<>>
  <2>1. g + l \in 1 .. g + l /\ ~(g + l <= g) /\ g + l - g = l /\ g + l # 0
    BY <1>2
  <2>2. (got \o wire)[g + l] = wire[l]
    BY <1>3, <2>1
  <2> QED
    BY <1>3, <2>1, <2>2, EmptySeq
<1>7. <<>> \in Seq(Pieces) /\ Len(<<>>) = 0
  BY EmptySeq
<1>8. CASE Ends(wire[l])
  <2> DEFINE ok == wire[l][2] = "OK"
             answer == got \o wire
  <2>1. ReadReturns(ok, answer, <<>>) /\ ok \in BOOLEAN
    BY <1>8 DEF ReadAck
  <2>2. \A i \in 1 .. Len(<<>>) : \E j \in 1 .. Len(wire) : <<>>[i] = wire[j]
    BY <1>7
  <2>3. answer \in Seq(Pieces) /\ answer # <<>> /\ Len(answer) = g + l
    BY <1>3, <1>6
  <2>4. ~gaveup => NoneToCome
    BY <1>4, <1>8
  <2>5. ASSUME ~gaveup, ok
        PROVE  /\ answer[Len(answer)] = <<asks, "OK">>
               /\ \A i \in 1 .. Len(answer) - 1 : answer[i] = <<asks, "more">>
    BY <1>3, <1>4, <1>5, <1>6, <2>5
  <2> HIDE DEF ok, answer
  <2> QED
    BY <1>1, <1>7, <2>1, <2>2, <2>3, <2>4, <2>5, ReturnsIInv
<1>9. CASE ~Ends(wire[l])
  <2>1. ReadsOn(<<>>)
    BY <1>9 DEF ReadAck
  <2>2. got' = got \o wire
    <3>1. SubSeq(wire, 1, Len(wire)) = wire
      BY <1>1, SubSeqFull
    <3>2. Len(wire) - 0 = Len(wire)
      BY <1>2
    <3> QED
      BY <1>7, <2>1, <3>1, <3>2 DEF ReadsOn
  <2>3. ASSUME ~gaveup
        PROVE  (\A i \in 1 .. Len(got') : got'[i] = <<asks, "more">>) /\ Status'
    <3>1. wire[l] = <<asks, "more">>
      BY <1>4, <1>9, <2>3 DEF Ends
    <3>2. \A i \in 1 .. g + l : i \in 1 .. g + l - 1 \/ i = g + l
      BY <1>2
    <3>3. \A i \in 1 .. Len(got') : got'[i] = <<asks, "more">>
      BY <1>3, <1>5, <1>6, <2>2, <2>3, <3>1, <3>2
    <3>4. Status'
      BY <1>1, <2>1 DEF ReadsOn, options, Status
    <3> QED
      BY <3>3, <3>4
  <2>4. \A i \in 1 .. Len(<<>>) : \E j \in 1 .. Len(wire) :
          <<>>[i] = wire[j] /\ (j = Len(wire) => i = Len(<<>>))
    BY <1>7
  <2> QED
    BY <1>1, <1>3, <1>7, <2>1, <2>2, <2>3, <2>4, ReadsOnIInv
<1> QED
  BY <1>8, <1>9

\* read_spp
LEMMA ReadSppIInv ==
  ASSUME IInv, ReadSpp
  PROVE  IInv'
<1>1. /\ wire \in Seq(Pieces) /\ wire # <<>> /\ got \in Seq(Pieces) /\ pc = "read" /\ kind = "spp"
      /\ wire[1][2] # "bad"
  BY DEF IInv, TypeOK, ReadSpp, Reading
<1>2. /\ Len(wire) \in Nat \ {0} /\ 1 \in 1 .. Len(wire) /\ wire[1] \in Pieces
      /\ Tail(wire) \in Seq(Pieces) /\ Len(Tail(wire)) = Len(wire) - 1
      /\ \A i \in 1 .. Len(Tail(wire)) : i + 1 \in 1 .. Len(wire) /\ Tail(wire)[i] = wire[i + 1]
  BY <1>1, Taken
<1>3. ~gaveup => \A i \in 1 .. Len(got) : got[i] = <<asks, "more">>
  BY <1>1 DEF IInv, InTurn, OwnAnswer
<1>4. CASE Ends(wire[1])
  <2> DEFINE ok == wire[1][2] = "OK"
             answer == got \o <<wire[1]>>
  <2>1. ReadReturns(ok, answer, Tail(wire)) /\ ok \in BOOLEAN
    BY <1>4 DEF ReadSpp
  <2>2. /\ answer \in Seq(Pieces) /\ Len(answer) = Len(got) + 1 /\ answer # <<>>
        /\ answer[Len(got) + 1] = wire[1]
        /\ \A i \in 1 .. Len(got) : answer[i] = got[i]
    BY <1>1, <1>2, Joined
  <2>3. ASSUME ~gaveup
        PROVE  Tail(wire) = <<>> /\ NoneToCome /\ (ok => wire[1] = <<asks, "OK">>)
    <3>1. wire[1][2] \in {"OK", "Err"}
      BY <1>1, <1>2, <1>4, <2>3, OwnPieces DEF Ends, Tokens
    <3>2. Len(wire) = 1 /\ NoneToCome /\ (ok => wire[1] = <<asks, "OK">>)
      BY <1>1, <1>2, <2>3, <3>1, OwnPieces
    <3>3. Len(Tail(wire)) = 0
      BY <1>2, <3>2
    <3> QED
      BY <1>2, <3>2, <3>3, EmptySeq
  <2>4. Len(got) + 1 - 1 = Len(got)
    <3>1. Len(got) \in Nat
      BY <1>1, LenProperties
    <3> QED
      BY <3>1
  <2>5. ASSUME ~gaveup, ok
        PROVE  /\ answer[Len(answer)] = <<asks, "OK">>
               /\ \A i \in 1 .. Len(answer) - 1 : answer[i] = <<asks, "more">>
    <3> HIDE DEF answer, ok
    <3> QED
      BY <1>3, <2>2, <2>3, <2>4, <2>5
  <2>6. \A i \in 1 .. Len(Tail(wire)) : \E j \in 1 .. Len(wire) : Tail(wire)[i] = wire[j]
    BY <1>2
  <2> HIDE DEF ok, answer
  <2> QED
    BY <1>1, <1>2, <2>1, <2>2, <2>3, <2>5, <2>6, ReturnsIInv
<1>5. CASE ~Ends(wire[1])
  <2>1. ReadsOn(Tail(wire))
    BY <1>5 DEF ReadSpp
  <2>2. /\ got' \in Seq(Pieces) /\ Len(got') = Len(got) + 1 /\ got'[Len(got) + 1] = wire[1]
        /\ \A i \in 1 .. Len(got) : got'[i] = got[i]
    BY <1>1, <2>1, FirstTaken
  <2>3. ASSUME ~gaveup
        PROVE  (\A i \in 1 .. Len(got') : got'[i] = <<asks, "more">>) /\ Status'
    <3>1. wire[1] = <<asks, "more">>
      BY <1>1, <1>2, <1>5, <2>3, OwnPieces DEF Ends
    <3>2. \A i \in 1 .. Len(got') : i \in 1 .. Len(got) \/ i = Len(got) + 1
      <4>1. Len(got) \in Nat
        BY <1>1, LenProperties
      <4> QED
        BY <2>2, <4>1
    <3>3. \A i \in 1 .. Len(got') : got'[i] = <<asks, "more">>
      BY <1>3, <2>2, <2>3, <3>1, <3>2
    <3>4. Status'
      BY <1>1, <2>1 DEF ReadsOn, options, Status
    <3> QED
      BY <3>3, <3>4
  <2>4. \A i \in 1 .. Len(Tail(wire)) : \E j \in 1 .. Len(wire) :
          Tail(wire)[i] = wire[j] /\ (j = Len(wire) => i = Len(Tail(wire)))
    <3>1. \A i \in 1 .. Len(Tail(wire)) : i + 1 = Len(wire) => i = Len(Tail(wire))
      BY <1>1, Taken
    <3> QED
      BY <1>2, <3>1
  <2> QED
    BY <1>1, <1>2, <2>1, <2>2, <2>3, <2>4, ReadsOnIInv
<1> QED
  BY <1>4, <1>5

-----------------------------------------------------------------------------
(* The other end.                                                          *)

LEMMA InstrumentIInv ==
  ASSUME IInv, Instrument
  PROVE  IInv'
<1> DEFINE R == [n : 1 .. MaxAsks, m : Messages, begun : BOOLEAN]
           r == instr[1]
<1>1. /\ instr \in Seq(R) /\ instr # <<>> /\ wire \in Seq(Pieces)
      /\ UNCHANGED <<options, asks, msg, pc, got, alive, last, gaveup>>
  BY DEF IInv, TypeOK, Instrument
<1>2. /\ Len(instr) \in Nat \ {0} /\ 1 \in 1 .. Len(instr) /\ r \in R
      /\ Tail(instr) \in Seq(R) /\ Len(Tail(instr)) = Len(instr) - 1 /\ Len(wire) \in Nat
      /\ \A i \in 1 .. Len(Tail(instr)) : /\ i + 1 \in 1 .. Len(instr)
                                          /\ Tail(instr)[i] = instr[i + 1]
                                          /\ (i + 1 = Len(instr) => i = Len(Tail(instr)))
  <2> HIDE DEF R
  <2> QED
    BY <1>1, Taken, LenProperties
<1>3. \A i \in 1 .. Len(Tail(instr)) : ~Tail(instr)[i].begun
  <2>1. \A i \in 1 .. Len(Tail(instr)) : i + 1 # 1
    <3> HIDE DEF R
    <3> QED
      BY <1>1, Taken
  <2> QED
    BY <1>2, <2>1 DEF IInv, Protocol
<1>4. ASSUME TypeOK', Protocol', ~gaveup => IF pc = "read" THEN OwnAnswer' /\ Status'
                                            ELSE wire' = <<>> /\ NoneToCome'
      PROVE  IInv'
  BY <1>1, <1>4 DEF IInv, Asking, InSync, InTurn, options, Suits
<1>5. ASSUME ~Answers(kind, r.m), instr' = Tail(instr), UNCHANGED wire
      PROVE  IInv'
  <2>1. TypeOK'
    BY <1>1, <1>2, <1>5 DEF IInv, TypeOK, options
  <2>2. Protocol'
    BY <1>1, <1>3, <1>5 DEF IInv, Protocol, options, Framed, Answers
  <2>3. NoneToCome => NoneToCome'
    BY <1>1, <1>2, <1>5 DEF NoneToCome, options, Answers
  <2>4. OwnAnswer => OwnAnswer'
    <3> SUFFICES ASSUME OwnAnswer PROVE OwnAnswer'
      OBVIOUS
    <3>1. \A i \in 1 .. Len(instr') :
            Answers(kind, instr'[i].m) => i = Len(instr') /\ instr'[i].n = asks
      BY <1>2, <1>5 DEF OwnAnswer
    <3> QED
      BY <1>1, <1>5, <2>3, <3>1 DEF OwnAnswer, options, Answers
  <2>5. ~r.begun
    BY <1>2, <1>5 DEF IInv, Protocol
  <2>6. Status => Status'
    BY <1>1, <1>5, <2>5 DEF Status, options
  <2> QED
    BY <1>1, <1>4, <1>5, <2>1, <2>2, <2>3, <2>4, <2>6 DEF IInv, InTurn
<1>6. ASSUME ~gaveup, Answers(kind, r.m)
      PROVE  /\ pc = "read" /\ OwnAnswer /\ r.n = asks /\ Len(instr) = 1
             /\ \A i \in 1 .. Len(wire) : wire[i][2] \notin {"OK", "Err"}
  <2>1. ~NoneToCome
    BY <1>2, <1>6 DEF NoneToCome
  <2>2. pc = "read" /\ OwnAnswer
    BY <1>6, <2>1 DEF IInv, InTurn
  <2> QED
    BY <1>2, <1>6, <2>1, <2>2 DEF OwnAnswer
<1>7. ASSUME NEW t \in Tokens, wire' = Append(wire, <<r.n, t>>)
      PROVE  /\ wire' \in Seq(Pieces) /\ Len(wire') = Len(wire) + 1 /\ wire' # <<>>
             /\ wire'[Len(wire')] = <<r.n, t>>
             /\ \A i \in 1 .. Len(wire') : \/ i \in 1 .. Len(wire) /\ wire'[i] = wire[i]
                                           \/ i = Len(wire') /\ wire'[i] = <<r.n, t>>
  <2>1. <<r.n, t>> \in Pieces
    BY <1>2 DEF Pieces
  <2>2. /\ wire' \in Seq(Pieces) /\ Len(wire') = Len(wire) + 1 /\ wire' # <<>>
        /\ wire'[Len(wire) + 1] = <<r.n, t>> /\ \A i \in 1 .. Len(wire) : wire'[i] = wire[i]
    <3> DEFINE x == <<r.n, t>>
    <3>1. wire \in Seq(Pieces)
      BY <1>1
    <3>2. wire' = Append(wire, x)
      BY <1>7
    <3> HIDE DEF Pieces, x
    <3>3. /\ wire' \in Seq(Pieces) /\ Len(wire') = Len(wire) + 1
          /\ wire'[Len(wire) + 1] = x /\ \A i \in 1 .. Len(wire) : wire'[i] = wire[i]
      BY <2>1, <3>1, <3>2, AppendProperties DEF x
    <3>4. wire' # <<>>
      BY <3>1, <3>3
    <3> QED
      BY <3>3, <3>4 DEF x
  <2>3. \A i \in 1 .. Len(wire') : i \in 1 .. Len(wire) \/ i = Len(wire) + 1
    <3>1. Len(wire) \in Nat
      BY <1>2
    <3> QED
      BY <2>2, <3>1
  <2> QED
    BY <2>2, <2>3
<1>8. ASSUME Answers(kind, r.m), Framed, ~r.begun, instr' = [instr EXCEPT ![1].begun = TRUE],
             NEW t \in {"more", "bad"}, t = "bad" => kind = "spp",
             wire' = Append(wire, <<r.n, t>>)
      PROVE  IInv'
  <2>1. /\ instr' \in Seq(R) /\ Len(instr') = Len(instr) /\ instr' # <<>>
        /\ instr'[1].begun /\ instr'[1].m = r.m /\ instr'[1].n = r.n
        /\ \A i \in 1 .. Len(instr) : i # 1 => instr'[i] = instr[i]
    <3> DEFINE q == [r EXCEPT !.begun = TRUE]
    <3>1. q \in R /\ q.begun /\ q.m = r.m /\ q.n = r.n
      BY <1>2
    <3>2. instr' = [instr EXCEPT ![1] = q]
      BY <1>8
    <3>3. 1 \in 1 .. Len(instr) /\ instr \in Seq(R)
      BY <1>1, <1>2
    <3> HIDE DEF q, R
    <3>4. /\ instr' \in Seq(R) /\ Len(instr') = Len(instr)
          /\ \A i \in 1 .. Len(instr) : instr'[i] = IF i = 1 THEN q ELSE instr[i]
      BY <3>1, <3>2, <3>3, ExceptSeq
    <3>5. instr' # <<>>
      BY <1>2, <3>4, EmptySeq
    <3> QED
      BY <1>2, <3>1, <3>4, <3>5
  <2>2. /\ wire' \in Seq(Pieces) /\ Len(wire') = Len(wire) + 1 /\ wire' # <<>>
        /\ \A i \in 1 .. Len(wire') : \/ i \in 1 .. Len(wire) /\ wire'[i] = wire[i]
                                      \/ i = Len(wire') /\ wire'[i] = <<r.n, t>>
    BY <1>7, <1>8 DEF Tokens
  <2>3. TypeOK'
    BY <1>1, <2>1, <2>2 DEF IInv, TypeOK, options
  <2>4. Protocol'
    BY <1>1, <1>2, <1>8, <2>1, <2>2 DEF IInv, Protocol, options, Framed, Answers
  <2>5. ASSUME ~gaveup
        PROVE  OwnAnswer' /\ Status' /\ pc = "read"
    <3>1. Status'
      BY <2>1 DEF Status
    <3>2. \A i \in 1 .. Len(wire') : wire'[i][1] = asks /\ wire'[i][2] \notin {"OK", "Err"}
      BY <1>6, <1>8, <2>2, <2>5 DEF OwnAnswer
    <3>3. \A i \in 1 .. Len(instr') : i = Len(instr') /\ instr'[i].n = asks
      BY <1>6, <1>8, <2>1, <2>5
    <3> QED
      BY <1>1, <1>6, <1>8, <2>5, <3>1, <3>2, <3>3 DEF OwnAnswer, options
  <2> QED
    BY <1>4, <2>3, <2>4, <2>5
<1>9. ASSUME Answers(kind, r.m), instr' = Tail(instr),
             NEW t \in {"OK", "Err"}, t = "Err" => kind \in {"ack", "spp"},
             wire' = Append(wire, <<r.n, t>>)
      PROVE  IInv'
  <2>1. /\ wire' \in Seq(Pieces) /\ Len(wire') = Len(wire) + 1 /\ wire' # <<>>
        /\ wire'[Len(wire')] = <<r.n, t>>
        /\ \A i \in 1 .. Len(wire') : \/ i \in 1 .. Len(wire) /\ wire'[i] = wire[i]
                                      \/ i = Len(wire') /\ wire'[i] = <<r.n, t>>
    BY <1>7, <1>9 DEF Tokens
  <2>2. TypeOK'
    BY <1>1, <1>2, <1>9, <2>1 DEF IInv, TypeOK, options
  <2>3. Protocol'
    BY <1>1, <1>3, <1>9, <2>1 DEF IInv, Protocol, options, Framed, Answers
  <2>4. ASSUME ~gaveup
        PROVE  OwnAnswer' /\ Status' /\ pc = "read"
    <3>1. Len(instr') = 0
      <4>1. Len(instr) = 1
        BY <1>6, <1>9, <2>4
      <4> HIDE DEF R
      <4> QED
        BY <1>1, <1>9, <4>1, Taken
    <3>2. NoneToCome'
      BY <3>1 DEF NoneToCome
    <3>3. \A i \in 1 .. Len(wire') :
            /\ wire'[i][1] = asks
            /\ wire'[i][2] \in {"OK", "Err"} => i = Len(wire')
      BY <1>6, <1>9, <2>1, <2>4 DEF OwnAnswer
    <3>4. Status'
      <4>1. kind = "usbtmc" => t = "OK"
        BY <1>9
      <4> QED
        BY <1>1, <2>1, <4>1 DEF Status, options
    <3> QED
      BY <1>1, <1>6, <1>9, <2>4, <3>1, <3>2, <3>3, <3>4 DEF OwnAnswer, options
  <2> QED
    BY <1>4, <2>2, <2>3, <2>4
<1> QED
  BY <1>5, <1>8, <1>9 DEF Instrument

LEMMA HangupIInv ==
  ASSUME IInv, Hangup
  PROVE  IInv'
<1>1. /\ kind \in {"net", "spp"} /\ alive' = FALSE /\ instr' = <<>> /\ Len(instr') = 0
      /\ UNCHANGED <<options, asks, msg, pc, got, wire, last, gaveup>>
  BY EmptySeq DEF Hangup
<1>2. TypeOK'
  BY <1>1, EmptySeq DEF IInv, TypeOK, options
<1>3. Asking' /\ InSync' /\ Protocol'
  BY <1>1 DEF IInv, Asking, InSync, Protocol, options, Suits, Framed
<1>4. NoneToCome' /\ (OwnAnswer => OwnAnswer') /\ Status'
  BY <1>1 DEF NoneToCome, OwnAnswer, Status, options
<1> QED
  BY <1>1, <1>2, <1>3, <1>4 DEF IInv, InTurn

LEMMA ReopenIInv ==
  ASSUME IInv, Reopen
  PROVE  IInv'
<1>1. /\ pc = "idle" /\ wire' = <<>> /\ Len(wire') = 0 /\ instr' \in {instr, <<>>} /\ alive' = TRUE
      /\ instr' = instr \/ Len(instr') = 0
      /\ last' = NoAsk /\ UNCHANGED <<options, asks, msg, pc, got>>
      /\ gaveup' = (gaveup /\ kind \in SerialKinds /\ instr # <<>>)
      /\ kind \notin SerialKinds => instr' = <<>>
  BY EmptySeq DEF Reopen
<1>2. TypeOK'
  <2>1. last' \in [n : 0 .. MaxAsks, read : BOOLEAN, ok : BOOLEAN, got : Seq(Pieces)]
    <3>1. <<>> \in Seq(Pieces) /\ 0 \in 0 .. MaxAsks
      BY MaxAsksAssumption
    <3> HIDE DEF Pieces
    <3> QED
      BY <1>1, <3>1 DEF NoAsk
  <2>2. instr' \in Seq([n : 1 .. MaxAsks, m : Messages, begun : BOOLEAN])
    BY <1>1, EmptySeq DEF IInv, TypeOK
  <2>3. wire' \in Seq(Pieces) /\ gaveup' \in BOOLEAN
    BY <1>1, EmptySeq
  <2> QED
    BY <1>1, <2>1, <2>2, <2>3 DEF IInv, TypeOK, options
<1>3. Asking' /\ InSync'
  BY <1>1 DEF IInv, Asking, InSync, NoAsk, options, Suits
<1>4. Protocol'
  BY <1>1 DEF IInv, Protocol, options, Framed, Answers
<1>5. ASSUME ~gaveup'
      PROVE  NoneToCome'
  <2>1. CASE Len(instr') = 0
    BY <2>1 DEF NoneToCome
  <2>2. CASE Len(instr') # 0
    <3>1. instr' = instr /\ instr # <<>> /\ kind \in SerialKinds
      BY <1>1, <2>2, EmptySeq
    <3>2. ~gaveup
      BY <1>1, <1>5, <3>1
    <3>3. NoneToCome
      BY <1>1, <3>2 DEF IInv, InTurn
    <3> QED
      BY <1>1, <3>1, <3>3 DEF NoneToCome, Answers, options
  <2> QED
    BY <2>1, <2>2
<1> QED
  BY <1>1, <1>2, <1>3, <1>4, <1>5 DEF IInv, InTurn

-----------------------------------------------------------------------------
LEMMA InitIInv == Init => IInv
<1> SUFFICES ASSUME Init PROVE IInv
  OBVIOUS
<1>1. TypeOK
  <2>1. <<>> \in Seq(Pieces) /\ 0 \in 0 .. MaxAsks
    BY MaxAsksAssumption
  <2>2. last \in [n : 0 .. MaxAsks, read : BOOLEAN, ok : BOOLEAN, got : Seq(Pieces)]
    <3> HIDE DEF Pieces
    <3> QED
      BY <2>1 DEF Init, NoAsk
  <2>3. auto_abort \in BOOLEAN /\ instr \in Seq([n : 1 .. MaxAsks, m : Messages, begun : BOOLEAN])
    BY EmptySeq DEF Init
  <2> QED
    BY <2>1, <2>2, <2>3 DEF Init, TypeOK
<1>2. Len(wire) = 0 /\ Len(instr) = 0
  BY EmptySeq DEF Init
<1> QED
  BY <1>1, <1>2 DEF Init, IInv, Asking, Protocol, InTurn, NoneToCome, InSync, NoAsk

LEMMA NextIInv == IInv /\ [Next]_vars => IInv'
<1> SUFFICES ASSUME IInv, [Next]_vars PROVE IInv'
  OBVIOUS
<1>1. CASE UNCHANGED vars
  <2>1. UNCHANGED <<options, asks, msg, pc, got, wire, instr, alive, last, gaveup>>
    BY <1>1 DEF vars, options
  <2>2. TypeOK' /\ Asking' /\ InSync' /\ Protocol'
    BY <2>1 DEF IInv, TypeOK, Asking, InSync, Protocol, options, Suits, Framed, Answers
  <2>3. InTurn'
    BY <2>1 DEF IInv, InTurn, NoneToCome, OwnAnswer, Status, options, Answers
  <2> QED
    BY <2>2, <2>3 DEF IInv
<1>2. CASE DriverStep
  BY <1>2, WriteIInv, WriteErrorIInv, WholeIInv, ReadTmcIInv, ReadAckIInv, ReadSppIInv,
     FailuresIInv, ReadNothingIInv DEF DriverStep
<1> QED
  BY <1>1, <1>2, AskIInv, InstrumentIInv, HangupIInv, ReopenIInv DEF Next

-----------------------------------------------------------------------------
(* Theorems                                                                *)

\* The driver, its buffer and the instrument fit together, whatever comes in
\* pieces, late, or not at all.
THEOREM IInvHolds == Spec => []IInv
<1> QED
  BY InitIInv, NextIInv, PTL DEF Spec

\* An idle driver has no half of an answer.
THEOREM TypeCorrect == Spec => []TypeOK
<1>1. IInv => TypeOK
  BY DEF IInv
<1> QED
  BY <1>1, IInvHolds, PTL

\* read(): the answer that ask() returns is the one to its message.
THEOREM AnswersInSync == Spec => []InSync
<1>1. IInv => InSync
  BY DEF IInv
<1> QED
  BY <1>1, IInvHolds, PTL

\* ask(): nothing is left for the next one to read.
THEOREM NothingLeft == Spec => []NoLeftover
<1>1. IInv => NoLeftover
  BY DEF IInv, InTurn, NoneToCome, NoLeftover
<1> QED
  BY <1>1, IInvHolds, PTL
=============================================================================
