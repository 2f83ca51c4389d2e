-------------------------- MODULE QueryOrderProofs --------------------------
(* What is left of the order of answers when asks have been given up       *)
(* (InSync of QueryDriver says nothing then): a driver that is out of step *)
(* returns answers to older asks, but in the order in which they were      *)
(* asked, each one once, and none to an ask that is still to come.         *)
EXTENDS QueryDriverProofs

-----------------------------------------------------------------------------
(* The line is a queue.                                                    *)

\* The last piece of an answer
Final(p) == p[2] \in {"OK", "Err"}

\* What belongs to ask n may come after piece p.
Follows(n, p) == p[1] <= n /\ (Final(p) => p[1] < n)

Sorted ==
  /\ \A i, j \in 1 .. Len(wire) : i < j => Follows(wire[j][1], wire[i])
  /\ \A i, j \in 1 .. Len(instr) : i < j => instr[i].n < instr[j].n
  /\ \A i \in 1 .. Len(wire), j \in 1 .. Len(instr) : Follows(instr[j].n, wire[i])
  /\ \A i \in 1 .. Len(got) :
       /\ \A j \in 1 .. Len(wire) : Follows(wire[j][1], got[i])
       /\ \A j \in 1 .. Len(instr) : Follows(instr[j].n, got[i])

\* Message n has been given to the driver, which is not about to write it.
Sent(n) == n <= asks /\ (pc = "write" => n < asks)

AllSent ==
  /\ \A i \in 1 .. Len(wire) : Sent(wire[i][1])
  /\ \A i \in 1 .. Len(instr) : Sent(instr[i].n)
  /\ \A i \in 1 .. Len(got) : Sent(got[i][1])

\* Nothing of ask n or an older one is to come.
Past(n) ==
  /\ Sent(n)
  /\ \A i \in 1 .. Len(wire) : n < wire[i][1]
  /\ \A i \in 1 .. Len(instr) : n < instr[i].n
  /\ \A i \in 1 .. Len(got) : n < got[i][1]

\* The end of the answer to ask n was in the answer that ask() has returned.
Delivered(n) == \E i \in 1 .. Len(last.got) : Final(last.got[i]) /\ last.got[i][1] = n

\* ask() has not returned an answer to a message that is sent later.
NoneFromLater == \A i \in 1 .. Len(last.got) : last.got[i][1] <= last.n

Ordered ==
  /\ Sorted /\ AllSent /\ NoneFromLater
  /\ \A n \in Nat : Delivered(n) => Past(n)

\* This step returns an answer, and none of it is of ask n or an older one.
ReturnsLater(n) == last' # last => \A i \in 1 .. Len(last'.got) : n < last'.got[i][1]

Kept == \A n \in Nat : Past(n) => Past(n)' /\ ReturnsLater(n)

\* The numbers are numbers.
LEMMA Numbers ==
  ASSUME TypeOK
  PROVE  /\ wire \in Seq(Pieces) /\ Len(wire) \in Nat
         /\ \A i \in 1 .. Len(wire) : wire[i] \in Pieces /\ wire[i][1] \in Nat
         /\ got \in Seq(Pieces) /\ Len(got) \in Nat
         /\ \A i \in 1 .. Len(got) : got[i] \in Pieces /\ got[i][1] \in Nat
         /\ instr \in Seq([n : 1 .. MaxAsks, m : Messages, begun : BOOLEAN])
         /\ Len(instr) \in Nat /\ \A i \in 1 .. Len(instr) : instr[i].n \in Nat
         /\ last.got \in Seq(Pieces) /\ Len(last.got) \in Nat
         /\ \A i \in 1 .. Len(last.got) : last.got[i] \in Pieces /\ last.got[i][1] \in Nat
         /\ asks \in Nat
<1> DEFINE R == [n : 1 .. MaxAsks, m : Messages, begun : BOOLEAN]
<1>1. \A p \in Pieces : p[1] \in Nat
  BY MaxAsksAssumption DEF Pieces
<1>2. \A r \in R : r.n \in Nat
  BY MaxAsksAssumption
<1>3. wire \in Seq(Pieces) /\ got \in Seq(Pieces) /\ last.got \in Seq(Pieces) /\ instr \in Seq(R)
  BY DEF TypeOK
<1>4. asks \in Nat
  BY MaxAsksAssumption DEF TypeOK
<1> HIDE DEF R
<1>5. ASSUME NEW s \in Seq(Pieces)
      PROVE  Len(s) \in Nat /\ \A i \in 1 .. Len(s) : s[i] \in Pieces /\ s[i][1] \in Nat
  BY <1>1, ElementOfSeq, LenProperties
<1>6. Len(instr) \in Nat /\ \A i \in 1 .. Len(instr) : instr[i].n \in Nat
  BY <1>2, <1>3, ElementOfSeq, LenProperties
<1> QED
  BY <1>3, <1>4, <1>5, <1>6 DEF R

-----------------------------------------------------------------------------
(* The steps.                                                              *)

\* All pieces of s come from what was read before, or are among the first k
\* in the buffer.
FromFront(s, k) ==
  \A i \in 1 .. Len(s) : \/ \E j \in 1 .. Len(got) : s[i] = got[j]
                         \/ \E j \in 1 .. k : s[i] = wire[j]

\* The driver takes the first k pieces of the buffer (perhaps none), and keeps,
\* returns or drops them.
LEMMA TakesOrdered ==
  ASSUME TypeOK, TypeOK', Ordered, NEW k \in 0 .. Len(wire),
         Len(wire') = Len(wire) - k,
         \A i \in 1 .. Len(wire') : wire'[i] = wire[i + k],
         instr' = instr \/ instr' = <<>>,
         asks' >= asks, pc' = "write" => pc = "write" \/ asks' > asks,
         FromFront(got', k),
         \/ last' = last
         \/ FromFront(last'.got, k) /\ got' = <<>> /\ (last'.got = <<>> \/ last'.n = asks)
  PROVE  Ordered' /\ Kept
<1>1. \A i \in 1 .. Len(wire') : i + k \in 1 .. Len(wire) /\ i + k > k /\ wire'[i] = wire[i + k]
  BY Numbers
<1>2. \A i \in 1 .. Len(instr') : i \in 1 .. Len(instr) /\ instr'[i] = instr[i]
  BY EmptySeq
<1>3. \A n \in Nat : Sent(n) => Sent(n)'
  BY Numbers DEF Sent, TypeOK
<1>4. k \in Nat /\ \A j \in 1 .. k : j \in 1 .. Len(wire) /\ \A i \in 1 .. Len(wire') : j < i + k
  BY Numbers
<1>5. ASSUME NEW s, FromFront(s, k), NEW i \in 1 .. Len(s)
      PROVE  /\ s[i][1] \in Nat /\ Sent(s[i][1])
             /\ \A j \in 1 .. Len(wire') : Follows(wire'[j][1], s[i])
             /\ \A j \in 1 .. Len(instr') : Follows(instr'[j].n, s[i])
             /\ \A n \in Nat : Past(n) => n < s[i][1]
  <2>1. CASE \E j \in 1 .. Len(got) : s[i] = got[j]
    BY <1>1, <1>2, <2>1, Numbers DEF Ordered, Sorted, AllSent, Past
  <2>2. CASE \E j \in 1 .. k : s[i] = wire[j]
    BY <1>1, <1>2, <1>4, <2>2, Numbers DEF Ordered, Sorted, AllSent, Past
  <2> QED
    BY <1>5, <2>1, <2>2 DEF FromFront
<1>6. Sorted'
  <2>1. ASSUME NEW i \in 1 .. Len(wire'), NEW j \in 1 .. Len(wire'), i < j
        PROVE  Follows(wire'[j][1], wire'[i])
    <3>1. i + k < j + k
      BY <1>4, <2>1, Numbers
    <3> QED
      BY <1>1, <3>1 DEF Ordered, Sorted
  <2>2. ASSUME NEW i \in 1 .. Len(instr'), NEW j \in 1 .. Len(instr'), i < j
        PROVE  instr'[i].n < instr'[j].n
    BY <1>2, <2>2 DEF Ordered, Sorted
  <2>3. ASSUME NEW i \in 1 .. Len(wire'), NEW j \in 1 .. Len(instr')
        PROVE  Follows(instr'[j].n, wire'[i])
    BY <1>1, <1>2 DEF Ordered, Sorted
  <2>4. ASSUME NEW i \in 1 .. Len(got')
        PROVE  /\ \A j \in 1 .. Len(wire') : Follows(wire'[j][1], got'[i])
               /\ \A j \in 1 .. Len(instr') : Follows(instr'[j].n, got'[i])
    BY <1>5
  <2> QED
    BY <2>1, <2>2, <2>3, <2>4 DEF Sorted, Follows, Final
<1>7. AllSent'
  <2>1. \A i \in 1 .. Len(wire') : wire'[i][1] \in Nat /\ Sent(wire'[i][1])
    BY <1>1, Numbers DEF Ordered, AllSent
  <2>2. \A i \in 1 .. Len(instr') : instr'[i].n \in Nat /\ Sent(instr'[i].n)
    BY <1>2, Numbers DEF Ordered, AllSent
  <2>3. \A i \in 1 .. Len(got') : got'[i][1] \in Nat /\ Sent(got'[i][1])
    BY <1>5
  <2>4. \A n \in Nat : Sent(n) => n <= asks' /\ (pc' = "write" => n < asks')
    BY <1>3 DEF Sent
  <2> QED
    BY <2>1, <2>2, <2>3, <2>4 DEF AllSent, Sent
<1>8. NoneFromLater'
  <2>1. CASE last' = last
    BY <2>1 DEF Ordered, NoneFromLater
  <2>2. CASE last'.got = <<>>
    BY <2>2, EmptySeq DEF NoneFromLater
  <2>3. CASE FromFront(last'.got, k) /\ last'.n = asks
    BY <1>5, <2>3 DEF NoneFromLater, Sent
  <2> QED
    BY <2>1, <2>2, <2>3
<1>9. ASSUME NEW n \in Nat, Past(n)
      PROVE  Past(n)' /\ ReturnsLater(n)
  <2>1. Past(n)'
    <3>1. Sent(n)'
      BY <1>3, <1>9 DEF Past
    <3>2. \A i \in 1 .. Len(wire') : n < wire'[i][1]
      BY <1>1, <1>9 DEF Past
    <3>3. \A i \in 1 .. Len(instr') : n < instr'[i].n
      BY <1>2, <1>9 DEF Past
    <3>4. \A i \in 1 .. Len(got') : n < got'[i][1]
      BY <1>5, <1>9
    <3> QED
      BY <3>1, <3>2, <3>3, <3>4 DEF Past
  <2>2. ReturnsLater(n)
    BY <1>5, <1>9 DEF ReturnsLater
  <2> QED
    BY <2>1, <2>2
<1>10. ASSUME NEW n \in Nat, Delivered(n)'
       PROVE  Past(n)'
  <2>1. CASE last' = last
    <3>1. Delivered(n)
      BY <1>10, <2>1 DEF Delivered, Final
    <3> QED
      BY <1>9, <3>1 DEF Ordered
  <2>2. CASE FromFront(last'.got, k) /\ got' = <<>>
    <3>1. PICK i \in 1 .. Len(last'.got) : Final(last'.got[i]) /\ last'.got[i][1] = n
      BY <1>10 DEF Delivered, Final
    <3>2. Sent(n)'
      BY <1>3, <1>5, <2>2, <3>1
    <3>3. \A j \in 1 .. Len(wire') : n < wire'[j][1]
      BY <1>5, <2>2, <3>1 DEF Follows
    <3>4. \A j \in 1 .. Len(instr') : n < instr'[j].n
      BY <1>5, <2>2, <3>1 DEF Follows
    <3>5. \A j \in 1 .. Len(got') : n < got'[j][1]
      BY <2>2, EmptySeq
    <3> QED
      BY <3>2, <3>3, <3>4, <3>5 DEF Past
  <2> QED
    BY <2>1, <2>2
<1> QED
  BY <1>6, <1>7, <1>8, <1>9, <1>10 DEF Ordered, Kept

\* The driver sends its message: it is the newest.
LEMMA WriteOrdered ==
  ASSUME IInv, TypeOK', Ordered, Write
  PROVE  Ordered' /\ Kept
<1> DEFINE q == [n |-> asks, m |-> msg, begun |-> FALSE]
           N == Len(instr)
<1>1. /\ pc = "write" /\ pc' # "write" /\ UNCHANGED <<asks, wire>>
      /\ instr' = IF alive THEN Append(instr, q) ELSE instr
      /\ got = <<>> /\ got' = <<>>
      /\ last' = last \/ last'.got = <<>>
  BY DEF Write, IInv, Asking, Return
<1>2. TypeOK
  BY DEF IInv
<1>3. /\ N \in Nat /\ asks \in Nat
      /\ \A i \in 1 .. Len(instr') :
           (i \in 1 .. N /\ instr'[i] = instr[i]) \/ (i = N + 1 /\ instr'[i].n = asks)
  <2>1. CASE alive
    <3>1. instr' = Append(instr, q)
      BY <1>1, <2>1
    <3>2. q.n = asks
      OBVIOUS
    <3> DEFINE R == [n : 1 .. MaxAsks, m : Messages, begun : BOOLEAN]
    <3>3. instr \in Seq(R) /\ q \in R
      BY <1>1 DEF IInv, TypeOK, Asking
    <3> HIDE DEF q, R
    <3>4. /\ Len(instr') = N + 1 /\ instr'[N + 1] = q
          /\ \A i \in 1 .. N : instr'[i] = instr[i]
      BY <3>1, <3>3, AppendProperties
    <3>5. N \in Nat /\ asks \in Nat
      BY <1>2, Numbers
    <3>6. \A i \in 1 .. N + 1 : i \in 1 .. N \/ i = N + 1
      BY <3>5
    <3>7. instr'[N + 1].n = asks
      BY <3>2, <3>4
    <3> HIDE DEF N
    <3>8. ASSUME NEW i \in 1 .. Len(instr')
          PROVE  (i \in 1 .. N /\ instr'[i] = instr[i]) \/ (i = N + 1 /\ instr'[i].n = asks)
      BY <3>4, <3>6, <3>7
    <3> QED
      BY <3>5, <3>8
  <2>2. CASE ~alive
    <3>1. instr' = instr
      BY <1>1, <2>2
    <3>2. N \in Nat /\ asks \in Nat
      BY <1>2, Numbers
    <3>3. ASSUME NEW i \in 1 .. Len(instr')
          PROVE  i \in 1 .. N /\ instr'[i] = instr[i]
      BY <3>1
    <3> HIDE DEF N
    <3> QED
      BY <3>2, <3>3
  <2> QED
    BY <2>1, <2>2
<1> HIDE DEF q
<1>4. \A n \in Nat : Sent(n) => n < asks
  BY <1>1 DEF Sent
<1>5. /\ \A i \in 1 .. Len(wire) : wire[i][1] \in Nat /\ wire[i][1] < asks
      /\ \A i \in 1 .. N : instr[i].n \in Nat /\ instr[i].n < asks
  BY <1>2, <1>4, Numbers DEF Ordered, AllSent
<1>6. \A i \in 1 .. Len(got) : FALSE
  BY <1>1, EmptySeq
<1>7. Sorted'
  <2>1. ASSUME NEW i \in 1 .. Len(wire), NEW j \in 1 .. Len(wire), i < j
        PROVE  Follows(wire[j][1], wire[i])
    BY <2>1 DEF Ordered, Sorted
  <2>2. ASSUME NEW i \in 1 .. Len(instr'), NEW j \in 1 .. Len(instr'), i < j
        PROVE  instr'[i].n < instr'[j].n
    <3>1. i \in 1 .. N /\ instr'[i] = instr[i]
      <4>1. i # N + 1
        BY <1>3, <2>2
      <4> QED
        BY <1>3, <4>1
    <3>2. CASE j \in 1 .. N /\ instr'[j] = instr[j]
      BY <2>2, <3>1, <3>2 DEF Ordered, Sorted
    <3>3. CASE instr'[j].n = asks
      BY <1>5, <3>1, <3>3
    <3> QED
      BY <1>3, <3>2, <3>3
  <2>3. ASSUME NEW i \in 1 .. Len(wire), NEW j \in 1 .. Len(instr')
        PROVE  Follows(instr'[j].n, wire[i])
    <3>1. CASE j \in 1 .. N /\ instr'[j] = instr[j]
      BY <3>1 DEF Ordered, Sorted
    <3>2. CASE instr'[j].n = asks
      BY <1>3, <1>5, <3>2 DEF Follows
    <3> QED
      BY <1>3, <3>1, <3>2
  <2>4. \A i \in 1 .. Len(got') : FALSE
    BY <1>1, EmptySeq
  <2> QED
    BY <1>1, <2>1, <2>2, <2>3, <2>4 DEF Sorted, Follows, Final
<1>8. AllSent'
  <2>1. \A i \in 1 .. Len(wire) : wire[i][1] <= asks
    BY <1>3, <1>5
  <2>2. ASSUME NEW i \in 1 .. Len(instr')
        PROVE  instr'[i].n <= asks
    BY <1>3, <1>5
  <2>3. \A i \in 1 .. Len(got') : FALSE
    BY <1>1, EmptySeq
  <2> QED
    BY <1>1, <2>1, <2>2, <2>3 DEF AllSent, Sent
<1>9. NoneFromLater'
  <2>1. CASE last' = last
    BY <2>1 DEF Ordered, NoneFromLater
  <2>2. CASE last'.got = <<>>
    BY <2>2, EmptySeq DEF NoneFromLater
  <2> QED
    BY <1>1, <2>1, <2>2
<1>10. ASSUME NEW n \in Nat, Past(n)
       PROVE  Past(n)' /\ ReturnsLater(n)
  <2>1. n < asks
    BY <1>4, <1>10 DEF Past
  <2>2. \A i \in 1 .. Len(instr') : n < instr'[i].n
    BY <1>3, <1>10, <2>1 DEF Past
  <2>3. \A i \in 1 .. Len(got') : FALSE
    BY <1>1, EmptySeq
  <2>4. Past(n)'
    BY <1>1, <1>3, <1>10, <2>1, <2>2, <2>3 DEF Past, Sent
  <2>5. ReturnsLater(n)
    BY <1>1, EmptySeq DEF ReturnsLater
  <2> QED
    BY <2>4, <2>5
<1>11. ASSUME NEW n \in Nat, Delivered(n)'
       PROVE  Past(n)'
  <2>1. last' = last
    <3>1. \A i \in 1 .. Len(<<>>) : FALSE
      BY EmptySeq
    <3> QED
      BY <1>1, <1>11, <3>1 DEF Delivered
  <2>2. Delivered(n)
    BY <1>11, <2>1 DEF Delivered, Final
  <2> QED
    BY <1>10, <2>2 DEF Ordered
<1> QED
  BY <1>7, <1>8, <1>9, <1>10, <1>11 DEF Ordered, Kept

\* The instrument has sent p to its oldest message, and is done with it if
\* d = 1; or it was done with it without an answer.
Sends(d, p) == wire' = Append(wire, p) /\ p[1] = instr[1].n /\ (Final(p) => d = 1)

Shifted(d) ==
  /\ Len(instr') = Len(instr) - d
  /\ \A i \in 1 .. Len(instr') : i + d \in 1 .. Len(instr) /\ instr'[i].n = instr[i + d].n

LEMMA InstrumentEffect ==
  ASSUME TypeOK, Instrument
  PROVE  /\ UNCHANGED <<asks, pc, got, last>> /\ 1 \in 1 .. Len(instr)
         /\ \E d \in {0, 1} :
              Shifted(d) /\ ((wire' = wire /\ d = 1) \/ \E p \in Pieces : Sends(d, p))
<1> DEFINE R == [n : 1 .. MaxAsks, m : Messages, begun : BOOLEAN]
<1>1. UNCHANGED <<asks, pc, got, last>> /\ instr # <<>> /\ instr \in Seq(R)
  BY DEF Instrument, TypeOK
<1>2. Len(instr) \in Nat \ {0} /\ 1 \in 1 .. Len(instr) /\ instr[1] \in R
  <2> HIDE DEF R
  <2> QED
    BY <1>1, Taken
<1>3. \A t \in Tokens : <<instr[1].n, t>> \in Pieces
  <2>1. instr[1].n \in 1 .. MaxAsks
    BY <1>2
  <2> QED
    BY <2>1 DEF Pieces
<1>4. CASE instr' = Tail(instr)
  <2>1. Shifted(1)
    <3>1. /\ Len(Tail(instr)) = Len(instr) - 1
          /\ \A i \in 1 .. Len(Tail(instr)) :
               i + 1 \in 1 .. Len(instr) /\ Tail(instr)[i] = instr[i + 1]
      <4> HIDE DEF R
      <4> QED
        BY <1>1, Taken
    <3> QED
      BY <1>4, <3>1 DEF Shifted
  <2>2. ASSUME NEW t \in Tokens, wire' = Append(wire, <<instr[1].n, t>>)
        PROVE  \E p \in Pieces : Sends(1, p)
    <3>1. <<instr[1].n, t>> \in Pieces /\ <<instr[1].n, t>>[1] = instr[1].n
      BY <1>3
    <3> QED
      BY <2>2, <3>1 DEF Sends
  <2>3. wire' = wire \/ \E t \in Tokens : wire' = Append(wire, <<instr[1].n, t>>)
    <3>1. CASE UNCHANGED wire
      BY <3>1
    <3>2. ASSUME NEW t \in {"OK"} \cup (IF kind \in {"ack", "spp"} THEN {"Err"} ELSE {}),
                 wire' = Append(wire, <<instr[1].n, t>>)
          PROVE  \E u \in Tokens : wire' = Append(wire, <<instr[1].n, u>>)
      BY <3>2 DEF Tokens
    <3>3. ASSUME NEW t \in {"more"} \cup (IF kind = "spp" THEN {"bad"} ELSE {}),
                 wire' = Append(wire, <<instr[1].n, t>>)
          PROVE  \E u \in Tokens : wire' = Append(wire, <<instr[1].n, u>>)
      BY <3>3 DEF Tokens
    <3> QED
      BY <3>1, <3>2, <3>3 DEF Instrument
  <2> QED
    BY <1>1, <1>2, <2>1, <2>2, <2>3
<1>5. CASE instr' = [instr EXCEPT ![1].begun = TRUE]
           /\ \E t \in {"more", "bad"} : wire' = Append(wire, <<instr[1].n, t>>)
  <2>1. Shifted(0)
    <3>1. /\ Len(instr') = Len(instr)
          /\ \A i \in 1 .. Len(instr) : instr'[i].n = instr[i].n
      BY <1>1, <1>2, <1>5
    <3>2. \A i \in 1 .. Len(instr) : i + 0 = i
      BY <1>2
    <3> QED
      BY <1>2, <3>1, <3>2 DEF Shifted
  <2>2. PICK t \in {"more", "bad"} : wire' = Append(wire, <<instr[1].n, t>>)
    BY <1>5
  <2>3. <<instr[1].n, t>> \in Pieces /\ <<instr[1].n, t>>[1] = instr[1].n
        /\ ~Final(<<instr[1].n, t>>)
    BY <1>3, <2>2 DEF Tokens, Final
  <2>4. Sends(0, <<instr[1].n, t>>)
    BY <2>2, <2>3 DEF Sends
  <2> QED
    BY <1>1, <1>2, <2>1, <2>3, <2>4
<1>6. \/ instr' = Tail(instr)
      \/ /\ instr' = [instr EXCEPT ![1].begun = TRUE]
         /\ \E t \in {"more"} \cup (IF kind = "spp" THEN {"bad"} ELSE {}) :
              wire' = Append(wire, <<instr[1].n, t>>)
  BY DEF Instrument
<1>7. {"more"} \cup (IF kind = "spp" THEN {"bad"} ELSE {}) \subseteq {"more", "bad"}
  OBVIOUS
<1> QED
  BY <1>4, <1>5, <1>6, <1>7

LEMMA InstrumentOrdered ==
  ASSUME TypeOK, TypeOK', Ordered, Instrument
  PROVE  Ordered' /\ Kept
<1> DEFINE q == instr[1].n
<1>1. UNCHANGED <<asks, pc, got, last>> /\ 1 \in 1 .. Len(instr)
  BY InstrumentEffect
<1>2. PICK d \in {0, 1} :
        Shifted(d) /\ ((wire' = wire /\ d = 1) \/ \E p \in Pieces : Sends(d, p))
  BY InstrumentEffect
<1>3. \A i \in 1 .. Len(instr') :
        /\ i + d \in 1 .. Len(instr) /\ instr'[i].n = instr[i + d].n
        /\ q <= instr'[i].n /\ (d = 1 => q < instr'[i].n)
  <2> SUFFICES ASSUME NEW i \in 1 .. Len(instr')
               PROVE  /\ i + d \in 1 .. Len(instr) /\ instr'[i].n = instr[i + d].n
                      /\ q <= instr'[i].n /\ (d = 1 => q < instr'[i].n)
    OBVIOUS
  <2>1. i + d \in 1 .. Len(instr) /\ instr'[i].n = instr[i + d].n
    BY <1>2 DEF Shifted
  <2>2. i + d = 1 \/ 1 < i + d
    BY <2>1
  <2>3. d = 1 => 1 < i + d
    <3>1. i \in Nat \ {0}
      BY Numbers
    <3> QED
      BY <3>1
  <2>4. 1 < i + d => q < instr[i + d].n
    BY <1>1, <2>1 DEF Ordered, Sorted
  <2>5. q \in Nat
    BY <1>1, Numbers
  <2> QED
    BY <2>1, <2>2, <2>3, <2>4, <2>5, Numbers
\* Pieces in the buffer are the ones that were there, or the new one.
<1>4. \A i \in 1 .. Len(wire') :
        \/ i \in 1 .. Len(wire) /\ wire'[i] = wire[i]
        \/ i = Len(wire) + 1 /\ wire'[i][1] = q /\ (Final(wire'[i]) => d = 1)
  <2>1. CASE wire' = wire
    BY <2>1
  <2>2. ASSUME NEW p \in Pieces, Sends(d, p)
        PROVE  \A i \in 1 .. Len(wire') :
                 \/ i \in 1 .. Len(wire) /\ wire'[i] = wire[i]
                 \/ i = Len(wire) + 1 /\ wire'[i][1] = q /\ (Final(wire'[i]) => d = 1)
    <3>1. /\ Len(wire') = Len(wire) + 1 /\ wire'[Len(wire) + 1] = p
          /\ \A i \in 1 .. Len(wire) : wire'[i] = wire[i]
      BY <2>2, Numbers, AppendProperties DEF Sends
    <3>2. \A i \in 1 .. Len(wire) + 1 : i \in 1 .. Len(wire) \/ i = Len(wire) + 1
      BY Numbers
    <3> QED
      BY <2>2, <3>1, <3>2 DEF Sends
  <2> QED
    BY <1>2, <2>1, <2>2
<1>5. q \in Nat /\ Sent(q)
      /\ (\A i \in 1 .. Len(wire) : Follows(q, wire[i]))
      /\ (\A i \in 1 .. Len(got) : Follows(q, got[i]))
      /\ (\A n \in Nat : Past(n) => n < q)
  BY <1>1, Numbers DEF Ordered, Sorted, AllSent, Past
<1>6. Sorted'
  <2>1. ASSUME NEW i \in 1 .. Len(wire'), NEW j \in 1 .. Len(wire'), i < j
        PROVE  Follows(wire'[j][1], wire'[i])
    <3>1. i \in 1 .. Len(wire) /\ wire'[i] = wire[i]
      BY <1>4, <2>1, Numbers
    <3>2. CASE j \in 1 .. Len(wire) /\ wire'[j] = wire[j]
      BY <2>1, <3>1, <3>2 DEF Ordered, Sorted
    <3>3. CASE wire'[j][1] = q
      BY <1>5, <3>1, <3>3
    <3> QED
      BY <1>4, <3>2, <3>3
  <2>2. ASSUME NEW i \in 1 .. Len(instr'), NEW j \in 1 .. Len(instr'), i < j
        PROVE  instr'[i].n < instr'[j].n
    <3>1. i + d < j + d
      BY <2>2, Numbers
    <3> QED
      BY <1>3, <3>1 DEF Ordered, Sorted
  <2>3. ASSUME NEW i \in 1 .. Len(wire'), NEW j \in 1 .. Len(instr')
        PROVE  Follows(instr'[j].n, wire'[i])
    <3>1. CASE i \in 1 .. Len(wire) /\ wire'[i] = wire[i]
      BY <1>3, <3>1 DEF Ordered, Sorted
    <3>2. CASE wire'[i][1] = q /\ (Final(wire'[i]) => d = 1)
      BY <1>3, <3>2 DEF Follows
    <3> QED
      BY <1>4, <3>1, <3>2
  <2>4. ASSUME NEW i \in 1 .. Len(got)
        PROVE  /\ \A j \in 1 .. Len(wire') : Follows(wire'[j][1], got[i])
               /\ \A j \in 1 .. Len(instr') : Follows(instr'[j].n, got[i])
    <3>1. ASSUME NEW j \in 1 .. Len(wire')
          PROVE  Follows(wire'[j][1], got[i])
      <4>1. CASE j \in 1 .. Len(wire) /\ wire'[j] = wire[j]
        BY <4>1 DEF Ordered, Sorted
      <4>2. CASE wire'[j][1] = q
        BY <1>5, <4>2
      <4> QED
        BY <1>4, <4>1, <4>2
    <3>2. ASSUME NEW j \in 1 .. Len(instr')
          PROVE  Follows(instr'[j].n, got[i])
      BY <1>3 DEF Ordered, Sorted
    <3> QED
      BY <3>1, <3>2
  <2> QED
    BY <1>1, <2>1, <2>2, <2>3, <2>4 DEF Sorted, Follows, Final
<1>7. AllSent'
  <2>1. \A i \in 1 .. Len(wire') : Sent(wire'[i][1])
    BY <1>4, <1>5 DEF Ordered, AllSent
  <2>2. \A i \in 1 .. Len(instr') : Sent(instr'[i].n)
    BY <1>3 DEF Ordered, AllSent
  <2>3. \A i \in 1 .. Len(got) : Sent(got[i][1])
    BY DEF Ordered, AllSent
  <2> QED
    BY <1>1, <2>1, <2>2, <2>3 DEF AllSent, Sent
<1>8. NoneFromLater'
  BY <1>1 DEF Ordered, NoneFromLater
<1>9. ASSUME NEW n \in Nat, Past(n)
      PROVE  Past(n)' /\ ReturnsLater(n)
  <2>1. \A i \in 1 .. Len(wire') : n < wire'[i][1]
    BY <1>4, <1>5, <1>9 DEF Past
  <2>2. \A i \in 1 .. Len(instr') : n < instr'[i].n
    BY <1>3, <1>9 DEF Past
  <2> QED
    BY <1>1, <1>9, <2>1, <2>2 DEF Past, Sent, ReturnsLater
<1>10. ASSUME NEW n \in Nat, Delivered(n)'
       PROVE  Past(n)'
  <2>1. Delivered(n)
    BY <1>1, <1>10 DEF Delivered, Final
  <2> QED
    BY <1>9, <2>1 DEF Ordered
<1> QED
  BY <1>6, <1>7, <1>8, <1>9, <1>10 DEF Ordered, Kept

\* No answer is returned; the driver drops the buffer, or the first of it, or
\* leaves it.
Drops ==
  /\ asks' = asks
  /\ instr' = instr \/ instr' = <<>>
  /\ pc' = "write" => pc = "write"
  /\ got' = <<>> \/ got' = got
  /\ last' = last \/ (last'.got = <<>> /\ got' = <<>>)
  /\ wire' = wire \/ wire' = <<>> \/ (wire # <<>> /\ wire' = Tail(wire))

LEMMA DropsOrdered ==
  ASSUME TypeOK, TypeOK', Ordered, Drops
  PROVE  Ordered' /\ Kept
<1>1. ASSUME NEW s, s = <<>>, NEW k
      PROVE  FromFront(s, k)
  BY <1>1, EmptySeq DEF FromFront
<1>2. ASSUME NEW k
      PROVE  FromFront(got, k)
  BY DEF FromFront
<1>3. Len(wire) \in Nat /\ asks' >= asks
  BY Numbers DEF Drops
<1>4. PICK k \in 0 .. Len(wire) :
        Len(wire') = Len(wire) - k /\ \A i \in 1 .. Len(wire') : wire'[i] = wire[i + k]
  <2>1. CASE wire' = wire
    <3>1. 0 \in 0 .. Len(wire) /\ Len(wire) - 0 = Len(wire)
          /\ \A i \in 1 .. Len(wire) : i + 0 = i
      BY <1>3
    <3> QED
      BY <2>1, <3>1
  <2>2. CASE wire' = <<>>
    <3>1. Len(wire) \in 0 .. Len(wire) /\ Len(wire) - Len(wire) = 0
      BY <1>3
    <3>2. Len(wire') = 0
      BY <2>2
    <3>3. \A i \in 1 .. 0 : FALSE
      OBVIOUS
    <3> QED
      BY <3>1, <3>2, <3>3
  <2>3. CASE wire # <<>> /\ wire' = Tail(wire)
    <3>1. wire \in Seq(Pieces)
      BY Numbers
    <3>2. /\ Len(wire) \in Nat \ {0} /\ Len(wire') = Len(wire) - 1
          /\ \A i \in 1 .. Len(wire') : wire'[i] = wire[i + 1]
      BY <2>3, <3>1, Taken
    <3>3. 1 \in 0 .. Len(wire)
      BY <3>2
    <3> QED
      BY <3>2, <3>3
  <2> QED
    BY <2>1, <2>2, <2>3 DEF Drops
<1>5. FromFront(got', k)
  BY <1>1, <1>2 DEF Drops
<1>6. last' = last \/ (FromFront(last'.got, k) /\ got' = <<>> /\ last'.got = <<>>)
  BY <1>1 DEF Drops
<1>7. (instr' = instr \/ instr' = <<>>) /\ (pc' = "write" => pc = "write")
  BY DEF Drops
<1> QED
  BY <1>3, <1>4, <1>5, <1>6, <1>7, TakesOrdered

LEMMA FailuresDrop ==
  ASSUME TypeOK,
         WriteError \/ ReadBadLine \/ Timeout \/ StatusError \/ PortError \/ ReadNothing
           \/ Hangup \/ Reopen
  PROVE  Drops
<1>1. ASSUME Return(asks, FALSE, <<>>) \/ Return(asks, TRUE, <<>>)
      PROVE  pc' = "idle" /\ got' = <<>> /\ last'.got = <<>>
  BY <1>1 DEF Return
<1>2. CASE WriteError
  <2>1. /\ instr' = instr \/ instr' = <<>>
        /\ wire' = wire \/ wire' = <<>>
        /\ Return(asks, FALSE, <<>>)
    BY <1>2 DEF WriteError
  <2>2. asks' = asks
    BY <1>2 DEF WriteError
  <2> QED
    BY <1>1, <2>1, <2>2 DEF Drops
<1>3. ASSUME NEW c, NEW rest, ReadFails(rest, c),
             rest = wire \/ rest = <<>> \/ (wire # <<>> /\ rest = Tail(wire))
      PROVE  Drops
  <2>1. asks' = asks /\ Return(asks, FALSE, <<>>)
    BY <1>3 DEF ReadFails
  <2>2. (instr' = instr \/ instr' = <<>>) /\ (wire' = rest \/ wire' = <<>>)
    BY <1>3 DEF ReadFails
  <2> QED
    BY <1>1, <1>3, <2>1, <2>2 DEF Drops
<1>4. CASE ReadBadLine
  BY <1>3, <1>4 DEF ReadBadLine
<1>5. CASE Timeout
  BY <1>3, <1>5 DEF Timeout
<1>6. CASE StatusError
  BY <1>3, <1>6 DEF StatusError
<1>7. CASE PortError
  BY <1>3, <1>7 DEF PortError
<1>8. CASE ReadNothing
  <2>1. asks' = asks /\ instr' = instr /\ wire' = wire /\ Return(asks, TRUE, <<>>)
    BY <1>8 DEF ReadNothing
  <2> QED
    BY <1>1, <2>1 DEF Drops
<1>9. CASE Hangup
  BY <1>9 DEF Hangup, Drops
<1>10. CASE Reopen
  <2>1. asks' = asks /\ pc' = pc /\ got' = got /\ wire' = <<>> /\ last' = NoAsk
    BY <1>10 DEF Reopen
  <2>2. instr' = instr \/ instr' = <<>>
    BY <1>10 DEF Reopen
  <2>3. got = <<>> /\ NoAsk.got = <<>>
    BY <1>10 DEF Reopen, TypeOK, NoAsk
  <2> QED
    BY <2>1, <2>2, <2>3 DEF Drops
<1> QED
  BY <1>2, <1>4, <1>5, <1>6, <1>7, <1>8, <1>9, <1>10

\* A new message, or one that is answered by option -idn
LEMMA AskOrdered ==
  ASSUME TypeOK, TypeOK', Ordered, Ask
  PROVE  Ordered' /\ Kept
<1>1. /\ asks' = asks + 1 /\ asks \in Nat /\ got = <<>>
      /\ wire' = wire /\ instr' = instr
  BY Numbers DEF Ask, TypeOK
<1>2. got' = <<>> /\ (last' = last \/ last'.got = <<>>)
  BY <1>1 DEF Ask, Return
<1>3. \A s : s = <<>> => FromFront(s, 0)
  BY EmptySeq DEF FromFront
<1>4. /\ Len(wire) \in Nat /\ 0 \in 0 .. Len(wire) /\ Len(wire) - 0 = Len(wire)
      /\ \A j \in 1 .. Len(wire) : j + 0 = j
  BY Numbers
<1>5. Len(wire') = Len(wire) - 0 /\ \A j \in 1 .. Len(wire') : wire'[j] = wire[j + 0]
  BY <1>1, <1>4
<1>6. asks' >= asks /\ asks' > asks
  BY <1>1
<1>7. \/ last' = last
      \/ FromFront(last'.got, 0) /\ got' = <<>> /\ last'.got = <<>>
  BY <1>2, <1>3
<1> QED
  BY <1>1, <1>2, <1>3, <1>4, <1>5, <1>6, <1>7, TakesOrdered

\* The first k pieces of the buffer, what was read before, and both
LEMMA FrontPieces ==
  ASSUME TypeOK, NEW k \in 0 .. Len(wire)
  PROVE  /\ FromFront(SubSeq(wire, 1, k), k) /\ FromFront(got \o SubSeq(wire, 1, k), k)
         /\ k = Len(wire) => FromFront(wire, k) /\ FromFront(got \o wire, k)
<1>1. wire \in Seq(Pieces) /\ Len(wire) \in Nat /\ got \in Seq(Pieces) /\ Len(got) \in Nat
  BY Numbers
<1>2. k \in Nat /\ \A i \in 1 .. k : wire[i] \in Pieces
  BY <1>1, ElementOfSeq
<1> DEFINE f == SubSeq(wire, 1, k)
<1>3. f \in Seq(Pieces) /\ Len(f) = k /\ \A i \in 1 .. k : f[i] = wire[i]
  <2>1. /\ f \in Seq(Pieces) /\ Len(f) = IF 1 <= k THEN k - 1 + 1 ELSE 0
        /\ \A i \in 1 .. k - 1 + 1 : f[i] = wire[1 + i - 1]
    BY <1>2, SubSeqProperties
  <2>2. k - 1 + 1 = k /\ \A i \in 1 .. k : 1 + i - 1 = i
    BY <1>2
  <2>3. (IF 1 <= k THEN k - 1 + 1 ELSE 0) = k
    BY <1>2
  <2> HIDE DEF f
  <2>4. \A i \in 1 .. k : f[i] = wire[1 + i - 1]
    BY <2>1, <2>2
  <2>5. \A i \in 1 .. k : f[i] = wire[i]
    BY <2>2, <2>4
  <2> QED
    BY <2>1, <2>3, <2>5
<1>4. k = Len(wire) => f = wire
  BY <1>1, SubSeqFull
<1> HIDE DEF f
<1>5. FromFront(f, k)
  BY <1>3 DEF FromFront
<1>6. FromFront(got \o f, k)
  <2> DEFINE g == Len(got)
  <2>1. /\ Len(got \o f) = g + k
        /\ \A i \in 1 .. g + k : (got \o f)[i] = IF i <= g THEN got[i] ELSE f[i - g]
    BY <1>1, <1>3, ConcatProperties
  <2>2. g \in Nat /\ k \in Nat
    BY <1>1, <1>2
  <2>3. ASSUME NEW i \in 1 .. Len(got \o f)
        PROVE  \/ \E j \in 1 .. g : (got \o f)[i] = got[j]
               \/ \E j \in 1 .. k : (got \o f)[i] = wire[j]
    <3> HIDE DEF g
    <3>1. i \in 1 .. g + k
      BY <2>1, <2>3
    <3>2. CASE i <= g
      <4>1. i \in 1 .. g /\ (got \o f)[i] = got[i]
        BY <2>1, <2>2, <3>1, <3>2
      <4> QED
        BY <4>1
    <3>3. CASE ~(i <= g)
      <4>1. i - g \in 1 .. k
        BY <2>2, <3>1, <3>3
      <4>2. (got \o f)[i] = wire[i - g]
        BY <1>3, <2>1, <3>1, <3>3, <4>1
      <4> QED
        BY <4>1, <4>2
    <3> QED
      BY <3>2, <3>3
  <2> QED
    BY <2>3 DEF FromFront
<1> QED
  BY <1>4, <1>5, <1>6 DEF f

\* A read takes the first k pieces of the buffer.
LEMMA ReadTakes ==
  ASSUME TypeOK, TypeOK', Ordered, pc = "read", NEW k \in 0 .. Len(wire), NEW rest,
         Len(rest) = Len(wire) - k, \A i \in 1 .. Len(rest) : rest[i] = wire[i + k],
         \/ ReadsOn(rest)
         \/ \E ok, a : ReadReturns(ok, a, rest) /\ FromFront(a, k)
  PROVE  Ordered' /\ Kept
<1>1. wire' = rest /\ instr' = instr /\ asks' = asks /\ asks \in Nat /\ pc' # "write"
  BY Numbers DEF ReadsOn, ReadReturns, Return
<1>2. asks' >= asks
  BY <1>1
<1>3. CASE ReadsOn(rest)
  <2>1. last' = last /\ got' = got \o SubSeq(wire, 1, Len(wire) - Len(rest))
    BY <1>3 DEF ReadsOn
  <2>2. Len(wire) - Len(rest) = k
    BY Numbers
  <2>3. FromFront(got', k)
    BY <2>1, <2>2, FrontPieces
  <2> QED
    BY <1>1, <1>2, <2>1, <2>3, TakesOrdered
<1>4. ASSUME NEW ok, NEW a, ReadReturns(ok, a, rest), FromFront(a, k)
      PROVE  Ordered' /\ Kept
  <2>1. got' = <<>> /\ last'.got = a /\ last'.n = asks
    BY <1>4 DEF ReadReturns, Return
  <2>2. FromFront(got', k)
    BY <2>1, EmptySeq DEF FromFront
  <2>3. FromFront(last'.got, k)
    BY <1>4, <2>1
  <2> QED
    BY <1>1, <1>2, <2>1, <2>2, <2>3, TakesOrdered
<1> QED
  BY <1>3, <1>4

\* The reads of the drivers
LEMMA ReadsOrdered ==
  ASSUME TypeOK, TypeOK', Ordered,
         ReadBuffer \/ ReadMessage \/ ReadTmc \/ ReadAck \/ ReadSpp
  PROVE  Ordered' /\ Kept
<1> DEFINE W == Len(wire)
<1>1. wire \in Seq(Pieces) /\ W \in Nat /\ got \in Seq(Pieces) /\ pc = "read"
  BY Numbers DEF ReadBuffer, ReadMessage, ReadTmc, ReadAck, ReadSpp, Reading
\* The whole buffer
<1>2. ASSUME ReadsOn(<<>>) \/ \E ok : ReadReturns(ok, wire, <<>>) \/ ReadReturns(ok, got \o wire, <<>>)
      PROVE  Ordered' /\ Kept
  <2>1. W \in 0 .. W /\ FromFront(wire, W) /\ FromFront(got \o wire, W)
    BY <1>1, FrontPieces
  <2>2. Len(<<>>) = W - W /\ \A i \in 1 .. Len(<<>>) : <<>>[i] = wire[i + W]
    BY <1>1
  <2>3. ReadsOn(<<>>) \/ \E ok, a : ReadReturns(ok, a, <<>>) /\ FromFront(a, W)
    BY <1>2, <2>1
  <2> QED
    BY <1>1, <2>1, <2>2, <2>3, ReadTakes
\* Its first piece
<1>3. ASSUME wire # <<>>,
             ReadsOn(Tail(wire)) \/ \E ok : ReadReturns(ok, got \o <<wire[1]>>, Tail(wire))
      PROVE  Ordered' /\ Kept
  <2>1. 1 \in 0 .. W /\ SubSeq(wire, 1, 1) = <<wire[1]>>
    <3>1. W \in Nat \ {0} /\ 1 \in 1 .. W /\ 1 \in 1 .. 1 /\ wire[1] \in Pieces
      BY <1>1, <1>3, Taken
    <3>2. SubSeq(wire, 1, 1) = <<wire[1]>> \o SubSeq(wire, 1 + 1, 1)
      BY <1>1, <3>1, SubSeqRecursiveFirst
    <3>3. SubSeq(wire, 1 + 1, 1) = <<>>
      BY SubSeqEmpty
    <3>4. <<wire[1]>> \in Seq(Pieces)
      BY <3>1
    <3>5. <<wire[1]>> \o <<>> = <<wire[1]>>
      BY <3>4, ConcatEmptySeq
    <3>6. SubSeq(wire, 1, 1) = <<wire[1]>>
      BY <3>2, <3>3, <3>5
    <3> QED
      BY <3>1, <3>6
  <2>2. FromFront(got \o <<wire[1]>>, 1)
    BY <2>1, FrontPieces
  <2>3. Len(Tail(wire)) = W - 1 /\ \A i \in 1 .. Len(Tail(wire)) : Tail(wire)[i] = wire[i + 1]
    BY <1>1, <1>3, Taken
  <2>4. ReadsOn(Tail(wire)) \/ \E ok, a : ReadReturns(ok, a, Tail(wire)) /\ FromFront(a, 1)
    BY <1>3, <2>2
  <2> QED
    BY <1>1, <2>1, <2>3, <2>4, ReadTakes
<1>4. CASE ReadBuffer
  BY <1>2, <1>4 DEF ReadBuffer
<1>5. CASE ReadMessage
  <2> DEFINE m == MessageLen
             rest == SubSeq(wire, m + 1, W)
  <2>1. m \in 1 .. W
    BY <1>1, <1>5, FirstMessage DEF ReadMessage
  <2>2. m \in 0 .. W /\ FromFront(SubSeq(wire, 1, m), m)
    BY <1>1, <2>1, FrontPieces
  <2>3. \E ok, a : ReadReturns(ok, a, rest) /\ FromFront(a, m)
    BY <1>5, <2>2 DEF ReadMessage
  <2>4. Len(rest) = W - m /\ \A i \in 1 .. Len(rest) : rest[i] = wire[i + m]
    <3> HIDE DEF W, m
    <3>1. /\ m + 1 \in Int /\ W \in Int /\ \A i \in m + 1 .. W : i \in 1 .. W
          /\ (IF m + 1 <= W THEN W - (m + 1) + 1 ELSE 0) = W - m
          /\ W - (m + 1) + 1 = W - m
          /\ \A i \in 1 .. W - m : m + 1 + i - 1 = i + m
      BY <1>1, <2>1
    <3>2. \A i \in m + 1 .. W : wire[i] \in Pieces
      BY <1>1, <3>1, ElementOfSeq DEF W
    <3>3. /\ Len(rest) = IF m + 1 <= W THEN W - (m + 1) + 1 ELSE 0
          /\ \A i \in 1 .. W - (m + 1) + 1 : rest[i] = wire[m + 1 + i - 1]
      BY <3>1, <3>2, SubSeqProperties
    <3> HIDE DEF rest
    <3> QED
      BY <3>1, <3>3
  <2> HIDE DEF m, rest
  <2> QED
    BY <1>1, <2>2, <2>3, <2>4, ReadTakes
<1>6. CASE ReadTmc
  <2>1. wire # <<>> /\ Head(wire) = wire[1]
    BY <1>1, <1>6 DEF ReadTmc
  <2>2. CASE ReadsOn(Tail(wire))
    BY <1>3, <2>1, <2>2
  <2>3. CASE ReadReturns(TRUE, got \o <<Head(wire)>>, <<>>) /\ ~MessageAvailable(Tail(wire))
    <3>1. Tail(wire) = <<>>
      BY <2>3 DEF MessageAvailable
    <3> QED
      BY <1>3, <2>1, <2>3, <3>1
  <2> QED
    BY <1>6, <2>2, <2>3 DEF ReadTmc
<1>7. CASE ReadAck
  BY <1>2, <1>7 DEF ReadAck
<1>8. CASE ReadSpp
  BY <1>3, <1>8 DEF ReadSpp
<1> QED
  BY <1>4, <1>5, <1>6, <1>7, <1>8

-----------------------------------------------------------------------------
(* Theorems                                                                *)

LEMMA NextOrdered == IInv /\ Ordered /\ [Next]_vars => Ordered' /\ Kept
<1> SUFFICES ASSUME IInv, Ordered, [Next]_vars PROVE Ordered' /\ Kept
  OBVIOUS
<1>1. TypeOK /\ TypeOK'
  BY NextIInv DEF IInv
<1>2. CASE UNCHANGED vars
  <2>1. Drops
    BY <1>2 DEF vars, Drops
  <2> QED
    BY <1>1, <2>1, DropsOrdered
<1>3. CASE Ask
  BY <1>1, <1>3, AskOrdered
<1>4. CASE DriverStep
  <2>1. CASE Write
    BY <1>1, <2>1, WriteOrdered
  <2>2. CASE WriteError \/ ReadBadLine \/ Timeout \/ StatusError \/ PortError \/ ReadNothing
    BY <1>1, <2>2, FailuresDrop, DropsOrdered
  <2>3. CASE ReadBuffer \/ ReadMessage \/ ReadTmc \/ ReadAck \/ ReadSpp
    BY <1>1, <2>3, ReadsOrdered
  <2> QED
    BY <1>4, <2>1, <2>2, <2>3 DEF DriverStep
<1>5. CASE Instrument
  BY <1>1, <1>5, InstrumentOrdered
<1>6. CASE Hangup \/ Reopen
  BY <1>1, <1>6, FailuresDrop, DropsOrdered
<1> QED
  BY <1>2, <1>3, <1>4, <1>5, <1>6 DEF Next

LEMMA OrderedHolds == Spec => []Ordered
<1>1. Init => Ordered
  <2> SUFFICES ASSUME Init PROVE Ordered
    OBVIOUS
  <2>1. wire = <<>> /\ instr = <<>> /\ got = <<>> /\ last.got = <<>>
    BY DEF Init, NoAsk
  <2>2. \A i \in 1 .. 0 : FALSE
    OBVIOUS
  <2>3. Len(wire) = 0 /\ Len(instr) = 0 /\ Len(got) = 0 /\ Len(last.got) = 0
    BY <2>1
  <2> QED
    BY <2>2, <2>3 DEF Ordered, Sorted, AllSent, NoneFromLater, Delivered
<1> QED
  BY <1>1, IInvHolds, NextOrdered, PTL DEF Spec

\* ask(): even a driver that is out of step does not return what a client has
\* not asked for yet.
THEOREM NoAnswerAhead == Spec => []NoneFromLater
<1>1. Ordered => NoneFromLater
  BY DEF Ordered
<1> QED
  BY <1>1, OrderedHolds, PTL

\* read(): when ask() has returned the end of an answer, no later ask returns
\* any of this answer or of the answer to an older message.
THEOREM AnswersInOrder ==
  ASSUME NEW n \in Nat
  PROVE  Spec => [](Delivered(n) => [][ReturnsLater(n)]_vars)
<1>1. Ordered => (Delivered(n) => Past(n))
  BY DEF Ordered
<1>2. IInv /\ Ordered /\ Past(n) /\ [Next]_vars => Past(n)' /\ ReturnsLater(n)
  BY NextOrdered DEF Kept
<1> QED
  BY <1>1, <1>2, IInvHolds, OrderedHolds, PTL DEF Spec
=============================================================================
