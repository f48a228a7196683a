-------------------------- MODULE CmdChannelProofs --------------------------
(***************************************************************************)
(* The command channel keeps its promises for any number of handlers,      *)
(* tasks and bytes in a body, and however the socket cuts the bytes: a     *)
(* request is never garbled, a handler reads its own answer and leaves a   *)
(* clean socket.                                                           *)
(*                                                                         *)
(* The argument: the holder of the mutex is the only one that may have     *)
(* bytes on their way, so what is in the socket and half received, put     *)
(* together, is its request or its answer (SocketInv).                     *)
(***************************************************************************)
EXTENDS CmdChannel, SequenceTheorems, WellFoundedInduction, TLAPS

USE ChannelAssumption, CommandsAssumption

-----------------------------------------------------------------------------
(* Frames *)

Msgs == CmdMsg \cup [status : Statuses]

BufferOK(b) ==
  /\ b \in [length : Seq(Bytes), content : Seq(Bytes)]
  /\ Len(b.length) <= LenLen /\ Len(b.content) < BodyLen
  /\ b.content # <<>> => Len(b.length) = LenLen

\* A frame is longer than the length in front of it.
LEMMA FrameLenType == FrameLen \in Nat /\ FrameLen = LenLen + BodyLen /\ LenLen = 4
                      /\ BodyLen \in Nat /\ BodyLen > 0
BY DEF FrameLen, LenLen

\* How many frames there are in less than one, and in one.
LEMMA FramesIn ==
  ASSUME NEW f \in Nat, f > 0
  PROVE  (\A a \in Nat : a < f => a \div f = 0) /\ f \div f = 1
OBVIOUS

\* A frame has so many bytes, each of them the message's.
LEMMA MakeProperties ==
  ASSUME NEW msg \in Msgs, NEW c \in Clients
  PROVE  /\ make(msg, c) \in Seq(Bytes)
         /\ Len(make(msg, c)) = FrameLen
         /\ \A k \in 1 .. FrameLen : make(msg, c)[k] = Byte(msg, k, c)
<1>1. FrameLen \in Nat
  BY FrameLenType
<1>2. \A k \in 1 .. FrameLen : Byte(msg, k, c) \in Bytes
  BY DEF Byte, Bytes, Msgs
<1> QED BY <1>1, <1>2 DEF make

\* Frames of two messages differ.
LEMMA MakeInjective ==
  ASSUME NEW m1 \in Msgs, NEW c1 \in Clients, NEW m2 \in Msgs, NEW c2 \in Clients,
         make(m1, c1) = make(m2, c2)
  PROVE  m1 = m2 /\ c1 = c2
<1>1. 1 \in 1 .. FrameLen
  BY FrameLenType
<1>2. Byte(m1, 1, c1) = Byte(m2, 1, c2)
  BY <1>1, MakeProperties
<1> QED BY <1>2 DEF Byte

\* What is made of a message is intact.
LEMMA MakeIntact ==
  ASSUME NEW msg \in Msgs, NEW c \in Clients
  PROVE  /\ Intact(make(msg, c))
         /\ make(msg, c)[1].msg = msg /\ make(msg, c)[1].for = c
<1>1. make(msg, c)[1] = Byte(msg, 1, c)
  BY MakeProperties, FrameLenType
<1> QED BY <1>1 DEF Intact, Byte

\* A sequence is its first n elements and the others.
LEMMA Split ==
  ASSUME NEW S, NEW s \in Seq(S), NEW n \in 0 .. Len(s)
  PROVE  /\ SubSeq(s, 1, n) \in Seq(S) /\ Len(SubSeq(s, 1, n)) = n
         /\ SubSeq(s, n + 1, Len(s)) \in Seq(S) /\ Len(SubSeq(s, n + 1, Len(s))) = Len(s) - n
         /\ SubSeq(s, 1, n) \o SubSeq(s, n + 1, Len(s)) = s
<1>1. /\ \A i \in 1 .. n : s[i] \in S
      /\ \A i \in n + 1 .. Len(s) : s[i] \in S
      /\ Len(s) \in Nat
  BY ElementOfSeq, LenProperties
<1>2. SubSeq(s, 1, n) \in Seq(S) /\ Len(SubSeq(s, 1, n)) = n
  BY <1>1, SubSeqProperties
<1>3. SubSeq(s, n + 1, Len(s)) \in Seq(S) /\ Len(SubSeq(s, n + 1, Len(s))) = Len(s) - n
  BY <1>1, SubSeqProperties
<1>4. SubSeq(s, 1, n) \o SubSeq(s, n + 1, Len(s)) = SubSeq(s, 1, Len(s))
  <2>1. 1 \in 1 .. Len(s) + 1 /\ n \in 1 - 1 .. Len(s) /\ Len(s) \in n .. Len(s)
    BY <1>1
  <2> QED BY <2>1, ConcatAdjacentSubSeq
<1> QED BY <1>2, <1>3, <1>4, SubSeqFull

\* A buffer with the bytes of an incomplete frame holds them in their order.
LEMMA PartlyProperties ==
  ASSUME NEW s \in Seq(Bytes), Len(s) < FrameLen
  PROVE  BufferOK(Partly(s)) /\ Partly(s).length \o Partly(s).content = s
<1>1. CASE Len(s) <= LenLen
  <2>1. Partly(s) = [length |-> s, content |-> <<>>]
    BY <1>1 DEF Partly
  <2>2. s \o <<>> = s /\ <<>> \in Seq(Bytes) /\ Len(<<>>) = 0
    BY ConcatEmptySeq, EmptySeq
  <2> QED BY <1>1, <2>1, <2>2, FrameLenType DEF BufferOK
<1>2. CASE ~(Len(s) <= LenLen)
  <2>1. Partly(s) = [length |-> SubSeq(s, 1, LenLen), content |-> SubSeq(s, LenLen + 1, Len(s))]
    BY <1>2 DEF Partly
  <2>2. LenLen \in 0 .. Len(s) /\ Len(s) \in Nat
    BY <1>2, LenProperties, FrameLenType
  <2> QED BY <2>1, <2>2, Split, FrameLenType DEF BufferOK
<1> QED BY <1>1, <1>2

\* tryFullFill while a frame is incomplete: the buffer holds its bytes.
LEMMA FillIncomplete ==
  ASSUME NEW b, BufferOK(b), NEW bytes \in Seq(Bytes),
         Len(b.length \o b.content \o bytes) < FrameLen
  PROVE  tryFullFill(b, bytes) =
           [frames |-> <<>>, buffer |-> Partly(b.length \o b.content \o bytes)]
<1> DEFINE all == b.length \o b.content \o bytes
<1>1. all \in Seq(Bytes) /\ Len(all) \in Nat
  BY ConcatProperties, LenProperties DEF BufferOK
<1>2. Len(all) < FrameLen
  OBVIOUS
<1>3. tryFullFill(b, bytes) = Filled(all, Len(all) \div FrameLen)
  BY DEF tryFullFill
<1> HIDE DEF all
<1>4. Len(all) \div FrameLen = 0
  BY <1>1, <1>2, FramesIn, FrameLenType
<1>5. 0 * FrameLen + 1 = 1
  BY FrameLenType
<1>6. SubSeq(all, 0 * FrameLen + 1, Len(all)) = all
  BY SubSeqFull, <1>1, <1>5
<1>7. [k \in 1 .. 0 |-> FrameAt(all, k)] = <<>>
  OBVIOUS
<1> QED BY <1>3, <1>4, <1>6, <1>7 DEF Filled, all

\* tryFullFill when the last byte of a frame arrives: the frame is handed out and the
\* buffer is empty.
LEMMA FillComplete ==
  ASSUME NEW b, BufferOK(b), NEW bytes \in Seq(Bytes),
         Len(b.length \o b.content \o bytes) = FrameLen
  PROVE  tryFullFill(b, bytes) =
           [frames |-> <<b.length \o b.content \o bytes>>, buffer |-> NoBuffer]
<1> DEFINE all == b.length \o b.content \o bytes
<1>1. all \in Seq(Bytes) /\ Len(all) = FrameLen
  BY ConcatProperties, LenProperties DEF BufferOK
<1>2. tryFullFill(b, bytes) = Filled(all, Len(all) \div FrameLen)
  BY DEF tryFullFill
<1> HIDE DEF all
<1>3. Len(all) \div FrameLen = 1
  BY <1>1, FramesIn, FrameLenType
<1>4. 1 * FrameLen = FrameLen /\ (1 - 1) * FrameLen + 1 = 1 /\ FrameLen \in Nat
  BY FrameLenType
<1>5. SubSeq(all, 1 * FrameLen + 1, Len(all)) = <<>>
  BY SubSeqEmpty, <1>1, <1>4
<1>6. FrameAt(all, 1) = all
  BY <1>1, <1>4, SubSeqFull DEF FrameAt
<1>7. [k \in 1 .. 1 |-> FrameAt(all, k)] = <<all>>
  BY <1>6
<1>8. Partly(<<>>) = NoBuffer
  BY FrameLenType DEF Partly, NoBuffer
<1> QED BY <1>2, <1>3, <1>5, <1>7, <1>8 DEF Filled, all

-----------------------------------------------------------------------------
(* The loop of tryFullFill *)

\* The state of the loop after these bytes, as Filled has it.
LoopAt(all) ==
  LET b == Filled(all, Len(all) \div FrameLen)
  IN  [length |-> b.buffer.length, content |-> b.buffer.content, frames |-> b.frames]

\* The bytes of the last frame, which is not complete.
Rest(all) == SubSeq(all, (Len(all) \div FrameLen) * FrameLen + 1, Len(all))

\* Division is by the quotient and the remainder.
LEMMA Division ==
  ASSUME NEW f \in Nat, f > 0, NEW a \in Nat
  PROVE  /\ a \div f \in Nat /\ a - (a \div f) * f \in 0 .. f - 1
         /\ \A q \in Nat : a - q * f \in 0 .. f - 1 => a \div f = q
OBVIOUS

\* One byte more is one frame more if it is the last one of its frame.
LEMMA DivisionNext ==
  ASSUME NEW f \in Nat, f > 0, NEW a \in Nat
  PROVE  (a + 1) \div f = IF a - (a \div f) * f = f - 1 THEN a \div f + 1 ELSE a \div f
<1>1. a \div f \in Nat /\ a - (a \div f) * f \in 0 .. f - 1
  BY Division
<1>2. PICK q \in Nat : q = a \div f
  BY <1>1
<1>3. CASE a - q * f = f - 1
  <2>1. (q + 1) * f = q * f + f /\ q * f \in Nat /\ q + 1 \in Nat /\ a + 1 \in Nat
    OBVIOUS
  <2>2. a + 1 - (q + 1) * f \in 0 .. f - 1
    BY <1>3, <2>1
  <2> QED BY <1>2, <1>3, <2>1, <2>2, Division
<1>4. CASE a - q * f # f - 1
  <2>1. q * f \in Nat /\ a + 1 \in Nat
    OBVIOUS
  <2>2. a + 1 - q * f \in 0 .. f - 1
    BY <1>1, <1>2, <1>4, <2>1
  <2> QED BY <1>2, <1>4, <2>1, <2>2, Division
<1> QED BY <1>2, <1>3, <1>4

\* A piece of a sequence that has got one element more.
LEMMA SliceOfAppend ==
  ASSUME NEW S, NEW s \in Seq(S), NEW e \in S, NEW m \in 1 .. Len(s) + 1
  PROVE  /\ SubSeq(Append(s, e), m, Len(s) + 1) = Append(SubSeq(s, m, Len(s)), e)
         /\ \A n \in 0 .. Len(s) : SubSeq(Append(s, e), m, n) = SubSeq(s, m, n)
<1> DEFINE t == Append(s, e)
<1>1. /\ Len(s) \in Nat /\ t \in Seq(S) /\ Len(t) = Len(s) + 1
      /\ t[Len(s) + 1] = e /\ \A i \in 1 .. Len(s) : t[i] = s[i]
      /\ \A i \in 1 .. Len(s) : s[i] \in S
  BY LenProperties, AppendProperties
<1> HIDE DEF t
<1>2. ASSUME NEW n \in 0 .. Len(s) PROVE SubSeq(t, m, n) = SubSeq(s, m, n)
  <2>1. \A i \in m .. n : s[i] \in S /\ t[i] = s[i]
    BY <1>1
  <2>2. /\ SubSeq(t, m, n) \in Seq(S) /\ Len(SubSeq(t, m, n)) = IF m <= n THEN n - m + 1 ELSE 0
        /\ \A i \in 1 .. n - m + 1 : SubSeq(t, m, n)[i] = t[m + i - 1]
    BY <1>1, <2>1, SubSeqProperties
  <2>3. /\ SubSeq(s, m, n) \in Seq(S) /\ Len(SubSeq(s, m, n)) = IF m <= n THEN n - m + 1 ELSE 0
        /\ \A i \in 1 .. n - m + 1 : SubSeq(s, m, n)[i] = s[m + i - 1]
    BY <1>1, <2>1, SubSeqProperties
  <2>4. \A i \in 1 .. Len(SubSeq(t, m, n)) : SubSeq(t, m, n)[i] = SubSeq(s, m, n)[i]
    BY <1>1, <2>1, <2>2, <2>3
  <2> QED BY <2>2, <2>3, <2>4, SeqEqual
<1>3. SubSeq(t, m, Len(t)) = Append(SubSeq(t, m, Len(s)), e)
  <2>1. m \in 1 .. Len(t) /\ Len(t) \in m .. Len(t) /\ Len(t) - 1 = Len(s)
    BY <1>1
  <2>2. SubSeq(t, m, Len(t)) = SubSeq(t, m, Len(t) - 1) \o <<t[Len(t)]>>
    BY <1>1, <2>1, SubSeqRecursiveSecond
  <2>3. SubSeq(t, m, Len(s)) \in Seq(S)
    <3>1. \A i \in m .. Len(s) : t[i] \in S
      BY <1>1
    <3> QED BY <1>1, <3>1, SubSeqProperties
  <2> QED BY <1>1, <2>1, <2>2, <2>3, AppendIsConcat
<1>4. Len(s) \in 0 .. Len(s)
  BY <1>1
<1> QED BY <1>1, <1>2, <1>3, <1>4 DEF t

\* A frame in a sequence lies between these places.
LEMMA FrameIsSlice ==
  ASSUME NEW s, NEW k, NEW i, NEW j, (k - 1) * FrameLen + 1 = i, k * FrameLen = j
  PROVE  FrameAt(s, k) = SubSeq(s, i, j)
BY DEF FrameAt

\* The bytes of the incomplete frame, and the next one.
LEMMA RestNext ==
  ASSUME NEW S, NEW all \in Seq(S), NEW byte \in S
  PROVE  LET n == Len(all) \div FrameLen IN
         /\ Rest(all) \in Seq(S) /\ Len(Rest(all)) \in 0 .. FrameLen - 1
         /\ \A k \in 1 .. n : FrameAt(Append(all, byte), k) = FrameAt(all, k)
         /\ Len(Rest(all)) < FrameLen - 1 =>
              /\ Len(Append(all, byte)) \div FrameLen = n
              /\ Rest(Append(all, byte)) = Append(Rest(all), byte)
         /\ Len(Rest(all)) = FrameLen - 1 =>
              /\ Len(Append(all, byte)) \div FrameLen = n + 1
              /\ Rest(Append(all, byte)) = <<>>
              /\ FrameAt(Append(all, byte), n + 1) = Append(Rest(all), byte)
<1> DEFINE a == Len(all)
           n == a \div FrameLen
           more == Append(all, byte)
<1>1. a \in Nat /\ more \in Seq(S) /\ Len(more) = a + 1 /\ \A i \in 1 .. a : all[i] \in S
  BY LenProperties, AppendProperties
<1>2. FrameLen \in Nat /\ FrameLen > 0
  BY FrameLenType
<1>3. n \in Nat /\ a - n * FrameLen \in 0 .. FrameLen - 1
  BY <1>1, <1>2, Division
<1>4. (a + 1) \div FrameLen = IF a - n * FrameLen = FrameLen - 1 THEN n + 1 ELSE n
  BY <1>1, <1>2, DivisionNext
<1>5. Rest(all) = SubSeq(all, n * FrameLen + 1, a)
  BY DEF Rest
<1>6. Rest(more) = SubSeq(more, (Len(more) \div FrameLen) * FrameLen + 1, Len(more))
  BY DEF Rest
<1>7. \A k : FrameAt(more, k) = SubSeq(more, (k - 1) * FrameLen + 1, k * FrameLen)
             /\ FrameAt(all, k) = SubSeq(all, (k - 1) * FrameLen + 1, k * FrameLen)
  BY DEF FrameAt
<1> HIDE DEF n
<1>8. PICK p \in Nat : p = n * FrameLen
  BY <1>2, <1>3
<1>9. p + 1 \in 1 .. a + 1 /\ (n + 1) * FrameLen = p + FrameLen
  BY <1>1, <1>2, <1>3, <1>8
<1>10. /\ SubSeq(more, p + 1, a + 1) = Append(SubSeq(all, p + 1, a), byte)
       /\ \A m \in 1 .. a + 1, l \in 0 .. a : SubSeq(more, m, l) = SubSeq(all, m, l)
  BY <1>1, <1>9, SliceOfAppend
<1>11. Rest(all) \in Seq(S) /\ Len(Rest(all)) = a - p
  <2>1. \A i \in p + 1 .. a : all[i] \in S
    BY <1>1
  <2> QED BY <1>1, <1>3, <1>5, <1>8, <2>1, SubSeqProperties
<1>12. ASSUME NEW k \in 1 .. n PROVE FrameAt(more, k) = FrameAt(all, k)
  <2>1. (k - 1) * FrameLen + 1 \in 1 .. a + 1 /\ k * FrameLen \in 0 .. a
    <3>1. k * FrameLen <= n * FrameLen /\ k * FrameLen \in Nat
      BY <1>2, <1>3
    <3>2. (k - 1) * FrameLen = k * FrameLen - FrameLen /\ (k - 1) * FrameLen \in Nat
      BY <1>2, <1>3
    <3> QED BY <1>1, <1>2, <1>8, <1>9, <3>1, <3>2
  <2> QED BY <1>7, <1>10, <2>1
<1>13. CASE a - p < FrameLen - 1
  <2>1. Len(more) \div FrameLen = n
    BY <1>1, <1>4, <1>8, <1>13
  <2>2. Rest(more) = Append(Rest(all), byte)
    BY <1>1, <1>5, <1>6, <1>8, <1>10, <2>1
  <2> QED BY <1>3, <1>8, <1>11, <1>12, <1>13, <2>1, <2>2 DEF n
<1>14. CASE a - p = FrameLen - 1
  <2>1. Len(more) \div FrameLen = n + 1 /\ p + FrameLen = a + 1
    <3>1. p + FrameLen = a + 1
      BY <1>1, <1>2, <1>14
    <3>2. a - n * FrameLen = FrameLen - 1
      BY <1>8, <1>14
    <3> QED BY <1>1, <1>4, <3>1, <3>2
  <2>2. Rest(more) = <<>>
    <3>1. Rest(more) = SubSeq(more, a + 2, a + 1)
      BY <1>1, <1>6, <1>9, <2>1
    <3> QED BY <1>1, <3>1, SubSeqEmpty
  <2>3. FrameAt(more, n + 1) = Append(Rest(all), byte)
    <3>1. PICK k : k = n + 1
      OBVIOUS
    <3>2. FrameAt(more, k) = SubSeq(more, p + 1, a + 1)
      <4>1. k - 1 = n /\ k * FrameLen = a + 1
        BY <1>3, <1>9, <2>1, <3>1
      <4>2. (k - 1) * FrameLen + 1 = p + 1
        BY <1>8, <4>1
      <4> QED BY <4>1, <4>2, FrameIsSlice
    <3>3. Rest(all) = SubSeq(all, p + 1, a)
      BY <1>5, <1>8
    <3> QED BY <1>10, <3>1, <3>2, <3>3
  <2> QED BY <1>3, <1>8, <1>11, <1>12, <1>14, <2>1, <2>2, <2>3 DEF n
<1>15. a - p < FrameLen - 1 \/ a - p = FrameLen - 1
  BY <1>1, <1>2, <1>3, <1>8
<1> QED BY <1>13, <1>14, <1>15

\* The loop with the last frame in progress, in terms of its bytes.
LEMMA LoopAtRest ==
  ASSUME NEW S, NEW all \in Seq(S)
  PROVE  LoopAt(all) = [length |-> Partly(Rest(all)).length, content |-> Partly(Rest(all)).content,
                        frames |-> [k \in 1 .. Len(all) \div FrameLen |-> FrameAt(all, k)]]
BY DEF LoopAt, Filled, Rest

\* One turn of the loop, by the parts of its state.
LEMMA TurnByParts ==
  ASSUME NEW b, NEW byte,
         b = [length |-> b.length, content |-> b.content, frames |-> b.frames]
  PROVE  LET content == Append(b.content, byte) IN
         /\ Len(b.length) < LenLen =>
              fullFillOne(b, byte) =
                [length |-> Append(b.length, byte), content |-> b.content, frames |-> b.frames]
         /\ ~(Len(b.length) < LenLen) /\ Len(content) = BodyLen =>
              fullFillOne(b, byte) =
                [length |-> <<>>, content |-> <<>>,
                 frames |-> Append(b.frames, b.length \o content)]
         /\ ~(Len(b.length) < LenLen) /\ Len(content) # BodyLen =>
              fullFillOne(b, byte) =
                [length |-> b.length, content |-> content, frames |-> b.frames]
BY DEF fullFillOne

\* One byte through the loop is what tryFullFill makes of one byte more.
LEMMA LoopTurn ==
  ASSUME NEW S, NEW all \in Seq(S), NEW byte \in S
  PROVE  fullFillOne(LoopAt(all), byte) = LoopAt(Append(all, byte))
<1> DEFINE more == Append(all, byte)
           frames == [k \in 1 .. Len(all) \div FrameLen |-> FrameAt(all, k)]
           framesNext == [k \in 1 .. Len(more) \div FrameLen |-> FrameAt(more, k)]
<1>1. PICK r \in Seq(S) : r = Rest(all) /\ Len(r) \in 0 .. FrameLen - 1
  BY RestNext
<1>2. PICK n \in Nat : n = Len(all) \div FrameLen
  BY Division, LenProperties, FrameLenType
<1>3. /\ \A k \in 1 .. n : FrameAt(more, k) = FrameAt(all, k)
      /\ Len(r) < FrameLen - 1 =>
           Len(more) \div FrameLen = n /\ Rest(more) = Append(r, byte)
      /\ Len(r) = FrameLen - 1 =>
           /\ Len(more) \div FrameLen = n + 1 /\ Rest(more) = <<>>
           /\ FrameAt(more, n + 1) = Append(r, byte)
  BY <1>1, <1>2, RestNext
<1>4. Append(r, byte) \in Seq(S) /\ Len(Append(r, byte)) = Len(r) + 1 /\ Len(r) \in Nat
      /\ more \in Seq(S)
  BY <1>1, AppendProperties, LenProperties
<1>5. LoopAt(all) = [length |-> Partly(r).length, content |-> Partly(r).content,
                     frames |-> frames]
  BY <1>1, LoopAtRest
<1>6. LoopAt(more) = [length |-> Partly(Rest(more)).length, content |-> Partly(Rest(more)).content,
                      frames |-> framesNext]
  BY <1>4, LoopAtRest
<1>7. Len(r) < FrameLen - 1 => framesNext = frames
  BY <1>2, <1>3
<1>8. Len(r) = FrameLen - 1 => framesNext = Append(frames, Append(r, byte))
  <2> SUFFICES ASSUME Len(r) = FrameLen - 1
               PROVE  [k \in 1 .. n + 1 |-> FrameAt(more, k)] = Append(frames, Append(r, byte))
    BY <1>3
  <2> DEFINE T == {FrameAt(more, k) : k \in 1 .. n + 1}
             next == [k \in 1 .. n + 1 |-> FrameAt(more, k)]
             last == Append(r, byte)
  <2>1. \A k \in 1 .. n : FrameAt(all, k) \in T
    BY <1>3
  <2>2. last \in T
    BY <1>3
  <2>3. next \in Seq(T) /\ Len(next) = n + 1 /\ \A k \in 1 .. n + 1 : next[k] = FrameAt(more, k)
    OBVIOUS
  <2>4. frames \in Seq(T) /\ Len(frames) = n /\ \A k \in 1 .. n : frames[k] = FrameAt(all, k)
    BY <1>2, <2>1
  <2> HIDE DEF T, next, frames, last
  <2>5. /\ Append(frames, last) \in Seq(T) /\ Len(Append(frames, last)) = n + 1
        /\ \A k \in 1 .. n : Append(frames, last)[k] = frames[k]
        /\ Append(frames, last)[n + 1] = last
    BY <2>2, <2>4, AppendProperties
  <2>6. \A k \in 1 .. n + 1 : next[k] = Append(frames, last)[k]
    <3> TAKE k \in 1 .. n + 1
    <3>1. k \in 1 .. n \/ k = n + 1
      OBVIOUS
    <3> QED BY <1>3, <2>3, <2>4, <2>5, <3>1 DEF last
  <2>7. next = Append(frames, last)
    BY <2>3, <2>5, <2>6, SeqEqual
  <2> QED BY <2>7 DEF next, last
<1> HIDE DEF frames, framesNext, more
<1>9. CASE Len(r) < LenLen
  <2>1. Partly(r) = [length |-> r, content |-> <<>>]
    BY <1>4, <1>9, FrameLenType DEF Partly
  <2>2. Len(r) < FrameLen - 1 /\ Len(Append(r, byte)) <= LenLen
    BY <1>4, <1>9, FrameLenType
  <2>3. Partly(Rest(more)) = [length |-> Append(r, byte), content |-> <<>>]
    BY <1>3, <2>2 DEF Partly
  <2>4. LoopAt(all) = [length |-> r, content |-> <<>>, frames |-> frames]
    BY <1>5, <2>1
  <2>5. LoopAt(more) = [length |-> Append(r, byte), content |-> <<>>, frames |-> frames]
    BY <1>6, <1>7, <2>2, <2>3
  <2>6. fullFillOne(LoopAt(all), byte) =
          [length |-> Append(r, byte), content |-> <<>>, frames |-> frames]
    BY <1>9, <2>4, TurnByParts
  <2> QED BY <2>5, <2>6 DEF more
<1>10. CASE ~(Len(r) < LenLen)
  <2> DEFINE head == SubSeq(r, 1, LenLen)
             tail == SubSeq(r, LenLen + 1, Len(r))
             whole == Append(r, byte)
             content == Append(tail, byte)
  <2>0. Len(r) \in Nat /\ LenLen \in Nat
    BY <1>4, FrameLenType
  <2>1. LenLen \in 0 .. Len(r) /\ LenLen + 1 \in 1 .. Len(r) + 1 /\ 1 \in 1 .. Len(r) + 1
        /\ LenLen = 4
    BY <1>4, <1>10, FrameLenType
  <2>2. /\ head \in Seq(S) /\ Len(head) = LenLen
        /\ tail \in Seq(S) /\ Len(tail) = Len(r) - LenLen
    <3>1. /\ \A n1 \in 0 .. Len(r) : SubSeq(r, 1, n1) \in Seq(S) /\ Len(SubSeq(r, 1, n1)) = n1
          /\ \A n1 \in 0 .. Len(r) : /\ SubSeq(r, n1 + 1, Len(r)) \in Seq(S)
                                     /\ Len(SubSeq(r, n1 + 1, Len(r))) = Len(r) - n1
      BY Split
    <3> QED BY <2>1, <3>1
  <2>3. Len(content) = Len(r) - LenLen + 1
    BY <2>2, AppendProperties
  <2>4. SubSeq(whole, 1, LenLen) = head /\ SubSeq(whole, LenLen + 1, Len(whole)) = content
    <3>1. /\ SubSeq(whole, LenLen + 1, Len(r) + 1) = content
          /\ \A n1 \in 0 .. Len(r) : SubSeq(whole, 1, n1) = SubSeq(r, 1, n1)
      BY <2>1, SliceOfAppend
    <3> QED BY <1>4, <2>1, <3>1
  <2>5. head \o content = whole
    <3>1. LenLen \in 0 .. Len(whole)
      BY <1>4, <2>1
    <3> QED BY <1>4, <2>4, <3>1, Split
  <2>6. Partly(r) = [length |-> head, content |-> tail]
    <3>1. CASE Len(r) = LenLen
      <4>1. head = r /\ tail = <<>>
        BY <2>1, <3>1, SubSeqFull, SubSeqEmpty
      <4> QED BY <3>1, <4>1, <2>1 DEF Partly
    <3>2. CASE Len(r) # LenLen
      <4>1. ~(Len(r) <= LenLen)
        BY <1>10, <2>0, <3>2
      <4> QED BY <4>1 DEF Partly
    <3> QED BY <3>1, <3>2
  <2>7. Partly(whole) = [length |-> head, content |-> content]
    <3>1. ~(Len(whole) <= LenLen)
      BY <1>4, <2>1
    <3> HIDE DEF head, content
    <3> QED BY <2>4, <3>1 DEF Partly
  <2> HIDE DEF head, tail, whole, content
  <2>8. LoopAt(all) = [length |-> head, content |-> tail, frames |-> frames]
    BY <1>5, <2>6
  <2>9. LoopAt(all).length = head /\ LoopAt(all).content = tail /\ LoopAt(all).frames = frames
    BY <2>8
  <2>10. Append(tail, byte) = content
    BY DEF content
  <2>11. CASE Len(r) < FrameLen - 1
    <3>1. Len(content) # BodyLen
      BY <1>4, <2>1, <2>3, <2>11, FrameLenType
    <3>2. fullFillOne(LoopAt(all), byte) =
            [length |-> head, content |-> content, frames |-> frames]
      <4>1. ~(Len(head) < LenLen)
        BY <2>0, <2>2
      <4>2. fullFillOne(LoopAt(all), byte) = [LoopAt(all) EXCEPT !.content = content]
        BY <2>9, <2>10, <3>1, <4>1 DEF fullFillOne
      <4>3. [[length |-> head, content |-> tail, frames |-> frames] EXCEPT !.content = content]
              = [length |-> head, content |-> content, frames |-> frames]
        OBVIOUS
      <4> QED BY <2>8, <4>2, <4>3
    <3>3. LoopAt(more) = [length |-> head, content |-> content, frames |-> frames]
      <4>1. Partly(Rest(more)) = [length |-> head, content |-> content]
        BY <1>3, <2>7, <2>11 DEF whole
      <4> QED BY <1>6, <1>7, <2>11, <4>1
    <3> QED BY <3>2, <3>3 DEF more
  <2>12. CASE Len(r) = FrameLen - 1
    <3>1. Len(content) = BodyLen
      BY <1>4, <2>1, <2>3, <2>12, FrameLenType
    <3>2. fullFillOne(LoopAt(all), byte) =
            [length |-> <<>>, content |-> <<>>, frames |-> Append(frames, whole)]
      <4>1. ~(Len(head) < LenLen)
        BY <2>0, <2>2
      <4> QED BY <2>5, <2>9, <2>10, <3>1, <4>1 DEF fullFillOne
    <3>3. Partly(Rest(more)) = [length |-> <<>>, content |-> <<>>]
      BY <1>3, <2>12, FrameLenType DEF Partly
    <3>4. LoopAt(more) = [length |-> <<>>, content |-> <<>>, frames |-> Append(frames, whole)]
      <4>1. framesNext = Append(frames, whole)
        BY <1>8, <2>12 DEF whole
      <4> QED BY <1>6, <3>3, <4>1
    <3> QED BY <3>2, <3>4 DEF more
  <2> QED BY <1>1, <1>4, <2>11, <2>12, FrameLenType
<1> QED BY <1>9, <1>10

\* A buffer holds the bytes of an incomplete frame, the length first.
LEMMA BufferIsPartly ==
  ASSUME NEW b, BufferOK(b)
  PROVE  LET s == b.length \o b.content IN
           s \in Seq(Bytes) /\ Len(s) < FrameLen /\ b = Partly(s)
<1> DEFINE s == b.length \o b.content
<1>1. /\ b.length \in Seq(Bytes) /\ b.content \in Seq(Bytes)
      /\ b = [length |-> b.length, content |-> b.content]
      /\ Len(b.length) \in Nat /\ Len(b.content) \in Nat
      /\ Len(b.length) <= LenLen /\ Len(b.content) < BodyLen
      /\ b.content # <<>> => Len(b.length) = LenLen
  BY LenProperties DEF BufferOK
<1>2. s \in Seq(Bytes)
  BY <1>1, ConcatProperties
<1>3. Len(s) = Len(b.length) + Len(b.content)
  BY <1>1, ConcatProperties
<1>4. CASE b.content = <<>>
  <2>1. s = b.length /\ Len(s) <= LenLen
    BY <1>1, <1>4, ConcatEmptySeq
  <2> QED BY <1>1, <1>2, <1>3, <1>4, <2>1, FrameLenType DEF Partly
<1>5. CASE b.content # <<>>
  <2>1. Len(b.length) = LenLen /\ Len(b.content) > 0 /\ Len(s) > LenLen
    BY <1>1, <1>3, <1>5, EmptySeq
  <2>2. SubSeq(s, 1, LenLen) = b.length
    <3>1. SubSeq(s, 1, LenLen) = SubSeq(b.length, 1, LenLen)
      BY <1>1, <2>1, SubSeqOfConcat1, FrameLenType
    <3> QED BY <1>1, <2>1, <3>1, SubSeqFull
  <2>3. SubSeq(s, LenLen + 1, Len(s)) = b.content
    <3>1. SubSeq(s, LenLen + 1, Len(s)) = SubSeq(b.content, 1, Len(b.content))
      <4>1. /\ LenLen + 1 \in Len(b.length) + 1 .. Len(b.length) + Len(b.content)
            /\ Len(s) \in Len(b.length) + 1 .. Len(b.length) + Len(b.content)
            /\ LenLen + 1 - Len(b.length) = 1 /\ Len(s) - Len(b.length) = Len(b.content)
        BY <1>1, <1>3, <2>1, FrameLenType
      <4>2. \A m, n \in Len(b.length) + 1 .. Len(b.length) + Len(b.content) :
              SubSeq(s, m, n) = SubSeq(b.content, m - Len(b.length), n - Len(b.length))
        BY <1>1, SubSeqOfConcat2
      <4> HIDE DEF s
      <4> DEFINE from == LenLen + 1
                 to == Len(s)
      <4>3. SubSeq(s, from, to) =
              SubSeq(b.content, from - Len(b.length), to - Len(b.length))
        <5>1. from \in Len(b.length) + 1 .. Len(b.length) + Len(b.content)
              /\ to \in Len(b.length) + 1 .. Len(b.length) + Len(b.content)
          BY <4>1
        <5> HIDE DEF from, to
        <5> QED BY <4>2, <5>1
      <4>4. from - Len(b.length) = 1 /\ to - Len(b.length) = Len(b.content)
        BY <1>1, <1>3, <2>1, FrameLenType DEF s
      <4>5. SubSeq(s, from, to) = SubSeq(b.content, 1, Len(b.content))
        <5> HIDE DEF from, to
        <5> QED BY <4>3, <4>4
      <4> QED BY <4>5
    <3> QED BY <1>1, <3>1, SubSeqFull
  <2>4. b = Partly(s)
    <3> HIDE DEF s
    <3>1. Partly(s) = [length |-> b.length, content |-> b.content]
      <4>1. ~(Len(s) <= LenLen)
        BY <1>1, <1>3, <2>1, FrameLenType
      <4> QED BY <2>2, <2>3, <4>1 DEF Partly
    <3> QED BY <1>1, <3>1
  <2> QED BY <1>1, <1>2, <1>3, <2>4, FrameLenType
<1> QED BY <1>4, <1>5

\* The state of the loop after k of the bytes, in closed form.
After(b, bytes, k) == LoopAt((b.length \o b.content) \o SubSeq(bytes, 1, k))

\* The closed form begins where the loop does and goes on as it does.
LEMMA AfterSteps ==
  ASSUME NEW b, BufferOK(b), NEW bytes \in Seq(Bytes)
  PROVE  /\ After(b, bytes, 0) = [length |-> b.length, content |-> b.content, frames |-> <<>>]
         /\ \A k \in 1 .. Len(bytes) :
              After(b, bytes, k) = fullFillOne(After(b, bytes, k - 1), bytes[k])
<1> DEFINE start == b.length \o b.content
           all(k) == start \o SubSeq(bytes, 1, k)
<1>1. start \in Seq(Bytes) /\ Len(start) < FrameLen /\ b = Partly(start)
  BY BufferIsPartly
<1>2. Len(bytes) \in Nat /\ Len(start) \in Nat /\ \A i \in 1 .. Len(bytes) : bytes[i] \in Bytes
  BY <1>1, LenProperties, ElementOfSeq
<1> HIDE DEF start
<1>3. \A k \in 0 .. Len(bytes) : all(k) \in Seq(Bytes)
  <2> TAKE k \in 0 .. Len(bytes)
  <2>1. SubSeq(bytes, 1, k) \in Seq(Bytes)
    BY Split
  <2> QED BY <1>1, <2>1, ConcatProperties
<1>4. LoopAt(all(0)) = [length |-> b.length, content |-> b.content, frames |-> <<>>]
  <2>1. all(0) = start
    BY <1>1, <1>2, SubSeqEmpty, ConcatEmptySeq
  <2>2. Len(start) \div FrameLen = 0
    <3>1. \A f \in Nat : f > 0 => \A a \in Nat : a < f => a \div f = 0
      BY FramesIn
    <3>2. Len(start) \in Nat /\ Len(start) < FrameLen /\ FrameLen \in Nat /\ FrameLen > 0
      BY <1>1, <1>2, FrameLenType
    <3> QED BY <3>1, <3>2
  <2>3. Rest(start) = start
    <3>1. 0 * FrameLen + 1 = 1
      BY FrameLenType
    <3> QED BY <1>1, <2>2, <3>1, SubSeqFull DEF Rest
  <2>4. LoopAt(start) = [length |-> b.length, content |-> b.content,
                         frames |-> [k \in 1 .. 0 |-> FrameAt(start, k)]]
    BY <1>1, <2>2, <2>3, LoopAtRest
  <2>5. [k \in 1 .. 0 |-> FrameAt(start, k)] = <<>>
    OBVIOUS
  <2> QED BY <2>1, <2>4, <2>5
<1>5. ASSUME NEW k \in 1 .. Len(bytes)
      PROVE  LoopAt(all(k)) = fullFillOne(LoopAt(all(k - 1)), bytes[k])
  <2>1. k - 1 \in 0 .. Len(bytes) /\ bytes[k] \in Bytes /\ k \in 0 .. Len(bytes)
    BY <1>2
  <2>2. all(k) = Append(all(k - 1), bytes[k])
    <3> DEFINE before == SubSeq(bytes, 1, k - 1)
    <3>1. before \in Seq(Bytes) /\ Append(before, bytes[k]) = before \o <<bytes[k]>>
      BY <2>1, Split, AppendIsConcat
    <3>2. SubSeq(bytes, 1, k) = before \o <<bytes[k]>>
      <4>1. 1 \in 1 .. Len(bytes) /\ k \in 1 .. Len(bytes)
        BY <1>2
      <4> QED BY <4>1, SubSeqRecursiveSecond
    <3>3. <<bytes[k]>> \in Seq(Bytes)
      BY <2>1
    <3> HIDE DEF before
    <3>4. start \o (before \o <<bytes[k]>>) = (start \o before) \o <<bytes[k]>>
      BY <1>1, <3>1, <3>3, ConcatAssociative
    <3>5. (start \o before) \o <<bytes[k]>> = Append(start \o before, bytes[k])
      <4>1. start \o before \in Seq(Bytes)
        BY <1>1, <3>1, ConcatProperties
      <4> QED BY <2>1, <4>1, AppendIsConcat
    <3> QED BY <3>2, <3>4, <3>5 DEF before
  <2>3. all(k - 1) \in Seq(Bytes)
    BY <1>3, <2>1
  <2> HIDE DEF all
  <2> QED BY <2>1, <2>2, <2>3, LoopTurn
<1> QED BY <1>4, <1>5 DEF After, start

\* The states of the loop, whatever has them: run[k] is the one after k bytes.
Runs(run, b, bytes) ==
  run = [k \in 0 .. Len(bytes) |->
           IF k = 0 THEN [length |-> b.length, content |-> b.content, frames |-> <<>>]
           ELSE fullFillOne(run[k - 1], bytes[k])]

\* There are such states.
LEMMA LoopRuns ==
  ASSUME NEW b, BufferOK(b), NEW bytes \in Seq(Bytes)
  PROVE  \E run : Runs(run, b, bytes)
<1> DEFINE run == [k \in 0 .. Len(bytes) |-> After(b, bytes, k)]
<1>1. Len(bytes) \in Nat
  BY LenProperties
<1>2. ASSUME NEW k \in 0 .. Len(bytes)
      PROVE  run[k] = IF k = 0 THEN [length |-> b.length, content |-> b.content, frames |-> <<>>]
                      ELSE fullFillOne(run[k - 1], bytes[k])
  <2>1. CASE k = 0
    BY <1>1, <2>1, AfterSteps
  <2>2. CASE k # 0
    <3>1. k \in 1 .. Len(bytes) /\ k - 1 \in 0 .. Len(bytes)
      BY <1>1, <2>2
    <3>2. run[k] = After(b, bytes, k) /\ run[k - 1] = After(b, bytes, k - 1)
      BY <3>1
    <3>3. After(b, bytes, k) = fullFillOne(After(b, bytes, k - 1), bytes[k])
      BY <3>1, AfterSteps
    <3> HIDE DEF run
    <3> QED BY <2>2, <3>2, <3>3
  <2> QED BY <2>1, <2>2
<1>3. run = [k \in 0 .. Len(bytes) |-> run[k]]
  OBVIOUS
<1> HIDE DEF run
<1>4. Runs(run, b, bytes)
  BY <1>2, <1>3 DEF Runs
<1> QED BY <1>4

\* They are those of the closed form: a first one that differs would differ from what
\* its turn makes of the one before.
LEMMA RunsAgree ==
  ASSUME NEW b, BufferOK(b), NEW bytes \in Seq(Bytes), NEW run, Runs(run, b, bytes)
  PROVE  run[Len(bytes)] = After(b, bytes, Len(bytes))
<1>1. Len(bytes) \in Nat
  BY LenProperties
<1>2. run[0] = After(b, bytes, 0)
  <2>1. 0 \in 0 .. Len(bytes)
    BY <1>1
  <2> QED BY <2>1, AfterSteps DEF Runs
<1>3. ASSUME NEW k \in 1 .. Len(bytes), run[k - 1] = After(b, bytes, k - 1)
      PROVE  run[k] = After(b, bytes, k)
  <2>1. k \in 0 .. Len(bytes) /\ k # 0
    BY <1>1
  <2>2. run[k] = fullFillOne(run[k - 1], bytes[k])
    BY <2>1 DEF Runs
  <2> QED BY <1>3, <2>2, AfterSteps
<1>4. \A k \in 0 .. Len(bytes) : run[k] = After(b, bytes, k)
  <2> DEFINE Wrong == {k \in 0 .. Len(bytes) : run[k] # After(b, bytes, k)}
  <2>1. SUFFICES ASSUME Wrong # {} PROVE FALSE
    OBVIOUS
  <2>2. PICK k \in Wrong : \A j \in Wrong : ~(<<j, k>> \in OpToRel(<, Nat))
    <3>1. Wrong \in SUBSET Nat
      BY <1>1
    <3> HIDE DEF Wrong
    <3> QED BY <2>1, <3>1, NatLessThanWellFounded, WFMin
  <2>3. k # 0 /\ k \in 0 .. Len(bytes) /\ run[k] # After(b, bytes, k)
    BY <1>2
  <2>4. k \in 1 .. Len(bytes) /\ k - 1 \in 0 .. Len(bytes) /\ k - 1 \in Nat /\ k \in Nat
    BY <1>1, <2>3
  <2>5. k - 1 \notin Wrong
    <3>1. <<k - 1, k>> \in OpToRel(<, Nat)
      BY <2>4 DEF OpToRel
    <3> HIDE DEF Wrong
    <3> QED BY <2>2, <3>1
  <2>6. run[k - 1] = After(b, bytes, k - 1)
    BY <2>4, <2>5
  <2> QED BY <1>3, <2>3, <2>4, <2>6
<1> QED BY <1>1, <1>4

\* The recursive function of FillLoop has such states: it is chosen among them.
LEMMA FillLoopRuns ==
  ASSUME NEW b, BufferOK(b), NEW bytes \in Seq(Bytes)
  PROVE  \E run : /\ Runs(run, b, bytes)
                  /\ FillLoop(b, bytes) =
                       [frames |-> run[Len(bytes)].frames,
                        buffer |-> [length |-> run[Len(bytes)].length,
                                    content |-> run[Len(bytes)].content]]
<1> DEFINE run == CHOOSE loop : loop = [k \in 0 .. Len(bytes) |->
                    IF k = 0 THEN [length |-> b.length, content |-> b.content, frames |-> <<>>]
                    ELSE fullFillOne(loop[k - 1], bytes[k])]
<1>1. Runs(run, b, bytes)
  <2>1. \E loop : Runs(loop, b, bytes)
    BY LoopRuns
  <2>2. run = CHOOSE loop : Runs(loop, b, bytes)
    BY DEF Runs
  <2> HIDE DEF run
  <2> QED BY <2>1, <2>2, Zenon
<1>2. FillLoop(b, bytes) =
        [frames |-> run[Len(bytes)].frames,
         buffer |-> [length |-> run[Len(bytes)].length, content |-> run[Len(bytes)].content]]
  BY Zenon DEF FillLoop
<1> HIDE DEF run
<1> QED BY <1>1, <1>2

\* However many bytes come and wherever they are cut: the closed form of tryFullFill
\* hands out the frames and keeps the bytes that its loop does, byte by byte.
THEOREM FillsByLoop ==
  ASSUME NEW b, BufferOK(b), NEW bytes \in Seq(Bytes)
  PROVE  tryFullFill(b, bytes) = FillLoop(b, bytes)
<1> DEFINE start == b.length \o b.content
<1>1. PICK run : /\ Runs(run, b, bytes)
                 /\ FillLoop(b, bytes) =
                      [frames |-> run[Len(bytes)].frames,
                       buffer |-> [length |-> run[Len(bytes)].length,
                                   content |-> run[Len(bytes)].content]]
  BY FillLoopRuns
<1>2. Len(bytes) \in Nat
  BY LenProperties
<1>7. run[Len(bytes)] = LoopAt(start \o bytes)
  <2>1. SubSeq(bytes, 1, Len(bytes)) = bytes
    BY <1>2, SubSeqFull
  <2> QED BY <1>1, <2>1, RunsAgree DEF After
<1>8. tryFullFill(b, bytes) = Filled(start \o bytes, Len(start \o bytes) \div FrameLen)
  BY DEF tryFullFill, start
<1> DEFINE filled == Filled(start \o bytes, Len(start \o bytes) \div FrameLen)
<1>9. filled = [frames |-> filled.frames, buffer |-> filled.buffer]
      /\ filled.buffer = [length |-> filled.buffer.length, content |-> filled.buffer.content]
  BY DEF Filled, Partly
<1>10. LoopAt(start \o bytes) = [length |-> filled.buffer.length,
                                content |-> filled.buffer.content, frames |-> filled.frames]
  BY DEF LoopAt
<1> HIDE DEF filled
<1>11. /\ run[Len(bytes)].frames = filled.frames
       /\ run[Len(bytes)].length = filled.buffer.length
       /\ run[Len(bytes)].content = filled.buffer.content
  BY <1>7, <1>10
<1>12. FillLoop(b, bytes) = filled
  BY <1>1, <1>9, <1>11
<1> QED BY <1>8, <1>12 DEF filled

-----------------------------------------------------------------------------
(* The inductive invariant *)

TasksOK == listed \subseteq TaskIds /\ running \subseteq TaskIds

HandlersOK ==
  /\ phase \in [Clients -> Phases]
  /\ call \in [Clients -> CmdMsg \cup {NoCall}]
  /\ \A c \in Clients : phase[c] = "idle" <=> call[c] = NoCall
  /\ got \in [Clients -> Seq(Bytes)]
  /\ lock \in Clients \cup {NoClient}

BytesOK == toMgr \in Seq(Bytes) /\ toHttp \in Seq(Bytes) /\ BufferOK(buffer)

\* Who has the mutex, and who has read something.
HolderInv ==
  \A c \in Clients :
    /\ phase[c] \in {"locked", "reading"} => lock = c
    /\ phase[c] # "reading" => got[c] = <<>>

\* The bytes of the request that the command thread has not handled yet.
Unread == (buffer.length \o buffer.content) \o toMgr

NoAnswerYet == toHttp = <<>> /\ \A c \in Clients : got[c] = <<>>

Asking(c) == phase[c] = "reading" /\ Unread = make(call[c], c)

Answered(c) ==
  /\ phase[c] = "reading"
  /\ toMgr = <<>> /\ buffer = NoBuffer
  /\ toHttp # <<>>
  /\ \E st \in Statuses : got[c] \o toHttp = make([status |-> st], c)

\* Either a handler is reading its answer, or there is no answer and, while the task
\* manager lives, the socket holds one request or nothing.
SocketInv ==
  \/ \E c \in Clients : Answered(c)
  \/ /\ NoAnswerYet
     /\ mgr = "up" => \/ Unread = <<>> /\ \A c \in Clients : phase[c] # "reading"
                      \/ \E c \in Clients : Asking(c)
     /\ mgr # "up" => buffer = NoBuffer

IndInv ==
  /\ TasksOK /\ HandlersOK /\ BytesOK
  /\ mgr \in {"up", "dead"}
  /\ HolderInv
  /\ SocketInv

\* Two handlers never read at the same time.
LEMMA OneReader ==
  ASSUME HolderInv, NEW c \in Clients, NEW d \in Clients,
         phase[c] \in {"locked", "reading"}, phase[d] = "reading"
  PROVE  c = d
BY DEF HolderInv

\* What a command leads to are tasks and a status.
LEMMA OutcomesType ==
  ASSUME NEW l \in SUBSET TaskIds, NEW r \in SUBSET TaskIds, NEW msg \in CmdMsg,
         NEW o \in Outcomes(l, r, msg)
  PROVE  o.listed \subseteq TaskIds /\ o.running \subseteq TaskIds /\ o.status \in Statuses
<1> HIDE CommandsAssumption
<1> USE DEF Outcome, Statuses
<1>1. ASSUME NEW t \in TaskIds, o \in startTask(l, r, t)
      PROVE  o.listed \subseteq TaskIds /\ o.running \subseteq TaskIds /\ o.status \in Statuses
  BY <1>1 DEF startTask
<1>2. ASSUME o \in createTask(l, r)
      PROVE  o.listed \subseteq TaskIds /\ o.running \subseteq TaskIds /\ o.status \in Statuses
  BY <1>2 DEF createTask
<1>3. ASSUME NEW t \in TaskIds,
             o \in stopTask(l, r, t) \cup deleteTask(l, r, t) \cup getTask(l, r, t)
                   \cup ioCommand(l, r, t)
      PROVE  o.listed \subseteq TaskIds /\ o.running \subseteq TaskIds /\ o.status \in Statuses
  BY <1>3 DEF stopTask, deleteTask, getTask, ioCommand
<1>4. msg.taskId \in TaskIds
  BY DEF CmdMsg
<1>5. \/ o \in {Outcome(l, r, "FAILED"), Outcome(l, r, "OK")}
      \/ o \in createTask(l, r)
      \/ o \in startTask(l, r, msg.taskId)
      \/ o \in stopTask(l, r, msg.taskId) \cup deleteTask(l, r, msg.taskId)
               \cup getTask(l, r, msg.taskId) \cup ioCommand(l, r, msg.taskId)
  BY DEF Outcomes
<1> QED BY <1>1, <1>2, <1>3, <1>4, <1>5

\* While mutex holder and socket stay as they are the invariant of the socket does.
LEMMA SocketFrame ==
  ASSUME SocketInv, UNCHANGED <<mgr, got, sockVars>>,
         \A d \in Clients : (phase'[d] = "reading") <=> (phase[d] = "reading"),
         \A d \in Clients : phase[d] = "reading" => call'[d] = call[d]
  PROVE  SocketInv'
<1>1. UNCHANGED <<toMgr, toHttp, buffer, Unread, NoAnswerYet>>
  BY DEF sockVars, Unread, NoAnswerYet
<1>2. \A d \in Clients : Asking(d)' <=> Asking(d)
  BY <1>1 DEF Asking
<1>3. \A d \in Clients : Answered(d)' <=> Answered(d)
  BY <1>1 DEF Answered
<1> QED BY <1>1, <1>2, <1>3 DEF SocketInv

-----------------------------------------------------------------------------
(* The effect of the two reads *)

\* A read of the command thread takes part of the one request there is, or the rest of
\* it: then it is handled, and answered to the handler that sent it.
LEMMA OnCmdSockReadEffect ==
  ASSUME IndInv, NEW n \in 1 .. Len(toMgr), OnCmdSockRead(n)
  PROVE  \E c \in Clients :
           /\ Asking(c)
           /\ NoAnswerYet
           /\ toMgr' \in Seq(Bytes) /\ BufferOK(buffer')
           /\ UNCHANGED <<mgr, httpVars>>
           /\ \/ Unread' = make(call[c], c) /\ UNCHANGED <<taskVars, toHttp>>
              \/ /\ toMgr' = <<>> /\ buffer' = NoBuffer
                 /\ \E o \in Outcomes(listed, running, call[c]) :
                      /\ listed' = o.listed /\ running' = o.running
                      /\ toHttp' = make([status |-> o.status], c)
<1> DEFINE first == SubSeq(toMgr, 1, n)
           rest  == SubSeq(toMgr, n + 1, Len(toMgr))
           all   == buffer.length \o buffer.content \o first
<1>1. mgr = "up" /\ toMgr # <<>> /\ toMgr \in Seq(Bytes) /\ n \in 0 .. Len(toMgr)
  BY EmptySeq DEF OnCmdSockRead, IndInv, BytesOK
<1>2. NoAnswerYet /\ Unread # <<>>
  BY <1>1, ConcatProperties, ConcatEqualIffEmpty DEF IndInv, SocketInv, Answered, Unread, BytesOK, BufferOK
<1>3. PICK c \in Clients : Asking(c)
  BY <1>1, <1>2 DEF IndInv, SocketInv, Answered
<1>4. call[c] \in CmdMsg
  BY <1>3 DEF Asking, IndInv, HandlersOK
<1>5. first \in Seq(Bytes) /\ rest \in Seq(Bytes) /\ first \o rest = toMgr
  BY <1>1, Split
<1> HIDE DEF first, rest
<1>6. buffer.length \o buffer.content \in Seq(Bytes)
  BY ConcatProperties DEF IndInv, BytesOK, BufferOK
<1>7. /\ all \in Seq(Bytes) /\ Len(all) \in Nat /\ Len(rest) \in Nat
      /\ all \o rest = make(call[c], c)
      /\ Len(all) + Len(rest) = Len(make(call[c], c))
      /\ Len(rest) = 0 <=> rest = <<>>
      /\ rest = <<>> => all = make(call[c], c)
  <2> DEFINE p == buffer.length \o buffer.content
             whole == make(call[c], c)
  <2>1. p \in Seq(Bytes) /\ whole = p \o (first \o rest) /\ all = p \o first
    BY <1>3, <1>5, <1>6 DEF Asking, Unread
  <2> HIDE DEF p, all, whole
  <2>3. all \in Seq(Bytes)
    BY <1>5, <2>1, ConcatProperties
  <2>4. Len(all) \in Nat /\ Len(rest) \in Nat
    BY <1>5, <2>1, <2>3, LenProperties
  <2>5. all \o rest = whole
    <3>1. p \in Seq(Bytes) /\ first \in Seq(Bytes) /\ rest \in Seq(Bytes)
      BY <1>5, <2>1
    <3>2. (p \o first) \o rest = p \o (first \o rest)
      BY <3>1, ConcatAssociative
    <3> QED BY <1>5, <2>1, <3>2
  <2>6. Len(all) + Len(rest) = Len(whole)
    BY <1>5, <2>1, <2>3, <2>5, ConcatProperties
  <2>7. Len(rest) = 0 <=> rest = <<>>
    BY <1>5, <2>1, EmptySeq
  <2>8. rest = <<>> => all = whole
    BY <2>3, <2>5, ConcatEmptySeq
  <2> QED BY <2>3, <2>4, <2>5, <2>6, <2>7, <2>8 DEF whole
<1>8. Len(make(call[c], c)) = FrameLen
  BY <1>4, MakeProperties DEF Msgs
<1>9. toMgr' = rest /\ UNCHANGED httpVars
  BY DEF OnCmdSockRead, rest
<1>10. BufferOK(buffer)
  BY DEF IndInv, BytesOK
<1>11. CASE Len(all) < FrameLen
  <2>1. tryFullFill(buffer, first) = [frames |-> <<>>, buffer |-> Partly(all)]
    BY <1>5, <1>10, <1>11, FillIncomplete
  <2>2. BufferOK(Partly(all)) /\ Partly(all).length \o Partly(all).content = all
    BY <1>7, <1>11, PartlyProperties
  <2> HIDE DEF all
  <2>3. buffer' = Partly(all) /\ UNCHANGED <<taskVars, mgr, toHttp>>
    BY <2>1 DEF OnCmdSockRead, first
  <2>4. Unread' = make(call[c], c)
    BY <1>7, <1>9, <2>2, <2>3 DEF Unread
  <2> QED BY <1>2, <1>3, <1>5, <1>9, <2>2, <2>3, <2>4
<1>12. CASE Len(all) = FrameLen
  <2>1. tryFullFill(buffer, first) = [frames |-> <<all>>, buffer |-> NoBuffer]
    BY <1>5, <1>10, <1>12, FillComplete
  <2>2. rest = <<>>
    BY <1>7, <1>8, <1>12
  <2>3. all = make(call[c], c)
    BY <1>7, <2>2
  <2>4. Intact(all) /\ all[1].msg = call[c] /\ all[1].for = c
    BY <1>4, <2>3, MakeIntact DEF Msgs
  <2> HIDE DEF all
  <2>5. buffer' = NoBuffer /\ handleCmdMsg(all)
    <3> DEFINE b == tryFullFill(buffer, SubSeq(toMgr, 1, n))
    <3>1. b.frames = <<all>> /\ b.buffer = NoBuffer
      BY <2>1 DEF first
    <3> HIDE DEF b
    <3>2. b.frames # <<>> /\ Len(b.frames) = 1 /\ b.frames[1] = all
      BY <3>1
    <3>3. /\ buffer' = b.buffer
          /\ \/ b.frames = <<>>
             \/ Intact(b.frames[1]) /\ handleCmdMsg(b.frames[1])
             \/ Len(b.frames) > 1 \/ ~Intact(b.frames[1])
      BY Zenon DEF OnCmdSockRead, b
    <3> QED BY <2>4, <3>1, <3>2, <3>3
  <2>6. BufferOK(NoBuffer)
    BY FrameLenType, EmptySeq DEF BufferOK, NoBuffer
  <2>7. PICK o \in Outcomes(listed, running, call[c]) :
          /\ listed' = o.listed /\ running' = o.running
          /\ toHttp' = toHttp \o make([status |-> o.status], c)
          /\ UNCHANGED mgr
    BY <2>4, <2>5 DEF handleCmdMsg
  <2>8. o.status \in Statuses
    BY <1>4, OutcomesType DEF IndInv, TasksOK
  <2>9. toHttp' = make([status |-> o.status], c)
    BY <1>2, <2>7, <2>8, MakeProperties, ConcatEmptySeq DEF NoAnswerYet, Msgs
  <2> QED BY <1>2, <1>3, <1>5, <1>9, <2>2, <2>5, <2>6, <2>7, <2>9
<1> QED
  <2>1. Len(all) < FrameLen \/ Len(all) = FrameLen
    <3> HIDE DEF all
    <3> QED BY <1>7, <1>8, FrameLenType
  <2> QED BY <1>11, <1>12, <2>1

\* A read of a handler takes part of its own answer, or the rest of it, and then the
\* socket is empty.
LEMMA ReadNEffect ==
  ASSUME IndInv, NEW c \in Clients, NEW n \in 1 .. FrameLen, ReadN(c, n)
  PROVE  /\ Answered(c)
         /\ toHttp' \in Seq(Bytes)
         /\ UNCHANGED <<taskVars, mgr, toMgr, buffer>>
         /\ \/ Leave(c) /\ toHttp' = <<>>
            \/ /\ got' = [got EXCEPT ![c] = got'[c]] /\ UNCHANGED <<phase, call, lock>>
               /\ got'[c] \in Seq(Bytes)
               /\ toHttp' # <<>>
               /\ got'[c] \o toHttp' = got[c] \o toHttp
<1> DEFINE first == SubSeq(toHttp, 1, n)
           rest  == SubSeq(toHttp, n + 1, Len(toHttp))
           bytes == got[c] \o first
<1>1. /\ phase[c] = "reading" /\ toHttp \in Seq(Bytes) /\ got[c] \in Seq(Bytes)
      /\ toHttp # <<>> /\ n \in 0 .. Len(toHttp)
  BY EmptySeq, LenProperties, FrameLenType DEF ReadN, IndInv, BytesOK, HandlersOK
<1>2. Answered(c)
  <2>1. PICK d \in Clients : Answered(d)
    BY <1>1 DEF IndInv, SocketInv, NoAnswerYet
  <2> QED BY <1>1, <2>1, OneReader DEF IndInv, Answered
<1>3. /\ rest \in Seq(Bytes) /\ Len(rest) \in Nat
      /\ bytes \in Seq(Bytes) /\ Len(bytes) \in Nat
      /\ bytes \o rest = got[c] \o toHttp
      /\ Len(bytes) + Len(rest) = Len(got[c] \o toHttp)
      /\ Len(rest) = 0 <=> rest = <<>>
  <2>1. first \in Seq(Bytes) /\ rest \in Seq(Bytes) /\ first \o rest = toHttp
    BY <1>1, Split
  <2> DEFINE p == got[c]
             whole == got[c] \o toHttp
  <2>2. p \in Seq(Bytes) /\ whole = p \o (first \o rest) /\ bytes = p \o first
    BY <1>1, <2>1
  <2> HIDE DEF first, rest, p, bytes, whole
  <2>3. bytes \in Seq(Bytes)
    BY <2>1, <2>2, ConcatProperties
  <2>4. Len(bytes) \in Nat /\ Len(rest) \in Nat
    BY <2>1, <2>2, <2>3, LenProperties
  <2>5. bytes \o rest = whole
    <3>1. p \in Seq(Bytes) /\ first \in Seq(Bytes) /\ rest \in Seq(Bytes)
      BY <2>1, <2>2
    <3>2. (p \o first) \o rest = p \o (first \o rest)
      BY <3>1, ConcatAssociative
    <3> QED BY <2>1, <2>2, <3>2
  <2>6. Len(bytes) + Len(rest) = Len(whole)
    BY <2>1, <2>2, <2>3, <2>5, ConcatProperties
  <2>7. Len(rest) = 0 <=> rest = <<>>
    BY <2>1, <2>2, EmptySeq
  <2> QED BY <2>1, <2>3, <2>4, <2>5, <2>6, <2>7 DEF whole
<1>4. Len(got[c] \o toHttp) = FrameLen
  BY <1>2, MakeProperties DEF Msgs, Answered
<1>6. toHttp' = rest /\ UNCHANGED <<taskVars, mgr, toMgr, buffer>>
  BY DEF ReadN
<1> HIDE DEF rest
<1>7. CASE Len(bytes) = FrameLen
  <2>1. rest = <<>>
    BY <1>3, <1>4, <1>7
  <2>2. Leave(c)
    BY <1>7 DEF ReadN
  <2> QED BY <1>2, <1>3, <1>6, <2>1, <2>2
<1>8. CASE Len(bytes) # FrameLen
  <2>1. got' = [got EXCEPT ![c] = bytes] /\ UNCHANGED <<phase, call, lock>>
    BY <1>8 DEF ReadN
  <2>2. got'[c] = bytes
    BY <2>1 DEF IndInv, HandlersOK
  <2>3. rest # <<>>
    <3> HIDE DEF bytes
    <3> QED BY <1>3, <1>4, <1>8
  <2> HIDE DEF bytes
  <2> QED BY <1>2, <1>3, <1>4, <1>6, <2>1, <2>2, <2>3
<1> QED BY <1>7, <1>8

-----------------------------------------------------------------------------
(* Every step keeps the invariant *)

\* At the start.
LEMMA InitInd == Init => IndInv
<1> SUFFICES ASSUME Init PROVE IndInv
  OBVIOUS
<1>1. <<>> \in Seq(Bytes) /\ Len(<<>>) = 0 /\ <<>> \o <<>> = <<>>
  BY EmptySeq, ConcatEmptySeq
<1>2. BytesOK /\ Unread = <<>>
  BY <1>1, FrameLenType DEF Init, BytesOK, BufferOK, NoBuffer, Unread
<1>3. HandlersOK /\ TasksOK /\ HolderInv
  BY <1>1 DEF Init, HandlersOK, TasksOK, HolderInv, Phases
<1>4. SocketInv
  BY <1>2 DEF Init, SocketInv, NoAnswerYet
<1> QED BY <1>2, <1>3, <1>4 DEF IndInv, Init

\* A handler that gives up the mutex, if it had it.
LEMMA LeaveHandlers ==
  ASSUME IndInv, NEW c \in Clients, phase[c] \in {"locked", "reading"}, Leave(c)
  PROVE  HandlersOK' /\ HolderInv'
<1>1. HandlersOK'
  BY EmptySeq DEF IndInv, HandlersOK, Leave, Phases
<1>2. \A d \in Clients : d # c => phase[d] \notin {"locked", "reading"}
  BY DEF IndInv, HolderInv
<1>3. HolderInv'
  BY <1>2 DEF IndInv, HandlersOK, HolderInv, Leave
<1> QED BY <1>1, <1>3

\* The arrival of a request.
LEMMA RequestInd == ASSUME IndInv, NEW c \in Clients, Request(c) PROVE IndInv'
<1>1. HandlersOK' /\ HolderInv'
  BY DEF Request, IndInv, HandlersOK, HolderInv, Phases
<1>2. SocketInv'
  <2>1. /\ \A d \in Clients : (phase'[d] = "reading") <=> (phase[d] = "reading")
        /\ \A d \in Clients : phase[d] = "reading" => call'[d] = call[d]
    BY DEF Request, IndInv, HandlersOK
  <2> QED BY <2>1, SocketFrame DEF Request, IndInv
<1> QED BY <1>1, <1>2 DEF Request, IndInv, TasksOK, BytesOK, taskVars, sockVars

\* The mutex is taken.
LEMMA LockInd == ASSUME IndInv, NEW c \in Clients, Lock(c) PROVE IndInv'
<1>1. HandlersOK' /\ HolderInv'
  BY DEF Lock, IndInv, HandlersOK, HolderInv, Phases
<1>2. SocketInv'
  <2>1. \A d \in Clients : (phase'[d] = "reading") <=> (phase[d] = "reading")
    BY DEF Lock, IndInv, HandlersOK
  <2> QED BY <2>1, SocketFrame DEF Lock, IndInv
<1> QED BY <1>1, <1>2 DEF Lock, IndInv, TasksOK, BytesOK, taskVars, sockVars

\* The request is written: the socket was empty, now it holds this one frame.
LEMMA WriteOneInd == ASSUME IndInv, NEW c \in Clients, WriteOne(c) PROVE IndInv'
<1>1. phase[c] = "locked" /\ UNCHANGED <<taskVars, mgr, toHttp, buffer>>
  BY DEF WriteOne
<1>2. \A d \in Clients : phase[d] # "reading"
  BY <1>1, OneReader DEF IndInv
<1>3. NoAnswerYet
  BY <1>2 DEF IndInv, SocketInv, Answered
<1>4. CASE mgr = "up"
  <2>1. /\ toMgr' = toMgr \o make(call[c], c)
        /\ phase' = [phase EXCEPT ![c] = "reading"]
        /\ UNCHANGED <<call, got, lock>>
    BY <1>4 DEF WriteOne
  <2>2. HandlersOK' /\ HolderInv'
    BY <1>1, <2>1 DEF IndInv, HandlersOK, HolderInv, Phases
  <2>3. call[c] \in CmdMsg
    BY <1>1 DEF IndInv, HandlersOK
  <2>4. make(call[c], c) \in Seq(Bytes)
    BY <2>3, MakeProperties DEF Msgs
  <2>5. toMgr' \in Seq(Bytes)
    BY <2>1, <2>4, ConcatProperties DEF IndInv, BytesOK
  <2>6. Unread = <<>>
    BY <1>2, <1>4 DEF IndInv, SocketInv, Answered, Asking
  <2>7. buffer.length \o buffer.content = <<>> /\ toMgr = <<>>
    BY <2>6, ConcatProperties, ConcatEqualIffEmpty DEF IndInv, BytesOK, BufferOK, Unread
  <2>8. Unread' = make(call[c], c)
    BY <1>1, <2>1, <2>4, <2>7, ConcatEmptySeq DEF Unread
  <2>9. Asking(c)'
    BY <2>1, <2>8 DEF Asking, IndInv, HandlersOK
  <2>10. SocketInv'
    BY <1>1, <1>3, <1>4, <2>1, <2>9 DEF SocketInv, NoAnswerYet
  <2> QED BY <1>1, <2>2, <2>5, <2>10 DEF IndInv, TasksOK, BytesOK, taskVars
<1>5. CASE mgr # "up"
  <2>1. Leave(c) /\ UNCHANGED toMgr
    BY <1>5 DEF WriteOne
  <2>2. HandlersOK' /\ HolderInv'
    BY <1>1, <2>1, LeaveHandlers
  <2>3. got' = got
    BY <1>3, <2>1 DEF Leave, NoAnswerYet, IndInv, HandlersOK
  <2>4. SocketInv'
    <3>1. /\ \A d \in Clients : (phase'[d] = "reading") <=> (phase[d] = "reading")
          /\ \A d \in Clients : phase[d] = "reading" => call'[d] = call[d]
      BY <1>1, <1>2, <2>1 DEF Leave, IndInv, HandlersOK
    <3> QED BY <1>1, <2>1, <2>3, <3>1, SocketFrame DEF IndInv, sockVars
  <2> QED BY <1>1, <2>1, <2>2, <2>4 DEF IndInv, TasksOK, BytesOK, taskVars
<1> QED BY <1>4, <1>5

\* The answer is read, a part of it or the rest.
LEMMA ReadNInd ==
  ASSUME IndInv, NEW c \in Clients, NEW n \in 1 .. FrameLen, ReadN(c, n)
  PROVE  IndInv'
<1>1. /\ Answered(c)
      /\ toHttp' \in Seq(Bytes)
      /\ UNCHANGED <<taskVars, mgr, toMgr, buffer>>
  BY ReadNEffect
<1>2. phase[c] = "reading" /\ toMgr = <<>> /\ buffer = NoBuffer
  BY <1>1 DEF Answered
<1>3. TasksOK' /\ BytesOK' /\ mgr' \in {"up", "dead"}
  BY <1>1 DEF IndInv, TasksOK, BytesOK, taskVars
<1>4. CASE Leave(c) /\ toHttp' = <<>>
  <2>1. HandlersOK' /\ HolderInv'
    BY <1>2, <1>4, LeaveHandlers
  <2>2. \A d \in Clients : phase'[d] # "reading"
    BY <1>2, <1>4, OneReader DEF Leave, IndInv, HandlersOK
  <2>3. NoAnswerYet'
    BY <1>4, <2>1, <2>2 DEF HolderInv, NoAnswerYet
  <2>4. Unread' = <<>>
    BY <1>1, <1>2, ConcatEmptySeq, EmptySeq DEF Unread, NoBuffer
  <2>5. SocketInv'
    BY <1>1, <1>2, <2>2, <2>3, <2>4 DEF SocketInv
  <2> QED BY <1>3, <2>1, <2>5 DEF IndInv
<1>5. CASE /\ got' = [got EXCEPT ![c] = got'[c]] /\ UNCHANGED <<phase, call, lock>>
           /\ got'[c] \in Seq(Bytes)
           /\ toHttp' # <<>>
           /\ got'[c] \o toHttp' = got[c] \o toHttp
  <2>1. HandlersOK'
    BY <1>5 DEF IndInv, HandlersOK
  <2>2. HolderInv'
    BY <1>2, <1>5 DEF IndInv, HandlersOK, HolderInv
  <2>3. Answered(c)'
    BY <1>1, <1>2, <1>5 DEF Answered
  <2>4. SocketInv'
    BY <2>3 DEF SocketInv
  <2> QED BY <1>3, <2>1, <2>2, <2>4 DEF IndInv
<1> QED BY <1>4, <1>5, ReadNEffect

\* The reset of a request that was never read.
LEMMA ReadResetInd == ASSUME IndInv, NEW c \in Clients, ReadReset(c) PROVE IndInv'
<1>1. /\ phase[c] = "reading" /\ mgr # "up" /\ toMgr # <<>> /\ Leave(c) /\ toMgr' = <<>>
      /\ UNCHANGED <<taskVars, mgr, toHttp, buffer>>
  BY DEF ReadReset
<1>2. NoAnswerYet /\ buffer = NoBuffer
  BY <1>1 DEF IndInv, SocketInv, Answered
<1>3. HandlersOK' /\ HolderInv'
  BY <1>1, LeaveHandlers
<1>4. NoAnswerYet'
  BY <1>1, <1>2 DEF NoAnswerYet, Leave, IndInv, HandlersOK
<1>5. SocketInv'
  BY <1>1, <1>2, <1>4 DEF SocketInv
<1> QED BY <1>1, <1>3, <1>5, EmptySeq DEF IndInv, TasksOK, BytesOK, taskVars

\* The request is read, a part of it or the rest.
LEMMA OnCmdSockReadInd ==
  ASSUME IndInv, NEW n \in 1 .. Len(toMgr), OnCmdSockRead(n)
  PROVE  IndInv'
<1>1. PICK c \in Clients :
           /\ Asking(c)
           /\ NoAnswerYet
           /\ toMgr' \in Seq(Bytes) /\ BufferOK(buffer')
           /\ UNCHANGED <<mgr, httpVars>>
           /\ \/ Unread' = make(call[c], c) /\ UNCHANGED <<taskVars, toHttp>>
              \/ /\ toMgr' = <<>> /\ buffer' = NoBuffer
                 /\ \E o \in Outcomes(listed, running, call[c]) :
                      /\ listed' = o.listed /\ running' = o.running
                      /\ toHttp' = make([status |-> o.status], c)
  BY OnCmdSockReadEffect
<1>2. mgr = "up" /\ mgr' = "up"
  BY <1>1 DEF OnCmdSockRead
<1>3. HandlersOK' /\ HolderInv'
  BY <1>1 DEF IndInv, HandlersOK, HolderInv, httpVars
<1>4. call[c] \in CmdMsg
  BY <1>1 DEF Asking, IndInv, HandlersOK
<1>5. CASE Unread' = make(call[c], c) /\ UNCHANGED <<taskVars, toHttp>>
  <2>1. Asking(c)'
    BY <1>1, <1>5 DEF Asking, httpVars
  <2>2. SocketInv'
    BY <1>1, <1>2, <1>5, <2>1 DEF SocketInv, NoAnswerYet, httpVars
  <2> QED BY <1>1, <1>2, <1>3, <1>5, <2>2 DEF IndInv, TasksOK, BytesOK, taskVars
<1>6. CASE /\ toMgr' = <<>> /\ buffer' = NoBuffer
           /\ \E o \in Outcomes(listed, running, call[c]) :
                /\ listed' = o.listed /\ running' = o.running
                /\ toHttp' = make([status |-> o.status], c)
  <2>1. PICK o \in Outcomes(listed, running, call[c]) :
                /\ listed' = o.listed /\ running' = o.running
                /\ toHttp' = make([status |-> o.status], c)
    BY <1>6
  <2>2. o.status \in Statuses /\ TasksOK'
    BY <1>4, <2>1, OutcomesType DEF IndInv, TasksOK
  <2>3. toHttp' \in Seq(Bytes) /\ Len(toHttp') = FrameLen
    BY <2>1, <2>2, MakeProperties DEF Msgs
  <2>4. toHttp' # <<>>
    BY <2>3, FrameLenType, EmptySeq
  <2>5. got'[c] = <<>>
    BY <1>1 DEF NoAnswerYet, httpVars
  <2>6. got'[c] \o toHttp' = make([status |-> o.status], c)
    BY <2>1, <2>3, <2>5, ConcatEmptySeq
  <2>7. Answered(c)'
    BY <1>1, <1>6, <2>2, <2>4, <2>6 DEF Asking, Answered, httpVars
  <2>8. SocketInv'
    BY <2>7 DEF SocketInv
  <2> QED BY <1>1, <1>2, <1>3, <2>2, <2>3, <2>8 DEF IndInv, BytesOK
<1> QED BY <1>1, <1>5, <1>6

\* What goes on behind the commands.
LEMMA BackgroundInd == ASSUME IndInv, Background PROVE IndInv'
<1>1. UNCHANGED <<mgr, httpVars, sockVars>>
  BY DEF Background
<1>2. TasksOK'
  BY DEF IndInv, Background, TasksOK, startTask, Outcome
<1>3. SocketInv'
  BY <1>1, SocketFrame DEF IndInv, httpVars
<1> QED BY <1>1, <1>2, <1>3 DEF IndInv, HandlersOK, BytesOK, HolderInv, httpVars, sockVars

\* The death of the task manager.
LEMMA CrashInd == ASSUME IndInv, Crash PROVE IndInv'
<1>1. /\ mgr' = "dead" /\ buffer' = NoBuffer
      /\ UNCHANGED <<taskVars, httpVars, toMgr, toHttp>>
  BY DEF Crash
<1>2. BytesOK'
  BY <1>1, EmptySeq, FrameLenType DEF IndInv, BytesOK, BufferOK, NoBuffer
<1>3. SocketInv'
  <2>1. ASSUME NEW c \in Clients, Answered(c) PROVE Answered(c)'
    BY <1>1, <2>1 DEF Answered, httpVars
  <2>2. NoAnswerYet => NoAnswerYet'
    BY <1>1 DEF NoAnswerYet, httpVars
  <2> QED BY <1>1, <2>1, <2>2 DEF IndInv, SocketInv
<1> QED BY <1>1, <1>2, <1>3 DEF IndInv, TasksOK, HandlersOK, HolderInv, taskVars, httpVars

\* Every step.
LEMMA NextInd == IndInv /\ [Next]_vars => IndInv'
<1> SUFFICES ASSUME IndInv, [Next]_vars PROVE IndInv'
  OBVIOUS
<1>1. CASE UNCHANGED vars
  <2>1. SocketInv'
    BY <1>1, SocketFrame DEF IndInv, vars, httpVars
  <2> QED BY <1>1, <2>1 DEF IndInv, TasksOK, HandlersOK, BytesOK, HolderInv, vars, taskVars,
             httpVars, sockVars
<1> QED BY <1>1, RequestInd, LockInd, WriteOneInd, ReadNInd, ReadResetInd, OnCmdSockReadInd,
           BackgroundInd, CrashInd DEF Next

\* It holds of every reachable state.
LEMMA Invariance == Spec => []IndInv
BY InitInd, NextInd, PTL DEF Spec

-----------------------------------------------------------------------------
(* What follows *)

\* Types: a handler without a call is idle, the buffer never holds a complete frame.
THEOREM TypeCorrect == Spec => []ChannelTypeOK
<1>1. IndInv => ChannelTypeOK
  <2> SUFFICES ASSUME IndInv PROVE ChannelTypeOK
    OBVIOUS
  <2>1. \A c \in Clients : (phase[c] = "idle") = (call[c] = NoCall)
    BY DEF IndInv, HandlersOK
  <2> QED BY <2>1 DEF IndInv, TasksOK, HandlersOK, BytesOK, BufferOK, ChannelTypeOK
<1> QED BY <1>1, Invariance, PTL

\* The command thread never gets a frame it cannot parse.
THEOREM FramesIntact == Spec => []NeverGarbled
<1>1. IndInv => NeverGarbled
  BY DEF IndInv, NeverGarbled
<1> QED BY <1>1, Invariance, PTL

\* For any number of handlers, any length of a body and any cut of the bytes, the command
\* thread completes the frames that the loop of tryFullFill completes.
THEOREM FillsCorrect == Spec => []FillsAsTheLoop
<1>1. ASSUME IndInv, NEW c \in Clients, call[c] # NoCall,
             NEW n \in 0 .. Len(toMgr \o make(call[c], c) \o make(call[c], c))
      PROVE  LET bytes == SubSeq(toMgr \o make(call[c], c) \o make(call[c], c), 1, n)
             IN  tryFullFill(buffer, bytes) = FillLoop(buffer, bytes)
  <2> DEFINE request == make(call[c], c)
             stream == toMgr \o request \o request
  <2>1. request \in Seq(Bytes)
    BY <1>1, MakeProperties DEF IndInv, HandlersOK, Msgs
  <2> HIDE DEF request
  <2>2. stream \in Seq(Bytes)
    BY <1>1, <2>1, ConcatProperties DEF IndInv, BytesOK
  <2> HIDE DEF stream
  <2>3. \A m \in 0 .. Len(stream) : SubSeq(stream, 1, m) \in Seq(Bytes)
    BY <2>2, Split
  <2>4. \A bytes \in Seq(Bytes) : tryFullFill(buffer, bytes) = FillLoop(buffer, bytes)
    BY <1>1, FillsByLoop DEF IndInv, BytesOK
  <2>5. \A m \in 0 .. Len(stream) :
          tryFullFill(buffer, SubSeq(stream, 1, m)) = FillLoop(buffer, SubSeq(stream, 1, m))
    BY <2>3, <2>4
  <2> QED BY <1>1, <2>5 DEF stream, request
<1>2. IndInv => FillsAsTheLoop
  BY <1>1 DEF FillsAsTheLoop
<1> QED BY <1>2, Invariance, PTL

\* A handler reads nothing but its own answer, from its first byte on.
THEOREM AnswersNotMixed == Spec => []ReadsOwnAnswer
<1>1. IndInv => ReadsOwnAnswer
  <2> SUFFICES ASSUME IndInv, NEW c \in Clients, NEW i \in DOMAIN got[c]
               PROVE  got[c][i].for = c /\ got[c][i].k = i
    BY DEF ReadsOwnAnswer
  <2>1. got[c] \in Seq(Bytes) /\ toHttp \in Seq(Bytes)
    BY DEF IndInv, HandlersOK, BytesOK
  <2>2. i \in 1 .. Len(got[c]) /\ got[c] # <<>>
    BY <2>1, LenProperties, EmptySeq
  <2>3. phase[c] = "reading" /\ ~NoAnswerYet
    BY <2>2 DEF IndInv, HolderInv, NoAnswerYet
  <2>4. Answered(c)
    <3>1. PICK d \in Clients : Answered(d)
      BY <2>3 DEF IndInv, SocketInv
    <3> QED BY <2>3, <3>1, OneReader DEF IndInv, Answered
  <2>5. PICK st \in Statuses : got[c] \o toHttp = make([status |-> st], c)
    BY <2>4 DEF Answered
  <2>6. /\ (got[c] \o toHttp)[i] = got[c][i]
        /\ i \in 1 .. Len(got[c] \o toHttp)
    BY <2>1, <2>2, ConcatProperties, LenProperties
  <2>7. got[c][i] = Byte([status |-> st], i, c)
    BY <2>5, <2>6, MakeProperties DEF Msgs
  <2> QED BY <2>7 DEF Byte
<1> QED BY <1>1, Invariance, PTL

\* Whoever takes the mutex finds a clean socket, and it keeps the mutex until it has
\* its answer.
THEOREM SocketClean == Spec => []SocketQuiet
<1>1. IndInv => SocketQuiet
  <2> SUFFICES ASSUME IndInv PROVE SocketQuiet
    OBVIOUS
  <2>1. \A c \in Clients : phase[c] \in {"locked", "reading"} => lock = c
    BY DEF IndInv, HolderInv
  <2>2. ASSUME mgr = "up", \A c \in Clients : phase[c] # "reading"
        PROVE  toMgr = <<>> /\ toHttp = <<>> /\ buffer = NoBuffer
    <3>1. Unread = <<>> /\ toHttp = <<>>
      BY <2>2 DEF IndInv, SocketInv, Answered, Asking, NoAnswerYet
    <3>2. buffer.length \o buffer.content = <<>> /\ toMgr = <<>>
      BY <3>1, ConcatProperties, ConcatEqualIffEmpty DEF IndInv, BytesOK, BufferOK, Unread
    <3>3. buffer.length = <<>> /\ buffer.content = <<>>
      BY <3>2, ConcatEqualIffEmpty DEF IndInv, BytesOK, BufferOK
    <3> QED BY <3>1, <3>2, <3>3 DEF IndInv, BytesOK, BufferOK, NoBuffer
  <2> QED BY <2>1, <2>2 DEF SocketQuiet
<1> QED BY <1>1, Invariance, PTL

-----------------------------------------------------------------------------
(* The channel implements the service *)

\* The status that is on its way in a frame.
LEMMA AnswerInFrame ==
  ASSUME NEW st \in Statuses, NEW c \in Clients
  PROVE  AnswerIn(make([status |-> st], c), c) = st
<1> DEFINE frame == make([status |-> st], c)
           mine  == {i \in DOMAIN frame : frame[i].for = c}
<1>1. /\ DOMAIN frame = 1 .. FrameLen
      /\ \A k \in 1 .. FrameLen : frame[k] = [msg |-> [status |-> st], k |-> k, for |-> c]
  BY MakeProperties, LenProperties DEF Msgs, Byte
<1> HIDE DEF frame
<1>2. mine = 1 .. FrameLen /\ 1 \in 1 .. FrameLen /\ FrameLen \in Nat
  BY <1>1, FrameLenType
<1>3. AnswerIn(frame, c) = frame[Min(mine)].msg.status
  BY <1>2 DEF AnswerIn
<1> HIDE DEF mine
<1>4. Min(mine) \in 1 .. FrameLen
  BY <1>2 DEF Min
<1>5. frame[Min(mine)].msg.status = st
  BY <1>1, <1>4
<1> QED BY <1>3, <1>5 DEF frame

\* Nothing is on its way to a handler none of the bytes is for.
LEMMA AnswerInNone ==
  ASSUME NEW bytes \in Seq(Bytes), NEW c, \A i \in 1 .. Len(bytes) : bytes[i].for # c
  PROVE  AnswerIn(bytes, c) = "none"
BY LenProperties DEF AnswerIn

\* Before there is an answer, and to the handlers that wait for the mutex.
LEMMA AnswerInRest ==
  ASSUME NEW st \in Statuses, NEW c \in Clients, NEW d \in Clients \ {c},
         NEW first \in Seq(Bytes), NEW rest \in Seq(Bytes),
         first \o rest = make([status |-> st], c)
  PROVE  AnswerIn(<<>> \o rest, d) = "none"
<1>1. <<>> \o rest = rest
  BY ConcatEmptySeq
<1>2. ASSUME NEW i \in 1 .. Len(rest) PROVE rest[i].for # d
  <2>1. Len(first) \in Nat /\ Len(rest) \in Nat
    BY LenProperties
  <2>2. Len(first) + i \in 1 .. Len(first) + Len(rest) /\ ~(Len(first) + i <= Len(first))
        /\ Len(first) + i - Len(first) = i
    BY <2>1
  <2>3. (first \o rest)[Len(first) + i] = rest[i]
    BY <2>2, ConcatProperties
  <2>4. Len(first) + i \in 1 .. FrameLen
    BY <2>2, ConcatProperties, MakeProperties DEF Msgs
  <2>5. rest[i] = Byte([status |-> st], Len(first) + i, c)
    BY <2>3, <2>4, MakeProperties DEF Msgs
  <2> QED BY <2>5 DEF Byte
<1> QED BY <1>1, <1>2, AnswerInNone

\* The answers as the service has them.
answers == [c \in Clients |-> AnswerFor(c)]

Nobody == [c \in Clients |-> "none"]

OnlyFor(c, st) == [d \in Clients |-> IF d = c THEN st ELSE "none"]

\* No bytes, no answers; the two sides are those of now or of the next state.
LEMMA NoAnswers ==
  ASSUME NEW g, NEW h, h = <<>>, \A c \in Clients : g[c] = <<>>
  PROVE  \A c \in Clients : AnswerIn(g[c] \o h, c) = "none"
<1>1. <<>> \o <<>> = <<>> /\ <<>> \in Seq(Bytes) /\ Len(<<>>) = 0
  BY EmptySeq, ConcatEmptySeq
<1>2. \A c \in Clients : AnswerIn(<<>>, c) = "none"
  BY DEF AnswerIn
<1> QED BY <1>1, <1>2

\* The service means by its commands what the channel does.
LEMMA SameOutcomes ==
  /\ \A l, r, msg : Service!Outcomes(l, r, msg) = Outcomes(l, r, msg)
  /\ \A l, r, t : Service!startTask(l, r, t) = startTask(l, r, t)
  /\ Service!TaskIds = TaskIds /\ Service!CmdMsg = CmdMsg
<1>1. \A l, r, t : Service!startTask(l, r, t) = startTask(l, r, t)
  BY DEF Service!startTask, startTask, Service!Outcome, Outcome
<1>2. \A l, r, t : Service!stopTask(l, r, t) = stopTask(l, r, t)
  BY DEF Service!stopTask, stopTask, Service!Outcome, Outcome
<1>3. \A l, r, t : Service!deleteTask(l, r, t) = deleteTask(l, r, t)
  BY DEF Service!deleteTask, deleteTask, Service!Outcome, Outcome
<1>4. \A l, r, t : Service!ioCommand(l, r, t) = ioCommand(l, r, t)
  BY DEF Service!ioCommand, ioCommand, Service!Outcome, Outcome
<1>5. \A l, r, t : Service!getTask(l, r, t) = getTask(l, r, t)
  BY DEF Service!getTask, getTask, Service!Outcome, Outcome
<1>6. \A l, r : Service!createTask(l, r) = createTask(l, r)
  BY DEF Service!createTask, createTask, Service!Outcome, Outcome, Service!NewId, NewId,
     Service!TaskIds, TaskIds, Service!Max, Max
<1>7. \A l, r, msg : Service!Outcomes(l, r, msg) = Outcomes(l, r, msg)
  BY <1>1, <1>2, <1>3, <1>4, <1>5, <1>6 DEF Service!Outcomes, Outcomes, Service!Outcome, Outcome
<1> QED BY <1>1, <1>7 DEF Service!TaskIds, TaskIds, Service!CmdMsg, CmdMsg, Service!CmdTypes,
           CmdTypes

\* The answer of a handler that has read a part of it.
LEMMA AnswersOf ==
  ASSUME IndInv, NEW c \in Clients, Answered(c), NEW st \in Statuses,
         got[c] \o toHttp = make([status |-> st], c)
  PROVE  answers = OnlyFor(c, st)
<1>1. \A d \in Clients \ {c} : got[d] = <<>>
  BY OneReader DEF IndInv, HolderInv, Answered
<1>2. got[c] \in Seq(Bytes) /\ toHttp \in Seq(Bytes)
  BY DEF IndInv, HandlersOK, BytesOK
<1>3. AnswerIn(got[c] \o toHttp, c) = st
  BY AnswerInFrame
<1>4. ASSUME NEW d \in Clients \ {c} PROVE AnswerIn(got[d] \o toHttp, d) = "none"
  <2>1. AnswerIn(<<>> \o toHttp, d) = "none"
    BY <1>2, AnswerInRest
  <2>2. got[d] = <<>>
    BY <1>1
  <2> QED BY <2>1, <2>2
<1> QED BY <1>3, <1>4 DEF answers, AnswerFor, OnlyFor

\* Who has an answer on its way: nobody, or the one handler that reads it.
LEMMA AnswersNow ==
  IndInv => /\ NoAnswerYet => answers = Nobody
            /\ \A c \in Clients : Answered(c) =>
                 \E st \in Statuses : answers = OnlyFor(c, st) /\ answers[c] # "none"
<1> SUFFICES ASSUME IndInv
             PROVE  /\ NoAnswerYet => answers = Nobody
                    /\ \A c \in Clients : Answered(c) =>
                         \E st \in Statuses : answers = OnlyFor(c, st) /\ answers[c] # "none"
  OBVIOUS
<1>1. NoAnswerYet => answers = Nobody
  <2>1. NoAnswerYet => \A c \in Clients : AnswerIn(got[c] \o toHttp, c) = "none"
    BY NoAnswers DEF NoAnswerYet
  <2> QED BY <2>1 DEF answers, AnswerFor, Nobody
<1>2. ASSUME NEW c \in Clients, Answered(c)
      PROVE  \E st \in Statuses : answers = OnlyFor(c, st) /\ answers[c] # "none"
  <2>1. PICK st \in Statuses : got[c] \o toHttp = make([status |-> st], c)
    BY <1>2 DEF Answered
  <2>2. answers = OnlyFor(c, st)
    BY <1>2, <2>1, AnswersOf
  <2> QED BY <2>2 DEF OnlyFor, Statuses
<1> QED BY <1>1, <1>2

\* The same of the next state, for a handler whose answer is known.
LEMMA AnswersNext ==
  ASSUME IndInv', NEW c \in Clients, NEW st \in Statuses,
         got'[c] \o toHttp' = make([status |-> st], c),
         \A d \in Clients \ {c} : got'[d] = <<>>
  PROVE  answers' = OnlyFor(c, st)
<1>1. got'[c] \in Seq(Bytes) /\ toHttp' \in Seq(Bytes)
  BY DEF IndInv, HandlersOK, BytesOK
<1>2. AnswerIn(got'[c] \o toHttp', c) = st
  BY AnswerInFrame
<1>3. ASSUME NEW d \in Clients \ {c} PROVE AnswerIn(got'[d] \o toHttp', d) = "none"
  <2>1. AnswerIn(<<>> \o toHttp', d) = "none"
    BY <1>1, AnswerInRest
  <2>2. got'[d] = <<>>
    BY <1>1
  <2> QED BY <2>1, <2>2
<1> QED BY <1>2, <1>3 DEF answers, AnswerFor, OnlyFor

\* The state the service sees.
serviceVars == <<listed, running, call, answers, mgr = "up">>

\* A call arrives.
LEMMA RequestSim == ASSUME IndInv, NEW c \in Clients, Request(c) PROVE Service!Call(c)
<1>1. call[c] = NoCall
  BY DEF Request, IndInv, HandlersOK
<1>2. UNCHANGED <<listed, running, answers, mgr>>
  BY DEF Request, taskVars, sockVars, answers, AnswerFor
<1> QED BY <1>1, <1>2, SameOutcomes DEF Request, Service!Call, answers

\* A handler that leaves without an answer is told of an error, and only when the task
\* manager is gone.
LEMMA ErrorSim ==
  ASSUME IndInv, NEW c \in Clients, phase[c] # "idle", mgr # "up", NoAnswerYet, Leave(c),
         UNCHANGED <<listed, running, mgr, toHttp>>
  PROVE  Service!Return(c)
<1>1. call[c] # NoCall
  BY DEF IndInv, HandlersOK
<1>2. answers = Nobody
  BY AnswersNow
<1>3. answers' = Nobody
  <2>1. toHttp' = <<>> /\ \A d \in Clients : got'[d] = <<>>
    BY DEF NoAnswerYet, Leave, IndInv, HandlersOK
  <2>2. \A d \in Clients : AnswerIn(got'[d] \o toHttp', d) = "none"
    BY <2>1, NoAnswers
  <2> QED BY <2>2 DEF answers, AnswerFor, Nobody
<1>4. answers' = [answers EXCEPT ![c] = "none"]
  BY <1>2, <1>3 DEF Nobody
<1> QED BY <1>1, <1>4 DEF Service!Return, Leave, answers

\* A read of a handler is nothing to the service, or the return of the call.
LEMMA ReadNSim ==
  ASSUME IndInv, IndInv', NEW c \in Clients, NEW n \in 1 .. FrameLen, ReadN(c, n)
  PROVE  Service!Return(c) \/ UNCHANGED serviceVars
<1>1. /\ Answered(c)
      /\ UNCHANGED <<taskVars, mgr, toMgr, buffer>>
  BY ReadNEffect
<1>2. PICK st \in Statuses : got[c] \o toHttp = make([status |-> st], c)
  BY <1>1 DEF Answered
<1>3. answers = OnlyFor(c, st)
  BY <1>1, <1>2, AnswersOf
<1>4. answers[c] # "none"
  BY <1>3 DEF OnlyFor, Statuses
<1>5. CASE Leave(c) /\ toHttp' = <<>>
  <2>1. \A d \in Clients : got'[d] = <<>>
    BY <1>1, <1>5, OneReader DEF Leave, IndInv, HandlersOK, HolderInv, Answered
  <2>2. answers' = Nobody
    <3>1. \A d \in Clients : AnswerIn(got'[d] \o toHttp', d) = "none"
      BY <1>5, <2>1, NoAnswers
    <3> QED BY <3>1 DEF answers, AnswerFor, Nobody
  <2>3. answers' = [answers EXCEPT ![c] = "none"]
    BY <1>3, <2>2 DEF OnlyFor, Nobody
  <2>4. call[c] # NoCall
    BY <1>1 DEF Answered, IndInv, HandlersOK
  <2>5. call' = [call EXCEPT ![c] = NoCall]
    BY <1>5 DEF Leave
  <2> QED BY <1>1, <1>4, <2>3, <2>4, <2>5 DEF Service!Return, answers, taskVars
<1>6. CASE /\ got' = [got EXCEPT ![c] = got'[c]] /\ UNCHANGED <<phase, call, lock>>
           /\ got'[c] \in Seq(Bytes)
           /\ toHttp' # <<>>
           /\ got'[c] \o toHttp' = got[c] \o toHttp
  <2>1. \A d \in Clients \ {c} : got'[d] = <<>>
    BY <1>1, <1>6, OneReader DEF IndInv, HandlersOK, HolderInv, Answered
  <2>2. answers' = OnlyFor(c, st)
    BY <1>2, <1>6, <2>1, AnswersNext
  <2> QED BY <1>1, <1>3, <1>6, <2>2 DEF serviceVars, taskVars
<1> QED BY <1>5, <1>6, ReadNEffect

\* A read of the command thread is nothing to the service, or the moment the call takes
\* effect.
LEMMA OnCmdSockReadSim ==
  ASSUME IndInv, IndInv', NEW n \in 1 .. Len(toMgr), OnCmdSockRead(n)
  PROVE  (\E c \in Clients : Service!Perform(c)) \/ UNCHANGED serviceVars
<1>1. PICK c \in Clients :
           /\ Asking(c)
           /\ NoAnswerYet
           /\ toMgr' \in Seq(Bytes) /\ BufferOK(buffer')
           /\ UNCHANGED <<mgr, httpVars>>
           /\ \/ Unread' = make(call[c], c) /\ UNCHANGED <<taskVars, toHttp>>
              \/ /\ toMgr' = <<>> /\ buffer' = NoBuffer
                 /\ \E o \in Outcomes(listed, running, call[c]) :
                      /\ listed' = o.listed /\ running' = o.running
                      /\ toHttp' = make([status |-> o.status], c)
  BY OnCmdSockReadEffect
<1>2. answers = Nobody
  BY <1>1, AnswersNow
<1>3. call[c] \in CmdMsg /\ mgr = "up"
  BY <1>1 DEF Asking, IndInv, HandlersOK, OnCmdSockRead
<1>4. CASE UNCHANGED <<taskVars, toHttp>>
  BY <1>1, <1>4 DEF serviceVars, answers, AnswerFor, taskVars, httpVars
<1>5. ASSUME NEW o \in Outcomes(listed, running, call[c]),
             listed' = o.listed, running' = o.running,
             toHttp' = make([status |-> o.status], c)
      PROVE  Service!Perform(c)
  <2>1. o.status \in Statuses
    BY <1>3, OutcomesType DEF IndInv, TasksOK
  <2>2. \A d \in Clients : got'[d] = <<>>
    BY <1>1 DEF NoAnswerYet, httpVars
  <2>3. toHttp' \in Seq(Bytes)
    BY DEF IndInv, BytesOK
  <2>4. got'[c] \o toHttp' = make([status |-> o.status], c)
    BY <1>5, <2>2, <2>3, ConcatEmptySeq
  <2>5. answers' = OnlyFor(c, o.status)
    BY <2>1, <2>2, <2>4, AnswersNext
  <2>6. answers' = [answers EXCEPT ![c] = o.status]
    BY <1>2, <2>5 DEF OnlyFor, Nobody
  <2>7. answers[c] = "none"
    BY <1>2 DEF Nobody
  <2>8. o \in Service!Outcomes(listed, running, call[c])
    BY SameOutcomes
  <2>9. call[c] # NoCall /\ UNCHANGED <<call, mgr>>
    BY <1>1, <1>3 DEF httpVars
  <2> QED BY <1>3, <1>5, <2>6, <2>7, <2>8, <2>9 DEF Service!Perform, answers
<1> QED BY <1>1, <1>4, <1>5

\* Every step is a step of the service, or none.
LEMMA ServiceStep ==
  IndInv /\ IndInv' /\ [Next]_vars => [Service!Next]_(Service!vars)
<1> SUFFICES ASSUME IndInv, IndInv', [Next]_vars PROVE [Service!Next]_(Service!vars)
  OBVIOUS
<1>0. UNCHANGED serviceVars => UNCHANGED Service!vars
  BY DEF serviceVars, Service!vars, answers
<1>1. ASSUME NEW c \in Clients, Request(c) PROVE Service!Next
  BY <1>1, RequestSim DEF Service!Next
<1>2. ASSUME NEW c \in Clients, Lock(c) PROVE UNCHANGED serviceVars
  BY <1>2 DEF Lock, serviceVars, taskVars, sockVars, answers, AnswerFor
<1>3. ASSUME NEW c \in Clients, WriteOne(c) PROVE Service!Next \/ UNCHANGED serviceVars
  <2>1. UNCHANGED <<taskVars, mgr, toHttp, buffer>> /\ phase[c] = "locked"
    BY <1>3 DEF WriteOne
  <2>2. CASE mgr = "up"
    BY <1>3, <2>1, <2>2 DEF WriteOne, serviceVars, taskVars, answers, AnswerFor
  <2>3. CASE mgr # "up"
    <3>1. NoAnswerYet
      BY <2>1, OneReader DEF IndInv, SocketInv, Answered
    <3>2. Service!Return(c)
      BY <1>3, <2>1, <2>3, <3>1, ErrorSim DEF WriteOne, taskVars
    <3> QED BY <3>2 DEF Service!Next
  <2> QED BY <2>2, <2>3
<1>4. ASSUME NEW c \in Clients, NEW n \in 1 .. FrameLen, ReadN(c, n)
      PROVE  Service!Next \/ UNCHANGED serviceVars
  BY <1>4, ReadNSim DEF Service!Next
<1>5. ASSUME NEW c \in Clients, ReadReset(c) PROVE Service!Next
  <2>1. NoAnswerYet
    BY <1>5 DEF ReadReset, IndInv, SocketInv, Answered
  <2>2. Service!Return(c)
    BY <1>5, <2>1, ErrorSim DEF ReadReset, taskVars
  <2> QED BY <2>2 DEF Service!Next
<1>6. ASSUME NEW n \in 1 .. Len(toMgr), OnCmdSockRead(n)
      PROVE  Service!Next \/ UNCHANGED serviceVars
  BY <1>6, OnCmdSockReadSim DEF Service!Next
<1>7. CASE Background
  <2>1. UNCHANGED <<call, answers, mgr>>
    BY <1>7 DEF Background, httpVars, sockVars, answers, AnswerFor
  <2>2. Service!Background
    BY <1>7, <2>1, SameOutcomes DEF Background, Service!Background, answers
  <2> QED BY <2>2 DEF Service!Next
<1>8. CASE Crash
  <2>1. UNCHANGED <<listed, running, call, answers>> /\ mgr = "up" /\ mgr' = "dead"
    BY <1>8 DEF Crash, taskVars, httpVars, answers, AnswerFor
  <2>2. Service!Crash
    BY <2>1 DEF Service!Crash, answers
  <2> QED BY <2>2 DEF Service!Next
<1>9. CASE UNCHANGED vars
  <2>1. UNCHANGED <<listed, running, call, mgr, got, toHttp>>
    BY <1>9 DEF vars, taskVars, httpVars, sockVars
  <2>2. UNCHANGED answers
    BY <2>1 DEF answers, AnswerFor
  <2>3. UNCHANGED serviceVars
    BY <2>1, <2>2 DEF serviceVars
  <2> QED BY <2>3, <1>0
<1> QED BY <1>0, <1>1, <1>2, <1>3, <1>4, <1>5, <1>6, <1>7, <1>8, <1>9 DEF Next

\* Each call takes effect exactly once, between its arrival and its answer, and the
\* answer is its own, for any number of handlers and any cuts of the bytes.
THEOREM ChannelImplements == Spec => ImplementsService
<1>1. Init => Service!Init
  <2> SUFFICES ASSUME Init PROVE Service!Init
    OBVIOUS
  <2>1. IndInv /\ NoAnswerYet
    BY InitInd DEF Init, NoAnswerYet
  <2>2. answers = Nobody
    BY <2>1, AnswersNow
  <2> QED BY <2>2 DEF Init, Service!Init, answers, Nobody
<1> QED BY <1>1, ServiceStep, Invariance, PTL DEF Spec, ImplementsService, Service!Spec
=============================================================================
