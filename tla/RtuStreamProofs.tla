-------------------------- MODULE RtuStreamProofs --------------------------
(***************************************************************************)
(* Proofs about the codec of RegisterCodec, as RtuStream uses it: for every*)
(* number, every date and every three words, not for samples of them, and  *)
(* read plans for every set of registers; and about the stream, for every  *)
(* sequence of writes and reads and any number of faults.                  *)
(***************************************************************************)
EXTENDS RtuStream, SequenceTheorems, FiniteSetTheorems, NaturalsInduction,
        TLAPS

---------------------------------------------------------------------------
(* Numbers.                                                                *)

\* A division that leaves nothing is not rounded.
LEMMA RoundDivOne ==
    ASSUME NEW n \in Int PROVE RoundDiv(n, 1) = n
  BY DEF RoundDiv

\* Rounded to tens, in tenths.
LEMMA RoundDivTen ==
    ASSUME NEW k \in Int PROVE RoundDiv(10 * k, 10) = k
  BY DEF RoundDiv

\* A number on a step of the register is a multiple of the scale.
LEMMA OnAStep ==
    ASSUME NEW r, NEW n \in Int, WritableNumber(r), ValidateWriteBounds(r, n)
    PROVE  \E k \in Int: n = r.scale * k
  <1>1. CASE r.scale = 1
    BY <1>1
  <1>2. CASE r.scale = 10
    <2>1. r.min \in Int /\ r.min % 10 = 0 /\ r.step = 10
      BY <1>2 DEF WritableNumber
    <2>2. r.min + RoundDiv(n - r.min, 10) * 10 = n
      BY <2>1 DEF ValidateWriteBounds
    <2>3. RoundDiv(n - r.min, 10) \in Int
      BY <2>1 DEF RoundDiv
    <2>4. PICK j \in Int: r.min = 10 * j
      BY <2>1
    <2> DEFINE q == RoundDiv(n - r.min, 10)
    <2> HIDE DEF q
    <2>5. q \in Int /\ 10 * j + q * 10 = n
      BY <2>2, <2>3, <2>4 DEF q
    <2>6. j + q \in Int /\ n = 10 * (j + q)
      BY <2>5
    <2> QED BY <1>2, <2>6
  <1> QED BY <1>1, <1>2 DEF WritableNumber

\* A number that EncodeWrite accepts is decoded as it was sent.
LEMMA NumbersReadBack ==
    ASSUME NEW r, NEW n \in Int, r.writable /\ r.enum = {} => WritableNumber(r),
           EncodeWrite(r, n) # Err, r.enum = {}
    PROVE  DecodeNumber(r, <<EncodeWrite(r, n)>>) = n
  <1> DEFINE raw == RoundDiv(n, r.scale)
  <1>1. /\ WritableNumber(r) /\ ValidateWriteBounds(r, n)
        /\ raw \in 0 .. Word - 1 /\ EncodeWrite(r, n) = raw
    BY DEF EncodeWrite
  <1>2. PICK k \in Int: n = r.scale * k
    BY <1>1, OnAStep
  <1>3. r.scale \in {1, 10}
    BY <1>1 DEF WritableNumber
  <1>4. raw = k
    BY <1>2, <1>3, RoundDivOne, RoundDivTen
  <1>5. k \in 0 .. Word - 1
    BY <1>1, <1>4
  <1>6. RawValue(r.type, "high-low", <<k>>) = k
    <2>1. CASE r.type = "uint16"
      BY <2>1, Zenon DEF RawValue
    <2>2. CASE r.type = "int16"
      <3>1. k < Word \div 2
        <4>1. Word \div 2 = 32768
          BY DEF Word
        <4>2. r.max \in Int /\ r.max < r.scale * 32768 /\ n <= r.max
          BY <1>1, <2>2, <4>1 DEF WritableNumber, ValidateWriteBounds
        <4>3. r.scale * k < r.scale * 32768
          BY <1>2, <1>3, <4>2
        <4> QED BY <1>3, <4>1, <4>3
      <3>2. Signed(k, Word) = k
        BY <1>5, <3>1 DEF Signed, Word
      <3> QED BY <2>2, <3>2, Zenon DEF RawValue
    <2> QED BY <1>1, <2>1, <2>2 DEF WritableNumber
  <1>7. DecodeNumber(r, <<k>>) = IF r.precision = 0
                                 THEN 10 * RoundDiv(k * r.scale, 10)
                                 ELSE k * r.scale
    BY <1>6 DEF DecodeNumber
  <1>8. CASE r.scale = 1
    BY <1>1, <1>2, <1>4, <1>7, <1>8 DEF WritableNumber
  <1>9. CASE r.scale = 10
    <2>1. RoundDiv(k * 10, 10) = k
      BY RoundDivTen
    <2> QED BY <1>1, <1>2, <1>4, <1>7, <1>9, <2>1 DEF WritableNumber
  <1> QED BY <1>3, <1>8, <1>9

---------------------------------------------------------------------------
(* The clock.                                                              *)

Clock == [year: Int, month: Int, day: Int, hour: Int, minute: Int, second: Int]

\* Two bytes of a word.
LEMMA TwoBytes ==
    ASSUME NEW a \in Int, NEW b \in 0 .. Byte - 1
    PROVE  (a * Byte + b) \div Byte = a /\ (a * Byte + b) % Byte = b
  BY DEF Byte

\* A valid date and time is decoded as it was encoded.
LEMMA ClockReadsBack ==
    ASSUME NEW v \in Clock, ValidClock(v)
    PROVE  DecodeClock(EncodeClock(v)) = v
  <1>1. /\ v.year \in 2000 .. 2099 /\ v.month \in 1 .. 12 /\ v.day \in 1 .. 31
        /\ v.hour \in 0 .. 23 /\ v.minute \in 0 .. 59 /\ v.second \in 0 .. 59
    BY DEF ValidClock
  <1> DEFINE a == (v.year - 2000) * Byte + v.month
             b == v.day * Byte + v.hour
             c == v.minute * Byte + v.second
  <1>2. /\ a \div Byte = v.year - 2000 /\ a % Byte = v.month
        /\ b \div Byte = v.day /\ b % Byte = v.hour
        /\ c \div Byte = v.minute /\ c % Byte = v.second
    BY <1>1 DEF Byte
  <1>3. EncodeClock(v) = <<a, b, c>>
    BY DEF EncodeClock
  <1> HIDE DEF a, b, c
  <1> DEFINE d == DecodeClock(<<a, b, c>>)
  <1>4. /\ d.year = v.year /\ d.month = v.month /\ d.day = v.day
        /\ d.hour = v.hour /\ d.minute = v.minute /\ d.second = v.second
        /\ d \in Clock
    BY <1>1, <1>2 DEF DecodeClock, Clock
  <1> HIDE DEF d
  <1>5. d = v
    BY <1>4 DEF Clock
  <1> QED BY <1>3, <1>5 DEF d

\* A word is an integer.
LEMMA WordType == Word \in Int
  BY DEF Word

\* What the inverter has is a date and time, valid or not.
LEMMA DecodedIsAClock ==
    ASSUME NEW w, \A i \in 1 .. 3: w[i] \in 0 .. Word - 1
    PROVE  DecodeClock(w) \in Clock
  <1>1. w[1] \in Int /\ w[2] \in Int /\ w[3] \in Int
    BY WordType
  <1> QED BY <1>1 DEF DecodeClock, Clock, Byte

---------------------------------------------------------------------------
\* Every number that is accepted for a register of the catalogue is published
\* as it was sent; every valid date and time is read back, and one that the
\* inverter has is given back to it unchanged (catalog.go:1851-1951, 2082-2190,
\* clock.go:56-130): for all samples, not the ones a run has room for.
THEOREM WhatIsWrittenReadsBack == Spec => []ReadsBack
  <1> DEFINE Inv == sample \in Samples \cup {NoSample}
  <1>1. Init => Inv
    BY DEF Init
  <1>2. Inv /\ [Next]_vars => Inv'
    BY DEF Next, vars, inputs, Answer, Send, ReadAtLeast, UnexpectedFunction,
           ReadFull, Timeout, Succeed, Reject, Retry, GiveUp
  <1>3. Inv => ReadsBack
    <2> SUFFICES ASSUME Inv PROVE ReadsBack
      OBVIOUS
    <2>1. Kind # "none" => sample \in Samples /\ Kind = sample.kind
      BY DEF Kind
    <2>2. ASSUME Kind = "write"
          PROVE  LET r == sample.reg
                     w == EncodeWrite(r, sample.n)
                 IN w # Err => IF r.enum # {} THEN w \in r.enum
                               ELSE DecodeNumber(r, <<w>>) = sample.n
      <3>1. /\ sample.n \in Int
            /\ sample.reg.writable /\ sample.reg.enum = {} =>
                  WritableNumber(sample.reg)
        BY <2>1, <2>2, SampleAssumption
      <3>2. CASE sample.reg.enum # {}
        BY <3>2 DEF EncodeWrite
      <3>3. CASE sample.reg.enum = {}
        BY <3>1, <3>3, NumbersReadBack
      <3> QED BY <3>2, <3>3
    <2>3. ASSUME Kind = "clock", ValidClock(sample.value)
          PROVE  DecodeClock(EncodeClock(sample.value)) = sample.value
      <3>1. sample.value \in Clock
        BY <2>1, <2>3, SampleAssumption DEF Clock
      <3> QED BY <2>3, <3>1, ClockReadsBack
    <2>4. ASSUME Kind = "words"
          PROVE  LET v == DecodeClock(sample.words)
                 IN ValidClock(v) => DecodeClock(EncodeClock(v)) = v
      <3>1. \A i \in 1 .. 3: sample.words[i] \in 0 .. Word - 1
        BY <2>1, <2>4, SampleAssumption
      <3> QED BY <3>1, DecodedIsAClock, ClockReadsBack
    <2> QED BY <2>2, <2>3, <2>4 DEF ReadsBack
  <1> QED BY <1>1, <1>2, <1>3, PTL DEF Spec

---------------------------------------------------------------------------
(* The stream: what is in it, of which request.                            *)

\* What the reads of a plan rely on.
Within(q) ==
    \A r \in q.regs: /\ r.address \in Nat /\ r.count \in Nat
                     /\ r.address >= q.start
                     /\ r.address + r.count <= q.start + q.count

Reqs == {q \in [function: {ReadHolding, WriteSingle}, start: Nat,
                count: Nat \ {0},
                regs: SUBSET UNION {w.catalog: w \in Workloads}]:
           /\ Within(q)
           /\ q.function = WriteSingle => q.count = 1 /\ q.regs = {}}

SentFrames == {f \in Frames: f.function = WriteSingle => f.count = 1}
AnyByte == [frame: SentFrames, at: Nat] \cup {Spoiled}

StreamTypeOK ==
    /\ todo \in Seq(Reqs) /\ asked \in Seq(Reqs)
    /\ stream \in Seq(AnyByte) /\ data \in Seq(AnyByte)
    /\ attempt \in {1, 2} /\ hurt \in BOOLEAN /\ need \in Nat
    /\ phase \in {"ready", "head", "tail", "check", "failed"}
    /\ phase # "ready" => todo # <<>>

\* Only a whole frame that begins so can be taken for the answer to a read.
ReadHead(b) == b # Spoiled /\ b.at = 1 /\ b.frame.function = ReadHolding
NoHead(s) == \A i \in 1 .. Len(s): ~ReadHead(s[i])
OneHead(s) ==
    \A i, j \in 1 .. Len(s): ReadHead(s[i]) /\ ReadHead(s[j]) => i = j

Right == Frame(Req, ReadHolding)

\* Of the requests that are not answered at most the last is a read, and it is
\* the one in progress.
AskedFits ==
    \A i \in 1 .. Len(asked): asked[i].function = ReadHolding =>
        i = Len(asked) /\ phase # "ready" /\ asked[i] = Req

\* What was read and what is to be read has at most one answer to a read, and
\* that is to the read in progress.
HeadsFit ==
    LET all == data \o stream
    IN /\ OneHead(all)
       /\ \A i \in 1 .. Len(all): ReadHead(all[i]) =>
            /\ phase # "ready" /\ Req.function = ReadHolding
            /\ all[i].frame = Right
            /\ \A j \in 1 .. Len(asked): asked[j].function # ReadHolding

DataFits ==
    /\ phase \in {"ready", "head", "failed"} => data = <<>>
    /\ phase \in {"tail", "check"} => data # <<>>
    /\ phase = "head" => need = MinFrame
    /\ phase = "tail" => Len(data) < need

\* A second attempt meets nothing of an earlier request, and leaves no answer
\* to a read behind.
SecondFits ==
    attempt = 2 =>
        /\ todo # <<>> /\ Req.function = ReadHolding
        /\ phase = "ready" => asked = <<>> /\ stream = <<>>
        /\ phase = "head" =>
             \/ asked = <<Req>> /\ stream = <<>>
             \/ asked = <<>> /\ \A i \in 3 .. Len(stream): ~ReadHead(stream[i])
        /\ phase \in {"tail", "check", "failed"} =>
             asked = <<>> /\ NoHead(stream)

\* Without a fault it gets its answer, whole.
CleanFits ==
    attempt = 2 /\ ~hurt =>
        /\ phase # "failed"
        /\ phase = "head" /\ asked = <<>> => stream = Bytes(Right)
        /\ phase = "tail" => data \o stream = Bytes(Right)
                             /\ need = Right.size
        /\ phase = "check" => data = Bytes(Right)

StreamInv == StreamTypeOK /\ AskedFits /\ HeadsFit /\ DataFits /\ SecondFits
             /\ CleanFits

\* The request in progress.
LEMMA ReqType ==
    ASSUME StreamTypeOK, todo # <<>>
    PROVE  Req \in Reqs /\ Tail(todo) \in Seq(Reqs)
  BY HeadTailProperties DEF StreamTypeOK, Req

\* The frames of answers.
LEMMA FrameType ==
    ASSUME NEW q \in Reqs, NEW f \in {q.function, Exception(q.function)}
    PROVE  /\ Frame(q, f) \in SentFrames
           /\ Frame(q, f).function = f /\ Frame(q, f).size >= MinFrame
  BY DEF Frame, Reqs, SentFrames, Frames, Exception, ReadHolding, WriteSingle,
     MinFrame

\* The bytes of a frame.
LEMMA BytesType ==
    ASSUME NEW f \in SentFrames
    PROVE  /\ Bytes(f) \in Seq(AnyByte) /\ Len(Bytes(f)) = f.size
           /\ \A i \in 1 .. f.size:
                /\ Bytes(f)[i] = [frame |-> f, at |-> i]
                /\ Bytes(f)[i].frame = f /\ Bytes(f)[i].at = i
                /\ Bytes(f)[i] # Spoiled
  <1>1. f.size \in Nat /\ f \in Frames
    BY DEF SentFrames, Frames
  <1>2. \A i \in 1 .. f.size: /\ [frame |-> f, at |-> i] \in AnyByte
                              /\ [frame |-> f, at |-> i] \in [frame: Frames, at: Nat]
    BY <1>1 DEF AnyByte
  <1>3. Bytes(f) \in [1 .. f.size -> AnyByte]
    BY <1>2 DEF Bytes
  <1>4. Bytes(f) \in Seq(AnyByte)
    BY <1>1, <1>3, SeqDef
  <1>5. Len(Bytes(f)) = f.size
    BY <1>1, <1>4, LenProperties DEF Bytes
  <1>6. \A i \in 1 .. f.size: Bytes(f)[i] = [frame |-> f, at |-> i]
    BY DEF Bytes
  <1> QED BY <1>2, <1>4, <1>5, <1>6, SpoiledAssumption

\* What arrives for a request: at most one head of an answer to a read, among
\* the first two bytes, and only if the request is a read.
Arrives(q, h) ==
    /\ h \in Seq(AnyByte) /\ OneHead(h)
    /\ \A i \in 1 .. Len(h): ReadHead(h[i]) =>
         /\ i <= 2 /\ q.function = ReadHolding
         /\ h[i].frame = Frame(q, ReadHolding)

\* An answer that is not harmed.
LEMMA RightArrives ==
    ASSUME NEW q \in Reqs, NEW f \in {q.function, Exception(q.function)}
    PROVE  Arrives(q, Bytes(Frame(q, f)))
  <1> DEFINE b == Bytes(Frame(q, f))
  <1>1. /\ b \in Seq(AnyByte)
        /\ \A i \in 1 .. Len(b): b[i].frame = Frame(q, f) /\ b[i].at = i
    <2>1. Frame(q, f) \in SentFrames
      BY FrameType
    <2> QED BY <2>1, BytesType
  <1>2. Frame(q, f).function = f
    BY FrameType
  <1>3. f = ReadHolding => q.function = ReadHolding
    BY DEF Exception, Reqs, ReadHolding, WriteSingle
  <1> HIDE DEF b
  <1>4. \A i \in 1 .. Len(b): ReadHead(b[i]) => i = 1 /\ f = ReadHolding
    BY <1>1, <1>2 DEF ReadHead
  <1>5. OneHead(b)
    BY <1>4 DEF OneHead
  <1> QED BY <1>1, <1>3, <1>4, <1>5 DEF Arrives, b

\* An answer that is.
LEMMA HarmedArrives ==
    ASSUME NEW q \in Reqs, NEW h \in Harmed(Bytes(Frame(q, q.function)))
    PROVE  Arrives(q, h)
  <1> DEFINE b == Bytes(Frame(q, q.function))
  <1>1. /\ b \in Seq(AnyByte) /\ Len(b) \in Nat /\ Len(b) >= MinFrame
        /\ \A i \in 1 .. Len(b): b[i] \in AnyByte
        /\ \A i \in 1 .. Len(b): b[i].frame = Frame(q, q.function) /\ b[i].at = i
    <2>1. Frame(q, q.function) \in SentFrames
          /\ Frame(q, q.function).size >= MinFrame
      BY FrameType
    <2>2. /\ b \in Seq(AnyByte) /\ Len(b) = Frame(q, q.function).size
          /\ \A i \in 1 .. Len(b): b[i].frame = Frame(q, q.function) /\ b[i].at = i
      BY <2>1, BytesType
    <2> QED BY <2>1, <2>2, ElementOfSeq, LenProperties
  <1>2. Frame(q, q.function).function = q.function
    BY FrameType
  <1>3. Spoiled \in AnyByte /\ ~ReadHead(Spoiled)
    BY DEF AnyByte, ReadHead
  <1>4. \/ h = <<>> \/ h = SubSeq(b, 1, Len(b) - 1) \/ h = <<Spoiled>> \o b
        \/ h = Append(b, Spoiled)
        \/ \E i \in {1, 2, Len(b)}: h = [b EXCEPT ![i] = Spoiled]
    BY DEF Harmed
  <1> HIDE DEF b
  <1>5. ASSUME NEW k \in 0 .. 1, h \in Seq(AnyByte),
               \A i \in 1 .. Len(h): \/ ~ReadHead(h[i])
                                     \/ i - k \in 1 .. Len(b) /\ h[i] = b[i - k]
        PROVE  Arrives(q, h)
    <2>1. \A i \in 1 .. Len(h): ReadHead(h[i]) =>
             /\ i - k = 1 /\ q.function = ReadHolding
             /\ h[i].frame = Frame(q, q.function)
      BY <1>1, <1>2, <1>5 DEF ReadHead
    <2>2. Len(h) \in Nat
      BY <1>5, LenProperties
    <2>3. ASSUME NEW i \in 1 .. Len(h), NEW j \in 1 .. Len(h),
                 ReadHead(h[i]), ReadHead(h[j])
          PROVE  i = j
      <3>1. i - k = 1 /\ j - k = 1
        BY <2>1, <2>3
      <3> QED BY <2>2, <3>1
    <2>4. OneHead(h)
      BY <2>3 DEF OneHead
    <2> QED BY <1>5, <2>1, <2>2, <2>4 DEF Arrives
  <1>6. CASE h = <<>>
    BY <1>5, <1>6, EmptySeq
  <1>7. CASE h = SubSeq(b, 1, Len(b) - 1)
    <2>1. /\ h \in Seq(AnyByte) /\ Len(h) = Len(b) - 1
          /\ \A i \in 1 .. Len(b) - 1: h[i] = b[i]
      BY <1>1, <1>7, SubSeqProperties DEF MinFrame
    <2> QED BY <1>1, <1>5, <2>1
  <1>8. CASE h = <<Spoiled>> \o b
    <2>1. <<Spoiled>> \in Seq(AnyByte) /\ Len(<<Spoiled>>) = 1
      BY <1>3
    <2>2. /\ h \in Seq(AnyByte) /\ Len(h) = 1 + Len(b)
          /\ \A i \in 1 .. 1 + Len(b):
               h[i] = IF i <= 1 THEN <<Spoiled>>[i] ELSE b[i - 1]
      BY <1>1, <1>8, <2>1, ConcatProperties
    <2>3. \A i \in 1 .. Len(h): \/ ~ReadHead(h[i])
                                \/ i - 1 \in 1 .. Len(b) /\ h[i] = b[i - 1]
      BY <1>1, <1>3, <2>2
    <2> QED BY <1>5, <2>2, <2>3
  <1>9. CASE h = Append(b, Spoiled)
    <2>1. /\ h \in Seq(AnyByte) /\ Len(h) = Len(b) + 1
          /\ \A i \in 1 .. Len(b): h[i] = b[i]
          /\ h[Len(b) + 1] = Spoiled
      BY <1>1, <1>3, <1>9, AppendProperties
    <2>2. \A i \in 1 .. Len(h): \/ ~ReadHead(h[i])
                                \/ i - 0 \in 1 .. Len(b) /\ h[i] = b[i - 0]
      BY <1>1, <1>3, <2>1
    <2> QED BY <1>5, <2>1, <2>2
  <1>10. CASE \E i \in {1, 2, Len(b)}: h = [b EXCEPT ![i] = Spoiled]
    <2>1. PICK i \in {1, 2, Len(b)}: h = [b EXCEPT ![i] = Spoiled]
      BY <1>10
    <2>2. i \in 1 .. Len(b)
      BY <1>1, <2>1 DEF MinFrame
    <2>3. /\ h \in Seq(AnyByte) /\ Len(h) = Len(b)
          /\ \A j \in 1 .. Len(b): h[j] = IF j = i THEN Spoiled ELSE b[j]
      BY <1>1, <1>3, <2>1, <2>2, ExceptSeq
    <2>4. \A j \in 1 .. Len(h): \/ ~ReadHead(h[j])
                                \/ j - 0 \in 1 .. Len(b) /\ h[j] = b[j - 0]
      BY <1>1, <1>3, <2>3
    <2> QED BY <1>5, <2>3, <2>4
  <1> QED BY <1>4, <1>6, <1>7, <1>8, <1>9, <1>10

\* What an answer does to the stream.
LEMMA AnswerArrives ==
    ASSUME StreamTypeOK, Answer
    PROVE  /\ asked # <<>> /\ Head(asked) \in Reqs /\ asked' = Tail(asked)
           /\ \E h: /\ Arrives(Head(asked), h) /\ stream' = stream \o h
                    /\ \/ hurt' = TRUE
                       \/ /\ hurt' = hurt
                          /\ h = Bytes(Frame(Head(asked), Head(asked).function))
  <1>1. asked # <<>> /\ Head(asked) \in Reqs /\ asked' = Tail(asked)
    BY HeadTailProperties DEF StreamTypeOK, Answer
  <1> DEFINE q == Head(asked)
             b == Bytes(Frame(q, q.function))
             x == Bytes(Frame(q, Exception(q.function)))
  <1>2. Arrives(q, b) /\ Arrives(q, x) /\ \A h \in Harmed(b): Arrives(q, h)
    BY <1>1, RightArrives, HarmedArrives
  <1>3. \/ stream' = stream \o b /\ UNCHANGED <<faults, hurt>>
        \/ Fault /\ \E h \in Harmed(b): stream' = stream \o h
        \/ Fault /\ stream' = stream \o x
    BY DEF Answer
  <1> HIDE DEF q, b, x
  <1>4. \E h: /\ Arrives(q, h) /\ stream' = stream \o h
              /\ hurt' = TRUE \/ (hurt' = hurt /\ h = b)
    <2>1. CASE stream' = stream \o b /\ UNCHANGED <<faults, hurt>>
      BY <1>2, <2>1
    <2>2. CASE Fault /\ \E h \in Harmed(b): stream' = stream \o h
      BY <1>2, <2>2 DEF Fault
    <2>3. CASE Fault /\ stream' = stream \o x
      BY <1>2, <2>3 DEF Fault
    <2> QED BY <1>3, <2>1, <2>2, <2>3
  <1> QED BY <1>1, <1>4 DEF q, b

\* Reading moves bytes from the stream to data, in order.
LEMMA TakeMoves ==
    ASSUME StreamTypeOK, NEW n \in 0 .. Len(stream), Take(n)
    PROVE  /\ data' \in Seq(AnyByte) /\ stream' \in Seq(AnyByte)
           /\ Len(data') = Len(data) + n
           /\ Len(stream') = Len(stream) - n
           /\ \A i \in 1 .. Len(stream'): stream'[i] = stream[i + n]
           /\ data' \o stream' = data \o stream
  <1> DEFINE a == SubSeq(stream, 1, n)
             b == SubSeq(stream, n + 1, Len(stream))
  <1>1. /\ stream \in Seq(AnyByte) /\ data \in Seq(AnyByte)
        /\ Len(stream) \in Nat /\ Len(data) \in Nat /\ n \in Nat
        /\ \A i \in 1 .. Len(stream): stream[i] \in AnyByte
    BY LenProperties, ElementOfSeq DEF StreamTypeOK
  <1>2. data' = data \o a /\ stream' = b
    BY DEF Take
  <1>3. a \in Seq(AnyByte) /\ Len(a) = n
    <2>1. \A i \in 1 .. n: stream[i] \in AnyByte
      BY <1>1
    <2> QED BY <1>1, <2>1, SubSeqProperties
  <1>4. /\ b \in Seq(AnyByte) /\ Len(b) = Len(stream) - n
        /\ \A i \in 1 .. Len(stream) - n: b[i] = stream[i + n]
    <2>1. \A i \in n + 1 .. Len(stream): stream[i] \in AnyByte
      BY <1>1
    <2>2. /\ b \in Seq(AnyByte)
          /\ Len(b) = IF n + 1 <= Len(stream) THEN Len(stream) - (n + 1) + 1 ELSE 0
          /\ \A i \in 1 .. Len(stream) - (n + 1) + 1: b[i] = stream[(n + 1) + i - 1]
      BY <1>1, <2>1, SubSeqProperties
    <2>3. \A i \in 1 .. Len(stream) - n: b[i] = stream[i + n]
      BY <1>1, <2>2
    <2> QED BY <1>1, <2>2, <2>3
  <1>5. a \o b = stream
    <2>1. /\ 1 \in 1 .. Len(stream) + 1 /\ n \in 1 - 1 .. Len(stream)
          /\ Len(stream) \in n .. Len(stream)
      BY <1>1
    <2>2. a \o b = SubSeq(stream, 1, Len(stream))
      BY <1>1, <2>1, ConcatAdjacentSubSeq
    <2> QED BY <1>1, <2>2, SubSeqFull
  <1> HIDE DEF a, b
  <1>6. (data \o a) \o b = data \o stream
    <2>1. data \in Seq(AnyByte) /\ a \in Seq(AnyByte) /\ b \in Seq(AnyByte)
      BY <1>1, <1>3, <1>4
    <2>2. (data \o a) \o b = data \o (a \o b)
      BY <2>1, ConcatAssociative, SMT
    <2> QED BY <1>5, <2>2, Zenon
  <1>7. data \o a \in Seq(AnyByte) /\ Len(data \o a) = Len(data) + n
    BY <1>1, <1>3, ConcatProperties
  <1> QED BY <1>2, <1>3, <1>4, <1>6, <1>7

\* How much the two reads of Send take.
LEMMA ReadTakes ==
    ASSUME StreamTypeOK, DataFits, ReadAtLeast \/ ReadFull
    PROVE  \E n \in 0 .. Len(stream):
             /\ Take(n) /\ Len(data) + n > 0
             /\ phase = "head" => n >= MinFrame
             /\ phase = "tail" => Len(data) + n = need
  <1>1. Len(stream) \in Nat /\ Len(data) \in Nat /\ need \in Nat
    BY LenProperties DEF StreamTypeOK
  <1>2. CASE ReadAtLeast
    <2>1. phase = "head" /\ need = MinFrame
      BY <1>2 DEF ReadAtLeast, DataFits
    <2>2. PICK n \in need .. Len(stream): Take(n)
      BY <1>2 DEF ReadAtLeast
    <2>3. n \in 0 .. Len(stream) /\ n >= MinFrame /\ Len(data) + n > 0
      BY <1>1, <2>1, <2>2 DEF MinFrame
    <2> QED BY <2>1, <2>2, <2>3
  <1>3. CASE ReadFull
    <2>1. /\ phase = "tail" /\ Len(data) < need /\ Take(need - Len(data))
          /\ Len(data) + Len(stream) >= need
      BY <1>3 DEF ReadFull, DataFits
    <2>2. /\ need - Len(data) \in 0 .. Len(stream)
          /\ Len(data) + (need - Len(data)) = need /\ need > 0
      BY <1>1, <2>1
    <2> QED BY <2>1, <2>2
  <1> QED BY <1>2, <1>3

\* The types and DataFits are kept.
LEMMA NextStreamType ==
    StreamTypeOK /\ DataFits /\ [Next]_vars => StreamTypeOK' /\ DataFits'
  <1> SUFFICES ASSUME StreamTypeOK, DataFits, [Next]_vars
               PROVE  StreamTypeOK' /\ DataFits'
    OBVIOUS
  <1>1. <<>> \in Seq(Reqs) /\ <<>> \in Seq(AnyByte) /\ MinFrame \in Nat
    BY EmptySeq DEF MinFrame
  <1>2. todo # <<>> => Req \in Reqs /\ Tail(todo) \in Seq(Reqs)
    BY ReqType
  <1>3. CASE Answer
    <2>1. PICK h: Arrives(Head(asked), h) /\ stream' = stream \o h
      BY <1>3, AnswerArrives
    <2>2. stream' \in Seq(AnyByte)
      BY <2>1, ConcatProperties DEF Arrives, StreamTypeOK
    <2>3. asked' \in Seq(Reqs) /\ hurt' \in BOOLEAN
      BY <1>3, AnswerArrives, HeadTailProperties DEF StreamTypeOK
    <2> QED BY <1>3, <2>2, <2>3 DEF Answer, StreamTypeOK, DataFits
  <1>4. CASE Send
    <2>1. todo # <<>> => Append(asked, Req) \in Seq(Reqs)
      BY <1>2, AppendProperties DEF StreamTypeOK
    <2>2. asked' \in Seq(Reqs) /\ stream' \in Seq(AnyByte) /\ hurt' \in BOOLEAN
      BY <1>1, <1>4, <2>1 DEF Send, Close, Fault, StreamTypeOK
    <2>3. need' \in Nat /\ phase' \in {"head", "failed"} /\ todo # <<>>
          /\ (phase' = "head" => need' = MinFrame) /\ phase = "ready"
      BY <1>1, <1>4 DEF Send, StreamTypeOK
    <2> QED BY <1>4, <2>2, <2>3 DEF Send, StreamTypeOK, DataFits
  <1>5. CASE ReadAtLeast \/ ReadFull
    <2>1. PICK n \in 0 .. Len(stream): Take(n) /\ Len(data) + n > 0
                                       /\ (phase = "tail" => Len(data) + n = need)
      BY <1>5, ReadTakes
    <2>2. /\ data' \in Seq(AnyByte) /\ stream' \in Seq(AnyByte)
          /\ Len(data') = Len(data) + n
      BY <2>1, TakeMoves
    <2>3. data' # <<>>
      BY <2>1, <2>2, EmptySeq
    <2>4. /\ todo # <<>> /\ need' \in Nat
          /\ phase' \in {"tail", "check"}
          /\ phase' = "tail" => Len(data') < need'
      <3>1. CASE ReadAtLeast
        <4>1. todo # <<>> /\ phase' = IF need' > Len(data') THEN "tail" ELSE "check"
          BY <3>1 DEF ReadAtLeast, StreamTypeOK
        <4>2. need' \in {RtuResponseLength(Req), ExceptionFrame}
          BY <3>1 DEF ReadAtLeast
        <4>3. need' \in Nat
          BY <1>2, <4>1, <4>2
             DEF RtuResponseLength, ExceptionFrame, MinFrame, Reqs
        <4>4. Len(data') \in Nat
          BY <2>2, LenProperties
        <4> QED BY <4>1, <4>3, <4>4
      <3>2. CASE ReadFull
        BY <3>2 DEF ReadFull, StreamTypeOK
      <3> QED BY <1>5, <3>1, <3>2
    <2>5. UNCHANGED <<todo, asked, attempt, hurt>>
      BY <1>5 DEF ReadAtLeast, ReadFull
    <2> QED BY <2>2, <2>3, <2>4, <2>5 DEF StreamTypeOK, DataFits
  <1>6. CASE UnexpectedFunction
    BY <1>1, <1>6 DEF UnexpectedFunction, Close, StreamTypeOK, DataFits
  <1>7. CASE Timeout
    <2>1. hurt' \in BOOLEAN
      BY <1>7 DEF Timeout, Fault, StreamTypeOK
    <2> QED BY <1>1, <1>7, <2>1 DEF Timeout, Close, StreamTypeOK, DataFits
  <1>8. CASE Succeed
    <2>1. todo # <<>> /\ NextRequest /\ UNCHANGED <<stream, asked, need>>
      BY <1>8 DEF Succeed, StreamTypeOK
    <2> QED BY <1>1, <1>2, <2>1 DEF NextRequest, StreamTypeOK, DataFits
  <1>9. CASE Reject
    BY <1>1, <1>9 DEF Reject, StreamTypeOK, DataFits
  <1>10. CASE Retry
    BY <1>1, <1>10 DEF Retry, Close, StreamTypeOK, DataFits
  <1>11. CASE GiveUp
    <2>1. todo # <<>> /\ NextRequest /\ UNCHANGED need
      BY <1>11 DEF GiveUp, StreamTypeOK
    <2>2. Close \/ UNCHANGED <<conn, stream, asked>>
      BY <1>11 DEF GiveUp
    <2>3. asked' \in Seq(Reqs) /\ stream' \in Seq(AnyByte)
      BY <1>1, <2>2 DEF Close, StreamTypeOK
    <2> QED BY <1>1, <1>2, <2>1, <2>3 DEF NextRequest, StreamTypeOK, DataFits
  <1>12. CASE UNCHANGED vars
    BY <1>12 DEF vars, StreamTypeOK, DataFits
  <1> QED BY <1>3, <1>4, <1>5, <1>6, <1>7, <1>8, <1>9, <1>10, <1>11, <1>12
          DEF Next

\* The bytes that were read, and then those that are to be read.
LEMMA AllBytes ==
    ASSUME StreamTypeOK
    PROVE  /\ data \o stream \in Seq(AnyByte)
           /\ Len(data) \in Nat /\ Len(stream) \in Nat
           /\ Len(data \o stream) = Len(data) + Len(stream)
           /\ \A i \in 1 .. Len(data): (data \o stream)[i] = data[i]
           /\ \A i \in 1 .. Len(stream):
                (data \o stream)[Len(data) + i] = stream[i]
  <1>1. /\ data \in Seq(AnyByte) /\ stream \in Seq(AnyByte)
        /\ Len(data) \in Nat /\ Len(stream) \in Nat
    BY LenProperties DEF StreamTypeOK
  <1>2. /\ data \o stream \in Seq(AnyByte)
        /\ Len(data \o stream) = Len(data) + Len(stream)
        /\ \A i \in 1 .. Len(data) + Len(stream): (data \o stream)[i] =
              IF i <= Len(data) THEN data[i] ELSE stream[i - Len(data)]
    BY <1>1, ConcatProperties
  <1> DEFINE all == data \o stream
  <1> HIDE DEF all
  <1>3. \A i \in 1 .. Len(data) + Len(stream):
          all[i] = IF i <= Len(data) THEN data[i] ELSE stream[i - Len(data)]
    BY <1>2 DEF all
  <1>4. \A i \in 1 .. Len(data): all[i] = data[i]
    BY <1>1, <1>3
  <1>5. ASSUME NEW i \in 1 .. Len(stream) PROVE all[Len(data) + i] = stream[i]
    <2>1. /\ Len(data) + i \in 1 .. Len(data) + Len(stream)
          /\ ~(Len(data) + i <= Len(data)) /\ (Len(data) + i) - Len(data) = i
      BY <1>1
    <2> QED BY <1>3, <2>1
  <1> QED BY <1>1, <1>2, <1>4, <1>5 DEF all

\* A frame that is accepted for a read is the answer to this read.
LEMMA AcceptsRight ==
    ASSUME StreamTypeOK, DataFits, HeadsFit, phase = "check", Accepts(data),
           Req.function = ReadHolding
    PROVE  /\ 1 \in 1 .. Len(data) /\ ReadHead(data[1])
           /\ data[1].frame = Right
  <1>1. 1 \in 1 .. Len(data) /\ DOMAIN data = 1 .. Len(data)
    <2>1. data # <<>> /\ data \in Seq(AnyByte)
      BY DEF DataFits, StreamTypeOK
    <2>2. Len(data) \in Nat \ {0} /\ DOMAIN data = 1 .. Len(data)
      BY <2>1, EmptySeq, LenProperties
    <2> QED BY <2>2
  <1>2. /\ data[1] # Spoiled /\ data = Bytes(data[1].frame)
        /\ data[1].frame.function = ReadHolding
    BY <1>1 DEF Accepts, RightCRC
  <1>3. data[1] \in AnyByte
    BY <1>1, ElementOfSeq DEF StreamTypeOK
  <1>4. data[1].frame \in SentFrames
    BY <1>2, <1>3 DEF AnyByte
  <1> DEFINE f == data[1].frame
  <1>5. Len(data) = f.size /\ \A i \in 1 .. f.size: Bytes(f)[i].at = i
    BY <1>2, <1>4, BytesType
  <1>6. data[1].at = 1
    <2> HIDE DEF f
    <2>1. data = Bytes(f)
      BY <1>2 DEF f
    <2>2. Bytes(f)[1].at = 1
      BY <1>1, <1>5
    <2> QED BY <2>1, <2>2
  <1>7. ReadHead(data[1])
    BY <1>2, <1>6 DEF ReadHead
  <1>8. (data \o stream)[1] = data[1] /\ 1 \in 1 .. Len(data \o stream)
    BY <1>1, AllBytes
  <1> QED BY <1>1, <1>7, <1>8 DEF HeadsFit

\* No read is waited for, and none is answered.
NoReads(bytes, reqs) ==
    NoHead(bytes) /\ \A i \in 1 .. Len(reqs): reqs[i].function # ReadHolding

\* A connection that was closed has neither.
LEMMA EmptyNoReads == NoReads(<<>>, <<>>)
  <1>1. Len(<<>>) = 0
    BY EmptySeq
  <1> QED BY <1>1 DEF NoReads, NoHead

\* Then nothing is to be said of them.
LEMMA WithoutReads ==
    ASSUME stream' \in Seq(AnyByte), data' = <<>>, NoReads(stream', asked')
    PROVE  AskedFits' /\ HeadsFit'
  <1>1. data' \o stream' = stream'
    BY ConcatEmptySeq
  <1> QED BY <1>1 DEF NoReads, NoHead, AskedFits, HeadsFit, OneHead

\* A request that ends leaves no answer to a read behind, and waits for none.
LEMMA EndsWithoutReads ==
    ASSUME StreamTypeOK, DataFits, AskedFits, HeadsFit, SecondFits,
           Succeed \/ GiveUp
    PROVE  NoReads(stream, asked)
  <1> DEFINE all == data \o stream
  <1>1. /\ Len(data) \in Nat /\ Len(stream) \in Nat
        /\ Len(all) = Len(data) + Len(stream)
        /\ \A i \in 1 .. Len(data): all[i] = data[i]
        /\ \A i \in 1 .. Len(stream): all[Len(data) + i] = stream[i]
    BY AllBytes
  <1>2. /\ \A i, j \in 1 .. Len(all):
             ReadHead(all[i]) /\ ReadHead(all[j]) => i = j
        /\ \A i \in 1 .. Len(all): ReadHead(all[i]) =>
             /\ Req.function = ReadHolding
             /\ \A j \in 1 .. Len(asked): asked[j].function # ReadHolding
    BY DEF HeadsFit, OneHead
  <1> HIDE DEF all
  <1>3. CASE Req.function # ReadHolding
    <2>1. \A i \in 1 .. Len(asked): asked[i].function # ReadHolding
      BY <1>3 DEF AskedFits
    <2>2. \A i \in 1 .. Len(stream): Len(data) + i \in 1 .. Len(all)
      BY <1>1
    <2>3. NoHead(stream)
      BY <1>1, <1>2, <1>3, <2>2 DEF NoHead
    <2> QED BY <2>1, <2>3 DEF NoReads
  <1>4. CASE Succeed /\ Req.function = ReadHolding
    <2>1. 1 \in 1 .. Len(data) /\ ReadHead(data[1])
      BY <1>4, AcceptsRight DEF Succeed
    <2>2. 1 \in 1 .. Len(all) /\ ReadHead(all[1])
      BY <1>1, <2>1
    <2>3. ASSUME NEW i \in 1 .. Len(stream), ReadHead(stream[i]) PROVE FALSE
      <3>1. Len(data) + i \in 1 .. Len(all) /\ Len(data) + i # 1
        BY <1>1, <2>1
      <3>2. ReadHead(all[Len(data) + i])
        BY <1>1, <2>3
      <3> QED BY <1>2, <2>2, <3>1, <3>2
    <2> QED BY <1>2, <2>2, <2>3 DEF NoReads, NoHead
  <1>5. CASE GiveUp /\ Req.function = ReadHolding
    <2>1. attempt = 2 /\ phase = "failed"
      BY <1>5 DEF GiveUp, ReadHolding, WriteSingle
    <2>2. asked = <<>> /\ NoHead(stream)
      BY <2>1 DEF SecondFits
    <2> QED BY <2>2, EmptyNoReads DEF NoReads
  <1> QED BY <1>3, <1>4, <1>5

\* An answer that arrives.
LEMMA AnswerHeads ==
    ASSUME StreamTypeOK, AskedFits, HeadsFit, Answer
    PROVE  AskedFits' /\ HeadsFit'
  <1> DEFINE q == Head(asked)
             all == data \o stream
  <1>1. PICK h: Arrives(q, h) /\ stream' = stream \o h
    BY AnswerArrives
  <1>2. /\ asked \in Seq(Reqs) /\ asked # <<>> /\ asked' = Tail(asked)
        /\ Len(asked) \in Nat \ {0} /\ 1 \in 1 .. Len(asked) /\ q = asked[1]
        /\ UNCHANGED <<todo, phase, data>>
    <2>1. /\ asked \in Seq(Reqs) /\ asked # <<>> /\ asked' = Tail(asked)
          /\ UNCHANGED <<todo, phase, data>>
      BY DEF Answer, StreamTypeOK
    <2>2. Len(asked) \in Nat \ {0}
      BY <2>1, EmptySeq
    <2> QED BY <2>1, <2>2 DEF q
  <1>3. /\ Len(asked') = Len(asked) - 1
        /\ \A i \in 1 .. Len(asked'): asked'[i] = asked[i + 1]
    BY <1>2, HeadTailProperties
  <1>4. Req' = Req /\ Right' = Right
    BY <1>2 DEF Req, Right
  <1>5. AskedFits'
    <2>1. \A i \in 1 .. Len(asked'): i + 1 \in 1 .. Len(asked)
      BY <1>2, <1>3
    <2>2. ASSUME NEW i \in 1 .. Len(asked'), asked'[i].function = ReadHolding
          PROVE  i = Len(asked') /\ phase' # "ready" /\ asked'[i] = Req'
      <3>1. i + 1 = Len(asked) /\ phase # "ready" /\ asked[i + 1] = Req
        BY <1>3, <2>1, <2>2 DEF AskedFits
      <3>2. i \in Nat /\ i = Len(asked')
        <4>1. Len(asked) \in Nat /\ Len(asked') = Len(asked) - 1
          BY <1>2, <1>3
        <4>2. i + 1 = Len(asked)
          BY <3>1
        <4> QED BY <4>1, <4>2
      <3>3. asked'[i] = Req'
        BY <1>3, <1>4, <3>1, Zenon
      <3> QED BY <1>2, <3>1, <3>2, <3>3
    <2> QED BY <2>2 DEF AskedFits
  <1>6. /\ all \in Seq(AnyByte) /\ Len(all) \in Nat
        /\ data \in Seq(AnyByte) /\ stream \in Seq(AnyByte)
        /\ h \in Seq(AnyByte) /\ Len(h) \in Nat
    BY <1>1, AllBytes, LenProperties DEF StreamTypeOK, Arrives
  <1> DEFINE both == all \o h
  <1>7. data' \o stream' = both
    <2>1. (data \o stream) \o h = data \o (stream \o h)
      BY <1>6, ConcatAssociative, SMT
    <2> QED BY <1>1, <1>2, <2>1, Zenon
  <1>8. /\ Len(both) = Len(all) + Len(h)
        /\ \A i \in 1 .. Len(all) + Len(h):
             both[i] = IF i <= Len(all) THEN all[i] ELSE h[i - Len(all)]
    <2> HIDE DEF all
    <2> QED BY <1>6, ConcatProperties
  <1>9. /\ OneHead(all)
        /\ \A i \in 1 .. Len(all): ReadHead(all[i]) =>
            /\ phase # "ready" /\ Req.function = ReadHolding
            /\ all[i].frame = Right
            /\ \A j \in 1 .. Len(asked): asked[j].function # ReadHolding
    BY DEF HeadsFit
  <1> HIDE DEF q, all, both
  <1>10. CASE q.function = ReadHolding
    <2>1. NoHead(all)
      BY <1>2, <1>9, <1>10 DEF NoHead
    <2>2. Len(asked) = 1 /\ phase # "ready" /\ q = Req
      BY <1>2, <1>10 DEF AskedFits
    <2>3. \A i \in 1 .. Len(asked'): FALSE
      BY <1>3, <2>2
    <2>4. ASSUME NEW i \in 1 .. Len(both), ReadHead(both[i])
          PROVE  /\ i - Len(all) \in 1 .. Len(h)
                 /\ ReadHead(h[i - Len(all)]) /\ both[i] = h[i - Len(all)]
      <3>1. ~(i <= Len(all))
        BY <1>6, <1>8, <2>1, <2>4 DEF NoHead
      <3> QED BY <1>6, <1>8, <2>4, <3>1
    <2>5. OneHead(both)
      <3>1. ASSUME NEW i \in 1 .. Len(both), NEW j \in 1 .. Len(both),
                   ReadHead(both[i]), ReadHead(both[j])
            PROVE  i = j
        <4>1. i - Len(all) = j - Len(all)
          BY <1>1, <2>4, <3>1 DEF Arrives, OneHead
        <4> QED BY <1>6, <1>8, <4>1
      <3> QED BY <3>1 DEF OneHead
    <2>6. \A i \in 1 .. Len(both): ReadHead(both[i]) => both[i].frame = Right
      <3>1. \A i \in 1 .. Len(h): ReadHead(h[i]) => h[i].frame = Right
        BY <1>1, <2>2 DEF Arrives, Right
      <3> QED BY <2>4, <3>1
    <2> QED BY <1>2, <1>4, <1>5, <1>7, <1>10, <2>2, <2>3, <2>5, <2>6
            DEF HeadsFit
  <1>11. CASE q.function # ReadHolding
    <2>1. NoHead(h)
      BY <1>1, <1>11 DEF Arrives, NoHead
    <2>2. ASSUME NEW i \in 1 .. Len(both), ReadHead(both[i])
          PROVE  i \in 1 .. Len(all) /\ both[i] = all[i]
      <3>1. ~(i <= Len(all)) => i - Len(all) \in 1 .. Len(h)
        BY <1>6, <1>8
      <3>2. i <= Len(all)
        BY <1>8, <2>1, <2>2, <3>1 DEF NoHead
      <3> QED BY <1>6, <1>8, <3>2
    <2>3. OneHead(both)
      BY <1>9, <2>2 DEF OneHead
    <2>4. (\A j \in 1 .. Len(asked): asked[j].function # ReadHolding) =>
             \A j \in 1 .. Len(asked'): asked'[j].function # ReadHolding
      <3>1. \A j \in 1 .. Len(asked'): j + 1 \in 1 .. Len(asked)
        BY <1>2, <1>3
      <3> QED BY <1>3, <3>1
    <2>5. \A i \in 1 .. Len(both): ReadHead(both[i]) =>
            /\ phase # "ready" /\ Req.function = ReadHolding
            /\ both[i].frame = Right
            /\ \A j \in 1 .. Len(asked'): asked'[j].function # ReadHolding
      BY <1>9, <2>2, <2>4
    <2> QED BY <1>2, <1>4, <1>5, <1>7, <2>3, <2>5 DEF HeadsFit
  <1> QED BY <1>10, <1>11

\* At most one answer to a read is under way, and it is the right one.
LEMMA NextHeads ==
    ASSUME StreamTypeOK, DataFits, AskedFits, HeadsFit, SecondFits, [Next]_vars
    PROVE  AskedFits' /\ HeadsFit'
  <1>1. /\ stream' \in Seq(AnyByte) /\ stream \in Seq(AnyByte)
        /\ asked \in Seq(Reqs)
    BY NextStreamType DEF StreamTypeOK
  <1>2. CASE Answer
    BY <1>2, AnswerHeads
  <1>3. CASE Send
    <2>1. phase = "ready" /\ data = <<>> /\ UNCHANGED <<todo, data>>
      BY <1>3 DEF Send, DataFits
    <2>2. data \o stream = stream
      BY <1>1, <2>1, ConcatEmptySeq
    <2>3. NoReads(stream, asked)
      BY <2>1, <2>2 DEF HeadsFit, AskedFits, NoReads, NoHead
    <2>4. CASE Close
      BY <1>1, <2>1, <2>4, EmptyNoReads, WithoutReads DEF Close
    <2>5. CASE phase' = "head" /\ asked' = Append(asked, Req) /\ stream' = stream
      <3>1. Req \in Reqs
        BY <1>3, ReqType DEF Send
      <3>2. /\ Len(asked') = Len(asked) + 1 /\ Len(asked) \in Nat
            /\ \A i \in 1 .. Len(asked): asked'[i] = asked[i]
            /\ asked'[Len(asked) + 1] = Req
        BY <1>1, <2>5, <3>1, AppendProperties, LenProperties
      <3>3. Req' = Req
        BY <2>1 DEF Req
      <3>4. \A i \in 1 .. Len(asked'): i \in 1 .. Len(asked) \/ i = Len(asked')
        BY <3>2
      <3>5. AskedFits'
        BY <2>3, <2>5, <3>2, <3>3, <3>4 DEF AskedFits, NoReads
      <3>6. HeadsFit'
        BY <2>1, <2>2, <2>3, <2>5 DEF HeadsFit, NoReads, NoHead, OneHead
      <3> QED BY <3>5, <3>6
    <2> QED BY <1>3, <2>4, <2>5 DEF Send
  <1>4. CASE ReadAtLeast \/ ReadFull
    <2>1. PICK n \in 0 .. Len(stream): Take(n)
      BY <1>4, ReadTakes
    <2>2. data' \o stream' = data \o stream
      BY <2>1, TakeMoves
    <2>3. UNCHANGED <<todo, asked>> /\ phase # "ready" /\ phase' # "ready"
      BY <1>4 DEF ReadAtLeast, ReadFull
    <2>4. Req' = Req /\ Right' = Right
      BY <2>3 DEF Req, Right
    <2> QED BY <2>2, <2>3, <2>4 DEF AskedFits, HeadsFit
  <1>5. CASE UnexpectedFunction \/ Timeout \/ Retry
    <2>1. data' = <<>> /\ stream' = <<>> /\ asked' = <<>>
      BY <1>5 DEF UnexpectedFunction, Timeout, Retry, Close, DataFits
    <2> QED BY <1>1, <2>1, EmptyNoReads, WithoutReads
  <1>6. CASE Succeed \/ GiveUp
    <2>1. NoReads(stream, asked)
      BY <1>6, EndsWithoutReads
    <2>2. /\ data' = <<>>
          /\ UNCHANGED <<stream, asked>> \/ (stream' = <<>> /\ asked' = <<>>)
      BY <1>6 DEF Succeed, GiveUp, NextRequest, Close
    <2>3. NoReads(stream', asked')
      BY <2>1, <2>2, EmptyNoReads
    <2> QED BY <1>1, <2>2, <2>3, WithoutReads
  <1>7. CASE Reject
    <2>1. /\ UNCHANGED <<todo, stream, asked>> /\ data' = <<>>
          /\ phase = "check" /\ phase' = "failed"
      BY <1>7 DEF Reject
    <2>2. Req' = Req /\ Right' = Right
      BY <2>1 DEF Req, Right
    <2>3. data' \o stream' = stream
      BY <1>1, <2>1, ConcatEmptySeq
    <2> DEFINE all == data \o stream
    <2>4. /\ Len(data) \in Nat /\ Len(stream) \in Nat
          /\ Len(all) = Len(data) + Len(stream)
          /\ \A i \in 1 .. Len(stream): all[Len(data) + i] = stream[i]
      BY AllBytes
    <2>5. /\ \A i, j \in 1 .. Len(all):
               ReadHead(all[i]) /\ ReadHead(all[j]) => i = j
          /\ \A i \in 1 .. Len(all): ReadHead(all[i]) =>
               /\ Req.function = ReadHolding /\ all[i].frame = Right
               /\ \A j \in 1 .. Len(asked): asked[j].function # ReadHolding
      BY DEF HeadsFit, OneHead
    <2> HIDE DEF all
    <2>6. \A i \in 1 .. Len(stream): Len(data) + i \in 1 .. Len(all)
      BY <2>4
    <2>7. OneHead(stream)
      <3>1. ASSUME NEW i \in 1 .. Len(stream), NEW j \in 1 .. Len(stream),
                   ReadHead(stream[i]), ReadHead(stream[j])
            PROVE  i = j
        <4>1. Len(data) + i = Len(data) + j
          BY <2>4, <2>5, <2>6, <3>1
        <4> QED BY <2>4, <4>1
      <3> QED BY <3>1 DEF OneHead
    <2>8. \A i \in 1 .. Len(stream): ReadHead(stream[i]) =>
             /\ Req.function = ReadHolding /\ stream[i].frame = Right
             /\ \A j \in 1 .. Len(asked): asked[j].function # ReadHolding
      BY <2>4, <2>5, <2>6
    <2>9. HeadsFit'
      BY <2>1, <2>2, <2>3, <2>7, <2>8 DEF HeadsFit
    <2>10. AskedFits'
      BY <2>1, <2>2 DEF AskedFits
    <2> QED BY <2>9, <2>10
  <1>8. CASE UNCHANGED vars
    BY <1>8 DEF vars, AskedFits, HeadsFit, Req, Right
  <1> QED BY <1>2, <1>3, <1>4, <1>5, <1>6, <1>7, <1>8 DEF Next

\* A second attempt begins on a connection of its own.
LEMMA NextSecond ==
    ASSUME StreamTypeOK, DataFits, SecondFits, [Next]_vars
    PROVE  SecondFits'
  <1>1. /\ stream \in Seq(AnyByte) /\ asked \in Seq(Reqs)
        /\ Len(stream) \in Nat /\ Len(<<>>) = 0
    BY LenProperties, EmptySeq DEF StreamTypeOK
  <1>2. CASE Answer
    <2>1. PICK h: Arrives(Head(asked), h) /\ stream' = stream \o h
      BY <1>2, AnswerArrives
    <2>2. /\ asked # <<>> /\ asked' = Tail(asked)
          /\ UNCHANGED <<todo, phase, attempt>>
      BY <1>2 DEF Answer
    <2>3. CASE attempt = 2
      <3>1. phase = "head" /\ asked = <<Req>> /\ stream = <<>>
        BY <2>2, <2>3 DEF SecondFits, StreamTypeOK
      <3>2. asked' = <<>>
        BY <2>2, <3>1
      <3>3. stream' = h /\ h \in Seq(AnyByte)
        BY <2>1, <3>1, ConcatEmptySeq DEF Arrives
      <3>4. \A i \in 3 .. Len(h): ~ReadHead(h[i])
        <4>1. Len(h) \in Nat
          BY <3>3, LenProperties
        <4> QED BY <2>1, <4>1 DEF Arrives
      <3> QED BY <2>2, <2>3, <3>1, <3>2, <3>3, <3>4 DEF SecondFits, Req
    <2> QED BY <2>2, <2>3 DEF SecondFits
  <1>3. CASE Send
    <2>1. phase = "ready" /\ UNCHANGED <<todo, attempt>>
      BY <1>3 DEF Send
    <2>2. CASE Close /\ phase' = "failed"
      BY <1>1, <2>1, <2>2 DEF Close, SecondFits, NoHead, Req
    <2>3. CASE phase' = "head" /\ asked' = Append(asked, Req) /\ stream' = stream
      <3>1. attempt = 2 => asked' = <<Req>> /\ stream' = <<>>
        BY <2>1, <2>3 DEF SecondFits
      <3> QED BY <2>1, <2>3, <3>1 DEF SecondFits, Req
    <2> QED BY <1>3, <2>2, <2>3 DEF Send
  <1>4. CASE ReadAtLeast
    <2>1. PICK n \in 0 .. Len(stream):
             Take(n) /\ (phase = "head" => n >= MinFrame)
      BY <1>4, ReadTakes
    <2>2. /\ Len(stream') = Len(stream) - n
          /\ \A i \in 1 .. Len(stream'): stream'[i] = stream[i + n]
      BY <2>1, TakeMoves
    <2>3. /\ UNCHANGED <<todo, attempt, asked>> /\ phase = "head"
          /\ phase' \in {"tail", "check"} /\ Len(stream) >= need
      BY <1>4 DEF ReadAtLeast
    <2>4. CASE attempt = 2
      <3>1. need = MinFrame
        BY <2>3 DEF DataFits
      <3>2. stream # <<>>
        BY <1>1, <2>3, <3>1 DEF MinFrame
      <3>3. asked = <<>> /\ \A i \in 3 .. Len(stream): ~ReadHead(stream[i])
        BY <2>3, <2>4, <3>2 DEF SecondFits
      <3>4. \A i \in 1 .. Len(stream'): i + n \in 3 .. Len(stream)
        BY <1>1, <2>1, <2>2, <2>3 DEF MinFrame
      <3>5. NoHead(stream')
        BY <2>2, <3>3, <3>4 DEF NoHead
      <3> QED BY <2>3, <2>4, <3>3, <3>5 DEF SecondFits, Req
    <2> QED BY <2>3, <2>4 DEF SecondFits
  <1>5. CASE ReadFull
    <2>1. PICK n \in 0 .. Len(stream): Take(n)
      BY <1>5, ReadTakes
    <2>2. /\ Len(stream') = Len(stream) - n
          /\ \A i \in 1 .. Len(stream'): stream'[i] = stream[i + n]
      BY <2>1, TakeMoves
    <2>3. /\ UNCHANGED <<todo, attempt, asked>> /\ phase = "tail"
          /\ phase' = "check"
      BY <1>5 DEF ReadFull
    <2>4. \A i \in 1 .. Len(stream'): i + n \in 1 .. Len(stream)
      BY <1>1, <2>1, <2>2
    <2>5. NoHead(stream) => NoHead(stream')
      BY <2>2, <2>4 DEF NoHead
    <2> QED BY <2>3, <2>5 DEF SecondFits, Req
  <1>6. CASE UnexpectedFunction \/ Timeout
    <2>1. /\ UNCHANGED <<todo, attempt>> /\ phase' = "failed"
          /\ stream' = <<>> /\ asked' = <<>>
      BY <1>6 DEF UnexpectedFunction, Timeout, Close
    <2> QED BY <1>1, <2>1 DEF SecondFits, NoHead, Req
  <1>7. CASE Retry
    BY <1>7 DEF Retry, Close, SecondFits, StreamTypeOK, Req
  <1>8. CASE Succeed \/ GiveUp
    BY <1>8 DEF Succeed, GiveUp, NextRequest, SecondFits
  <1>9. CASE Reject
    BY <1>9 DEF Reject, SecondFits, Req
  <1>10. CASE UNCHANGED vars
    BY <1>10 DEF vars, SecondFits, Req
  <1> QED BY <1>2, <1>3, <1>4, <1>5, <1>6, <1>7, <1>8, <1>9, <1>10 DEF Next

\* The answer that a second attempt waits for.
LEMMA RightType ==
    ASSUME StreamTypeOK, SecondFits, attempt = 2
    PROVE  /\ Req \in Reqs /\ Req.function = ReadHolding
           /\ Right \in SentFrames /\ Right.function = ReadHolding
           /\ Right.size \in Nat /\ Right.size >= MinFrame
           /\ Right.size = RtuResponseLength(Req)
  <1>1. Req \in Reqs /\ Req.function = ReadHolding
    BY ReqType DEF SecondFits
  <1>2. /\ Right \in SentFrames /\ Right.function = ReadHolding
        /\ Right.size >= MinFrame
    BY <1>1, FrameType DEF Right
  <1>3. Right.size \in Nat
    BY <1>2 DEF SentFrames, Frames
  <1>4. Right.size = RtuResponseLength(Req)
    BY <1>1 DEF Right, Frame, RtuResponseLength, MinFrame, Reqs
  <1> QED BY <1>1, <1>2, <1>3, <1>4

\* Once a second attempt without a fault has four bytes, it has the whole
\* answer, and takes its second byte for what it is.
LEMMA RightHead ==
    ASSUME StreamTypeOK, DataFits, SecondFits, CleanFits, attempt = 2, ~hurt,
           phase = "head", Len(stream) >= need
    PROVE  /\ asked = <<>> /\ stream = Bytes(Right)
           /\ FunctionsOf(stream[2]) = {ReadHolding}
  <1>1. need = MinFrame
    BY DEF DataFits
  <1>2. stream # <<>>
    BY <1>1, EmptySeq DEF MinFrame
  <1>3. asked = <<>> /\ stream = Bytes(Right)
    BY <1>2 DEF SecondFits, CleanFits
  <1>4. /\ Right \in SentFrames /\ Right.function = ReadHolding
        /\ Right.size \in Nat /\ Right.size >= MinFrame
        /\ Req.function = ReadHolding
    BY RightType
  <1>5. 2 \in 1 .. Right.size
    BY <1>4 DEF MinFrame
  <1>6. stream[2] # Spoiled /\ stream[2].at = 2 /\ stream[2].frame = Right
    BY <1>3, <1>4, <1>5, BytesType
  <1>7. FunctionsOf(stream[2]) = {ReadHolding}
    BY <1>4, <1>6 DEF FunctionsOf
  <1> QED BY <1>3, <1>7

\* What is left of an answer of which nothing is left.
LEMMA TakenWhole ==
    ASSUME NEW d \in Seq(AnyByte), NEW s \in Seq(AnyByte), NEW f \in SentFrames,
           d \o s = Bytes(f), Len(d) >= f.size
    PROVE  d = Bytes(f)
  <1>1. Len(d) \in Nat /\ Len(s) \in Nat /\ Len(d \o s) = Len(d) + Len(s)
    BY LenProperties, ConcatProperties
  <1>2. f.size \in Nat /\ Len(Bytes(f)) = f.size
    BY BytesType DEF SentFrames, Frames
  <1>3. Len(s) = 0
    BY <1>1, <1>2
  <1>4. s = <<>>
    BY <1>3, EmptySeq
  <1> QED BY <1>4, ConcatEmptySeq

\* Without a fault a second attempt succeeds.
LEMMA NextClean ==
    ASSUME StreamTypeOK, DataFits, SecondFits, CleanFits, [Next]_vars
    PROVE  CleanFits'
  <1> SUFFICES ASSUME attempt' = 2, ~hurt' PROVE CleanFits'
    BY DEF CleanFits
  <1>1. /\ stream \in Seq(AnyByte) /\ data \in Seq(AnyByte)
        /\ stream' \in Seq(AnyByte) /\ data' \in Seq(AnyByte)
        /\ Len(stream) \in Nat /\ Len(data) \in Nat
        /\ hurt \in BOOLEAN /\ need \in Nat
    BY LenProperties, NextStreamType DEF StreamTypeOK
  <1>2. ASSUME attempt = 2
        PROVE  /\ Req \in Reqs /\ Req.function = ReadHolding
               /\ Right \in SentFrames /\ Right.function = ReadHolding
               /\ Right.size \in Nat /\ Right.size >= MinFrame
               /\ Right.size = RtuResponseLength(Req)
               /\ Len(Bytes(Right)) = Right.size
    BY <1>2, RightType, BytesType
  <1>3. CASE Answer
    <2>1. PICK h: /\ stream' = stream \o h /\ Arrives(Head(asked), h)
                  /\ \/ hurt' = TRUE
                     \/ /\ hurt' = hurt
                        /\ h = Bytes(Frame(Head(asked), Head(asked).function))
      BY <1>3, AnswerArrives
    <2>2. /\ asked # <<>> /\ attempt = 2 /\ ~hurt
          /\ UNCHANGED <<todo, phase, attempt, data>>
      BY <1>3, <2>1 DEF Answer
    <2>3. phase \in {"ready", "head"} /\ asked = <<Req>> /\ stream = <<>>
      BY <2>2 DEF SecondFits, StreamTypeOK
    <2>4. Head(asked) = Req
      BY <2>3
    <2>5. h = Bytes(Right) /\ h \in Seq(AnyByte)
      BY <1>2, <2>1, <2>2, <2>4 DEF Right, Arrives
    <2>6. stream' = Bytes(Right)
      BY <2>1, <2>3, <2>5, ConcatEmptySeq
    <2> QED BY <2>2, <2>3, <2>6 DEF CleanFits, Right, Req
  <1>4. CASE Send
    <2>1. attempt = 2 /\ phase = "ready" /\ phase' = "head"
          /\ asked' = Append(asked, Req)
      BY <1>4 DEF Send, Fault
    <2>2. asked = <<>>
      BY <2>1 DEF SecondFits
    <2>3. asked' # <<>>
      BY <2>1, <2>2
    <2> QED BY <2>1, <2>3 DEF CleanFits
  <1>5. CASE ReadAtLeast
    <2>1. /\ attempt = 2 /\ ~hurt /\ phase = "head" /\ Len(stream) >= need
          /\ UNCHANGED <<todo, asked>>
          /\ phase' = IF need' > Len(data') THEN "tail" ELSE "check"
          /\ \E f \in FunctionsOf(stream[2]) \ {0}:
                need' = IF f = Req.function THEN RtuResponseLength(Req)
                                            ELSE ExceptionFrame
      BY <1>5 DEF ReadAtLeast
    <2>2. stream = Bytes(Right) /\ FunctionsOf(stream[2]) = {ReadHolding}
      BY <2>1, RightHead
    <2>3. need' = Right.size
      BY <1>2, <2>1, <2>2
    <2>4. PICK n \in 0 .. Len(stream): Take(n)
      BY <1>5, ReadTakes
    <2>5. data' \o stream' = data \o stream
      BY <2>4, TakeMoves
    <2>6. data \o stream = Bytes(Right)
      BY <1>1, <2>1, <2>2, ConcatEmptySeq DEF DataFits
    <2>7. Right' = Right
      BY <2>1 DEF Right, Req
    <2>8. phase' = "check" => data' = Bytes(Right)
      <3>1. Len(data') \in Nat
        BY <1>1, LenProperties
      <3>2. phase' = "check" => Len(data') >= Right.size
        BY <1>2, <2>1, <2>3, <3>1
      <3> QED BY <1>1, <1>2, <2>1, <2>5, <2>6, <3>2, TakenWhole
    <2> QED BY <2>1, <2>3, <2>5, <2>6, <2>7, <2>8 DEF CleanFits
  <1>6. CASE UnexpectedFunction
    <2>1. /\ attempt = 2 /\ ~hurt /\ phase = "head" /\ Len(stream) >= need
          /\ 0 \in FunctionsOf(stream[2])
      BY <1>6 DEF UnexpectedFunction
    <2> QED BY <2>1, RightHead DEF ReadHolding
  <1>7. CASE ReadFull
    <2>1. /\ attempt = 2 /\ ~hurt /\ phase = "tail" /\ phase' = "check"
          /\ UNCHANGED todo
      BY <1>7 DEF ReadFull
    <2>2. data \o stream = Bytes(Right) /\ need = Right.size
      BY <2>1 DEF CleanFits
    <2>3. PICK n \in 0 .. Len(stream): Take(n) /\ Len(data) + n = need
      BY <1>7, <2>1, ReadTakes
    <2>4. data' \o stream' = data \o stream /\ Len(data') = Len(data) + n
      BY <2>3, TakeMoves
    <2>5. Len(data') >= Right.size
      BY <1>2, <2>1, <2>2, <2>3, <2>4
    <2>6. data' = Bytes(Right)
      BY <1>1, <1>2, <2>1, <2>2, <2>4, <2>5, TakenWhole
    <2>7. Right' = Right
      BY <2>1 DEF Right, Req
    <2> QED BY <2>1, <2>6, <2>7 DEF CleanFits
  <1>8. CASE Timeout
    <2>1. /\ attempt = 2 /\ ~hurt /\ phase \in {"head", "tail"} /\ asked = <<>>
          /\ Len(data) + Len(stream) < need
      BY <1>8 DEF Timeout, Fault
    <2>2. CASE phase = "head"
      <3>1. need = MinFrame /\ stream = Bytes(Right)
        BY <2>1, <2>2 DEF DataFits, CleanFits
      <3>2. Len(stream) >= need
        BY <1>2, <2>1, <3>1
      <3> QED BY <1>1, <2>1, <3>2
    <2>3. CASE phase = "tail"
      <3>1. data \o stream = Bytes(Right) /\ need = Right.size
        BY <2>1, <2>3 DEF CleanFits
      <3>2. Len(data) + Len(stream) = Right.size
        BY <1>2, <2>1, <3>1, AllBytes
      <3> QED BY <1>1, <2>1, <3>1, <3>2
    <2> QED BY <2>1, <2>2, <2>3
  <1>9. CASE Reject
    <2>1. attempt = 2 /\ ~hurt /\ phase = "check" /\ ~Accepts(data)
      BY <1>9 DEF Reject
    <2>2. data = Bytes(Right)
      BY <2>1 DEF CleanFits
    <2>3. 1 \in 1 .. Right.size
      BY <1>2, <2>1 DEF MinFrame
    <2>4. /\ DOMAIN data = 1 .. Right.size
          /\ \A i \in 1 .. Right.size: data[i] # Spoiled /\ data[i].frame = Right
      <3>1. DOMAIN data = 1 .. Len(data)
        BY <1>1, LenProperties
      <3>2. Len(data) = Right.size /\ Right \in SentFrames
        BY <1>2, <2>1, <2>2
      <3>3. \A i \in 1 .. Right.size: /\ Bytes(Right)[i] # Spoiled
                                      /\ Bytes(Right)[i].frame = Right
        BY <3>2, BytesType
      <3> QED BY <2>2, <3>1, <3>2, <3>3, Zenon
    <2>5. data[1].frame = Right
      BY <2>3, <2>4
    <2>6. Accepts(data)
      BY <1>2, <2>1, <2>2, <2>4, <2>5
         DEF Accepts, RightCRC, ReadHolding, WriteSingle
    <2> QED BY <2>1, <2>6
  <1>10. CASE Retry
    BY <1>10 DEF Retry, CleanFits
  <1>11. CASE Succeed \/ GiveUp
    BY <1>11 DEF Succeed, GiveUp, NextRequest
  <1>12. CASE UNCHANGED vars
    BY <1>12 DEF vars, CleanFits, Right, Req
  <1> QED BY <1>3, <1>4, <1>5, <1>6, <1>7, <1>8, <1>9, <1>10, <1>11, <1>12
          DEF Next

---------------------------------------------------------------------------
(* Read plans.                                                             *)

\* The words of a range, and those of a register.
Has(range) == range.start .. range.start + range.count - 1
Of(r) == r.address .. r.address + r.count - 1
Ranges(regs) == [start: Nat, count: Nat \ {0}, regs: SUBSET regs]

\* Registers whose words do not go beyond the last address.
Plain(regs) ==
    \A r \in regs: /\ r.address \in Nat /\ r.count \in Nat \ {0}
                   /\ r.address + r.count < Word

\* The parts of Covers.
LEMMA CoversParts ==
    ASSUME NEW plan, NEW regs
    PROVE  Covers(plan, regs) <=>
             /\ plan \in Seq(Ranges(regs))
             /\ \A r \in regs: \E i \in DOMAIN plan:
                  /\ r \in plan[i].regs /\ Of(r) \subseteq Has(plan[i])
                  /\ \A j \in DOMAIN plan \ {i}: r \notin plan[j].regs
             /\ \A i \in DOMAIN plan:
                  Has(plan[i]) = UNION {Of(r): r \in plan[i].regs}
             /\ \A i, j \in DOMAIN plan:
                  i < j => plan[i].start + plan[i].count < plan[j].start
  BY Zenon DEF Covers, Has, Of, Ranges

\* What a range of a plan is.
LEMMA RangeType ==
    ASSUME NEW plan, NEW regs, Covers(plan, regs)
    PROVE  /\ Len(plan) \in Nat /\ DOMAIN plan = 1 .. Len(plan)
           /\ \A i \in 1 .. Len(plan):
                /\ plan[i] \in Ranges(regs)
                /\ plan[i].start \in Nat /\ plan[i].count \in Nat \ {0}
                /\ plan[i].regs \subseteq regs
  <1>1. plan \in Seq(Ranges(regs))
    BY CoversParts
  <1>2. Len(plan) \in Nat /\ DOMAIN plan = 1 .. Len(plan)
    BY <1>1, LenProperties
  <1>3. \A i \in 1 .. Len(plan): plan[i] \in Ranges(regs)
    BY <1>1, ElementOfSeq
  <1> QED BY <1>2, <1>3 DEF Ranges

\* A plan whose last range takes in a register that it has not had, and what
\* the ranges after the first m have had, covers this one too.
LEMMA PlanGrows ==
    ASSUME NEW R, NEW plan, Covers(plan, R), NEW r, r \notin R,
           NEW m \in Nat, m <= Len(plan), NEW x \in Ranges(R \cup {r}),
           NEW new \in Seq(Ranges(R \cup {r})), Len(new) = m + 1,
           \A i \in 1 .. m: new[i] = plan[i], new[m + 1] = x,
           r \in x.regs,
           \A i \in m + 1 .. Len(plan): plan[i].regs \subseteq x.regs,
           \A q \in x.regs \ {r}: \E i \in m + 1 .. Len(plan):
                                    q \in plan[i].regs,
           Has(x) = UNION {Of(q): q \in x.regs},
           \A i \in 1 .. m: plan[i].start + plan[i].count < x.start
    PROVE  Covers(new, R \cup {r})
  <1>1. /\ Len(plan) \in Nat /\ DOMAIN plan = 1 .. Len(plan)
        /\ \A i \in 1 .. Len(plan): plan[i].regs \subseteq R
    BY RangeType
  <1>2. DOMAIN new = 1 .. m + 1
    BY LenProperties
  <1>3. \A q \in R \cup {r}: \E i \in DOMAIN new:
          /\ q \in new[i].regs /\ Of(q) \subseteq Has(new[i])
          /\ \A j \in DOMAIN new \ {i}: q \notin new[j].regs
    <2>1. ASSUME NEW q \in x.regs, \A j \in 1 .. m: q \notin plan[j].regs
          PROVE  \E i \in DOMAIN new:
                   /\ q \in new[i].regs /\ Of(q) \subseteq Has(new[i])
                   /\ \A j \in DOMAIN new \ {i}: q \notin new[j].regs
      <3>1. Of(q) \subseteq Has(x)
        OBVIOUS
      <3>2. m + 1 \in DOMAIN new
        BY <1>2
      <3>3. \A j \in DOMAIN new \ {m + 1}: j \in 1 .. m
        BY <1>2
      <3>4. \A j \in DOMAIN new \ {m + 1}: q \notin new[j].regs
        BY <2>1, <3>3
      <3> QED BY <2>1, <3>1, <3>2, <3>4
    <2>2. \A j \in 1 .. m: r \notin plan[j].regs
      BY <1>1
    <2>3. ASSUME NEW q \in R
          PROVE  \E i \in DOMAIN new:
                   /\ q \in new[i].regs /\ Of(q) \subseteq Has(new[i])
                   /\ \A j \in DOMAIN new \ {i}: q \notin new[j].regs
      <3>1. PICK i \in 1 .. Len(plan):
              /\ q \in plan[i].regs /\ Of(q) \subseteq Has(plan[i])
              /\ \A j \in 1 .. Len(plan) \ {i}: q \notin plan[j].regs
        BY <1>1, CoversParts, Zenon
      <3>2. CASE i <= m
        <4>1. i \in 1 .. m /\ i \in DOMAIN new /\ new[i] = plan[i]
          BY <1>2, <3>1, <3>2
        <4>2. q \notin x.regs
          <5>1. q # r
            OBVIOUS
          <5>2. \A k \in m + 1 .. Len(plan): k \in 1 .. Len(plan) \ {i}
            BY <1>1, <3>1, <3>2
          <5> QED BY <3>1, <5>1, <5>2
        <4>3. \A j \in DOMAIN new \ {i}: q \notin new[j].regs
          <5>1. \A j \in DOMAIN new \ {i}:
                  j = m + 1 \/ (j \in 1 .. m /\ j \in 1 .. Len(plan) \ {i})
            BY <1>1, <1>2
          <5> QED BY <3>1, <4>2, <5>1
        <4> QED BY <3>1, <4>1, <4>3
      <3>3. CASE i > m
        <4>1. i \in m + 1 .. Len(plan)
          BY <1>1, <3>1, <3>3
        <4>2. q \in x.regs
          BY <3>1, <4>1
        <4>3. \A j \in 1 .. m: j \in 1 .. Len(plan) \ {i}
          BY <1>1, <3>1, <3>3
        <4> QED BY <2>1, <3>1, <4>2, <4>3
      <3> QED BY <3>1, <3>2, <3>3
    <2> QED BY <2>1, <2>2, <2>3
  <1>4. ASSUME NEW i \in DOMAIN new
        PROVE  Has(new[i]) = UNION {Of(q): q \in new[i].regs}
    <2>1. CASE i = m + 1
      BY <2>1
    <2>2. CASE i # m + 1
      <3>1. i \in 1 .. m /\ i \in DOMAIN plan
        BY <1>1, <1>2, <2>2
      <3>2. Has(plan[i]) = UNION {Of(q): q \in plan[i].regs}
        BY <3>1, CoversParts
      <3> QED BY <3>1, <3>2
    <2> QED BY <2>1, <2>2
  <1>5. ASSUME NEW i \in DOMAIN new, NEW j \in DOMAIN new, i < j
        PROVE  new[i].start + new[i].count < new[j].start
    <2>1. i \in 1 .. m /\ i \in DOMAIN plan
      BY <1>1, <1>2, <1>5
    <2>2. CASE j = m + 1
      BY <2>1, <2>2
    <2>3. CASE j # m + 1
      <3>1. j \in 1 .. m /\ j \in DOMAIN plan
        BY <1>1, <1>2, <2>3
      <3>2. plan[i].start + plan[i].count < plan[j].start
        BY <1>5, <2>1, <3>1, CoversParts
      <3> QED BY <2>1, <3>1, <3>2
    <2> QED BY <2>2, <2>3
  <1> QED BY <1>3, <1>4, <1>5, CoversParts

\* Where the last range of a plan begins a register begins, and it does not end
\* beyond the last address.
LEMMA RangeEnds ==
    ASSUME NEW R, Plain(R), NEW plan, Covers(plan, R),
           NEW i \in 1 .. Len(plan)
    PROVE  /\ \E q \in R: q.address = plan[i].start
           /\ plan[i].start + plan[i].count < Word
  <1> DEFINE x == plan[i]
  <1>1. x.start \in Nat /\ x.count \in Nat \ {0} /\ x.regs \subseteq R
    BY RangeType
  <1>2. Has(x) = UNION {Of(q): q \in x.regs}
    BY RangeType, CoversParts
  <1> HIDE DEF x
  <1>3. x.start \in Has(x) /\ x.start + x.count - 1 \in Has(x)
    BY <1>1 DEF Has
  <1>4. PICK q \in x.regs: x.start \in Of(q)
    BY <1>2, <1>3
  <1>5. q \in R /\ q.address \in Nat /\ q.count \in Nat \ {0}
    BY <1>1 DEF Plain
  <1>6. q.address = x.start
    <2>1. q.address \in Of(q)
      BY <1>5 DEF Of
    <2>2. q.address \in Has(x)
      BY <1>2, <2>1
    <2> QED BY <1>1, <1>4, <1>5, <2>2 DEF Has, Of
  <1>7. PICK p \in x.regs: x.start + x.count - 1 \in Of(p)
    BY <1>2, <1>3
  <1>8. x.start + x.count < Word
    <2>1. p.address \in Nat /\ p.count \in Nat /\ p.address + p.count < Word
      BY <1>1 DEF Plain
    <2> QED BY <1>1, <1>7, <2>1 DEF Of, Word
  <1> QED BY <1>5, <1>6, <1>8 DEF x

\* The end of a register, in uint16 arithmetic.
LEMMA EndPlain ==
    ASSUME NEW a \in Nat, a < Word PROVE a % Word = a
  BY DEF Word

\* ExtendRanges keeps a plan one that covers its registers, if it is given
\* registers by address.
LEMMA ExtendCovers ==
    ASSUME NEW R, NEW plan, Covers(plan, R), NEW r, r \notin R,
           Plain(R \cup {r}), \A q \in R: q.address <= r.address
    PROVE  Covers(ExtendRanges(plan, r), R \cup {r})
  <1> DEFINE n == Len(plan)
             cur == plan[n]
             end == (cur.start + cur.count) % Word
             Rr == Ranges(R \cup {r})
  <1>1. /\ plan \in Seq(Ranges(R)) /\ n \in Nat /\ DOMAIN plan = 1 .. n
        /\ \A i \in 1 .. n:
             /\ plan[i] \in Ranges(R)
             /\ plan[i].start \in Nat /\ plan[i].count \in Nat \ {0}
             /\ plan[i].regs \subseteq R
    BY RangeType, CoversParts
  <1>2. \A i \in 1 .. n: plan[i] \in Rr
    BY <1>1 DEF Ranges
  <1>3. Plain(R) /\ r.address \in Nat /\ r.count \in Nat \ {0}
        /\ r.address + r.count < Word
    BY DEF Plain
  <1>4. End(r) = r.address + r.count
    BY <1>3, EndPlain DEF End
  <1>5. plan # <<>> => n \in 1 .. n
    BY <1>1, EmptySeq
  <1>6. ASSUME plan # <<>>
        PROVE  /\ cur.start \in Nat /\ cur.count \in Nat \ {0}
               /\ cur.start <= r.address /\ end = cur.start + cur.count
               /\ end < Word
    <2>1. cur.start \in Nat /\ cur.count \in Nat \ {0}
      BY <1>1, <1>5, <1>6
    <2>2. PICK q \in R: q.address = cur.start
      BY <1>3, <1>5, <1>6, RangeEnds
    <2>3. cur.start + cur.count < Word
      BY <1>3, <1>5, <1>6, RangeEnds
    <2>4. end = cur.start + cur.count
      BY <2>1, <2>3, EndPlain
    <2> QED BY <2>1, <2>2, <2>3, <2>4
  <1> HIDE DEF n, cur, end
  <1>7. CASE plan # <<>> /\ r.address <= end
    <2> DEFINE c == IF End(r) <= end THEN cur.count
                                     ELSE (End(r) - cur.start) % Word
               x == [cur EXCEPT !.count = c, !.regs = cur.regs \cup {r}]
               front == SubSeq(plan, 1, n - 1)
               new == Append(front, x)
    <2>1. ExtendRanges(plan, r) = new
      BY <1>7 DEF ExtendRanges, Last, Front, n, cur, end
    <2>2. /\ c \in Nat \ {0}
          /\ c = IF r.address + r.count <= cur.start + cur.count
                 THEN cur.count ELSE r.address + r.count - cur.start
      <3>1. /\ r.address + r.count - cur.start \in Nat \ {0}
            /\ r.address + r.count - cur.start < Word
        BY <1>3, <1>6, <1>7 DEF Word
      <3>2. (r.address + r.count - cur.start) % Word
              = r.address + r.count - cur.start
        BY <3>1, EndPlain
      <3>3. End(r) = r.address + r.count /\ end = cur.start + cur.count
        BY <1>4, <1>6, <1>7
      <3>4. CASE End(r) <= end
        <4>1. c = cur.count
          BY <3>4
        <4>2. r.address + r.count <= cur.start + cur.count
          BY <3>3, <3>4
        <4> HIDE DEF c
        <4> QED BY <1>6, <1>7, <4>1, <4>2
      <3>5. CASE ~(End(r) <= end)
        <4>1. c = (End(r) - cur.start) % Word
          BY <3>5
        <4> HIDE DEF c
        <4>2. c = r.address + r.count - cur.start
          <5>1. End(r) - cur.start = r.address + r.count - cur.start
            BY <1>3, <1>6, <1>7, <3>3
          <5> QED BY <3>2, <4>1, <5>1, Zenon
        <4>3. ~(r.address + r.count <= cur.start + cur.count)
          BY <3>3, <3>5
        <4> QED BY <3>1, <4>2, <4>3
      <3> QED BY <3>4, <3>5
    <2>3. n \in 1 .. n /\ cur \in Ranges(R)
      BY <1>1, <1>5, <1>7 DEF cur
    <2> HIDE DEF c
    <2>4. /\ x \in Rr /\ x.start = cur.start /\ x.count = c
          /\ x.regs = cur.regs \cup {r}
      BY <2>2, <2>3 DEF Ranges
    <2>5. /\ front \in Seq(Rr) /\ Len(front) = n - 1
          /\ \A i \in 1 .. n - 1: front[i] = plan[i]
      <3> HIDE DEF Rr
      <3>1. \A i \in 1 .. n - 1: i \in 1 .. n
        BY <1>1
      <3>2. \A i \in 1 .. n - 1: plan[i] \in Rr
        BY <1>2, <3>1
      <3>3. 1 \in Int /\ n - 1 \in Int
        BY <1>1
      <3>4. /\ front \in Seq(Rr)
            /\ Len(front) = IF 1 <= n - 1 THEN (n - 1) - 1 + 1 ELSE 0
            /\ \A i \in 1 .. (n - 1) - 1 + 1: front[i] = plan[1 + i - 1]
        BY <3>2, <3>3, SubSeqProperties
      <3> HIDE DEF front
      <3>5. Len(front) = n - 1
        BY <1>1, <2>3, <3>4
      <3>6. \A i \in 1 .. n - 1: i \in 1 .. (n - 1) - 1 + 1 /\ 1 + i - 1 = i
        BY <1>1
      <3> QED BY <3>4, <3>5, <3>6
    <2> HIDE DEF front, x
    <2>6. /\ new \in Seq(Rr) /\ Len(new) = (n - 1) + 1
          /\ \A i \in 1 .. n - 1: new[i] = plan[i]
          /\ new[(n - 1) + 1] = x
      <3> HIDE DEF Rr
      <3>1. /\ new \in Seq(Rr) /\ Len(new) = Len(front) + 1
            /\ \A i \in 1 .. Len(front): new[i] = front[i]
            /\ new[Len(front) + 1] = x
        BY <2>4, <2>5, AppendProperties
      <3> HIDE DEF new
      <3> QED BY <2>5, <3>1
    <2> HIDE DEF new
    <2>7. Has(x) = UNION {Of(q): q \in x.regs}
      <3>1. Has(x) = Has(cur) \cup Of(r)
        <4> DEFINE a == cur.start
                   k == cur.count
        <4>1. Has(x) = a .. a + c - 1 /\ Has(cur) = a .. a + k - 1
          BY <2>4 DEF Has
        <4>2. /\ a \in Nat /\ k \in Nat /\ a <= r.address
              /\ r.address <= a + k
              /\ c = IF r.address + r.count <= a + k THEN k
                     ELSE r.address + r.count - a
          BY <1>6, <1>7, <2>2
        <4> HIDE DEF a, k
        <4> QED BY <1>3, <4>1, <4>2 DEF Of
      <3>2. Has(cur) = UNION {Of(q): q \in cur.regs}
        BY <1>1, <2>3, CoversParts DEF cur
      <3> QED BY <2>4, <3>1, <3>2
    <2>8. \A i \in 1 .. n - 1: plan[i].start + plan[i].count < x.start
      <3>1. \A i \in 1 .. n - 1: i \in DOMAIN plan /\ n \in DOMAIN plan /\ i < n
        BY <1>1, <2>3
      <3> QED BY <2>4, <3>1, CoversParts DEF cur
    <2>9. /\ \A i \in (n - 1) + 1 .. n: plan[i].regs \subseteq x.regs
          /\ \A q \in x.regs \ {r}: \E i \in (n - 1) + 1 .. n:
                                      q \in plan[i].regs
      <3>1. (n - 1) + 1 .. n = {n}
        BY <1>1
      <3> QED BY <2>4, <3>1 DEF cur
    <2>10. n - 1 \in Nat /\ n - 1 <= n /\ r \in x.regs
      BY <2>3, <2>4, <1>1
    <2>11. Covers(new, R \cup {r})
      <3> QED BY <2>4, <2>6, <2>7, <2>8, <2>9, <2>10, PlanGrows DEF n
    <2> QED BY <2>1, <2>11
  <1>8. CASE ~(plan # <<>> /\ r.address <= end)
    <2> DEFINE x == [start |-> r.address, count |-> r.count, regs |-> {r}]
               new == Append(plan, x)
    <2>1. ExtendRanges(plan, r) = new
      BY <1>8 DEF ExtendRanges, Last, Front, n, cur, end
    <2>2. /\ x \in Rr /\ x.start = r.address /\ x.count = r.count
          /\ x.regs = {r}
      BY <1>3 DEF Ranges
    <2>3. plan \in Seq(Rr)
      <3>1. plan \in [1 .. n -> Rr]
        <4> HIDE DEF Rr
        <4>1. plan \in [1 .. n -> Ranges(R)]
          BY <1>1, LenProperties DEF n
        <4> QED BY <1>2, <4>1
      <3> QED BY <1>1, <3>1, SeqDef
    <2> HIDE DEF x
    <2>4. /\ new \in Seq(Rr) /\ Len(new) = n + 1
          /\ \A i \in 1 .. n: new[i] = plan[i]
          /\ new[n + 1] = x
      <3> HIDE DEF Rr
      <3> QED BY <1>1, <2>2, <2>3, AppendProperties DEF n
    <2> HIDE DEF new
    <2>5. Has(x) = UNION {Of(q): q \in x.regs}
      BY <2>2 DEF Has, Of
    <2>6. ASSUME NEW i \in 1 .. n
          PROVE  plan[i].start + plan[i].count < x.start
      <3>1. plan # <<>>
        BY <1>1, <2>6, EmptySeq DEF n
      <3>2. r.address > cur.start + cur.count
        BY <1>3, <1>6, <1>8, <3>1
      <3>3. CASE i = n
        BY <1>1, <1>3, <2>2, <3>2, <3>3 DEF cur
      <3>4. CASE i # n
        <4>1. i \in DOMAIN plan /\ n \in DOMAIN plan /\ i < n
          BY <1>1, <3>4
        <4>2. plan[i].start + plan[i].count < cur.start
          BY <4>1, CoversParts DEF cur
        <4> QED BY <1>1, <1>3, <1>6, <2>2, <3>1, <3>2, <4>2
      <3> QED BY <3>3, <3>4
    <2>7. n + 1 .. n = {}
      BY <1>1
    <2>8. Covers(new, R \cup {r})
      <3>1. \A i \in n + 1 .. n: plan[i].regs \subseteq x.regs
        BY <2>7
      <3>2. \A q \in x.regs \ {r}: \E i \in n + 1 .. n: q \in plan[i].regs
        BY <2>2
      <3>3. n <= n /\ r \in x.regs
        BY <1>1, <2>2
      <3> QED BY <1>1, <2>2, <2>4, <2>5, <2>6, <3>1, <3>2, <3>3, PlanGrows
              DEF n
    <2> QED BY <2>1, <2>8
  <1> QED BY <1>7, <1>8

\* Induction, for a set of numbers.
LEMMA Induction ==
    ASSUME NEW G, G \subseteq Nat, 0 \in G, \A n \in G: n + 1 \in G
    PROVE  G = Nat
  <1> DEFINE R == OpToRel(<, Nat)
             B == Nat \ G
  <1>1. \A n, k \in Nat: k < n => <<k, n>> \in R
    BY DEF OpToRel
  <1>2. IsWellFoundedOn(R, Nat)
    BY NatLessThanWellFounded
  <1> HIDE DEF R
  <1>3. SUFFICES ASSUME B # {} PROVE FALSE
    OBVIOUS
  <1>4. PICK n \in B: \A k \in B: <<k, n>> \notin R
    BY <1>2, <1>3, WFMin
  <1>5. n \in Nat /\ n # 0 /\ n - 1 \in Nat
    BY <1>4
  <1>6. n - 1 \in G
    <2>1. <<n - 1, n>> \in R
      BY <1>1, <1>5
    <2> QED BY <1>4, <1>5, <2>1
  <1>7. (n - 1) + 1 \in G
    BY <1>6
  <1> QED BY <1>4, <1>5, <1>7

\* The plans of the first registers, one after another.

IsPlanSteps(f, s, k) ==
    f = [n \in 0 .. k |-> IF n = 0 THEN <<>> ELSE ExtendRanges(f[n - 1], s[n])]

LEMMA PlanStepsExist ==
    ASSUME NEW s, NEW k \in Nat PROVE \E f: IsPlanSteps(f, s, k)
  <1> DEFINE G == {n \in Nat: \E f: IsPlanSteps(f, s, n)}
  <1>1. 0 \in G
    <2> DEFINE f == [n \in 0 .. 0 |-> <<>>]
    <2>1. IsPlanSteps(f, s, 0)
      BY DEF IsPlanSteps
    <2> QED BY <2>1
  <1>2. ASSUME NEW n \in G PROVE n + 1 \in G
    <2>1. n \in Nat /\ n + 1 \in Nat
      OBVIOUS
    <2>2. PICK f: IsPlanSteps(f, s, n)
      OBVIOUS
    <2> DEFINE g == [i \in 0 .. n + 1 |->
                       IF i <= n THEN f[i] ELSE ExtendRanges(f[n], s[n + 1])]
    <2>3. \A i \in 0 .. n + 1:
            g[i] = IF i = 0 THEN <<>> ELSE ExtendRanges(g[i - 1], s[i])
      <3> TAKE i \in 0 .. n + 1
      <3>1. CASE i = 0
        BY <2>1, <2>2, <3>1 DEF IsPlanSteps
      <3>2. CASE i \in 1 .. n
        <4>1. f[i] = ExtendRanges(f[i - 1], s[i])
          BY <2>1, <2>2, <3>2 DEF IsPlanSteps
        <4>2. g[i] = f[i] /\ g[i - 1] = f[i - 1]
          BY <2>1, <3>2
        <4> QED BY <3>2, <4>1, <4>2
      <3>3. CASE i = n + 1
        <4>1. g[i] = ExtendRanges(f[n], s[n + 1]) /\ g[i - 1] = f[n]
          BY <2>1, <3>3
        <4> QED BY <2>1, <3>3, <4>1
      <3> QED BY <2>1, <3>1, <3>2, <3>3
    <2>4. IsPlanSteps(g, s, n + 1)
      BY <2>3 DEF IsPlanSteps
    <2> HIDE DEF g
    <2> QED BY <2>1, <2>4
  <1> HIDE DEF G
  <1>3. G = Nat
    <2>1. G \subseteq Nat
      BY DEF G
    <2> QED BY <1>1, <1>2, <2>1, Induction
  <1> QED BY <1>3 DEF G

LEMMA PlanIsLastStep ==
    ASSUME NEW s, Len(s) \in Nat
    PROVE  \E f: IsPlanSteps(f, s, Len(s)) /\ BuildReadPlan(s) = f[Len(s)]
  <1> DEFINE h == CHOOSE f: IsPlanSteps(f, s, Len(s))
  <1>1. IsPlanSteps(h, s, Len(s))
    BY PlanStepsExist
  <1>2. BuildReadPlan(s) = h[Len(s)]
    BY DEF BuildReadPlan, IsPlanSteps
  <1> QED BY <1>1, <1>2

\* The registers that were sorted are those of the group, each once.
LEMMA ArrangedRegisters ==
    ASSUME NEW regs, IsFiniteSet(regs), NEW s \in Arrangements(regs)
    PROVE  /\ Len(s) \in Nat /\ DOMAIN s = 1 .. Len(s)
           /\ regs = {s[i]: i \in 1 .. Len(s)}
           /\ \A i, j \in 1 .. Len(s):
                i < j => s[i] # s[j] /\ s[i].address <= s[j].address
  <1> DEFINE k == Cardinality(regs)
             D == 1 .. k
  <1>1. k \in Nat
    BY FS_CardinalityType
  <1>2. /\ s \in [D -> regs]
        /\ \A i, j \in D: i # j => s[i] # s[j]
        /\ \A i, j \in DOMAIN s: i < j => s[i].address <= s[j].address
    BY DEF Arrangements, SetToSeqs
  <1>3. IsFiniteSet(D) /\ Cardinality(D) = k
    BY <1>1, FS_Interval
  <1>4. s \in Injection(D, regs)
    BY <1>2 DEF Injection, IsInjective
  <1>5. s \in Surjection(D, regs)
    <2> HIDE DEF D
    <2> QED BY <1>3, <1>4, FS_Injection
  <1>6. regs = {s[i]: i \in D}
    BY <1>2, <1>5 DEF Surjection
  <1>7. s \in Seq(regs) /\ Len(s) = k
    <2>1. s \in Seq(regs)
      BY <1>1, <1>2, SeqDef
    <2>2. DOMAIN s = 1 .. Len(s) /\ Len(s) \in Nat
      BY <2>1, LenProperties
    <2>3. 1 .. Len(s) = 1 .. k
      BY <1>2, <2>2
    <2>4. ASSUME NEW a \in Nat, NEW b \in Nat, 1 .. a = 1 .. b PROVE a = b
      <3>1. \A i: i \in 1 .. a <=> i \in 1 .. b
        BY <2>4
      <3> QED BY <3>1
    <2> HIDE DEF k
    <2> QED BY <1>1, <2>1, <2>2, <2>3, <2>4
  <1> HIDE DEF k
  <1>8. \A i, j \in D: i < j => i # j
    BY <1>1
  <1> QED BY <1>1, <1>2, <1>6, <1>7, <1>8

\* However registers were sorted by address, the plan that is built covers them
\* exactly (catalog.go:1793-1832).
THEOREM BuildReadPlanCovers ==
    ASSUME NEW regs, IsFiniteSet(regs), Plain(regs),
           NEW s \in Arrangements(regs)
    PROVE  Covers(BuildReadPlan(s), regs)
  <1> DEFINE k == Len(s)
             First(n) == {s[i]: i \in 1 .. n}
  <1>1. /\ k \in Nat
        /\ regs = First(k)
        /\ \A i, j \in 1 .. k:
             i < j => s[i] # s[j] /\ s[i].address <= s[j].address
    BY ArrangedRegisters
  <1>2. PICK f: IsPlanSteps(f, s, k) /\ BuildReadPlan(s) = f[k]
    BY <1>1, PlanIsLastStep
  <1> DEFINE G == {n \in Nat: n <= k => Covers(f[n], First(n))}
  <1>3. 0 \in G
    <2>1. f[0] = <<>>
      BY <1>1, <1>2 DEF IsPlanSteps
    <2>2. First(0) = {}
      OBVIOUS
    <2>3. DOMAIN <<>> = {} /\ <<>> \in Seq(Ranges({}))
      BY EmptySeq
    <2>4. Covers(<<>>, {})
      BY <2>3, CoversParts
    <2> QED BY <2>1, <2>2, <2>4
  <1>4. ASSUME NEW n \in G PROVE n + 1 \in G
    <2>1. n \in Nat /\ n + 1 \in Nat
      OBVIOUS
    <2>2. SUFFICES ASSUME n + 1 <= k
                   PROVE  Covers(f[n + 1], First(n + 1))
      BY <2>1
    <2>3. Covers(f[n], First(n))
      BY <1>1, <2>1, <2>2
    <2>4. f[n + 1] = ExtendRanges(f[n], s[n + 1])
      <3>1. n + 1 \in 0 .. k /\ n + 1 # 0 /\ (n + 1) - 1 = n
        BY <1>1, <2>1, <2>2
      <3> HIDE DEF k
      <3> QED BY <1>2, <3>1 DEF IsPlanSteps
    <2> DEFINE r == s[n + 1]
    <2>5. First(n + 1) = First(n) \cup {r}
      <3>1. 1 .. n + 1 = (1 .. n) \cup {n + 1}
        BY <2>1
      <3> QED BY <3>1
    <2>6. \A i \in 1 .. n: i \in 1 .. k /\ n + 1 \in 1 .. k /\ i < n + 1
      BY <1>1, <2>1, <2>2
    <2>7. r \notin First(n) /\ \A q \in First(n): q.address <= r.address
      BY <1>1, <2>6
    <2>8. First(n) \cup {r} \subseteq regs
      <3>1. n + 1 \in 1 .. k
        BY <1>1, <2>1, <2>2
      <3> QED BY <1>1, <2>6, <3>1
    <2>9. Plain(First(n) \cup {r})
      BY <2>8 DEF Plain
    <2> HIDE DEF First, r
    <2>10. Covers(ExtendRanges(f[n], r), First(n) \cup {r})
      BY <2>3, <2>7, <2>9, ExtendCovers
    <2> QED BY <2>4, <2>5, <2>10 DEF r
  <1>5. G = Nat
    <2>1. G \subseteq Nat
      OBVIOUS
    <2> HIDE DEF G
    <2> QED BY <1>3, <1>4, <2>1, Induction
  <1>6. Covers(f[k], First(k))
    <2>1. k \in G /\ k <= k
      <3> HIDE DEF G, k
      <3> QED BY <1>1, <1>5
    <2> HIDE DEF First
    <2> QED BY <2>1
  <1> HIDE DEF First
  <1> QED BY <1>1, <1>2, <1>6

\* The registers of a workload are such registers, and sorted.
LEMMA InitPlan ==
    ASSUME Init PROVE PlanCovers
  <1> DEFINE regs == ByGroup(catalog, "slow")
  <1>1. ASSUME NEW w \in Workloads, catalog = w.catalog,
               sorted \in Arrangements(regs)
        PROVE  PlanCovers
    <2>1. IsFiniteSet(catalog) /\ Plain(catalog)
      BY <1>1, WorkloadsAssumption DEF Plain
    <2>2. regs \subseteq catalog
      BY DEF ByGroup
    <2>3. IsFiniteSet(regs) /\ Plain(regs)
      BY <2>1, <2>2, FS_Subset DEF Plain
    <2> HIDE DEF regs
    <2>4. Covers(BuildReadPlan(sorted), regs)
      BY <1>1, <2>3, BuildReadPlanCovers
    <2> QED BY <2>4 DEF PlanCovers, SlowPlan, regs
  <1>2. ASSUME catalog = {}, sorted = <<>> PROVE PlanCovers
    <2>1. regs = {} /\ IsFiniteSet(regs) /\ Cardinality(regs) = 0
      BY <1>2, FS_EmptySet DEF ByGroup
    <2>2. Plain(regs)
      BY <2>1 DEF Plain
    <2>3. sorted \in Arrangements(regs)
      BY <1>2, <2>1 DEF Arrangements, SetToSeqs
    <2> HIDE DEF regs
    <2>4. Covers(BuildReadPlan(sorted), regs)
      BY <2>1, <2>2, <2>3, BuildReadPlanCovers
    <2> QED BY <2>4 DEF PlanCovers, SlowPlan, regs
  <1> QED BY <1>1, <1>2 DEF Init

\* For every catalogue whose addresses do not wrap, and however registers of
\* one address were sorted: each register is in exactly one range of the plan,
\* the ranges have no word that no register has, and a gap is between any two
\* (catalog.go:1716-1730, 1793-1832).
THEOREM PlansCoverTheirRegisters == Spec => []PlanCovers
  <1>1. Init => PlanCovers
    BY InitPlan
  <1>2. PlanCovers /\ [Next]_vars => PlanCovers'
    <2> SUFFICES ASSUME PlanCovers, [Next]_vars PROVE PlanCovers'
      OBVIOUS
    <2>1. UNCHANGED inputs
      BY DEF Next, vars, Answer, Send, ReadAtLeast, UnexpectedFunction,
             ReadFull, Timeout, Succeed, Reject, Retry, GiveUp
    <2> QED BY <2>1 DEF inputs, PlanCovers, SlowPlan
  <1> QED BY <1>1, <1>2, PTL DEF Spec

---------------------------------------------------------------------------
(* What is stored.                                                         *)

\* A range of a plan makes a request within which its registers are.
LEMMA ReadType ==
    ASSUME PlanCovers, NEW w \in Workloads, catalog = w.catalog,
           NEW i \in DOMAIN SlowPlan
    PROVE  Read(SlowPlan[i]) \in Reqs
  <1> DEFINE plan == SlowPlan
             regs == ByGroup(catalog, "slow")
  <1>1. Has(plan[i]) = UNION {Of(r): r \in plan[i].regs}
    BY CoversParts DEF PlanCovers
  <1>2. plan[i] \in Ranges(regs)
    BY RangeType DEF PlanCovers
  <1>3. regs \subseteq w.catalog
    BY DEF ByGroup
  <1> HIDE DEF plan, regs
  <1>4. ASSUME NEW r \in plan[i].regs
        PROVE  /\ r.address \in Nat /\ r.count \in Nat
               /\ r.address >= plan[i].start
               /\ r.address + r.count <= plan[i].start + plan[i].count
    <2>1. r \in w.catalog
      BY <1>2, <1>3 DEF Ranges
    <2>2. r.address \in Nat /\ r.count \in Nat \ {0}
      BY <2>1, WorkloadsAssumption
    <2>3. r.address \in Of(r) /\ r.address + r.count - 1 \in Of(r)
      BY <2>2 DEF Of
    <2>4. Of(r) \subseteq Has(plan[i])
      BY <1>1
    <2>5. r.address \in Has(plan[i]) /\ r.address + r.count - 1 \in Has(plan[i])
      BY <2>3, <2>4
    <2> QED BY <1>2, <2>2, <2>5 DEF Has, Ranges
  <1> DEFINE q == Read(plan[i])
  <1>5. /\ q \in [function: {ReadHolding, WriteSingle}, start: Nat,
                  count: Nat \ {0},
                  regs: SUBSET UNION {v.catalog: v \in Workloads}]
        /\ q.function # WriteSingle
    <2>1. plan[i].regs \subseteq UNION {v.catalog: v \in Workloads}
      BY <1>2, <1>3 DEF Ranges
    <2> QED BY <1>2, <2>1 DEF Ranges, Read, ReadHolding, WriteSingle
  <1>6. Within(q)
    BY <1>4 DEF Read, Within
  <1> HIDE DEF q
  <1>7. q \in Reqs
    BY <1>5, <1>6 DEF Reqs
  <1> QED BY <1>7 DEF q, plan

\* A write of a register is a request.
LEMMA WriteType ==
    ASSUME NEW a \in Nat PROVE WriteOne(a) \in Reqs
  <1>1. WriteOne(a) \in [function: {ReadHolding, WriteSingle}, start: Nat,
                         count: Nat \ {0},
                         regs: SUBSET UNION {v.catalog: v \in Workloads}]
    BY DEF WriteOne
  <1>2. WriteOne(a).count = 1 /\ WriteOne(a).regs = {}
    BY DEF WriteOne
  <1> QED BY <1>1, <1>2 DEF Reqs, Within

\* The initial states.
LEMMA InitStream ==
    Init => StreamInv /\ ValuesRight /\ RetryRecovers
  <1> SUFFICES ASSUME Init PROVE StreamInv /\ ValuesRight /\ RetryRecovers
    OBVIOUS
  <1>1. todo \in Seq(Reqs)
    <2> PlanCovers
      BY InitPlan
    <2>1. CASE todo = <<>>
      BY <2>1, EmptySeq
    <2>2. ASSUME NEW w \in Workloads, catalog = w.catalog,
                 todo = [i \in DOMAIN w.writes |-> WriteOne(w.writes[i])]
                        \o [i \in DOMAIN SlowPlan |-> Read(SlowPlan[i])]
          PROVE  todo \in Seq(Reqs)
      <3> DEFINE plan == SlowPlan
                 writes == w.writes
                 a == [i \in DOMAIN writes |-> WriteOne(writes[i])]
                 b == [i \in DOMAIN plan |-> Read(plan[i])]
      <3>1. /\ writes \in Seq(Nat) /\ Len(writes) \in Nat
            /\ DOMAIN writes = 1 .. Len(writes)
            /\ \A i \in 1 .. Len(writes): writes[i] \in Nat
        BY WorkloadsAssumption, LenProperties, ElementOfSeq
      <3>2. Len(plan) \in Nat /\ DOMAIN plan = 1 .. Len(plan)
        BY RangeType DEF PlanCovers
      <3>3. \A i \in DOMAIN plan: Read(plan[i]) \in Reqs
        BY <2>2, ReadType
      <3>4. todo = a \o b
        BY <2>2
      <3> HIDE DEF plan, writes
      <3>5. a \in [1 .. Len(writes) -> Reqs] /\ b \in [1 .. Len(plan) -> Reqs]
        BY <3>1, <3>2, <3>3, WriteType
      <3>6. a \in Seq(Reqs) /\ b \in Seq(Reqs)
        BY <3>1, <3>2, <3>5, SeqDef
      <3> HIDE DEF a, b
      <3> QED BY <3>4, <3>6, ConcatProperties
    <2> QED BY <2>1, <2>2 DEF Init
  <1>2. /\ attempt = 1 /\ phase = "ready" /\ stream = <<>> /\ asked = <<>>
        /\ data = <<>> /\ need = 0 /\ hurt = FALSE /\ failed = {}
        /\ values = [r \in catalog |-> <<>>]
    BY DEF Init
  <1>3. /\ <<>> \in Seq(Reqs) /\ <<>> \in Seq(AnyByte) /\ Len(<<>>) = 0
        /\ data \o stream = <<>>
    BY <1>2, EmptySeq, ConcatEmptySeq
  <1>4. StreamTypeOK /\ DataFits /\ SecondFits /\ CleanFits
    <2>1. StreamTypeOK
      BY <1>1, <1>2, <1>3 DEF StreamTypeOK
    <2>2. DataFits /\ SecondFits /\ CleanFits
      BY <1>2 DEF DataFits, SecondFits, CleanFits
    <2> QED BY <2>1, <2>2
  <1>5. AskedFits /\ HeadsFit
    BY <1>2, <1>3 DEF AskedFits, HeadsFit, OneHead
  <1>6. ValuesRight /\ RetryRecovers
    BY <1>2 DEF ValuesRight, RetryRecovers
  <1> QED BY <1>4, <1>5, <1>6 DEF StreamInv

\* The words of a register that are cut out of the right answer.
LEMMA SliceRight ==
    ASSUME NEW q \in Reqs, q.function = ReadHolding, NEW r \in q.regs
    PROVE  Slice(Words(Frame(q, ReadHolding)), q.start, r)
             = [i \in 1 .. r.count |-> r.address + i - 1]
  <1>1. /\ q.start \in Nat /\ q.count \in Nat
        /\ r.address \in Nat /\ r.count \in Nat
        /\ r.address >= q.start /\ r.address + r.count <= q.start + q.count
    BY DEF Reqs, Within
  <1> DEFINE w == Words(Frame(q, ReadHolding))
             m == r.address - q.start + 1
             n == r.address - q.start + r.count
             s == SubSeq(w, m, n)
             t == [i \in 1 .. r.count |-> r.address + i - 1]
  <1>2. w = [i \in 1 .. q.count |-> q.start + i - 1]
    BY DEF Words, Frame
  <1>3. /\ m \in Int /\ n \in Int /\ n - m + 1 = r.count
        /\ (m <= n <=> r.count > 0)
        /\ \A i \in m .. n: i \in 1 .. q.count
    BY <1>1
  <1> HIDE DEF w, m, n
  <1>4. \A i \in m .. n: w[i] = q.start + i - 1 /\ w[i] \in Int
    <2>1. \A i \in 1 .. q.count: w[i] = q.start + i - 1
      BY <1>2
    <2>2. \A i \in m .. n: w[i] = q.start + i - 1 /\ i \in Int
      BY <1>3, <2>1
    <2> QED BY <1>1, <2>2
  <1>5. /\ s \in Seq(Int) /\ Len(s) = r.count
        /\ \A i \in 1 .. r.count: s[i] = w[m + i - 1]
    <2>1. /\ s \in Seq(Int)
          /\ Len(s) = IF m <= n THEN n - m + 1 ELSE 0
          /\ \A i \in 1 .. n - m + 1: s[i] = w[m + i - 1]
      BY <1>3, <1>4, SubSeqProperties
    <2>2. Len(s) = r.count
      <3> HIDE DEF s
      <3> QED BY <1>1, <1>3, <2>1
    <2> QED BY <1>3, <2>1, <2>2
  <1> HIDE DEF s
  <1>6. \A i \in 1 .. r.count: s[i] = r.address + i - 1
    <2>1. \A i \in 1 .. r.count: m + i - 1 \in m .. n
      BY <1>1, <1>3
    <2>2. \A i \in 1 .. r.count: s[i] = q.start + (m + i - 1) - 1
      BY <1>4, <1>5, <2>1
    <2> QED BY <1>1, <2>2 DEF m
  <1>7. s = t
    <2>1. DOMAIN s = 1 .. r.count /\ s \in [1 .. r.count -> Int]
      BY <1>5, LenProperties
    <2> QED BY <1>6, <2>1
  <1> QED BY <1>7 DEF Slice, s, w, m, n

\* A request that succeeds has got as many words as it asked for, and for a
\* read its own.
LEMMA SucceedsRight ==
    ASSUME StreamInv, Succeed
    PROVE  /\ Req \in Reqs /\ data[1].frame.count >= Req.count
           /\ Req.function = ReadHolding => data[1].frame = Right
  <1>1. phase = "check" /\ Accepts(data) /\ Req \in Reqs
    BY ReqType DEF Succeed, StreamInv, StreamTypeOK
  <1>2. CASE Req.function = ReadHolding
    <2>1. data[1].frame = Right
      BY <1>1, <1>2, AcceptsRight DEF StreamInv
    <2>2. Right.count = Req.count /\ Req.count \in Nat
      BY <1>1 DEF Right, Frame, Reqs
    <2> QED BY <1>1, <2>1, <2>2
  <1>3. CASE Req.function # ReadHolding
    <2>1. Req.function = WriteSingle /\ Req.count = 1
      BY <1>1, <1>3 DEF Reqs
    <2>2. data # <<>> /\ data \in Seq(AnyByte)
      BY <1>1 DEF StreamInv, StreamTypeOK, DataFits
    <2>3. 1 \in 1 .. Len(data) /\ DOMAIN data = 1 .. Len(data)
      <3>1. Len(data) \in Nat \ {0} /\ DOMAIN data = 1 .. Len(data)
        BY <2>2, EmptySeq, LenProperties
      <3> QED BY <3>1
    <2>4. data[1] \in AnyByte /\ data[1] # Spoiled
      BY <1>1, <2>2, <2>3, ElementOfSeq DEF Accepts, RightCRC
    <2>5. data[1].frame.function = WriteSingle
      BY <1>1, <2>1 DEF Accepts
    <2>6. data[1].frame.count = 1
      BY <2>4, <2>5 DEF AnyByte, SentFrames
    <2> QED BY <1>1, <1>3, <2>1, <2>6
  <1> QED BY <1>2, <1>3

\* The invariant of the stream.
LEMMA NextStream == StreamInv /\ [Next]_vars => StreamInv'
  BY NextStreamType, NextHeads, NextSecond, NextClean DEF StreamInv

\* What is stored stays right.
LEMMA NextValues ==
    ASSUME StreamInv, ValuesRight, [Next]_vars PROVE ValuesRight'
  <1>1. CASE UNCHANGED values
    BY <1>1 DEF ValuesRight
  <1>2. CASE Succeed
    <2> DEFINE f == data[1].frame
    <2>1. /\ Req \in Reqs /\ f.count >= Req.count
          /\ Req.function = ReadHolding => f = Right
      BY <1>2, SucceedsRight
    <2>2. values' = [r \in DOMAIN values |->
                       IF r \in Req.regs THEN Slice(Words(f), Req.start, r)
                                         ELSE values[r]]
      BY <1>2, <2>1 DEF Succeed, Store
    <2>3. ASSUME NEW r \in Req.regs
          PROVE  Slice(Words(f), Req.start, r)
                   = [i \in 1 .. r.count |-> r.address + i - 1]
      <3>1. Req.function = ReadHolding
        BY <2>1 DEF Reqs
      <3> QED BY <2>1, <3>1, SliceRight DEF Right
    <2> HIDE DEF f
    <2>4. DOMAIN values' = DOMAIN values
      BY <2>2
    <2>5. ASSUME NEW r \in DOMAIN values, values'[r] # <<>>
          PROVE  values'[r] = [i \in 1 .. r.count |-> r.address + i - 1]
      <3>1. CASE r \in Req.regs
        BY <2>2, <2>3, <3>1
      <3>2. CASE r \notin Req.regs
        BY <2>2, <2>5, <3>2 DEF ValuesRight
      <3> QED BY <3>1, <3>2
    <2> QED BY <2>4, <2>5 DEF ValuesRight
  <1> QED BY <1>1, <1>2 DEF Next, vars, Answer, Send, ReadAtLeast,
          UnexpectedFunction, ReadFull, Timeout, Reject, Retry, GiveUp

\* No read is given up whose second attempt no fault struck.
LEMMA NextFailed ==
    ASSUME StreamInv, RetryRecovers, [Next]_vars PROVE RetryRecovers'
  <1>1. CASE UNCHANGED failed
    BY <1>1 DEF RetryRecovers
  <1>2. CASE Succeed
    BY <1>1, <1>2, SucceedsRight DEF Succeed, Store
  <1>3. CASE GiveUp
    <2>1. CASE Req.function = ReadHolding
      <3>1. attempt = 2 /\ phase = "failed" /\ Failed
        BY <1>3, <2>1 DEF GiveUp, ReadHolding, WriteSingle
      <3>2. hurt
        BY <3>1 DEF StreamInv, CleanFits
      <3> QED BY <3>1, <3>2 DEF Failed, RetryRecovers
    <2> QED BY <1>1, <1>3, <2>1 DEF GiveUp
  <1> QED BY <1>1, <1>2, <1>3 DEF Next, vars, Answer, Send, ReadAtLeast,
          UnexpectedFunction, ReadFull, Timeout, Reject, Retry

\* Whatever is late, cut, spoiled or left over, every value that is stored was made from the words of its own register, for
\* any sequence of writes and reads and any number of faults
\* (rtu_tcp.go:85-135, service.go:486-527, 561-581).
THEOREM StoredValuesAreRight == Spec => []ValuesRight
  <1>1. StreamInv /\ ValuesRight /\ [Next]_vars => StreamInv' /\ ValuesRight'
    BY NextStream, NextValues
  <1>2. Init => StreamInv /\ ValuesRight
    BY InitStream
  <1> QED BY <1>1, <1>2, PTL DEF Spec

\* And a read fails only if something goes wrong in its second attempt: nothing
\* that an earlier request left in the connection makes both attempts fail
\* (service.go:561-581).
THEOREM RetriesRecover == Spec => []RetryRecovers
  <1>1. /\ StreamInv /\ RetryRecovers /\ [Next]_vars
              => StreamInv' /\ RetryRecovers'
    BY NextStream, NextFailed
  <1>2. Init => StreamInv /\ RetryRecovers
    BY InitStream
  <1> QED BY <1>1, <1>2, PTL DEF Spec
=============================================================================
