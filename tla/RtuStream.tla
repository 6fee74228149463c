----------------------------- MODULE RtuStream -----------------------------
(***************************************************************************)
(* Modbus RTU over a TCP converter (internal/modbus/rtu_tcp.go), under the *)
(* reads with retry, the writes and the polls of internal/modbus/service.go*)
(* and the codec of RegisterCodec.                                         *)
(*                                                                         *)
(* TCP gives a stream: a read may end in the middle of a frame or take     *)
(* bytes of the next one.  A byte is known by its frame and its place in   *)
(* it, or is spoiled; the CRC is right if the bytes are those of one whole *)
(* frame.  The word that the inverter has at an address is the address.    *)
(* An answer to a connection that was closed goes nowhere.                 *)
(***************************************************************************)
EXTENDS RegisterCodec

CONSTANTS
    Workloads,  \* catalogues that are polled, with a write or without
    Samples,    \* inputs of the codec: [kind: "write", reg, n], or
                \* [kind: "clock", value], or [kind: "words", words]
    NoSample,
    Spoiled,    \* a byte that was changed on the way, or that is noise
    MaxFaults   \* bound on lost, spoiled, cut and late answers and
                \* on connections that fail

ASSUME FaultsAssumption == MaxFaults \in Nat
ASSUME WorkloadsAssumption ==
    \A w \in Workloads:
        /\ w.writes \in Seq(Nat)
        /\ IsFiniteSet(w.catalog)
        /\ \A r \in w.catalog:
             /\ r.address \in Nat /\ r.count \in Nat \ {0}
             /\ r.address + r.count < Word
\* What the writable numbers of the catalogue have in common: the step is the
\* scale, the precision is that of the scale, the bounds are on a step, and a
\* signed one has bounds.
WritableNumber(r) ==
    /\ r.type \in {"uint16", "int16"}
    /\ r.scale \in {1, 10} /\ r.step = r.scale
    /\ r.precision = 0 <=> r.scale = 10
    /\ r.min \in Int /\ r.max \in Int /\ r.min % r.scale = 0
    /\ r.type = "int16" =>
          (r.min # 0 \/ r.max # 0) /\ r.max < r.scale * (Word \div 2)

ASSUME SampleAssumption ==
    /\ NoSample \notin Samples
    /\ \A s \in Samples:
         /\ s.kind = "write" =>
              /\ s.n \in Int
              /\ s.reg.writable /\ s.reg.enum = {} => WritableNumber(s.reg)
         /\ s.kind = "clock" =>
              s.value \in [year: Int, month: Int, day: Int, hour: Int,
                           minute: Int, second: Int]
         /\ s.kind = "words" =>
              \A i \in 1 .. 3: s.words[i] \in 0 .. Word - 1

ReadHolding == 3
WriteSingle == 6
MinFrame == 4
ExceptionFrame == 5

VARIABLES
    catalog, sample,
    sorted,     \* the registers of the slow group, as they were sorted
    todo,       \* the requests that are still to be made
    attempt,    \* of the first of them
    phase,      \* where Send is: "ready", "head", "tail", "check", "failed"
    conn,       \* whether h.conn is open
    stream,     \* bytes on their way to us over this connection
    asked,      \* requests of this connection that are not answered yet
    data,       \* the bytes that Send has read
    need,       \* and how many it needs to go on
    values,     \* the words last stored for each register
    failed,     \* reads that failed for good
    faults,
    hurt        \* history: a fault struck during this attempt

inputs == <<catalog, sample, sorted>>
vars == <<inputs, todo, attempt, phase, conn, stream, asked, data, need,
          values, failed, faults, hurt>>

\* A request: [function, start, count, regs].
Read(range) == [function |-> ReadHolding, start |-> range.start,
                count |-> range.count, regs |-> range.regs]
WriteOne(a) ==
    [function |-> WriteSingle, start |-> a, count |-> 1, regs |-> {}]

\* rtuResponseLength, for the functions that the program uses.
RtuResponseLength(req) ==
    MinFrame + IF req.function = ReadHolding THEN 1 + 2 * req.count ELSE 4

\* What the inverter sends: slave, function, byte count and words, CRC; or an
\* echo of the request; or an exception.
Frame(req, function) ==
    [function |-> function, start |-> req.start, count |-> req.count,
     size |-> IF function # req.function THEN 2 + 1 + 2
              ELSE IF function = ReadHolding THEN 3 + 2 * req.count + 2
              ELSE 2 + 2 + 2 + 2]
Frames == [function: Nat, start: Nat, count: Nat, size: Nat]
ASSUME SpoiledAssumption == Spoiled \notin [frame: Frames, at: Nat]
Bytes(frame) == [i \in 1 .. frame.size |-> [frame |-> frame, at |-> i]]

\* The plan of a poll of the slow group.
SlowPlan == BuildReadPlan(sorted)

Init ==
    /\ \/ \E w \in Workloads:
            /\ catalog = w.catalog /\ sample = NoSample
            /\ sorted \in Arrangements(ByGroup(catalog, "slow"))
            /\ todo = [i \in DOMAIN w.writes |-> WriteOne(w.writes[i])]
                      \o [i \in DOMAIN SlowPlan |-> Read(SlowPlan[i])]
       \/ sample \in Samples /\ catalog = {} /\ sorted = <<>> /\ todo = <<>>
    /\ attempt = 1 /\ phase = "ready" /\ conn = FALSE
    /\ stream = <<>> /\ asked = <<>> /\ data = <<>> /\ need = 0
    /\ values = [r \in catalog |-> <<>>] /\ failed = {}
    /\ faults = 0 /\ hurt = FALSE

Req == Head(todo)
Fault == faults < MaxFaults /\ faults' = faults + 1 /\ hurt' = TRUE

---------------------------------------------------------------------------
(* The converter and the inverter (external).                              *)

Exception(function) == function + 128

\* What becomes of an answer on its way: nothing, a spoiled byte, a part,
\* noise in front or behind.
Harmed(bytes) ==
    {<<>>, SubSeq(bytes, 1, Len(bytes) - 1), <<Spoiled>> \o bytes,
     Append(bytes, Spoiled)}
    \cup {[bytes EXCEPT ![i] = Spoiled]: i \in {1, 2, Len(bytes)}}

Answer ==
    /\ asked # <<>>
    /\ asked' = Tail(asked)
    /\ LET req   == Head(asked)
           right == Bytes(Frame(req, req.function))
       IN \/ stream' = stream \o right /\ UNCHANGED <<faults, hurt>>
          \/ Fault /\ \E bytes \in Harmed(right): stream' = stream \o bytes
          \/ /\ Fault
             /\ stream' = stream \o Bytes(Frame(req, Exception(req.function)))
    /\ UNCHANGED <<inputs, todo, attempt, phase, conn, data, need, values,
                   failed>>

---------------------------------------------------------------------------
(* Send.                                                                   *)

\* Mutant: the connection stays open.
CloseKeeps == UNCHANGED <<conn, stream, asked>>

\* closeLocked, with what was under way.
Close == conn' = FALSE /\ stream' = <<>> /\ asked' = <<>>

\* connectLocked, then the request is written.
Send ==
    /\ todo # <<>> /\ phase = "ready"
    /\ \/ /\ conn' = TRUE /\ phase' = "head" /\ need' = MinFrame
          /\ asked' = Append(asked, Req)
          /\ UNCHANGED <<stream, faults, hurt>>
       \/ Fault /\ Close /\ phase' = "failed" /\ UNCHANGED need
    /\ UNCHANGED <<inputs, todo, attempt, data, values, failed>>

\* What data[1] may be taken for, 0 being none of the two: a byte that is not
\* the second one of its frame may be anything.
FunctionsOf(byte) ==
    LET known == {Req.function, Exception(Req.function)}
    IN IF byte # Spoiled /\ byte.at = 2
       THEN {IF byte.frame.function \in known THEN byte.frame.function ELSE 0}
       ELSE known \cup {0}

Take(n) == data' = data \o SubSeq(stream, 1, n)
           /\ stream' = SubSeq(stream, n + 1, Len(stream))

\* io.ReadAtLeast gives the minimal frame or more, whatever has arrived.
ReadAtLeast ==
    /\ phase = "head" /\ Len(stream) >= need
    /\ \E n \in need .. Len(stream): Take(n)
    /\ \E f \in FunctionsOf(stream[2]) \ {0}:
         need' = IF f = Req.function THEN RtuResponseLength(Req)
                                     ELSE ExceptionFrame
    /\ phase' = IF need' > Len(data') THEN "tail" ELSE "check"
    /\ UNCHANGED <<inputs, todo, attempt, conn, asked, values, failed, faults,
                   hurt>>

UnexpectedFunction ==
    /\ phase = "head" /\ Len(stream) >= need
    /\ 0 \in FunctionsOf(stream[2])
    /\ Close
    /\ phase' = "failed"
    /\ UNCHANGED <<inputs, todo, attempt, data, need, values, failed, faults,
                   hurt>>

\* io.ReadFull gives what is missing and no more.
ReadFull ==
    /\ phase = "tail" /\ Len(data) + Len(stream) >= need
    /\ Take(need - Len(data))
    /\ phase' = "check"
    /\ UNCHANGED <<inputs, todo, attempt, conn, asked, need, values, failed,
                   faults, hurt>>

\* The deadline passes: the answer is late or incomplete.
Timeout ==
    /\ phase \in {"head", "tail"}
    /\ IF asked = <<>> THEN UNCHANGED <<faults, hurt>> ELSE Fault
    /\ Len(data) + Len(stream) < need
    /\ Close
    /\ phase' = "failed" /\ data' = <<>>
    /\ UNCHANGED <<inputs, todo, attempt, need, values, failed>>

---------------------------------------------------------------------------
(* Verify and Decode, the client of the library (external) and the service.*)

\* The CRC is right.
RightCRC(bytes) ==
    /\ \A i \in DOMAIN bytes: bytes[i] # Spoiled
    /\ bytes = Bytes(bytes[1].frame)

\* The frame is one for this request: an echo of what was written; but any
\* answer to a read.
Accepts(bytes) ==
    /\ RightCRC(bytes)
    /\ bytes[1].frame.function = Req.function
    /\ Req.function = WriteSingle => bytes[1].frame.start = Req.start

Words(frame) == [i \in 1 .. frame.count |-> frame.start + i - 1]

Failed == failed' = failed \cup {[req |-> Req, hurt |-> hurt]}

\* WordsFromBytes lets a longer payload pass; a short one is not read again.
Store(frame) ==
    IF frame.count >= Req.count
    THEN /\ values' = [r \in DOMAIN values |->
                         IF r \in Req.regs
                         THEN Slice(Words(frame), Req.start, r)
                         ELSE values[r]]
         /\ UNCHANGED failed
    ELSE Failed /\ UNCHANGED values

NextRequest == todo' = Tail(todo) /\ attempt' = 1 /\ phase' = "ready"
               /\ hurt' = FALSE /\ data' = <<>>

Succeed ==
    /\ phase = "check" /\ Accepts(data)
    /\ Store(data[1].frame)
    /\ NextRequest
    /\ UNCHANGED <<inputs, conn, stream, asked, need, faults>>

\* The connection stays open, with what is left in it.
Reject ==
    /\ phase = "check" /\ ~Accepts(data)
    /\ phase' = "failed" /\ data' = <<>>
    /\ UNCHANGED <<inputs, todo, attempt, conn, stream, asked, need, values,
                   failed, faults, hurt>>

\* Mutant: the retry uses the connection as it is.
RetrySame ==
    /\ phase = "failed" /\ Req.function = ReadHolding /\ attempt = 1
    /\ attempt' = 2 /\ phase' = "ready" /\ hurt' = FALSE
    /\ UNCHANGED <<inputs, todo, conn, stream, asked, data, need, values,
                   failed, faults>>

\* readHoldingWithRetryLocked: a read is tried again over a new connection.
Retry ==
    /\ phase = "failed" /\ Req.function = ReadHolding /\ attempt = 1
    /\ Close
    /\ attempt' = 2 /\ phase' = "ready" /\ hurt' = FALSE
    /\ UNCHANGED <<inputs, todo, data, need, values, failed, faults>>

\* A read that failed twice is given up, and the next one goes on with the
\* connection.  A write that failed is followed by closeLocked in
\* verifyWriteLocked; the write that unlocks is not.
GiveUp ==
    /\ phase = "failed" /\ (Req.function = WriteSingle \/ attempt = 2)
    /\ IF Req.function = ReadHolding THEN Failed ELSE UNCHANGED failed
    /\ \/ Req.function = WriteSingle /\ Close
       \/ UNCHANGED <<conn, stream, asked>>
    /\ NextRequest
    /\ UNCHANGED <<inputs, need, values, faults>>

Next == Answer \/ Send \/ ReadAtLeast \/ UnexpectedFunction \/ ReadFull
        \/ Timeout \/ Succeed \/ Reject \/ Retry \/ GiveUp

Spec == Init /\ [][Next]_vars

---------------------------------------------------------------------------
(* Properties.                                                             *)

\* Every value that is stored for a register was made from the words of this
\* register: whatever is late, cut, spoiled or left in the stream, and
\* although RTU frames carry no number and answers to two reads look alike
\* (rtu_tcp.go:85-135, service.go:486-527, 561-581, catalog.go:1793-1849).
ValuesRight ==
    \A r \in DOMAIN values:
        values[r] # <<>> =>
            values[r] = [i \in 1 .. r.count |-> r.address + i - 1]

\* A read fails only if something went wrong in its second attempt: what an
\* earlier request has left behind never makes both attempts fail
\* (service.go:561-581).
RetryRecovers == \A f \in failed: f.hurt

\* The ranges of a plan have each register in exactly one of them, no word that
\* no register has, and a gap between any two.
Covers(plan, regs) ==
    LET Has(range) == range.start .. range.start + range.count - 1
        Of(r) == r.address .. r.address + r.count - 1
    IN /\ plan \in Seq([start: Nat, count: Nat \ {0}, regs: SUBSET regs])
       /\ \A r \in regs: \E i \in DOMAIN plan:
            /\ r \in plan[i].regs /\ Of(r) \subseteq Has(plan[i])
            /\ \A j \in DOMAIN plan \ {i}: r \notin plan[j].regs
       /\ \A i \in DOMAIN plan:
            Has(plan[i]) = UNION {Of(r): r \in plan[i].regs}
       /\ \A i, j \in DOMAIN plan:
            i < j => plan[i].start + plan[i].count < plan[j].start

\* A read plan covers the registers of its group exactly, however registers of
\* one address were sorted, so that no answer is asked for twice
\* (catalog.go:1716-1730, 1793-1832).
PlanCovers == Covers(SlowPlan, ByGroup(catalog, "slow"))

Kind == IF sample = NoSample THEN "none" ELSE sample.kind

\* A number that is accepted is published, after it was written, as the number
\* that was sent (of an enumeration: as one of its values); a date and time
\* that is accepted is read back as it is; and one that the inverter has can be
\* given back to it without moving the clock (catalog.go:1851-1951, 2082-2190,
\* clock.go:56-130, mqtt/service.go:658-671).
ReadsBack ==
    /\ Kind = "write" =>
         LET r == sample.reg
             w == EncodeWrite(r, sample.n)
         IN w # Err => IF r.enum # {} THEN w \in r.enum
                       ELSE DecodeNumber(r, <<w>>) = sample.n
    /\ (Kind = "clock" /\ ValidClock(sample.value)) =>
         DecodeClock(EncodeClock(sample.value)) = sample.value
    /\ Kind = "words" =>
         LET v == DecodeClock(sample.words)
         IN ValidClock(v) => DecodeClock(EncodeClock(v)) = v

\* CHANGELOG.md:20 has the active power of HESP inverters as a signed
\* percentage, and the catalogue bounds it by -100 and 100: what is in the
\* bounds and on a step can be written.
InBoundsWritable ==
    (Kind = "write" /\ sample.reg.writable /\ sample.reg.enum = {}
        /\ ValidateWriteBounds(sample.reg, sample.n))
    => EncodeWrite(sample.reg, sample.n) # Err
=============================================================================
