--------------------------- MODULE RegisterCodec ---------------------------
(***************************************************************************)
(* The pure part of the register catalogue (internal/registers/catalog.go) *)
(* and of the inverter's clock (internal/inverterclock/clock.go): read     *)
(* plans, words to values and values to words.                             *)
(*                                                                         *)
(* A number is kept in tenths: the catalogue has no finer scale, step or   *)
(* precision.  The 10^-6 by which the code lets a step be missed is for    *)
(* the float64 that it computes with.                                      *)
(***************************************************************************)
EXTENDS Integers, Sequences, SequencesExt, FiniteSets

Word == 65536

\* An error, which is no word.
Err == -1

\* math.Round(a / b): half away from zero.  b > 0.
RoundDiv(a, b) == IF a >= 0 THEN (2 * a + b) \div (2 * b)
                            ELSE -((2 * (-a) + b) \div (2 * b))

---------------------------------------------------------------------------
(* Read plans.                                                             *)

\* A register is [address, count, group, writeOnly]; addresses and counts are
\* uint16.
\* ByGroupForInverterType: what a poll of the group reads (a synthetic
\* register is not read, as if it were write only).
ByGroup(catalog, group) ==
    {r \in catalog: r.group = group /\ ~r.writeOnly}

\* What sort.Slice may make of registers that it sorts by address: it leaves
\* those of one address in any order.
Arrangements(regs) ==
    {s \in SetToSeqs(regs):
        \A i, j \in DOMAIN s: i < j => s[i].address <= s[j].address}

End(r) == (r.address + r.count) % Word

\* Mutant: the end of the last register is the end of the range.
ExtendRangesShort(ranges, r) ==
    LET cur == Last(ranges)
        end == (cur.start + cur.count) % Word
    IN IF ranges # <<>> /\ r.address <= end
       THEN Append(Front(ranges),
                   [cur EXCEPT !.count = (End(r) - cur.start) % Word,
                               !.regs = @ \cup {r}])
       ELSE Append(ranges,
                   [start |-> r.address, count |-> r.count, regs |-> {r}])

\* A register that begins inside or right behind the last range extends it.
ExtendRanges(ranges, r) ==
    LET cur == Last(ranges)
        end == (cur.start + cur.count) % Word
    IN IF ranges # <<>> /\ r.address <= end
       THEN Append(Front(ranges),
                   [cur EXCEPT !.count = IF End(r) <= end THEN @
                                         ELSE (End(r) - cur.start) % Word,
                               !.regs = @ \cup {r}])
       ELSE Append(ranges,
                   [start |-> r.address, count |-> r.count, regs |-> {r}])

\* BuildReadPlanForRegisters, of the registers as they were sorted.
BuildReadPlan(s) ==
    LET plan[n \in 0 .. Len(s)] ==
            IF n = 0 THEN <<>> ELSE ExtendRanges(plan[n - 1], s[n])
    IN plan[Len(s)]

\* pollGroup: the words of a register in a range that was read.
Slice(words, start, r) ==
    SubSeq(words, r.address - start + 1, r.address - start + r.count)

---------------------------------------------------------------------------
(* Values.                                                                 *)

Signed(n, size) == IF n >= size \div 2 THEN n - size ELSE n

\* joinWords32 and rawValue.
RawValue(type, order, words) ==
    LET long == IF order = "low-high" THEN words[2] * Word + words[1]
                                      ELSE words[1] * Word + words[2]
    IN CASE type \in {"uint16", "datetime", "packed_time"} -> words[1]
         [] type = "int16"  -> Signed(words[1], Word)
         [] type = "uint32" -> long
         [] type = "int32"  -> Signed(long, Word * Word)

\* Decode of a number, in tenths: scaled, then rounded to the precision.
DecodeNumber(r, words) ==
    LET scaled == RawValue(r.type, "high-low", words) * r.scale
    IN IF r.precision = 0 THEN 10 * RoundDiv(scaled, 10) ELSE scaled

\* Mutant: the step is not checked.
WithinRangeOnly(r, n) == n >= r.min /\ n <= r.max

\* validateWriteBounds.
ValidateWriteBounds(r, n) ==
    /\ (r.min # 0 \/ r.max # 0) => n >= r.min /\ n <= r.max
    /\ r.step > 0 => r.min + RoundDiv(n - r.min, r.step) * r.step = n

\* int64(value) of a float64.
Truncated(n) == IF n >= 0 THEN n \div 10 ELSE -((-n) \div 10)

\* EncodeWrite and enumRawValue of a number.
EncodeWrite(r, n) ==
    LET raw == IF r.enum # {} THEN Truncated(n) ELSE RoundDiv(n, r.scale)
        ok  == IF r.enum # {} THEN raw \in r.enum
                              ELSE ValidateWriteBounds(r, n)
    IN IF r.writable /\ ok /\ raw \in 0 .. Word - 1 THEN raw ELSE Err

---------------------------------------------------------------------------
(* The clock.                                                              *)

Byte == 256

Leap(y) == y % 4 = 0 /\ (y % 100 # 0 \/ y % 400 = 0)
DaysIn(y, m) == CASE m \in {4, 6, 9, 11} -> 30
                  [] m = 2 -> IF Leap(y) THEN 29 ELSE 28
                  [] OTHER -> 31

\* validate: time.Date moves a day that the month does not have into the next
\* month, which shows.
ValidClock(v) ==
    /\ v.year \in 2000 .. 2099
    /\ v.month \in 1 .. 12 /\ v.day \in 1 .. 31
    /\ v.hour \in 0 .. 23 /\ v.minute \in 0 .. 59 /\ v.second \in 0 .. 59
    /\ v.day <= DaysIn(v.year, v.month)

\* Decode: some inverters count the years from 1900.
DecodeClock(w) ==
    LET rawYear == w[1] \div Byte
    IN [year   |-> IF rawYear >= 100 THEN 1900 + rawYear ELSE 2000 + rawYear,
        month  |-> w[1] % Byte,
        day    |-> w[2] \div Byte, hour   |-> w[2] % Byte,
        minute |-> w[3] \div Byte, second |-> w[3] % Byte]

\* Encode, of a valid date and time.
EncodeClock(v) == <<(v.year - 2000) * Byte + v.month,
                    v.day * Byte + v.hour, v.minute * Byte + v.second>>
=============================================================================
