---------------------------- MODULE MCRtuStream ----------------------------
(* Instances of RtuStream.                                                 *)
EXTENDS RtuStream

R(address, count) ==
    [address |-> address, count |-> count, group |-> "slow",
     writeOnly |-> FALSE]

\* Two ranges of one length and a write; a range of registers that overlap and
\* touch, two of one address, one inside another, a write only one between; a
\* long and a short range.
MCWorkloads ==
    {[catalog |-> {R(10, 1), R(20, 1)}, writes |-> <<10>>],
     [catalog |-> {R(10, 3), R(10, 1), R(11, 1), R(13, 1), R(15, 1),
                   [R(14, 1) EXCEPT !.writeOnly = TRUE],
                   [R(16, 1) EXCEPT !.group = "fast"]},
      writes |-> <<>>],
     [catalog |-> {R(10, 2), R(20, 1), R(30, 1)}, writes |-> <<>>]}

\* The writable registers of the catalogue, one of each kind.
Number(type, scale, precision, min, max, step) ==
    [type |-> type, scale |-> scale, precision |-> precision, min |-> min,
     max |-> max, step |-> step, enum |-> {}, writable |-> TRUE]
Enum(raws, max) ==
    [Number("uint16", 10, 0, 0, max, 10) EXCEPT !.enum = raws]
Unsigned ==
    {Number("uint16", 10, 0, 0, 5000, 10), Number("uint16", 1, 1, 0, 1500, 1),
     Number("uint16", 1, 1, 0, 2600, 1), Number("uint16", 10, 0, 10, 1000, 10),
     Number("uint16", 10, 0, 0, 1000, 10), Enum({0, 1, 2}, 20),
     Enum({0, 1, 2, 3}, 30), Enum({1}, 10),
     [Number("uint16", 1, 1, 0, 0, 0) EXCEPT !.writable = FALSE]}
OnGridMaxPower == Number("int16", 10, 0, -1000, 1000, 10)

Near(r) == UNION {b - 11 .. b + 11: b \in {0, r.min, r.max, r.max \div 2}}
Writes(regs) == UNION {{[kind |-> "write", reg |-> r, n |-> n]: n \in Near(r)}:
                       r \in regs}

Clocks ==
    {[kind |-> "clock",
      value |-> [year |-> y, month |-> m, day |-> d, hour |-> h,
                 minute |-> 59 - h, second |-> h]]:
        y \in {1999, 2000, 2023, 2024, 2099, 2100}, m \in {0, 1, 2, 4, 12, 13},
        d \in {0, 1, 28, 29, 30, 31, 32}, h \in {0, 23, 24}}
ClockWords ==
    {[kind |-> "words", words |-> <<y * 256 + 2, d * 256 + 23, 59>>]:
        y \in {0, 24, 99, 100, 124, 199, 200, 255}, d \in {1, 28, 29, 30}}

MCSamples == Writes(Unsigned \cup {OnGridMaxPower}) \cup Clocks \cup ClockWords
=============================================================================
