----------------------------- MODULE PacketBuf -----------------------------
(***************************************************************************)
(* The cursor all RakNet parsers read through (PacketBuf of                 *)
(* src/bedrock/raknet.rs) and the number formats of the wire.               *)
(*                                                                         *)
(* Bytes are numbers 0 .. 255, a buffer is a sequence of them.  A cursor    *)
(* that has failed stays failed: the code leaves the parser at the first    *)
(* error with ?, and what is read after it is never looked at.  64-bit      *)
(* integers are kept as their eight bytes, most significant first.          *)
(***************************************************************************)
EXTENDS Integers, Sequences, FiniteSetsExt

U24Max == 16777215                                     \* 0x00FF_FFFF
U16Max == 65535

(* The parts one behind the other, as FlattenSeq of SequencesExt: with that *)
(* module every codec would bring the whole library into Wire, six times.   *)
FlattenSeq(parts) ==
    LET upto[i \in 0 .. Len(parts)] ==
            IF i = 0 THEN << >> ELSE upto[i - 1] \o parts[i]
    IN  upto[Len(parts)]

Cursor(data) == [data |-> data, pos |-> 0, ok |-> TRUE]

Remaining(c) == Len(c.data) - c.pos

Ensure(c, n) == c.ok /\ Remaining(c) >= n

(* The next n bytes (read_bytes), and the cursor behind them.               *)
Bytes(c, n) ==
    IF Ensure(c, n) THEN SubSeq(c.data, c.pos + 1, c.pos + n)
    ELSE [i \in 1 .. n |-> 0]

(* Mutant of Skip: the length is not checked.                               *)
SkipUnchecked(c, n) ==
    [c EXCEPT !.pos = IF @ + n <= Len(c.data) THEN @ + n ELSE Len(c.data)]

Skip(c, n) == IF Ensure(c, n) THEN [c EXCEPT !.pos = @ + n]
              ELSE [c EXCEPT !.ok = FALSE]

(* A field that is only there under a condition.                            *)
SkipIf(cond, c, n) == IF cond THEN Skip(c, n) ELSE c

Fail(cond, c) == IF cond THEN [c EXCEPT !.ok = FALSE] ELSE c

U8(c)  == Bytes(c, 1)[1]
U16(c) == LET b == Bytes(c, 2) IN 256 * b[1] + b[2]              \* big-endian
U24LE(c) == LET b == Bytes(c, 3) IN b[1] + 256 * b[2] + 65536 * b[3]
U32(c) == LET b == Bytes(c, 4)
          IN  256 * (256 * (256 * b[1] + b[2]) + b[3]) + b[4]

PutU16(v) == <<(v \div 256) % 256, v % 256>>
PutU32(v) == PutU16(v \div 65536) \o PutU16(v % 65536)

PutU24LE(v) == <<v % 256, (v \div 256) % 256, (v \div 65536) % 256>>

(* The offline magic, at the cursor.                                        *)
MAGIC == << 0, 255, 255, 0, 254, 254, 254, 254,
            253, 253, 253, 253, 18, 52, 86, 120 >>

ExpectMagic(c) == Skip(Fail(Bytes(c, Len(MAGIC)) # MAGIC, c), Len(MAGIC))

(* str::from_utf8: every leading byte has its continuation bytes.  Overlong *)
(* forms and surrogates are not told apart.                                 *)
Continues(b) == b \in 128 .. 191
Width(b) == IF b < 128 THEN 1 ELSE IF b < 224 THEN 2 ELSE IF b < 240 THEN 3 ELSE 4

Utf8(b) ==
    \A i \in DOMAIN b :
        /\ ~Continues(b[i]) => i + Width(b[i]) - 1 <= Len(b)
        /\ Continues(b[i]) <=> \E j \in 1 .. 3 : /\ i - j \in DOMAIN b
                                               /\ ~Continues(b[i - j])
                                               /\ Width(b[i - j]) > j

(* str::parse of an unsigned number up to max: digits, perhaps behind a     *)
(* plus.  MaxDigits keeps the value in reach of the arithmetic used here.   *)
MaxDigits == 9
Digits(text) == IF text # << >> /\ text[1] = 43 THEN Tail(text) ELSE text
NumberOf(text) ==
    LET digits == Digits(text)
        n      == Len(digits)
    IN  MapThenSumSet(LAMBDA i : (digits[i] - 48) * 10^(n - i), 1 .. n)

Parses(text, max) ==
    /\ Len(Digits(text)) \in 1 .. MaxDigits
    /\ \A i \in DOMAIN Digits(text) : Digits(text)[i] \in 48 .. 57
    /\ NumberOf(text) <= max

ExpectId(c, id) == Skip(Fail(U8(c) # id, c), 1)
=============================================================================
