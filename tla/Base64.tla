-------------------------------- MODULE Base64 --------------------------------
(***************************************************************************)
(* base64.c with its alphabet abstracted to numbers: a byte is one of Byte  *)
(* values and a symbol of the text one of Sextet values, or the padding, a  *)
(* white space or a foreign character.  Three bytes make four symbols.      *)
(* The NUL stored after the last byte is left out: it lies past the room    *)
(* when that is full, which the callers' fields are too short to fill.      *)
(***************************************************************************)
EXTENDS Integers, Sequences, SequencesExt

CONSTANTS
    Byte, Sextet,   \* 256 and 64 in the code
    Word            \* 2^32: the accumulator is an unsigned int

Ratio == Byte \div Sextet

ASSUME Base64Assumption ==
    /\ Byte \in Nat /\ Sextet \in Nat /\ Word \in Nat
    /\ Byte = Ratio * Sextet /\ Sextet = Ratio * Ratio * Ratio
    /\ Word % (Byte * Sextet) = 0

Pad == Sextet
White == Sextet + 1
Foreign == Sextet + 2

-----------------------------------------------------------------------------
(* Base64Encode *)

\* The symbols of one group: byte a and up to two more.
Group(a, rest) ==
    LET b == IF rest = <<>> THEN 0 ELSE rest[1]
        c == IF Len(rest) < 2 THEN 0 ELSE rest[2]
    IN  << a \div Ratio,
           (a % Ratio) * Ratio * Ratio + b \div (Ratio * Ratio),
           IF rest = <<>> THEN Pad ELSE (b % (Ratio * Ratio)) * Ratio + c \div Sextet,
           IF Len(rest) < 2 THEN Pad ELSE c % Sextet >>

EncodedLen(n) == 4 * ((n + 2) \div 3)

\* No bytes, and too little room, both give the empty text and 0.
Base64Encode(bytes, room) ==
    IF room < EncodedLen(Len(bytes)) + 1 THEN <<>>
    ELSE FlattenSeq([g \in 1..((Len(bytes) + 2) \div 3) |->
           LET i == 3 * g - 2 IN
             Group(bytes[i], SubSeq(bytes, i + 1, Min({i + 2, Len(bytes)})))])

-----------------------------------------------------------------------------
(* Base64Decode *)

\* The scan: bytes put out, the accumulator, 2 to the number of bits in it, and
\* whether it goes on, has met the padding, or has failed.
Scanning == [out |-> <<>>, buf |-> 0, weight |-> 1, at |-> "data"]

Scan(s, c, room) ==
    IF s.at # "data" \/ c = White THEN s
    ELSE IF c = Pad THEN [s EXCEPT !.at = "end"]
    ELSE IF c = Foreign THEN [s EXCEPT !.at = "failed"]
    ELSE LET buf == (s.buf * Sextet + c) % Word
             weight == s.weight * Sextet
             left == weight \div Byte
         IN  IF weight < Byte THEN [s EXCEPT !.buf = buf, !.weight = weight]
             ELSE IF Len(s.out) >= room THEN [s EXCEPT !.at = "failed"]
             ELSE [s EXCEPT !.buf = buf, !.weight = left,
                            !.out = Append(@, (buf \div left) % Byte)]

\* A whole symbol left over must be zero; fewer bits are dropped.
Base64Decode(text, room) ==
    LET s == FoldLeft(LAMBDA st, c : Scan(st, c, room), Scanning, text)
    IN  IF s.at = "failed" \/ (s.weight >= Sextet /\ s.buf % s.weight # 0)
          THEN [ok |-> FALSE, bytes |-> <<>>]
          ELSE [ok |-> TRUE, bytes |-> s.out]

-----------------------------------------------------------------------------
(* What they should do, told in bits *)

Power(n) == 2 ^ n
Width(values) == CHOOSE n \in 0..values : Power(n) = values
Bits(v, width) == [i \in 1..width |-> (v \div Power(width - i)) % 2]
BitsOf(seq, values) == FlattenSeq([i \in DOMAIN seq |-> Bits(seq[i], Width(values))])
Number(bits) == FoldLeft(LAMBDA n, b : 2 * n + b, 0, bits)

\* The text that counts: up to the padding, without white space.
Body(text) ==
    LET stop == SelectInSeq(text, LAMBDA c : c = Pad)
    IN  SelectSeq(IF stop = 0 THEN text ELSE SubSeq(text, 1, stop - 1), LAMBDA c : c # White)

\* The bytes whose bits the text spells, and the bits that make no whole byte.
Spelt(text) ==
    LET bits == BitsOf(Body(text), Sextet)
        w == Width(Byte)
        n == Len(bits) \div w
    IN  [bytes |-> [i \in 1..n |-> Number(SubSeq(bits, w * (i - 1) + 1, w * i))],
         rest |-> SubSeq(bits, w * n + 1, Len(bits))]

\* Padding with data behind it.
PadWithin(text) ==
    \E i, j \in DOMAIN text : i < j /\ text[i] = Pad /\ text[j] \notin {Pad, White}

\* Faulty text is refused whole, and a text that is taken gives every byte its
\* bits spell, whatever white space stands in it; nothing is put out of the room.
\* Of a text with padding inside only the last is claimed: the scan stops at the
\* first padding and what stands behind it, data or not, is never looked at.
DecodeIsExact(text, room) ==
    LET d == Base64Decode(text, room)
        s == Spelt(text)
    IN  /\ Len(d.bytes) <= room
        /\ Foreign \in ToSet(text) /\ ~PadWithin(text) => ~d.ok
        /\ Foreign \notin ToSet(text) /\ ~PadWithin(text) =>
             /\ d.ok <=> /\ Len(s.bytes) <= room
                         /\ Len(s.rest) >= Width(Sextet) => Number(s.rest) = 0
             /\ d.ok => d.bytes = s.bytes

\* What is encoded is decoded again, in exactly the room the header states.
EncodeIsReversed(bytes) ==
    LET room == EncodedLen(Len(bytes)) + 1
        text == Base64Encode(bytes, room)
    IN  /\ Base64Decode(text, Len(bytes)) = [ok |-> TRUE, bytes |-> bytes]
        /\ Len(text) = room - 1
        /\ Base64Encode(bytes, room - 1) = <<>>
===============================================================================
