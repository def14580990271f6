---------------------------------- MODULE Utf ----------------------------------
(***************************************************************************)
(* The codec between UTF-8 and UTF-16 of encoding.c, on byte and unit       *)
(* values.  Both directions take any input, mark what they replace and stop *)
(* before the first character their output has no room for.                 *)
(***************************************************************************)
EXTENDS Integers, Sequences, SequencesExt

Replacement == 65533        \* CP_REPLACEMENT, U+FFFD

High(u) == u \in 55296..56319
Low(u) == u \in 56320..57343
Paired(units, i) == i \in 1..(Len(units) - 1) /\ High(units[i]) /\ Low(units[i + 1])

Indices(seq) == [i \in DOMAIN seq |-> i]

-----------------------------------------------------------------------------
(* Utf16ToUtf8 *)

\* The character that starts at unit i: a pair, a unit, or U+FFFD for half a pair.
CharacterAt(units, i) ==
    IF Paired(units, i) THEN 65536 + (units[i] - 55296) * 1024 + (units[i + 1] - 56320)
    ELSE IF High(units[i]) \/ Low(units[i]) THEN Replacement ELSE units[i]

Cont(v) == 128 + (v % 64)

Utf8Of(ch) ==
    IF ch < 128 THEN <<ch>>
    ELSE IF ch < 2048 THEN <<192 + ch \div 64, Cont(ch)>>
    ELSE IF ch < 65536 THEN <<224 + ch \div 4096, Cont(ch \div 64), Cont(ch)>>
    ELSE <<240 + ch \div 262144, Cont(ch \div 4096), Cont(ch \div 64), Cont(ch)>>

\* What both directions have put out, and how it went; next is the first input
\* position not yet taken.
Coding == [out |-> <<>>, status |-> "ok", next |-> 1]

Emit(s, piece, taken, lossy, cap) ==
    IF Len(s.out) + Len(piece) > cap THEN [s EXCEPT !.status = "truncated"]
    ELSE [out |-> s.out \o piece, status |-> IF lossy THEN "lossy" ELSE s.status,
          next |-> s.next + taken]

Utf16ToUtf8(units, cap) ==
    LET Put(s, i) ==
            IF i < s.next \/ s.status = "truncated" THEN s
            ELSE IF Paired(units, i) THEN Emit(s, Utf8Of(CharacterAt(units, i)), 2, FALSE, cap)
            ELSE Emit(s, Utf8Of(CharacterAt(units, i)), 1, High(units[i]) \/ Low(units[i]), cap)
    IN  FoldLeft(Put, Coding, Indices(units))

-----------------------------------------------------------------------------
(* Utf8ToUtf16 *)

\* The Unicode standard's table 3-7: the length a lead byte announces, what the
\* second byte may be, and the lead's own bits.
Row(b) ==
    CASE b \in 194..223 -> [len |-> 2, second |-> 128..191, bits |-> b % 32]
      [] b = 224 -> [len |-> 3, second |-> 160..191, bits |-> 0]
      [] b = 237 -> [len |-> 3, second |-> 128..159, bits |-> 13]
      [] b \in (225..239) \ {237} -> [len |-> 3, second |-> 128..191, bits |-> b % 16]
      [] b = 240 -> [len |-> 4, second |-> 144..191, bits |-> 0]
      [] b \in 241..243 -> [len |-> 4, second |-> 128..191, bits |-> b % 8]
      [] b = 244 -> [len |-> 4, second |-> 128..143, bits |-> 4]
      [] OTHER -> [len |-> 1, second |-> {}, bits |-> 0]

\* The bytes from i on that belong together, the lead and those permitted after it.
Permitted(bytes, i, k) ==
    i + k <= Len(bytes) /\ bytes[i + k] \in (IF k = 1 THEN Row(bytes[i]).second ELSE 128..191)
SubpartLen(bytes, i) ==
    LET row == Row(bytes[i])
        Whole(n) == \A k \in 1..(n - 1) : Permitted(bytes, i, k)
    IN  CHOOSE n \in 1..row.len : Whole(n) /\ (n < row.len => ~Permitted(bytes, i, n))

UnitsOf(ch) ==
    IF ch < 65536 THEN <<ch>>
    ELSE <<55296 + (ch - 65536) \div 1024, 56320 + ((ch - 65536) % 1024)>>

\* One U+FFFD for an ill-formed subpart, and on with the byte that broke it.
DecodeAt(s, bytes, i, cap) ==
    LET row == Row(bytes[i])
        n == SubpartLen(bytes, i)
        ch == FoldLeft(LAMBDA v, b : v * 64 + (b % 64), row.bits, SubSeq(bytes, i + 1, i + n - 1))
    IN  IF bytes[i] < 128 THEN Emit(s, <<bytes[i]>>, 1, FALSE, cap)
        ELSE IF row.len = 1 \/ n < row.len THEN Emit(s, <<Replacement>>, n, TRUE, cap)
        ELSE Emit(s, UnitsOf(ch), n, FALSE, cap)

Utf8ToUtf16(bytes, cap) ==
    FoldLeft(LAMBDA s, i : IF i < s.next \/ s.status = "truncated" THEN s
                           ELSE DecodeAt(s, bytes, i, cap), Coding, Indices(bytes))

\* Positions of the path separators of a UTF-8 path.
EncFindSeparators(bytes) == {i \in DOMAIN bytes : bytes[i] \in {92, 47}}

-----------------------------------------------------------------------------

Enough(seq) == 4 * Len(seq) + 4
WellFormed(bytes) == Utf8ToUtf16(bytes, Enough(bytes)).status = "ok"
Ascii(seq) == SelectSeq(seq, LAMBDA c : c < 128)

\* Any bytes decode: to text without half a pair, that keeps every ASCII byte in
\* its order, is the input again when nothing was replaced, and is what the whole
\* would be when the room ends it early.
DecodingIsTotal(bytes, cap) ==
    LET whole == Utf8ToUtf16(bytes, Enough(bytes))
        d == Utf8ToUtf16(bytes, cap)
        back == Utf16ToUtf8(d.out, Enough(d.out))
    IN  /\ back.status = "ok" /\ WellFormed(back.out)
        /\ Ascii(whole.out) = Ascii(bytes)
        /\ whole.status = "ok" => IsPrefix(back.out, bytes)
        /\ IsPrefix(d.out, whole.out)
        /\ IF d.status = "truncated" THEN Len(whole.out) > cap /\ Len(d.out) >= cap - 1
           ELSE d = whole
        /\ whole.status = "ok" =>
             EncFindSeparators(bytes) = {i \in DOMAIN bytes :
               /\ WellFormed(SubSeq(bytes, 1, i - 1)) /\ WellFormed(SubSeq(bytes, 1, i))
               /\ Utf8ToUtf16(SubSeq(bytes, i, i), 1).out[1] \in {92, 47}}

\* Any units encode to well-formed UTF-8, which decodes to them again, each half
\* pair having become U+FFFD; in too small a room, to what the first of them give.
EncodingIsValid(units, cap) ==
    LET e == Utf16ToUtf8(units, cap)
        Half(i) == \/ High(units[i]) /\ ~Paired(units, i)
                   \/ Low(units[i]) /\ ~Paired(units, i - 1)
        repaired == [i \in DOMAIN units |-> IF Half(i) THEN Replacement ELSE units[i]]
        back == Utf8ToUtf16(e.out, Enough(e.out))
    IN  /\ back.status = "ok"
        /\ IsPrefix(back.out, repaired)
        /\ IF e.status = "truncated" THEN Len(e.out) > cap - 4 ELSE back.out = repaired
        /\ e.status = "ok" => repaired = units
===============================================================================
