-------------------------------- MODULE Symbols --------------------------------
(* The characters more than one text of the device is made of.               *)
EXTENDS Integers, Sequences, SequencesExt

Blank == "blank"
Quote == "quote"
Slash == "backslash"

DigitChars == <<"0", "1", "2", "3", "4", "5", "6", "7", "8", "9">>
Digits == ToSet(DigitChars)
DigitValue(c) == (CHOOSE i \in DOMAIN DigitChars : DigitChars[i] = c) - 1

\* The parts of a text between its marks.
Parts(text, mark) ==
    FoldLeft(LAMBDA parts, c : IF c = mark THEN Append(parts, <<>>)
                               ELSE [parts EXCEPT ![Len(parts)] = Append(@, c)],
             << <<>> >>, text)

Times(n, c) == [i \in 1..n |-> c]
===============================================================================
