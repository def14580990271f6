------------------------------- MODULE MemRange -------------------------------
(***************************************************************************)
(* The arithmetic floors of peek and poke in mem_ops.c, on words of Space   *)
(* values: the wire's numbers, the range guard and what of a range the      *)
(* region it starts in makes accessible.  What VirtualQuery tells of a      *)
(* region is external.                                                      *)
(***************************************************************************)
EXTENDS Integers, Sequences, SequencesExt

CONSTANTS
    Space,      \* 2^32
    MaxAccess   \* MEM_MAX_ACCESS

ASSUME MemRangeAssumption ==
    Space \in Nat /\ Space > 1 /\ Space % 16 = 0 /\ MaxAccess \in Nat /\ MaxAccess < Space

Addresses == 0..(Space - 1)

-----------------------------------------------------------------------------
(* MemParseU32 *)

Ten == 10
Sixteen == 16
HexMark == 16               \* the x after the 0; other symbols are below 16
DigitsOf(base) == 0..(base - 1)
Invalid == -1

\* The digits are taken one by one, and refused where the next would not fit.
ParseDigit(val, d, base) ==
    IF val = Invalid \/ d \notin DigitsOf(base) THEN Invalid
    ELSE IF val > (Space - 1) \div base THEN Invalid
    ELSE IF base = Ten /\ val * base > (Space - 1) - d THEN Invalid
    ELSE ((val * base) % Space) + d

\* Digits of base ten, or of base sixteen after 0x; Invalid stands for a refusal.
MemParseU32(text) ==
    LET hex == Len(text) >= 2 /\ text[1] = 0 /\ text[2] = HexMark
        digits == IF hex THEN SubSeq(text, 3, Len(text)) ELSE text
    IN  IF digits = <<>> \/ HexMark \in ToSet(digits) THEN Invalid
        ELSE FoldLeft(LAMBDA v, d : ParseDigit(v, d, IF hex THEN Sixteen ELSE Ten), 0, digits)

-----------------------------------------------------------------------------

\* Faulty variant of MemRangeInBounds: the end is computed in a word.
MemRangeInBoundsWrapping(addr, len, cap) ==
    /\ len <= cap
    /\ (addr + len) % Space <= Space - 1

MemRangeInBounds(addr, len, cap) ==
    /\ len <= cap
    /\ addr <= (Space - 1) - len

\* A region: where it starts, how long it is, whether it is committed, guarded,
\* and what its protection lets one do.
Protections == {"no access", "read", "write"}
Regions == [base : Addresses, size : 1..Space, committed : BOOLEAN, guarded : BOOLEAN,
            protection : Protections]

\* How much of a range from addr on its region makes accessible.  The region's end
\* is a word: that of a region at the top of the address space is 0, and nothing
\* in it counts as accessible.
MemRegionAccessibleDecision(region, addr, len, forWrite) ==
    LET end == (region.base + region.size) % Space IN
      IF \/ ~region.committed \/ region.guarded \/ region.protection = "no access"
         \/ forWrite /\ region.protection # "write"
         \/ addr < region.base \/ addr >= end
      THEN 0
      ELSE IF end - addr >= len THEN len ELSE end - addr

\* Bytes that MemPeek copies on a pre-NT host, and whether it says fewer; and
\* whether MemPoke stores, all it was given or nothing.
PeekBytes(region, addr, len) ==
    IF MemRangeInBounds(addr, len, MaxAccess)
    THEN MemRegionAccessibleDecision(region, addr, len, FALSE) ELSE 0
PeekTruncated(region, addr, len) ==
    PeekBytes(region, addr, len) # 0 /\ PeekBytes(region, addr, len) < len
PokeStores(region, addr, len) ==
    /\ MemRangeInBounds(addr, len, MaxAccess)
    /\ MemRegionAccessibleDecision(region, addr, len, TRUE) >= len

-----------------------------------------------------------------------------
(* Properties *)

InRegion(region, a) == region.base <= a /\ a < region.base + region.size

\* The addresses of n bytes from addr on are words, without wrapping, of a region
\* that is committed, not guarded, and readable (writable, when asked).
Touches(region, addr, n, forWrite) ==
    /\ addr + n <= Space
    /\ \A a \in addr..(addr + n - 1) : InRegion(region, a)
    /\ region.committed /\ ~region.guarded
    /\ region.protection \in IF forWrite THEN {"write"} ELSE {"read", "write"}

\* A range that is let pass ends within the words, where the host's own memory
\* calls take over.  A peek reads, and a poke stores, only bytes of the range asked
\* for that lie in the region VirtualQuery described and that it may touch; a peek
\* answered whole read everything, and a poke is whole or not at all.
AccessStaysInRegion(region, addr, len) ==
    /\ MemRangeInBounds(addr, len, MaxAccess) => addr + len < Space
    /\ PeekBytes(region, addr, len) > 0 =>
         /\ PeekBytes(region, addr, len) <= len
         /\ Touches(region, addr, PeekBytes(region, addr, len), FALSE)
         /\ ~PeekTruncated(region, addr, len) => PeekBytes(region, addr, len) = len
    /\ PokeStores(region, addr, len) /\ len > 0 => Touches(region, addr, len, TRUE)

\* A number of the wire is read exactly, or refused because it is no number or no
\* word: never wrapped to another address.
ParseIsExact(text) ==
    LET hex == Len(text) >= 2 /\ text[1] = 0 /\ text[2] = HexMark
        digits == IF hex THEN SubSeq(text, 3, Len(text)) ELSE text
        base == IF hex THEN Sixteen ELSE Ten
        value == FoldLeft(LAMBDA v, d : v * base + d, 0, digits)
    IN  IF digits = <<>> \/ HexMark \in ToSet(digits) \/ ~(ToSet(digits) \subseteq DigitsOf(base))
        THEN MemParseU32(text) = Invalid
        ELSE MemParseU32(text) = IF value < Space THEN value ELSE Invalid
===============================================================================
