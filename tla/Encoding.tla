------------------------------- MODULE Encoding -------------------------------
(***************************************************************************)
(* The code pages of charset_tables.c and the text that leaves and enters   *)
(* the device through encoding.c: console output and file names to the      *)
(* UTF-8 of the wire, paths of the wire to what the host's file calls take. *)
(***************************************************************************)
EXTENDS Utf

CONSTANTS
    Pages,          \* code page -> [lead, dec1, dec2, rev], the baked tables
    Utf8Id,         \* CP_UTF8
    Window,         \* ENC_WIRE_BYTES and ENC_WIRE_UNITS
    PathWide,       \* ENC_PATH_WIDE
    PathMb          \* ENC_PATH_MB

ASSUME EncodingAssumption ==
    /\ Window \in Nat \ {0} /\ PathWide \in Nat \ {0} /\ PathMb >= PathWide
    /\ Utf8Id \notin DOMAIN Pages
    /\ \A cp \in DOMAIN Pages : \A i, j \in DOMAIN Pages[cp].rev :
         i < j => Pages[cp].rev[i].cu < Pages[cp].rev[j].cu

CpSupported(cp) == cp \in DOMAIN Pages

-----------------------------------------------------------------------------
(* CpDecode *)

\* A lead byte without a trail that makes a character is replaced alone: the
\* trail may begin a character itself.
CpDecodeAt(s, page, bytes, i, cap) ==
    IF bytes[i] \notin page.lead
      THEN Emit(s, <<page.dec1[bytes[i]]>>, 1, page.dec1[bytes[i]] = Replacement, cap)
    ELSE IF i = Len(bytes) \/ page.dec2[bytes[i], bytes[i + 1]] = Replacement
      THEN Emit(s, <<Replacement>>, 1, TRUE, cap)
    ELSE Emit(s, <<page.dec2[bytes[i], bytes[i + 1]]>>, 2, FALSE, cap)

\* Stops when the room is full, on a whole character; lossy so far is kept.
CpDecode(cp, bytes, cap) ==
    FoldLeft(LAMBDA s, i : IF i < s.next \/ Len(s.out) >= cap THEN s
                           ELSE CpDecodeAt(s, Pages[cp], bytes, i, cap), Coding, Indices(bytes))

-----------------------------------------------------------------------------
(* CpEncode *)

Absent == <<>>

\* rev_lookup: binary search of the sorted reverse map.
RevLookup(page, unit) ==
    LET Search[lo, hi \in 0..(Len(page.rev) + 1)] ==
            IF lo > hi THEN Absent
            ELSE LET mid == lo + (hi - lo) \div 2 IN
              IF page.rev[mid].cu = unit THEN page.rev[mid].mb
              ELSE IF page.rev[mid].cu < unit THEN Search[mid + 1, hi]
              ELSE Search[lo, mid - 1]
    IN  Search[1, Len(page.rev)]

\* Strict: a unit the page does not have rejects the whole, and so does a room
\* too small, never half a character.
CpEncode(cp, units, cap) ==
    LET Put(s, i) ==
            IF s.status # "ok" THEN s
            ELSE LET mb == RevLookup(Pages[cp], units[i]) IN
              IF mb = Absent THEN [s EXCEPT !.status = "rejected"]
              ELSE Emit(s, mb, 1, FALSE, cap)
    IN  IF CpSupported(cp) THEN FoldLeft(Put, Coding, Indices(units))
        ELSE [Coding EXCEPT !.status = "rejected"]

CpRepresentable(cp, units) ==
    CpSupported(cp) /\ \A i \in DOMAIN units : RevLookup(Pages[cp], units[i]) # Absent

-----------------------------------------------------------------------------
(* EncBytesToWire: the source goes through a small buffer of units, batch by
   batch *)

Continues(b) == b \in 128..191
Rest(bytes, i) == SubSeq(bytes, i, Len(bytes))

\* Faulty variant of Utf8Batch: the window is cut wherever it ends.
Utf8BatchUncut(bytes, i) == IF Len(bytes) - i + 1 <= Window THEN Len(bytes) - i + 1 ELSE Window

\* A window of UTF-8 ends before a byte that starts a character; when there is
\* none in it, all that is left is taken at once.
Utf8Batch(bytes, i) ==
    LET left == Len(bytes) - i + 1
        Starts(n) == ~Continues(bytes[i + n])
    IN  IF left <= Window THEN left
        ELSE IF \E n \in 1..Window : Starts(n)
             THEN CHOOSE n \in 1..Window : Starts(n) /\ \A k \in (n + 1)..Window : ~Starts(k)
        ELSE left

\* The units of the batch at i, the bytes it takes and whether one was replaced.
Batch(cp, bytes, i) ==
    IF cp = Utf8Id THEN
      LET n == Utf8Batch(bytes, i)
          d == Utf8ToUtf16(SubSeq(bytes, i, i + n - 1), Window)
      IN  [units |-> d.out, taken |-> n, lossy |-> d.status = "lossy"]
    ELSE IF CpSupported(cp) THEN
      LET d == CpDecode(cp, Rest(bytes, i), Window)
      IN  [units |-> d.out, taken |-> d.next - 1, lossy |-> d.status = "lossy"]
    ELSE LET n == IF Len(bytes) - i + 1 < Window THEN Len(bytes) - i + 1 ELSE Window
         IN  [units |-> SubSeq(bytes, i, i + n - 1), taken |-> n, lossy |-> FALSE]

\* What has been sent once a batch is converted to UTF-8.
Sent(s, i, batch, utf8) ==
    [out |-> s.out \o utf8.out, next |-> i + batch.taken,
     status |-> IF utf8.status = "truncated" THEN "truncated"
                ELSE IF batch.lossy THEN "lossy" ELSE s.status]
SendBatch(s, i, batch, cap) == Sent(s, i, batch, Utf16ToUtf8(batch.units, cap - Len(s.out)))

EncBytesToWire(cp, bytes, cap) ==
    LET Put(s, i) == IF i < s.next \/ s.status = "truncated" THEN s
                     ELSE SendBatch(s, i, Batch(cp, bytes, i), cap)
    IN  FoldLeft(Put, Coding, Indices(bytes))

-----------------------------------------------------------------------------
(* EncTierCurrent and EncOpenPath *)

Hosts == [nt : BOOLEAN, wideFiles : BOOLEAN, acp : DOMAIN Pages \cup {Utf8Id}]

EncTierCurrent(host) ==
    IF host.nt /\ host.acp = Utf8Id THEN "manifest"
    ELSE IF host.nt /\ host.wideFiles THEN "wide" ELSE "codepage"

CutTo(seq, n) == SubSeq(seq, 1, IF Len(seq) <= n THEN Len(seq) ELSE n)

\* The name handed to the file call, in bytes or units, and the status.
EncOpenPath(host, path) ==
    LET wide == Utf8ToUtf16(path, PathWide - 1)
        narrow == CpEncode(host.acp, wide.out, PathMb - 1)
    IN  CASE EncTierCurrent(host) = "manifest" ->
               [name |-> CutTo(path, PathMb - 1),
                status |-> IF Len(path) > PathMb - 1 THEN "truncated" ELSE "ok"]
          [] EncTierCurrent(host) = "wide" -> [name |-> wide.out, status |-> wide.status]
          [] OTHER ->
               IF narrow.status # "ok" THEN [name |-> <<>>, status |-> narrow.status]
               ELSE [name |-> narrow.out, status |-> IF wide.status = "lossy" THEN "lossy" ELSE "ok"]

-----------------------------------------------------------------------------

\* The text of source bytes as one batch would give it.
WholeText(cp, bytes) ==
    IF cp = Utf8Id THEN Utf8ToUtf16(bytes, Enough(bytes))
    ELSE IF CpSupported(cp) THEN CpDecode(cp, bytes, Enough(bytes))
    ELSE [Coding EXCEPT !.out = bytes]

LongRun(bytes) ==
    \E i \in 1..(Len(bytes) - Window) : \A k \in 1..Window : Continues(bytes[i + k])

SaysText(cp, bytes, cap, text, e, w) ==
    /\ WellFormed(w.out) /\ Len(w.out) <= cap
    /\ IsPrefix(w.out, Utf16ToUtf8(text.out, Enough(text.out)).out)
    /\ ~(cp = Utf8Id /\ LongRun(bytes)) =>
         /\ w.out = e.out
         /\ w.status = IF e.status = "truncated" THEN "truncated" ELSE text.status

\* Console output reaches the wire as if there were no window: no character is
\* split, lost or doubled where two meet.  (After Window continuation bytes in a
\* row, which no text has, what follows may be lost, but never made ill-formed.)
WireIsText(cp, bytes, cap) ==
    SaysText(cp, bytes, cap, WholeText(cp, bytes), Utf16ToUtf8(WholeText(cp, bytes).out, cap),
             EncBytesToWire(cp, bytes, cap))

\* Narrowing loses nothing: what a page takes it gives back, it takes exactly
\* what it can give back, and a refusal leaves no usable output.
NarrowingIsStrict(cp, units, cap) ==
    LET n == CpEncode(cp, units, cap)
        Givable == {Pages[cp].dec1[b] : b \in DOMAIN Pages[cp].dec1 \ Pages[cp].lead}
                     \cup {Pages[cp].dec2[p] : p \in DOMAIN Pages[cp].dec2}
    IN  /\ n.status = "ok" => CpDecode(cp, n.out, Enough(n.out)).out = units
        /\ CpRepresentable(cp, units) = (ToSet(units) \subseteq Givable \ {Replacement})
        /\ n.status = "ok" => CpRepresentable(cp, units)
        /\ CpRepresentable(cp, units) => n.status \in {"ok", "truncated"}

\* A file call gets the name the wire gave, whole, or is told that it did not: a
\* path within the request's field is never opened under a shortened name.
PathIsWhole(host, path) ==
    LET p == EncOpenPath(host, path)
        Said(text) == Utf16ToUtf8(text, Enough(text)).out
    IN  Len(path) < PathWide =>
          /\ p.status # "truncated"
          /\ p.status = "ok" =>
               CASE EncTierCurrent(host) = "manifest" -> p.name = path
                 [] EncTierCurrent(host) = "wide" -> Said(p.name) = path
                 [] OTHER -> Said(CpDecode(host.acp, p.name, Enough(p.name)).out) = path
          /\ ~WellFormed(path) => p.status # "ok" \/ EncTierCurrent(host) = "manifest"
===============================================================================
