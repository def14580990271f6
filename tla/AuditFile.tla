------------------------------- MODULE AuditFile -------------------------------
(***************************************************************************)
(* The file sink of the bridge's audit log (audit.rs): one record a line,   *)
(* and one rotation slot.  A file is the sequence of its bytes; a byte of   *)
(* record n is n, and 0 ends a line.                                        *)
(***************************************************************************)
EXTENDS Integers, Sequences, SequencesExt, FiniteSetsExt

CONSTANT MaxBytes       \* the size a file rotates at

ASSUME AuditFileAssumption == MaxBytes \in Nat \ {0}

\* What one call meets: a size that cannot be read, a rename or an open that
\* fails, a full disk or the bridge's end in the middle of the line or before
\* its newline.
Faults == {"none", "stat", "rename", "open", "cut", "newline"}

Record(n, len) == Append([i \in 1..len |-> n], 0)
EmptyLog == [current |-> <<>>, rotated |-> <<>>, written |-> <<>>, calls |-> 0]

\* What gets to the file of a record of len bytes and its newline.
Arrives(n, call) ==
    CASE call.fault = "open" -> <<>>
      [] call.fault = "cut" -> SubSeq(Record(n, call.len), 1, 1)
      [] call.fault = "newline" -> SubSeq(Record(n, call.len), 1, call.len)
      [] OTHER -> Record(n, call.len)

\* Faulty variant of Needed: the newline is not counted.
NeededBare(call) == call.len

Needed(call) == call.len + 1

\* write_line: a file that would grow past the cap is renamed over the rotation
\* slot, whatever comes of it; then the line and its newline are appended.
WriteLine(log, call) ==
    LET n == log.calls + 1
        existing == IF call.fault = "stat" THEN 0 ELSE Len(log.current)
        moves == existing > 0 /\ existing + Needed(call) > MaxBytes /\ call.fault # "rename"
        text == Arrives(n, call)
    IN  [current |-> (IF moves THEN <<>> ELSE log.current) \o text,
         rotated |-> IF moves THEN log.current ELSE log.rotated,
         written |-> log.written \o text,
         calls |-> n]

Logged(calls) == FoldLeft(WriteLine, EmptyLog, calls)

-----------------------------------------------------------------------------

\* The lines of a file, the last one without a newline too.
Lines(file) ==
    LET Put(lines, b) == IF b = 0 THEN Append(lines, <<>>)
                         ELSE [lines EXCEPT ![Len(lines)] = Append(@, b)]
    IN  ToSet(FoldLeft(Put, << <<>> >>, file))

\* The two files hold the last part of what was written, in order and with no
\* gap; nothing is dropped before a whole file of newer records is there; a
\* file outgrows its cap only by a fault or for a single record; and a record
\* is a line of its own unless one was cut just before it.
AuditIsKept(calls) ==
    LET log == Logged(calls)
        kept == log.rotated \o log.current
        longest == Max({0} \cup {Needed(calls[i]) : i \in DOMAIN calls})
        Cut(n) == calls[n].fault \in {"cut", "newline"}
        Before(n) == {m \in 1..(n - 1) : calls[m].fault # "open"}
    IN  /\ IsSuffix(kept, log.written)
        /\ kept # log.written => Len(kept) > MaxBytes - longest
        /\ (\A n \in DOMAIN calls : calls[n].fault \notin {"stat", "rename"}) =>
             Len(log.current) <= MaxBytes \/ Cardinality(ToSet(log.current) \ {0}) = 1
        /\ \A n \in DOMAIN calls :
             (Contains(kept, n) /\ ~Cut(n) /\ (Before(n) # {} => ~Cut(Max(Before(n))))) =>
               [i \in 1..calls[n].len |-> n] \in Lines(log.rotated) \cup Lines(log.current)
===============================================================================
