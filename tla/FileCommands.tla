---------------------------- MODULE FileCommands ----------------------------
(***************************************************************************)
(* The device's file verbs: one line of the client, cut to the line buffer  *)
(* (ProcessBuffer), parsed into fields of a fixed size (ParseJsonCommand),  *)
(* dispatched (ProcessCommand) and carried out on the host's file system    *)
(* (file_ops.c).  Each OS call is a step; other programs on the host change *)
(* the file system between the steps, and any OS call may fail.             *)
(*                                                                         *)
(* The host is a set of directories with files in them.  A file's content   *)
(* is who wrote it and how many bytes it has.                               *)
(***************************************************************************)
EXTENDS Integers, Sequences, SequencesExt

CONSTANTS
    Dirs, Leaves,   \* the directories, and the file names in each
    Self,           \* the leaf of a path that names a directory itself
    Names, Field,   \* paths as a client sends them, and what their field keeps
    NotOnPage,      \* paths the ANSI code page cannot spell
    Requests,       \* the commands a client may send
    Initial,        \* where a file may stand at the start
    OutsideSizes,   \* sizes of the files other programs write
    SizeLow,        \* 2^32: GetFileSize returns the size modulo this
    MaxData,        \* MCP_MAX_DATA: the raw and the base64 buffer of a read
    LineRoom,       \* base64 characters a command line has room for
    ListRoom,       \* names the listing buffer has room for
    MaxRequests, MaxOutside     \* bounds: requests served, changes by others

Paths == [dir : Dirs, leaf : Leaves \cup {Self}]

Verbs == {"read", "write", "list", "delete", "copy", "move", "mkdir", "rmdir", "empty", "unknown"}

\* A path's form says whether a file or a directory can stand there: the tree has one
\* level, so a copy makes files and mkdir makes directories, and a move keeps the kind.
ASSUME FilesAssumption ==
    /\ Self \notin Leaves
    /\ Field \in [Names -> Paths]
    /\ NotOnPage \subseteq Paths /\ Initial \subseteq Paths
    /\ Requests # {}
    /\ Requests \subseteq [verb : Verbs, path : Names, dest : Names, len : Nat, base64 : BOOLEAN]
    /\ \A r \in Requests :
          /\ r.verb = "copy" => Field[r.dest].leaf # Self
          /\ r.verb = "move" => (Field[r.path].leaf = Self) = (Field[r.dest].leaf = Self)
          /\ r.verb \in {"mkdir", "rmdir"} => Field[r.path].leaf = Self
    /\ OutsideSizes \subseteq Nat
    /\ {SizeLow, MaxData, LineRoom, ListRoom, MaxRequests, MaxOutside} \subseteq Nat
    /\ SizeLow > 2 * MaxData

\* What stands at a path.
Entries == [kind : {"none", "dir", "file"}, by : 0..MaxRequests, len : Nat]
Absent == [kind |-> "none", by |-> 0, len |-> 0]
Directory == [kind |-> "dir", by |-> 0, len |-> 0]
File(by, len) == [kind |-> "file", by |-> by, len |-> len]
Outside == 0    \* the author of what other programs write
Torn == -1      \* the author of bytes read from two different contents

VARIABLES
    codepage, sharing,  \* the host: the codepage tier, and whether open files are locked
    fs,                 \* path -> what stands there
    handled,            \* requests answered so far
    step,               \* where the handler stands; "idle" between requests
    req,                \* the request being handled
    want, got,          \* a read: the size it believes in, and what it has read
    entry, found,       \* a listing: the name in the find data (none of "." and
                        \* ".."), and the names put into the buffer
    given, steady, cut, \* history: names the host gave, and names there all along;
                        \* its search has failed
    answer,             \* the last answer
    outside             \* changes by other programs so far

host == <<codepage, sharing>>
listing == <<entry, found, given, steady, cut>>
handler == <<handled, step, req, want, got, listing, answer>>
vars == <<host, fs, handler, outside>>

Nothing == [by |-> Outside, len |-> 0]
NoRequest == CHOOSE r \in Requests : TRUE
NoAnswer == [status |-> "none", what |-> "", data |-> Nothing, names |-> <<>>]

TypeOK ==
    /\ codepage \in BOOLEAN /\ sharing \in BOOLEAN
    /\ fs \in [Paths -> Entries]
    /\ handled \in 0..MaxRequests
    /\ step \in {"idle", "start", "reading", "writing", "putting", "finding"}
    /\ req \in Requests
    /\ want \in Int
    /\ got \in [by : Torn..MaxRequests, len : 0..MaxData]
    /\ entry \in Seq(Paths) /\ Len(entry) <= 1
    /\ found \in Seq(Paths) /\ given \in Seq(Paths)
    /\ steady \subseteq Paths /\ cut \in BOOLEAN
    /\ answer.status \in {"none", "ok", "error"}
    /\ outside \in 0..MaxOutside

DirOf(p) == [dir |-> p.dir, leaf |-> Self]
Present(p) == fs[p].kind # "none"
IsFile(p) == fs[p].kind = "file"
Within(d) == {p \in Paths : p.dir = d.dir /\ p.leaf # Self /\ Present(p)}
Target == Field[req.path]
Dest == Field[req.dest]

Init ==
    /\ codepage \in BOOLEAN /\ sharing \in BOOLEAN
    /\ fs \in [Paths -> {Absent, Directory} \cup {File(Outside, n) : n \in OutsideSizes}]
    /\ \A p \in Paths :
          /\ p.leaf = Self => ~IsFile(p)
          /\ p.leaf # Self => fs[p] # Directory
          /\ IsFile(p) => p \in Initial /\ Present(DirOf(p))
    /\ handled = 0
    /\ step = "idle"
    /\ req = NoRequest
    /\ want = 0 /\ got = Nothing
    /\ entry = <<>> /\ found = <<>>
    /\ given = <<>> /\ steady = {} /\ cut = FALSE
    /\ answer = NoAnswer
    /\ outside = 0

-----------------------------------------------------------------------------
(* Helpers *)

Base64Len(n) == 4 * ((n + 2) \div 3)

\* A line past CMD_BUF_SIZE - 1 loses its tail, closing brace included.
LineFits(r) == r.verb = "write" => Base64Len(r.len) <= LineRoom

\* A cut line is an object without an end, which the parser refuses.
Parses(r) == LineFits(r)

\* enc_prep_path: the codepage tier refuses what it cannot spell.
Spelled(p) == codepage => p \notin NotOnPage

AnswerWith(status, what, data, names) ==
    /\ handled' = handled + 1
    /\ step' = "idle" /\ req' = NoRequest
    /\ want' = 0 /\ got' = Nothing
    /\ entry' = <<>> /\ found' = <<>>
    /\ given' = <<>> /\ steady' = {} /\ cut' = FALSE
    /\ answer' = [status |-> status, what |-> what, data |-> data, names |-> names]
    /\ UNCHANGED <<host, outside>>

Ok(data, names) == AnswerWith("ok", req.verb, data, names)
Done == Ok(Nothing, <<>>)
Error(what) == AnswerWith("error", what, Nothing, <<>>)
Begin(what) == handled' = handled /\ step' = what /\ UNCHANGED <<host, req, answer, outside>>

-----------------------------------------------------------------------------
(* The command line *)

\* A line of the client is complete.
Receive ==
    /\ step = "idle" /\ handled < MaxRequests
    /\ req' \in Requests
    /\ step' = "start" /\ answer' = NoAnswer
    /\ UNCHANGED <<host, fs, handled, want, got, listing, outside>>

\* ProcessCommand's own answers; an empty line gets none.
Unserved ==
    /\ step = "start"
    /\ \/ ~Parses(req) /\ Error("invalid JSON")
       \/ Parses(req) /\ req.verb = "unknown" /\ Error("unknown command")
       \/ Parses(req) /\ req.verb = "write" /\ ~req.base64 /\ Error("invalid base64")
       \/ req.verb = "empty" /\ AnswerWith(answer.status, answer.what, answer.data, answer.names)
    /\ UNCHANGED fs

Starts(verb) ==
    /\ step = "start" /\ Parses(req)
    /\ req.verb = verb
    /\ verb = "write" => req.base64

\* No path that the code page cannot spell reaches the OS.
Unspelled ==
    /\ step = "start" /\ Parses(req) /\ req.verb \notin {"empty", "unknown"}
    /\ req.verb = "write" => req.base64
    /\ ~Spelled(Target) \/ (req.verb \in {"copy", "move"} /\ ~Spelled(Dest))
    /\ Error(IF req.verb = "list" THEN "directory not found" ELSE "path not representable")
    /\ UNCHANGED fs

-----------------------------------------------------------------------------
(* FileOpRead *)

\* The low half of the size, as a signed int.
SignedLow(n) == LET low == n % SizeLow IN IF low < SizeLow \div 2 THEN low ELSE low - SizeLow

OpenRead ==
    /\ Starts("read") /\ Spelled(Target)
    /\ UNCHANGED fs
    /\ \/ Error("file not found")       \* absent, a directory, locked, or a fault
       \/ /\ IsFile(Target)
          /\ LET low == SignedLow(fs[Target].len) IN
             \/ low > MaxData /\ Error("file too large")
             \/ /\ low <= MaxData
                /\ want' = low
                /\ Begin("reading")
                /\ UNCHANGED <<got, listing>>
       \/ IsFile(Target) /\ Error("cannot get file size")

\* Faulty variant of ReadChunk: a short read of no bytes is tried again.
ReadChunkAgain ==
    /\ step = "reading" /\ got.len < want
    /\ \E k \in 0..(want - got.len) :
          /\ k = 0 <=> fs[Target].len <= got.len
          /\ got.len + k <= fs[Target].len \/ k = 0
          /\ got' = IF k = 0 THEN got ELSE [by |-> fs[Target].by, len |-> got.len + k]
          /\ UNCHANGED want
    /\ Begin("reading")
    /\ UNCHANGED <<fs, listing>>

\* Faulty variant of ReadChunk: the file is read to its end, not to its size.
ReadChunkToEnd ==
    /\ step = "reading" /\ got.len < want
    /\ got' = [by |-> fs[Target].by, len |-> fs[Target].len]
    /\ want' = got'.len
    /\ Begin("reading")
    /\ UNCHANGED <<fs, listing>>

\* One ReadFile returns some of the bytes asked for; none only at the file's end,
\* which ends the read.
ReadChunk ==
    /\ step = "reading" /\ got.len < want
    /\ \E k \in 0..(want - got.len) :
          /\ k = 0 <=> fs[Target].len <= got.len
          /\ got.len + k <= fs[Target].len \/ k = 0
          /\ got' = [by |-> IF got.len = 0 \/ k = 0 \/ got.by = fs[Target].by
                            THEN (IF k = 0 THEN got.by ELSE fs[Target].by) ELSE Torn,
                     len |-> got.len + k]
          /\ want' = IF k = 0 THEN got.len ELSE want
    /\ Begin("reading")
    /\ UNCHANGED <<fs, listing>>

ReadFails ==
    /\ step = "reading" /\ got.len < want
    /\ Error("read error")
    /\ UNCHANGED fs

\* Base64Encode returns 0 for no bytes and for too many, and 0 is an error here.
Encodable(n) == n > 0 /\ Base64Len(n) + 1 <= MaxData

\* Faulty variant of FinishRead: the loop is left after the first ReadFile.
FinishReadEarly ==
    /\ step = "reading" /\ (got.len > 0 \/ got.len >= want)
    /\ IF Encodable(got.len) THEN Ok(got, <<>>) ELSE Error("encode error")
    /\ UNCHANGED fs

FinishRead ==
    /\ step = "reading" /\ got.len >= want
    /\ IF Encodable(got.len) THEN Ok(got, <<>>) ELSE Error("encode error")
    /\ UNCHANGED fs

-----------------------------------------------------------------------------
(* FileOpWrite *)

\* CREATE_ALWAYS: what was there is gone before a byte is written.
OpenWrite ==
    /\ Starts("write") /\ Spelled(Target)
    /\ \/ Error("cannot create file") /\ UNCHANGED fs
       \/ /\ Present(DirOf(Target)) /\ Target.leaf # Self
          /\ fs' = [fs EXCEPT ![Target] = File(handled + 1, 0)]
          /\ Begin("writing")
          /\ UNCHANGED <<want, got, listing>>

\* Faulty variant of WriteData: a short write is taken for a whole one.
WriteDataShort ==
    /\ step = "writing"
    /\ \E k \in 0..req.len :
          /\ fs' = [fs EXCEPT ![Target].len = k]
          /\ Done

\* The one WriteFile: whole, short, or failed after some bytes.
WriteData ==
    /\ step = "writing"
    /\ \E k \in 0..req.len :
          /\ fs' = [fs EXCEPT ![Target] = File(handled + 1, k)]
          /\ \/ k = req.len /\ Done
             \/ req.len > 0 /\ Error("write error")
             \/ k < req.len /\ Error("incomplete write")

-----------------------------------------------------------------------------
(* FileOpList *)

\* FindFirstFile puts a name into the find data: an entry, or "." (".." after it
\* changes nothing).
OpenList ==
    /\ Starts("list") /\ Spelled(Target)
    /\ UNCHANGED fs
    /\ \/ Error("directory not found")
       \/ /\ Present(Target) /\ Target.leaf = Self
          /\ \/ given' = <<>>
             \/ \E p \in Within(Target) : given' = <<p>>
          /\ entry' = given'
          /\ steady' = Within(Target)
          /\ Begin("putting")
          /\ UNCHANGED <<want, got, found, cut>>

\* Faulty variant of PutEntry: a name that does not fit is left out.
PutEntryThatFits ==
    /\ step = "putting"
    /\ found' = IF Len(found) + Len(entry) <= ListRoom THEN found \o entry ELSE found
    /\ Begin("finding")
    /\ UNCHANGED <<fs, want, got, entry, given, steady, cut>>

\* The name goes into the buffer, "." and ".." do not.
PutEntry ==
    /\ step = "putting"
    /\ IF Len(found) + Len(entry) <= ListRoom
         THEN /\ found' = found \o entry
              /\ Begin("finding")
              /\ UNCHANGED <<want, got, entry, given, steady, cut>>
         ELSE Error("buffer overflow")
    /\ UNCHANGED fs

\* FindNextFile gives another name, one that is there now and was not given before.
FindNext ==
    /\ step = "finding" /\ ~cut
    /\ \E p \in Within(Target) \ ToSet(given) :
          given' = Append(given, p) /\ entry' = <<p>>
    /\ Begin("putting")
    /\ UNCHANGED <<fs, want, got, found, steady, cut>>

\* The host's search fails, as of a drive gone away: FindNextFile says no from here on.
SearchFails ==
    /\ step \in {"putting", "finding"} /\ cut' = TRUE
    /\ UNCHANGED <<host, fs, handled, step, req, want, got, entry, found, given, steady, answer,
                   outside>>

\* FindNextFile says no: the names are all given, or the search has failed, and the
\* code does not ask which.
FindEnds ==
    /\ step = "finding"
    /\ cut \/ steady \subseteq ToSet(given)
    /\ Ok(Nothing, found)
    /\ UNCHANGED fs

-----------------------------------------------------------------------------
(* The verbs of one OS call *)

Delete ==
    /\ Starts("delete") /\ Spelled(Target)
    /\ \/ Error("delete failed") /\ UNCHANGED fs
       \/ IsFile(Target) /\ fs' = [fs EXCEPT ![Target] = Absent] /\ Done

\* Why CopyFile and MoveFile refuse, as the code words it.
RefusedPair(otherwise) ==
    \/ /\ ~Present(Target) \/ (Dest.leaf # Self /\ ~Present(DirOf(Dest)))
       /\ Error("file not found")
    \/ Present(Dest) /\ Error("file exists")
    \/ Error(otherwise)

Copy ==
    /\ Starts("copy") /\ Spelled(Target) /\ Spelled(Dest)
    /\ \/ RefusedPair("copy failed") /\ UNCHANGED fs
       \/ /\ IsFile(Target) /\ Present(DirOf(Dest)) /\ ~Present(Dest)
          /\ fs' = [fs EXCEPT ![Dest] = fs[Target]]
          /\ Done

\* A file moves alone, a directory with everything in it.
Moved ==
    IF Target.leaf # Self THEN [fs EXCEPT ![Dest] = fs[Target], ![Target] = Absent]
    ELSE [p \in Paths |-> IF p.dir = Dest.dir THEN fs[[p EXCEPT !.dir = Target.dir]]
                          ELSE IF p.dir = Target.dir THEN Absent ELSE fs[p]]

Move ==
    /\ Starts("move") /\ Spelled(Target) /\ Spelled(Dest)
    /\ \/ RefusedPair("move failed") /\ UNCHANGED fs
       \/ /\ Present(Target) /\ ~Present(Dest) /\ (Dest.leaf # Self => Present(DirOf(Dest)))
          /\ fs' = Moved
          /\ Done

MakeDir ==
    /\ Starts("mkdir") /\ Spelled(Target)
    /\ \/ Present(Target) /\ Error("directory exists") /\ UNCHANGED fs
       \/ Error("mkdir failed") /\ UNCHANGED fs
       \/ ~Present(Target) /\ fs' = [fs EXCEPT ![Target] = Directory] /\ Done

RemoveDir ==
    /\ Starts("rmdir") /\ Spelled(Target)
    /\ \/ ~Present(Target) /\ Error("directory not found") /\ UNCHANGED fs
       \/ Within(Target) # {} /\ Error("directory not empty") /\ UNCHANGED fs
       \/ Error("rmdir failed") /\ UNCHANGED fs
       \/ /\ Present(Target) /\ Within(Target) = {}
          /\ fs' = [fs EXCEPT ![Target] = Absent]
          /\ Done

Serve ==
    \/ Unserved \/ Unspelled
    \/ OpenRead \/ ReadChunk \/ FinishRead
    \/ OpenWrite \/ WriteData
    \/ OpenList \/ PutEntry \/ FindNext \/ FindEnds
    \/ Delete \/ Copy \/ Move \/ MakeDir \/ RemoveDir

-----------------------------------------------------------------------------
(* Other programs on the host *)

\* The path the handler holds open; a write shares it with nobody, a read with
\* readers, on a host that enforces sharing.
Held(p) ==
    /\ step = "writing" \/ (step = "reading" /\ sharing)
    /\ p \in {Target, DirOf(Target)}

Others ==
    /\ outside < MaxOutside
    /\ outside' = outside + 1
    /\ \E p \in Paths :
          /\ ~Held(p)
          /\ \/ /\ p.leaf # Self /\ Present(DirOf(p))
                /\ \E n \in OutsideSizes : fs' = [fs EXCEPT ![p] = File(Outside, n)]
             \/ IsFile(p) /\ ~(step = "reading" /\ p = Target) /\ fs' = [fs EXCEPT ![p] = Absent]
             \/ p.leaf = Self /\ ~Present(p) /\ fs' = [fs EXCEPT ![p] = Directory]
             \/ /\ p.leaf = Self /\ Present(p) /\ Within(p) = {}
                /\ ~(step \in {"putting", "finding"} /\ p = Target)
                /\ fs' = [fs EXCEPT ![p] = Absent]
    /\ steady' = {p \in steady : fs'[p].kind # "none"}
    /\ UNCHANGED <<host, handled, step, req, want, got, entry, found, given, cut, answer>>

Next == Receive \/ Serve \/ ReadFails \/ SearchFails \/ Others

Spec == Init /\ [][Next]_vars

\* The single-threaded server goes on with the request it has begun.
FairSpec == Spec /\ WF_vars(Serve)

-----------------------------------------------------------------------------
(* Properties *)

ServerSteps == outside' = outside
Answers(status) == ServerSteps /\ handled' # handled /\ answer'.status = status

\* Nothing is put past a buffer: a read stops at the size it saw when it opened the
\* file, however the file grows meanwhile, and a listing at the room for names.
BuffersHold == TypeOK /\ (step = "reading" => got.len = 0 \/ got.len <= want) /\ Len(found) <= ListRoom

\* A read that is answered with data gives the file as it stands, all of it, on a
\* host that locks open files: no chunk lost and none from another content.  A
\* size that does not fit GetFileSize's low half is the exception.
ReadTellsTheFile ==
    [][step = "reading" /\ Answers("ok") /\ sharing =>
          \/ fs[Target] = File(answer'.data.by, answer'.data.len)
          \/ fs[Target].len >= SizeLow]_vars

\* A listing that is answered ok is every name the host gave, in the host's order: none
\* lost between the find data and the buffer, none left out for want of room.  So it
\* misses nothing that was there throughout, unless the host's search failed.
ListTellsTheDirectory ==
    [][step = "finding" /\ Answers("ok") =>
          /\ answer'.names = given
          /\ steady \subseteq ToSet(answer'.names) \/ cut]_vars

\* The server changes the file system only where the request's fields say, says ok
\* only when all of it was done, and loses what stood elsewhere never: a copy or a
\* move onto something, a directory that is not empty, a line or a path that was
\* refused.  The one effect of a refused request is a write's broken target.
ChangesAreAnswered ==
    [][ServerSteps /\ fs' # fs =>
          /\ \A p \in Paths \ {Target} :
                Present(p) => \/ fs'[p] = fs[p]
                              \/ req.verb = "move" /\ fs'[[p EXCEPT !.dir = Dest.dir]] = fs[p]
          /\ \/ step' = "writing"
             \/ answer'.what \in {"write error", "incomplete write"}
             \/ answer'.status = "ok" /\ (req.verb = "write" => fs'[Target] = File(handled', req.len))]_vars

\* Every request the handler takes up comes to an end, whatever the file does
\* meanwhile: no loop over a file or a directory waits for what will not come.
RequestEnds == step # "idle" ~> step = "idle"
=============================================================================
