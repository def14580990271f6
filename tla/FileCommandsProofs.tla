-------------------------- MODULE FileCommandsProofs --------------------------
(***************************************************************************)
(* Proofs about FileCommands for any directories, names, requests and       *)
(* sizes, and any number of changes by other programs.  A file stands only  *)
(* in a directory that stands, and what a handler holds open stays as it    *)
(* opened it; what a read, a listing and a change tell the client follows.  *)
(***************************************************************************)
EXTENDS FileCommands, TLAPS

\* The file system is a tree: only a path that names a directory holds one, and
\* whatever is present is in a directory that is.
Tree ==
    \A p \in Paths : /\ p.leaf = Self => fs[p].kind # "file"
                     /\ p.leaf # Self => fs[p].kind # "dir"
                     /\ Present(p) => Present(DirOf(p))

\* A read in progress: it never holds more than it believes the file has, and
\* on a host that locks open files, what it holds is the beginning of the file,
\* whose size it believes in or has met.
ReadInv ==
    /\ step # "reading" => got.len = 0
    /\ step = "reading" =>
         /\ want <= MaxData
         /\ got.len = 0 \/ got.len <= want
         /\ sharing =>
              /\ IsFile(Target)
              /\ got.len > 0 => got.by = fs[Target].by /\ got.len <= fs[Target].len
              /\ \/ want = SignedLow(fs[Target].len)
                 \/ got.len = fs[Target].len /\ want = got.len

\* A write in progress keeps its directory.
WriteInv == step = "writing" => Target.leaf # Self /\ Present(DirOf(Target))

\* A listing holds every name the host gave, but for the one in the find data, and no
\* more than there is room for.
ListInv ==
    /\ Len(found) <= ListRoom
    /\ step \notin {"putting", "finding"} => found = <<>>
    /\ step = "putting" => given = found \o entry
    /\ step = "finding" => given = found

FileInv ==
    /\ TypeOK
    /\ step # "idle" => handled < MaxRequests
    /\ Tree
    /\ ReadInv
    /\ WriteInv
    /\ ListInv

-----------------------------------------------------------------------------
(* Facts about the helpers *)

\* Every path of a request, its directory and what may stand there are typed.
LEMMA PathFacts ==
    /\ \A r \in Requests : Field[r.path] \in Paths /\ Field[r.dest] \in Paths
    /\ \A p \in Paths : DirOf(p) \in Paths
    /\ Absent \in Entries /\ Directory \in Entries
    /\ \A by \in 0..MaxRequests, n \in Nat : File(by, n) \in Entries
BY FilesAssumption
   DEF Paths, DirOf, Entries, Absent, Directory, File

\* The size an open believes in is an integer, and up to half the range of
\* GetFileSize's low half it is the file's own.
LEMMA SizeFacts ==
    ASSUME NEW n \in Nat
    PROVE  /\ SignedLow(n) \in Int
           /\ SignedLow(n) > 0 /\ n < SizeLow => SignedLow(n) = n
<1>1. SizeLow \in Nat /\ SizeLow > 0
  BY FilesAssumption
<1>2. n % SizeLow \in 0..(SizeLow - 1)
  BY <1>1
<1>3. n < SizeLow => n % SizeLow = n
  BY <1>1
<1> QED
  BY <1>1, <1>2, <1>3 DEF SignedLow

\* A listing that has not begun gives no name.
LEMMA NoListing == <<>> \in Seq(Paths) /\ Len(<<>>) <= 1
<1>1. <<>> \in Seq(Paths)
  OBVIOUS
<1>2. Len(<<>>) <= 1
  OBVIOUS
<1> QED
  BY <1>1, <1>2

\* An answer ends the handling of a request; what it must not disturb is the tree.
LEMMA AnswerKeeps ==
    ASSUME FileInv, step # "idle",
           NEW status \in {"none", "ok", "error"}, NEW what, NEW data, NEW names,
           AnswerWith(status, what, data, names),
           fs' \in [Paths -> Entries], Tree'
    PROVE  FileInv'
<1>1. handled' \in 0..MaxRequests
  <2>1. handled' = handled + 1
    BY DEF AnswerWith
  <2>2. handled \in 0..MaxRequests
    BY DEF FileInv, TypeOK
  <2>3. handled < MaxRequests
    BY DEF FileInv
  <2> QED
    BY <2>1, <2>2, <2>3, FilesAssumption
<1>2. NoRequest \in Requests
  BY FilesAssumption DEF NoRequest
<1>3. TypeOK'
  <2>1. got' \in [by : Torn..MaxRequests, len : 0..MaxData]
    BY FilesAssumption DEF FileInv, TypeOK, AnswerWith, Nothing, Outside, Torn
  <2>2. /\ entry' \in Seq(Paths) /\ Len(entry') <= 1
        /\ found' \in Seq(Paths) /\ given' \in Seq(Paths)
        /\ steady' \subseteq Paths /\ cut' \in BOOLEAN
    <3>1. /\ entry' = <<>> /\ found' = <<>> /\ given' = <<>>
          /\ steady' = {} /\ cut' = FALSE
      BY DEF AnswerWith
    <3> QED
      BY <3>1, NoListing, Zenon
  <2>3. answer'.status \in {"none", "ok", "error"}
    BY DEF AnswerWith
  <2>4. /\ codepage' \in BOOLEAN /\ sharing' \in BOOLEAN
        /\ step' = "idle" /\ req' = NoRequest /\ want' \in Int
        /\ outside' \in 0..MaxOutside
    BY DEF FileInv, TypeOK, AnswerWith, host
  <2> QED
    BY <1>1, <1>2, <2>1, <2>2, <2>3, <2>4, Zenon DEF TypeOK
<1>4. ListInv'
  BY FilesAssumption DEF AnswerWith, ListInv
<1> QED
  BY <1>3, <1>4 DEF FileInv, AnswerWith, ReadInv, WriteInv, Nothing

-----------------------------------------------------------------------------
(* The invariant *)

\* The invariant holds before the first request.
LEMMA InitFile == Init => FileInv
<1> SUFFICES ASSUME Init
             PROVE  FileInv
  OBVIOUS
<1>1. NoRequest \in Requests
  BY FilesAssumption DEF NoRequest
<1>2. fs \in [Paths -> Entries]
  BY FilesAssumption DEF Init, Entries, Absent, Directory, File, Outside
<1>3. TypeOK
  <2>1. /\ codepage \in BOOLEAN /\ sharing \in BOOLEAN
        /\ handled = 0 /\ step = "idle" /\ req = NoRequest
        /\ want = 0 /\ got = Nothing
        /\ entry = <<>> /\ found = <<>> /\ given = <<>> /\ steady = {} /\ cut = FALSE
        /\ outside = 0
    BY DEF Init
  <2>2. answer.status = "none"
    BY DEF Init, NoAnswer
  <2>3. got \in [by : Torn..MaxRequests, len : 0..MaxData]
    BY <2>1, FilesAssumption DEF Nothing, Outside, Torn
  <2>4. /\ entry \in Seq(Paths) /\ Len(entry) <= 1
        /\ found \in Seq(Paths) /\ given \in Seq(Paths)
        /\ steady \subseteq Paths /\ cut \in BOOLEAN
    BY <2>1, NoListing, Zenon
  <2>5. handled \in 0..MaxRequests /\ outside \in 0..MaxOutside /\ want \in Int
    BY <2>1, FilesAssumption
  <2> QED
    BY <1>1, <1>2, <2>1, <2>2, <2>3, <2>4, <2>5, Zenon DEF TypeOK
<1>4. Tree
  <2> SUFFICES ASSUME NEW p \in Paths
               PROVE  /\ p.leaf = Self => fs[p].kind # "file"
                      /\ p.leaf # Self => fs[p].kind # "dir"
                      /\ Present(p) => Present(DirOf(p))
    BY DEF Tree
  <2>1. p.leaf = Self => DirOf(p) = p
    BY DEF Paths, DirOf
  <2>2. fs[p] \in {Absent, Directory} \cup {File(Outside, n) : n \in OutsideSizes}
    BY DEF Init
  <2>3. fs[p].kind \in {"none", "dir", "file"} /\ (fs[p].kind = "dir" => fs[p] = Directory)
    BY <2>2 DEF Absent, Directory, File
  <2> QED
    BY <2>1, <2>3 DEF Init, Present, IsFile
<1>5. ListInv
  BY FilesAssumption DEF Init, ListInv
<1> QED
  BY <1>3, <1>4, <1>5 DEF Init, FileInv, ReadInv, WriteInv, Nothing

\* Receiving a request keeps it.
LEMMA ReceiveKeeps ==
    ASSUME FileInv, Receive
    PROVE  FileInv'
<1>1. TypeOK'
  BY DEF FileInv, TypeOK, Receive, host, listing, NoAnswer
<1> QED
  BY <1>1 DEF FileInv, Receive, Tree, Present, DirOf, ReadInv, WriteInv, ListInv, listing

\* What an answer needs when the file system is left alone.
LEMMA QuietAnswer ==
    ASSUME FileInv, step # "idle",
           NEW status \in {"none", "ok", "error"}, NEW what, NEW data, NEW names,
           AnswerWith(status, what, data, names), UNCHANGED fs
    PROVE  FileInv'
<1>1. fs' \in [Paths -> Entries]
  BY DEF FileInv, TypeOK
<1>2. Tree'
  BY DEF FileInv, Tree, Present, DirOf
<1> QED
  BY <1>1, <1>2, AnswerKeeps

LEMMA RefusalsKeep ==
    ASSUME FileInv, Unserved \/ Unspelled
    PROVE  FileInv'
<1>1. step = "start" /\ UNCHANGED fs
  BY DEF Unserved, Unspelled
<1>2. PICK status \in {"none", "ok", "error"} :
        \E what, data, names : AnswerWith(status, what, data, names)
  BY DEF Unserved, Unspelled, Error, FileInv, TypeOK
<1> QED
  BY <1>1, <1>2, QuietAnswer

-----------------------------------------------------------------------------
(* Reading *)

LEMMA OpenReadKeeps ==
    ASSUME FileInv, OpenRead
    PROVE  FileInv'
<1>1. step = "start" /\ UNCHANGED fs
  BY DEF OpenRead, Starts
<1>2. ASSUME NEW what, Error(what)
      PROVE  FileInv'
  BY <1>1, <1>2, QuietAnswer DEF Error
<1>3. ASSUME IsFile(Target), SignedLow(fs[Target].len) <= MaxData,
             want' = SignedLow(fs[Target].len), Begin("reading"),
             UNCHANGED <<got, listing>>
      PROVE  FileInv'
  <2>1. fs[Target].len \in Nat
    BY PathFacts DEF FileInv, TypeOK, Target, Entries
  <2>2. want' \in Int
    BY <1>3, <2>1, SizeFacts
  <2>3. got.len = 0
    BY <1>1 DEF FileInv, ReadInv
  <2> QED
    BY <1>1, <1>3, <2>2, <2>3
       DEF FileInv, TypeOK, Begin, host, Tree, Present, DirOf, IsFile, Target, ReadInv,
           WriteInv, ListInv, listing
<1> QED
  BY <1>2, <1>3 DEF OpenRead

LEMMA ReadChunkKeeps ==
    ASSUME FileInv, ReadChunk
    PROVE  FileInv'
<1>1. step = "reading" /\ got.len < want /\ step' = "reading"
      /\ UNCHANGED <<host, fs, handled, req, answer, outside, listing>>
  BY DEF ReadChunk, Begin
<1>2. fs[Target] \in Entries /\ got.len \in 0..MaxData /\ want \in Int /\ want <= MaxData
  BY <1>1, PathFacts DEF FileInv, TypeOK, Target, ReadInv
<1>3. PICK k \in 0..(want - got.len) :
          /\ k = 0 <=> fs[Target].len <= got.len
          /\ got.len + k <= fs[Target].len \/ k = 0
          /\ got' = [by |-> IF got.len = 0 \/ k = 0 \/ got.by = fs[Target].by
                            THEN (IF k = 0 THEN got.by ELSE fs[Target].by) ELSE Torn,
                     len |-> got.len + k]
          /\ want' = IF k = 0 THEN got.len ELSE want
  BY DEF ReadChunk
<1>4. got'.len = got.len + k /\ got'.len \in 0..MaxData /\ got'.len <= want'
      /\ want' \in Int /\ want' <= MaxData
  BY <1>2, <1>3, FilesAssumption
<1>5. got'.by \in Torn..MaxRequests
  <2>1. got.by \in Torn..MaxRequests /\ fs[Target].by \in Torn..MaxRequests
        /\ Torn \in Torn..MaxRequests
    <3>1. fs[Target].by \in 0..MaxRequests
      BY <1>2 DEF Entries
    <3>2. got.by \in Torn..MaxRequests
      BY DEF FileInv, TypeOK
    <3>3. MaxRequests \in Nat
      BY FilesAssumption
    <3> QED
      BY <3>1, <3>2, <3>3 DEF Torn
  <2>2. got'.by \in {got.by, fs[Target].by, Torn}
    BY <1>3
  <2> QED
    BY <2>1, <2>2
<1>6. TypeOK'
  BY <1>1, <1>3, <1>4, <1>5 DEF FileInv, TypeOK, host, listing
<1>7. ASSUME sharing
      PROVE  /\ got'.len > 0 => got'.by = fs[Target].by /\ got'.len <= fs[Target].len
             /\ \/ want' = SignedLow(fs[Target].len)
                \/ got'.len = fs[Target].len /\ want' = got'.len
  <2>1. /\ got.len > 0 => got.by = fs[Target].by /\ got.len <= fs[Target].len
        /\ \/ want = SignedLow(fs[Target].len)
           \/ got.len = fs[Target].len /\ want = got.len
    BY <1>1, <1>7 DEF FileInv, ReadInv
  <2>2. fs[Target].len \in Nat
    BY <1>2 DEF Entries
  <2>3. CASE k = 0
    <3>1. got'.len = got.len /\ got'.by = got.by /\ want' = got.len
      BY <1>2, <1>3, <2>3
    <3>2. fs[Target].len <= got.len
      BY <1>3, <2>3
    <3> QED
      BY <1>2, <2>1, <2>2, <3>1, <3>2
  <2>4. CASE k # 0
    BY <1>2, <1>3, <2>1, <2>2, <2>4
  <2> QED
    BY <2>3, <2>4
<1>8. ReadInv'
  BY <1>1, <1>4, <1>7 DEF FileInv, ReadInv, IsFile, Target, host
<1> QED
  BY <1>1, <1>6, <1>8 DEF FileInv, Tree, Present, DirOf, WriteInv, ListInv, listing

LEMMA ReadEndsKeep ==
    ASSUME FileInv, ReadFails \/ FinishRead
    PROVE  FileInv'
<1>1. step = "reading" /\ UNCHANGED fs
  BY DEF ReadFails, FinishRead
<1>2. PICK status \in {"none", "ok", "error"} :
        \E what, data, names : AnswerWith(status, what, data, names)
  BY DEF ReadFails, FinishRead, Ok, Error
<1> QED
  BY <1>1, <1>2, QuietAnswer

-----------------------------------------------------------------------------
(* Writing *)

\* The tree with one path changed: to nothing where nothing stands below it, to
\* a file in a directory that stands, or to a directory.
LEMMA OneChange ==
    ASSUME FileInv, NEW p \in Paths, NEW e \in Entries,
           fs' = [fs EXCEPT ![p] = e],
           \/ e = Absent /\ (p.leaf = Self => Within(p) = {})
           \/ e.kind = "file" /\ p.leaf # Self /\ Present(DirOf(p))
           \/ e.kind = "dir" /\ p.leaf = Self
    PROVE  fs' \in [Paths -> Entries] /\ Tree'
<1>1. fs' \in [Paths -> Entries]
  BY DEF FileInv, TypeOK
<1>2. \A q \in Paths : fs'[q] = IF q = p THEN e ELSE fs[q]
  BY DEF FileInv, TypeOK
<1>3. ASSUME NEW q \in Paths
      PROVE  /\ q.leaf = Self => fs'[q].kind # "file"
             /\ q.leaf # Self => fs'[q].kind # "dir"
             /\ fs'[q].kind # "none" => fs'[DirOf(q)].kind # "none"
  <2>1. DirOf(q) \in Paths /\ DirOf(q).leaf = Self /\ DirOf(q).dir = q.dir
    BY DEF DirOf, Paths
  <2>2. q.leaf = Self => DirOf(q) = q
    BY DEF DirOf, Paths
  <2>3. DirOf(q) = p => p.leaf = Self /\ q.dir = p.dir
    BY <2>1
  <2>4. /\ q.leaf = Self => fs[q].kind # "file"
        /\ q.leaf # Self => fs[q].kind # "dir"
        /\ fs[q].kind # "none" => fs[DirOf(q)].kind # "none"
    BY DEF FileInv, Tree, Present
  <2>5. CASE e = Absent /\ (p.leaf = Self => Within(p) = {})
    <3>1. p.leaf = Self /\ q.leaf # Self /\ q.dir = p.dir => fs[q].kind = "none"
      BY <2>5 DEF Within, Present
    <3> QED
      BY <1>2, <2>1, <2>2, <2>3, <2>4, <2>5, <3>1 DEF Absent
  <2>6. CASE e.kind = "file" /\ p.leaf # Self /\ Present(DirOf(p))
    BY <1>2, <2>1, <2>3, <2>4, <2>6 DEF Present
  <2>7. CASE e.kind = "dir" /\ p.leaf = Self
    BY <1>2, <2>1, <2>2, <2>3, <2>4, <2>7
  <2> QED
    BY <2>5, <2>6, <2>7
<1>4. Tree'
  BY <1>3 DEF Tree, Present, DirOf
<1> QED
  BY <1>1, <1>4

LEMMA OpenWriteKeeps ==
    ASSUME FileInv, OpenWrite
    PROVE  FileInv'
<1>1. step = "start"
  BY DEF OpenWrite, Starts
<1>2. ASSUME NEW what, Error(what), UNCHANGED fs
      PROVE  FileInv'
  BY <1>1, <1>2, QuietAnswer DEF Error
<1>3. ASSUME Present(DirOf(Target)), Target.leaf # Self,
             fs' = [fs EXCEPT ![Target] = File(handled + 1, 0)],
             Begin("writing"), UNCHANGED <<want, got, listing>>
      PROVE  FileInv'
  <2>1. Target \in Paths /\ handled + 1 \in 0..MaxRequests
    BY <1>1, PathFacts, FilesAssumption DEF FileInv, TypeOK, Target
  <2>2. File(handled + 1, 0) \in Entries /\ File(handled + 1, 0).kind = "file"
    BY <2>1, PathFacts DEF File
  <2>3. fs' \in [Paths -> Entries] /\ Tree'
    BY <1>3, <2>1, <2>2, OneChange
  <2>4. WriteInv'
    <3>1. Target' = Target /\ DirOf(Target) # Target /\ DirOf(Target) \in Paths
      BY <1>3, <2>1, PathFacts DEF Begin, Target, DirOf
    <3>2. fs'[DirOf(Target)] = fs[DirOf(Target)]
      BY <1>3, <3>1 DEF FileInv, TypeOK
    <3> QED
      BY <1>3, <3>1, <3>2 DEF WriteInv, Present, DirOf
  <2>5. TypeOK'
    BY <1>1, <1>3, <2>3 DEF FileInv, TypeOK, Begin, host, listing
  <2> QED
    BY <1>1, <1>3, <2>3, <2>4, <2>5 DEF FileInv, Begin, ReadInv, ListInv, listing
<1> QED
  BY <1>2, <1>3 DEF OpenWrite

LEMMA WriteDataKeeps ==
    ASSUME FileInv, WriteData
    PROVE  FileInv'
<1>1. step = "writing"
  BY DEF WriteData
<1>2. PICK k \in 0..req.len :
        /\ fs' = [fs EXCEPT ![Target] = File(handled + 1, k)]
        /\ \E status \in {"none", "ok", "error"} : \E what, data, names :
             AnswerWith(status, what, data, names)
  BY DEF WriteData, Done, Ok, Error
<1>3. Target \in Paths /\ handled + 1 \in 0..MaxRequests /\ k \in Nat
  <2>1. req.len \in Nat
    BY FilesAssumption DEF FileInv, TypeOK
  <2> QED
    BY <1>1, <2>1, PathFacts, FilesAssumption DEF FileInv, TypeOK, Target
<1>4. File(handled + 1, k) \in Entries /\ File(handled + 1, k).kind = "file"
  BY <1>3, PathFacts DEF File
<1>5. fs' \in [Paths -> Entries] /\ Tree'
  BY <1>1, <1>2, <1>3, <1>4, OneChange DEF FileInv, WriteInv
<1> QED
  BY <1>1, <1>2, <1>5, AnswerKeeps

-----------------------------------------------------------------------------
(* Listing *)

LEMMA OpenListKeeps ==
    ASSUME FileInv, OpenList
    PROVE  FileInv'
<1>1. step = "start" /\ UNCHANGED fs
  BY DEF OpenList, Starts
<1>2. ASSUME NEW what, Error(what)
      PROVE  FileInv'
  BY <1>1, <1>2, QuietAnswer DEF Error
<1>3. ASSUME NEW s \in Seq(Paths), Len(s) <= 1, given' = s, entry' = s,
             steady' = Within(Target), Begin("putting"), UNCHANGED <<want, got, found, cut>>
      PROVE  FileInv'
  <2>1. TypeOK'
    BY <1>1, <1>3 DEF FileInv, TypeOK, Begin, host, Within
  <2>2. found = <<>> /\ <<>> \o s = s
    BY <1>1 DEF FileInv, ListInv
  <2>3. ListInv'
    BY <1>3, <2>2, FilesAssumption DEF FileInv, ListInv, Begin
  <2> QED
    BY <1>1, <1>3, <2>1, <2>3
       DEF FileInv, Begin, Tree, Present, DirOf, ReadInv, WriteInv
<1>4. <<>> \in Seq(Paths) /\ Len(<<>>) <= 1
  OBVIOUS
<1>5. \A p \in Within(Target) : <<p>> \in Seq(Paths) /\ Len(<<p>>) <= 1
  BY DEF Within
<1> QED
  BY <1>2, <1>3, <1>4, <1>5 DEF OpenList

LEMMA PutEntryKeeps ==
    ASSUME FileInv, PutEntry
    PROVE  FileInv'
<1>1. step = "putting" /\ UNCHANGED fs
  BY DEF PutEntry
<1>2. CASE Error("buffer overflow")
  BY <1>1, <1>2, QuietAnswer DEF Error
<1>3. ASSUME Len(found) + Len(entry) <= ListRoom, found' = found \o entry, Begin("finding"),
             UNCHANGED <<want, got, entry, given, steady, cut>>
      PROVE  FileInv'
  <2>1. /\ found' \in Seq(Paths) /\ Len(found') = Len(found) + Len(entry)
        /\ found' = given
    BY <1>1, <1>3 DEF FileInv, TypeOK, ListInv
  <2>2. TypeOK'
    BY <1>1, <1>3, <2>1 DEF FileInv, TypeOK, Begin, host
  <2>3. ListInv'
    BY <1>3, <2>1 DEF ListInv, Begin
  <2> QED
    BY <1>1, <1>3, <2>2, <2>3 DEF FileInv, Begin, Tree, Present, DirOf, ReadInv, WriteInv
<1> QED
  BY <1>2, <1>3 DEF PutEntry

LEMMA FindNextKeeps ==
    ASSUME FileInv, FindNext
    PROVE  FileInv'
<1>1. /\ step = "finding" /\ UNCHANGED <<fs, want, got, found, steady, cut>> /\ Begin("putting")
      /\ \E p \in Paths : given' = Append(given, p) /\ entry' = <<p>>
  BY DEF FindNext, Within
<1>2. PICK p \in Paths : given' = Append(given, p) /\ entry' = <<p>>
  BY <1>1
<1>3. given = found /\ given \in Seq(Paths)
  BY <1>1 DEF FileInv, TypeOK, ListInv
<1>4. /\ given' \in Seq(Paths) /\ entry' \in Seq(Paths) /\ Len(entry') <= 1
      /\ given' = found' \o entry'
  BY <1>1, <1>2, <1>3
<1>5. TypeOK'
  BY <1>1, <1>4 DEF FileInv, TypeOK, Begin, host
<1>6. ListInv'
  BY <1>1, <1>4 DEF FileInv, ListInv, Begin
<1> QED
  BY <1>1, <1>5, <1>6 DEF FileInv, Begin, Tree, Present, DirOf, ReadInv, WriteInv

LEMMA SearchFailsKeeps ==
    ASSUME FileInv, SearchFails
    PROVE  FileInv'
<1>1. TypeOK'
  BY DEF FileInv, TypeOK, SearchFails, host
<1> QED
  BY <1>1 DEF FileInv, SearchFails, Tree, Present, DirOf, ReadInv, WriteInv, ListInv, host, IsFile,
              Target

LEMMA ListEndsKeep ==
    ASSUME FileInv, FindEnds
    PROVE  FileInv'
BY QuietAnswer DEF FindEnds, Ok

-----------------------------------------------------------------------------
(* The verbs of one OS call *)

\* The paths of the request being handled are of the form its verb takes.
LEMMA TargetFacts ==
    ASSUME FileInv
    PROVE  /\ Target \in Paths /\ Dest \in Paths
           /\ req.verb = "copy" => Dest.leaf # Self
           /\ req.verb = "move" => (Target.leaf = Self <=> Dest.leaf = Self)
           /\ req.verb \in {"mkdir", "rmdir"} => Target.leaf = Self
BY PathFacts, FilesAssumption DEF FileInv, TypeOK, Target, Dest

\* An OS call that failed, or was refused.
LEMMA FailureKeeps ==
    ASSUME FileInv, step = "start", UNCHANGED fs,
           \/ \E what : Error(what)
           \/ \E otherwise : RefusedPair(otherwise)
    PROVE  FileInv'
<1>1. PICK what : Error(what)
  BY DEF RefusedPair
<1> QED
  BY <1>1, QuietAnswer DEF Error

LEMMA DeleteKeeps ==
    ASSUME FileInv, Delete
    PROVE  FileInv'
<1>1. step = "start"
  BY DEF Delete, Starts
<1>2. CASE Error("delete failed") /\ UNCHANGED fs
  BY <1>1, <1>2, FailureKeeps
<1>3. ASSUME IsFile(Target), fs' = [fs EXCEPT ![Target] = Absent], Done
      PROVE  FileInv'
  <2>1. Target.leaf # Self
    BY <1>3, TargetFacts DEF FileInv, Tree, IsFile
  <2>2. fs' \in [Paths -> Entries] /\ Tree'
    BY <1>3, <2>1, TargetFacts, PathFacts, OneChange
  <2> QED
    BY <1>1, <1>3, <2>2, AnswerKeeps DEF Done, Ok
<1> QED
  BY <1>2, <1>3 DEF Delete

LEMMA CopyKeeps ==
    ASSUME FileInv, Copy
    PROVE  FileInv'
<1>1. step = "start" /\ req.verb = "copy"
  BY DEF Copy, Starts
<1>2. CASE RefusedPair("copy failed") /\ UNCHANGED fs
  BY <1>1, <1>2, FailureKeeps
<1>3. ASSUME IsFile(Target), Present(DirOf(Dest)), fs' = [fs EXCEPT ![Dest] = fs[Target]], Done
      PROVE  FileInv'
  <2>1. fs[Target] \in Entries /\ fs[Target].kind = "file" /\ Dest.leaf # Self
    BY <1>1, <1>3, TargetFacts DEF FileInv, TypeOK, IsFile
  <2>2. fs' \in [Paths -> Entries] /\ Tree'
    BY <1>3, <2>1, TargetFacts, OneChange
  <2> QED
    BY <1>1, <1>3, <2>2, AnswerKeeps DEF Done, Ok
<1> QED
  BY <1>2, <1>3 DEF Copy

LEMMA MakeDirKeeps ==
    ASSUME FileInv, MakeDir
    PROVE  FileInv'
<1>1. step = "start" /\ req.verb = "mkdir"
  BY DEF MakeDir, Starts
<1>2. ASSUME NEW what, Error(what), UNCHANGED fs
      PROVE  FileInv'
  BY <1>1, <1>2, FailureKeeps
<1>3. ASSUME fs' = [fs EXCEPT ![Target] = Directory], Done
      PROVE  FileInv'
  <2>1. fs' \in [Paths -> Entries] /\ Tree'
    BY <1>1, <1>3, TargetFacts, PathFacts, OneChange DEF Directory
  <2> QED
    BY <1>1, <1>3, <2>1, AnswerKeeps DEF Done, Ok
<1> QED
  BY <1>2, <1>3 DEF MakeDir

LEMMA RemoveDirKeeps ==
    ASSUME FileInv, RemoveDir
    PROVE  FileInv'
<1>1. step = "start"
  BY DEF RemoveDir, Starts
<1>2. ASSUME NEW what, Error(what), UNCHANGED fs
      PROVE  FileInv'
  BY <1>1, <1>2, FailureKeeps
<1>3. ASSUME Within(Target) = {}, fs' = [fs EXCEPT ![Target] = Absent], Done
      PROVE  FileInv'
  <2>1. fs' \in [Paths -> Entries] /\ Tree'
    BY <1>3, TargetFacts, PathFacts, OneChange
  <2> QED
    BY <1>1, <1>3, <2>1, AnswerKeeps DEF Done, Ok
<1> QED
  BY <1>2, <1>3 DEF RemoveDir

\* A move to where nothing stands keeps the tree.
LEMMA MoveKeepsTree ==
    ASSUME FileInv, req.verb = "move",
           Present(Target), ~Present(Dest), Dest.leaf # Self => Present(DirOf(Dest)),
           fs' = Moved
    PROVE  fs' \in [Paths -> Entries] /\ Tree'
<1>1. /\ Target \in Paths /\ Dest \in Paths /\ fs \in [Paths -> Entries]
      /\ Target.leaf = Self <=> Dest.leaf = Self
      /\ Target # Dest
  BY TargetFacts DEF FileInv, TypeOK
<1>2. Absent \in Entries /\ Absent.kind = "none"
  BY PathFacts DEF Absent
<1>3. CASE Target.leaf # Self
  <2>1. fs' \in [Paths -> Entries]
    BY <1>1, <1>2, <1>3 DEF Moved
  <2>2. \A q \in Paths : fs'[q] = IF q = Target THEN Absent
                                   ELSE IF q = Dest THEN fs[Target] ELSE fs[q]
    BY <1>1, <1>3 DEF Moved
  <2>3. ASSUME NEW q \in Paths
        PROVE  /\ q.leaf = Self => fs'[q].kind # "file"
               /\ q.leaf # Self => fs'[q].kind # "dir"
               /\ fs'[q].kind # "none" => fs'[DirOf(q)].kind # "none"
    <3>1. DirOf(q) \in Paths /\ DirOf(q).leaf = Self
      BY DEF DirOf, Paths
    <3>2. fs'[DirOf(q)] = fs[DirOf(q)]
      BY <1>1, <1>3, <2>2, <3>1
    <3>3. \A r \in {q, Target} : /\ r.leaf = Self => fs[r].kind # "file"
                                 /\ r.leaf # Self => fs[r].kind # "dir"
                                 /\ fs[r].kind # "none" => fs[DirOf(r)].kind # "none"
      BY <1>1 DEF FileInv, Tree, Present
    <3>4. fs[DirOf(Dest)].kind # "none"
      BY <1>1, <1>3 DEF Present
    <3> QED
      BY <1>1, <1>2, <1>3, <2>2, <3>2, <3>3, <3>4
  <2>4. Tree'
    BY <2>3 DEF Tree, Present, DirOf
  <2> QED
    BY <2>1, <2>4
<1>4. CASE Target.leaf = Self
  <2>1. fs' = [p \in Paths |-> IF p.dir = Dest.dir THEN fs[[p EXCEPT !.dir = Target.dir]]
                               ELSE IF p.dir = Target.dir THEN Absent ELSE fs[p]]
    BY <1>4 DEF Moved
  <2>2. \A p \in Paths : [p EXCEPT !.dir = Target.dir] \in Paths
    BY <1>1 DEF Paths
  <2>3. fs' \in [Paths -> Entries]
    BY <1>1, <1>2, <2>1, <2>2
  <2>4. ASSUME NEW q \in Paths
        PROVE  /\ q.leaf = Self => fs'[q].kind # "file"
               /\ q.leaf # Self => fs'[q].kind # "dir"
               /\ fs'[q].kind # "none" => fs'[DirOf(q)].kind # "none"
    <3> DEFINE from == [q EXCEPT !.dir = Target.dir]
    <3>1. DirOf(q) \in Paths /\ DirOf(q).dir = q.dir /\ from \in Paths /\ from.leaf = q.leaf
      BY <2>2 DEF DirOf, Paths
    <3>2. [DirOf(q) EXCEPT !.dir = Target.dir] = DirOf(from)
      BY DEF DirOf, Paths
    <3>3. \A r \in {q, from} : /\ r.leaf = Self => fs[r].kind # "file"
                               /\ r.leaf # Self => fs[r].kind # "dir"
                               /\ fs[r].kind # "none" => fs[DirOf(r)].kind # "none"
      BY <3>1 DEF FileInv, Tree, Present
    <3>4. /\ fs'[q] = IF q.dir = Dest.dir THEN fs[from]
                      ELSE IF q.dir = Target.dir THEN Absent ELSE fs[q]
          /\ fs'[DirOf(q)] = IF q.dir = Dest.dir THEN fs[DirOf(from)]
                             ELSE IF q.dir = Target.dir THEN Absent ELSE fs[DirOf(q)]
      BY <2>1, <3>1, <3>2
    <3> HIDE DEF from
    <3> QED
      BY <1>2, <3>1, <3>3, <3>4
  <2>5. Tree'
    BY <2>4 DEF Tree, Present, DirOf
  <2> QED
    BY <2>3, <2>5
<1> QED
  BY <1>3, <1>4

LEMMA MoveKeeps ==
    ASSUME FileInv, Move
    PROVE  FileInv'
<1>1. step = "start" /\ req.verb = "move"
  BY DEF Move, Starts
<1>2. CASE RefusedPair("move failed") /\ UNCHANGED fs
  BY <1>1, <1>2, FailureKeeps
<1>3. ASSUME Present(Target), ~Present(Dest), Dest.leaf # Self => Present(DirOf(Dest)),
             fs' = Moved, Done
      PROVE  FileInv'
  BY <1>1, <1>3, MoveKeepsTree, AnswerKeeps DEF Done, Ok
<1> QED
  BY <1>2, <1>3 DEF Move

-----------------------------------------------------------------------------
(* Other programs *)

LEMMA OthersKeep ==
    ASSUME FileInv, Others
    PROVE  FileInv'
<1>1. PICK p \in Paths :
          /\ ~Held(p)
          /\ \/ /\ p.leaf # Self /\ Present(DirOf(p))
                /\ \E n \in OutsideSizes : fs' = [fs EXCEPT ![p] = File(Outside, n)]
             \/ IsFile(p) /\ ~(step = "reading" /\ p = Target) /\ fs' = [fs EXCEPT ![p] = Absent]
             \/ p.leaf = Self /\ ~Present(p) /\ fs' = [fs EXCEPT ![p] = Directory]
             \/ /\ p.leaf = Self /\ Present(p) /\ Within(p) = {}
                /\ ~(step \in {"putting", "finding"} /\ p = Target)
                /\ fs' = [fs EXCEPT ![p] = Absent]
  BY DEF Others
<1>2. \A n \in OutsideSizes : File(Outside, n) \in Entries /\ File(Outside, n).kind = "file"
  <2>1. Outside \in 0..MaxRequests /\ OutsideSizes \subseteq Nat
    BY FilesAssumption DEF Outside
  <2>2. \A n \in OutsideSizes : File(Outside, n).kind = "file"
    BY DEF File
  <2> QED
    BY <2>1, <2>2, PathFacts
<1>3. IsFile(p) => p.leaf # Self
  BY DEF FileInv, Tree, IsFile
<1>4. PICK e \in Entries :
        /\ fs' = [fs EXCEPT ![p] = e]
        /\ \/ e = Absent /\ (p.leaf = Self => Within(p) = {})
           \/ e.kind = "file" /\ p.leaf # Self /\ Present(DirOf(p))
           \/ e.kind = "dir" /\ p.leaf = Self
  BY <1>1, <1>2, <1>3, PathFacts DEF Directory
<1>5. fs' \in [Paths -> Entries] /\ Tree'
  BY <1>4, OneChange
<1>6. /\ outside' \in 0..MaxOutside
      /\ steady' \subseteq Paths
      /\ UNCHANGED <<host, handled, step, req, want, got, entry, found, given, cut, answer>>
  <2>1. outside \in 0..MaxOutside /\ steady \subseteq Paths
    BY DEF FileInv, TypeOK
  <2>2. outside < MaxOutside /\ outside' = outside + 1 /\ steady' \subseteq steady
    BY DEF Others
  <2>3. outside' \in 0..MaxOutside
    BY <2>1, <2>2, FilesAssumption
  <2>4. UNCHANGED <<host, handled, step, req, want, got, entry, found, given, cut, answer>>
    BY DEF Others
  <2> QED
    BY <2>1, <2>2, <2>3, <2>4
<1>7. TypeOK'
  <2>1. TypeOK
    BY DEF FileInv
  <2>2. UNCHANGED <<codepage, sharing>>
    BY <1>6 DEF host
  <2> QED
    BY <1>5, <1>6, <2>1, <2>2, Zenon DEF TypeOK
<1>8. Target \in Paths /\ DirOf(Target) \in Paths /\ Target' = Target
  BY <1>6, TargetFacts, PathFacts DEF Target
<1>9. ReadInv'
  <2>1. step = "reading" /\ sharing => fs'[Target] = fs[Target]
    BY <1>1, <1>4, <1>8 DEF Held, FileInv, TypeOK
  <2> QED
    BY <1>6, <1>8, <2>1 DEF FileInv, ReadInv, IsFile, host
<1>10. WriteInv'
  <2>1. step = "writing" => fs'[DirOf(Target)] = fs[DirOf(Target)]
    BY <1>1, <1>4, <1>8 DEF Held, FileInv, TypeOK
  <2> QED
    BY <1>6, <1>8, <2>1 DEF FileInv, WriteInv, Present, DirOf
<1> QED
  BY <1>5, <1>6, <1>7, <1>9, <1>10 DEF FileInv, ListInv

-----------------------------------------------------------------------------
(* The theorems *)

\* The handler's types, the tree, and what is held open stay sound, for any requests
\* and whatever other programs do.
THEOREM FilesCorrect == Spec => []FileInv
<1>1. FileInv /\ [Next]_vars => FileInv'
  <2> SUFFICES ASSUME FileInv, [Next]_vars
               PROVE  FileInv'
    OBVIOUS
  <2>1. CASE Receive
    BY <2>1, ReceiveKeeps
  <2>2. CASE Serve
    BY <2>2, RefusalsKeep, OpenReadKeeps, ReadChunkKeeps, ReadEndsKeep, OpenWriteKeeps,
       WriteDataKeeps, OpenListKeeps, PutEntryKeeps, FindNextKeeps, ListEndsKeep, DeleteKeeps, CopyKeeps,
       MoveKeeps, MakeDirKeeps, RemoveDirKeeps
       DEF Serve
  <2>3. CASE ReadFails \/ SearchFails
    BY <2>3, ReadEndsKeep, SearchFailsKeeps
  <2>4. CASE Others
    BY <2>4, OthersKeep
  <2>5. CASE UNCHANGED vars
    <3>1. TypeOK'
      BY <2>5 DEF FileInv, TypeOK, vars, host, handler, listing
    <3> QED
      BY <2>5, <3>1 DEF FileInv, Tree, Present, DirOf, ReadInv, IsFile, Target, WriteInv,
                        ListInv, vars, host, handler, listing
  <2> QED
    BY <2>1, <2>2, <2>3, <2>4, <2>5 DEF Next
<1> QED
  BY <1>1, InitFile, PTL DEF Spec

\* BuffersHold: no read and no listing runs past its buffer, however the file or the
\* directory grows meanwhile.
THEOREM BuffersAreKept == Spec => []BuffersHold
<1>1. FileInv => BuffersHold
  BY DEF FileInv, ReadInv, ListInv, BuffersHold
<1> QED
  BY <1>1, FilesCorrect, PTL

\* Only the four answers of a handler under way say ok, each from its own step.
LEMMA OkAnswers ==
    ASSUME FileInv, [Next]_vars, Answers("ok")
    PROVE  /\ step = "reading" => FinishRead /\ Encodable(got.len) /\ answer'.data = got
           /\ step = "finding" => FindEnds /\ answer'.names = found
<1>1. handled' # handled /\ answer'.status = "ok"
  BY DEF Answers
<1>2. Receive \/ Others \/ SearchFails \/ UNCHANGED vars => handled' = handled
  BY DEF Receive, Others, SearchFails, vars, handler
<1>3. \A what : Begin(what) => handled' = handled
  BY DEF Begin
<1>4. \A what : Error(what) => answer'.status = "error"
  BY DEF Error, AnswerWith
<1>5. \A data, names : Ok(data, names) => answer'.data = data /\ answer'.names = names
  BY DEF Ok, AnswerWith
<1>6. CASE step = "reading"
  <2>1. ReadChunk \/ FinishRead \/ ReadFails
    BY <1>1, <1>2, <1>6
       DEF Next, Serve, Unserved, Unspelled, OpenRead, OpenWrite, WriteData, OpenList, PutEntry, FindNext,
           FindEnds, Delete, Copy, Move, MakeDir, RemoveDir, Starts
  <2>2. FinishRead
    BY <1>1, <1>3, <1>4, <2>1 DEF ReadChunk, ReadFails
  <2> QED
    BY <1>1, <1>4, <1>5, <1>6, <2>2 DEF FinishRead
<1>7. CASE step = "finding"
  <2>1. FindNext \/ FindEnds
    BY <1>1, <1>2, <1>7
       DEF Next, Serve, Unserved, Unspelled, OpenRead, ReadChunk, FinishRead, ReadFails,
           OpenWrite, WriteData, OpenList, PutEntry, Delete, Copy, Move, MakeDir, RemoveDir,
           Starts
  <2>2. ~FindNext
    BY <1>1, <1>3, <1>4 DEF FindNext
  <2> QED
    BY <1>5, <1>7, <2>1, <2>2 DEF FindEnds
<1> QED
  BY <1>6, <1>7

\* ReadTellsTheFile: on a host that locks open files, what a read answers is the file
\* as it stands, unless its size does not fit GetFileSize's low half.
THEOREM ReadsTell == Spec => ReadTellsTheFile
<1>1. FileInv /\ [Next]_vars =>
        [step = "reading" /\ Answers("ok") /\ sharing =>
           \/ fs[Target] = File(answer'.data.by, answer'.data.len)
           \/ fs[Target].len >= SizeLow]_vars
  <2> SUFFICES ASSUME FileInv, [Next]_vars, step = "reading", Answers("ok"), sharing,
                      ~(fs[Target].len >= SizeLow)
               PROVE  fs[Target] = File(answer'.data.by, answer'.data.len)
    OBVIOUS
  <2>1. FinishRead /\ Encodable(got.len) /\ answer'.data = got
    BY OkAnswers
  <2>2. got.len >= want /\ got.len > 0
    BY <2>1 DEF FinishRead, Encodable
  <2>3. /\ fs[Target] \in Entries /\ fs[Target].len \in Nat
        /\ got.len \in Nat /\ want \in Int /\ SizeLow \in Nat
    <3>1. fs[Target] \in Entries /\ got.len \in Nat /\ want \in Int
      BY TargetFacts DEF FileInv, TypeOK
    <3> QED
      BY <3>1, FilesAssumption DEF Entries
  <2>4. /\ fs[Target].kind = "file" /\ got.by = fs[Target].by
        /\ got.len <= fs[Target].len /\ got.len <= want
        /\ \/ want = SignedLow(fs[Target].len)
           \/ got.len = fs[Target].len
    BY <2>2, <2>3 DEF FileInv, ReadInv, IsFile
  <2>5. got.len = fs[Target].len
    BY <2>2, <2>3, <2>4, SizeFacts
  <2> QED
    BY <2>1, <2>3, <2>4, <2>5 DEF File, Entries
<1> QED
  BY <1>1, FilesCorrect, PTL DEF Spec, ReadTellsTheFile

\* ListTellsTheDirectory: a listing that is answered ok is, name by name, what the host's
\* search gave, whatever room there is and whoever changes the directory meanwhile; with
\* the host's promise to give what stays, it misses such a name only when the search failed.
THEOREM ListsTell == Spec => ListTellsTheDirectory
<1>1. FileInv /\ [Next]_vars =>
        [step = "finding" /\ Answers("ok") =>
           /\ answer'.names = given
           /\ steady \subseteq ToSet(answer'.names) \/ cut]_vars
  <2> SUFFICES ASSUME FileInv, [Next]_vars, step = "finding", Answers("ok")
               PROVE  answer'.names = given /\ (steady \subseteq ToSet(answer'.names) \/ cut)
    OBVIOUS
  <2>1. FindEnds /\ answer'.names = found
    BY OkAnswers
  <2>2. found = given
    BY DEF FileInv, ListInv
  <2> QED
    BY <2>1, <2>2 DEF FindEnds
<1> QED
  BY <1>1, FilesCorrect, PTL DEF Spec, ListTellsTheDirectory

\* A step of the server that changes the file system, by the kind of change.
LEMMA Changes ==
    ASSUME FileInv, Next, ServerSteps, fs' # fs
    PROVE  \/ /\ step' = "writing"
              /\ \E e : fs' = [fs EXCEPT ![Target] = e]
           \/ /\ WriteData
              /\ \E k \in 0..req.len : fs' = [fs EXCEPT ![Target] = File(handled + 1, k)]
           \/ /\ Delete \/ MakeDir \/ RemoveDir
              /\ Done /\ req.verb # "write"
              /\ \E e : fs' = [fs EXCEPT ![Target] = e]
           \/ /\ Copy /\ Done /\ ~Present(Dest) /\ req.verb = "copy"
              /\ fs' = [fs EXCEPT ![Dest] = fs[Target]]
           \/ Move /\ Done /\ ~Present(Dest) /\ fs' = Moved /\ req.verb = "move"
<1>1. ~Others
  BY FilesAssumption DEF Others, ServerSteps, FileInv, TypeOK
<1>2. OpenWrite \/ WriteData \/ Delete \/ Copy \/ Move \/ MakeDir \/ RemoveDir
  BY <1>1 DEF Next, Serve, Receive, Unserved, Unspelled, OpenRead, ReadChunk, FinishRead,
              ReadFails, OpenList, PutEntry, FindNext, SearchFails, FindEnds
<1>3. CASE OpenWrite
  BY <1>3 DEF OpenWrite, Begin
<1>4. CASE WriteData
  BY <1>4 DEF WriteData
<1>5. CASE Delete \/ MakeDir \/ RemoveDir
  BY <1>5 DEF Delete, MakeDir, RemoveDir, Starts
<1>6. CASE Copy
  BY <1>6 DEF Copy, Starts
<1>7. CASE Move
  BY <1>7 DEF Move, Starts
<1> QED
  BY <1>2, <1>3, <1>4, <1>5, <1>6, <1>7

\* What stands where a move does not point keeps its place, or goes along.
LEMMA MoveLosesNothing ==
    ASSUME FileInv, req.verb = "move", ~Present(Dest), fs' = Moved,
           NEW p \in Paths, p # Target, Present(p)
    PROVE  fs'[p] = fs[p] \/ fs'[[p EXCEPT !.dir = Dest.dir]] = fs[p]
<1>1. /\ Target \in Paths /\ Dest \in Paths /\ fs \in [Paths -> Entries]
      /\ Target.leaf = Self <=> Dest.leaf = Self
      /\ p # Dest
  BY TargetFacts DEF FileInv, TypeOK
<1>2. CASE Target.leaf # Self
  BY <1>1, <1>2 DEF Moved
<1>3. CASE Target.leaf = Self
  <2>1. fs' = [q \in Paths |-> IF q.dir = Dest.dir THEN fs[[q EXCEPT !.dir = Target.dir]]
                               ELSE IF q.dir = Target.dir THEN Absent ELSE fs[q]]
    BY <1>3 DEF Moved
  <2>2. p.dir # Dest.dir
    <3>1. DirOf(p) = Dest <=> p.dir = Dest.dir
      BY <1>1, <1>3 DEF DirOf, Paths
    <3> QED
      BY <3>1 DEF FileInv, Tree
  <2> DEFINE to == [p EXCEPT !.dir = Dest.dir]
  <2>3. to \in Paths /\ to.dir = Dest.dir /\ [to EXCEPT !.dir = p.dir] = p
    BY <1>1 DEF Paths
  <2> HIDE DEF to
  <2>4. p.dir = Target.dir => fs'[to] = fs[p]
    BY <2>1, <2>3
  <2>5. p.dir # Target.dir => fs'[p] = fs[p]
    BY <2>1, <2>2
  <2> QED
    BY <2>4, <2>5 DEF to
<1> QED
  BY <1>2, <1>3

\* ChangesAreAnswered: the server changes the file system only where the request
\* says, and loses nothing that stood elsewhere.
THEOREM ChangesTold == Spec => ChangesAreAnswered
<1>1. FileInv /\ [Next]_vars =>
        [ServerSteps /\ fs' # fs =>
          /\ \A p \in Paths \ {Target} :
                Present(p) => \/ fs'[p] = fs[p]
                              \/ req.verb = "move" /\ fs'[[p EXCEPT !.dir = Dest.dir]] = fs[p]
          /\ \/ step' = "writing"
             \/ answer'.what \in {"write error", "incomplete write"}
             \/ answer'.status = "ok" /\ (req.verb = "write" => fs'[Target] = File(handled', req.len))]_vars
  <2> SUFFICES ASSUME FileInv, Next, ServerSteps, fs' # fs
               PROVE  /\ \A p \in Paths \ {Target} :
                           Present(p) =>
                             \/ fs'[p] = fs[p]
                             \/ req.verb = "move" /\ fs'[[p EXCEPT !.dir = Dest.dir]] = fs[p]
                      /\ \/ step' = "writing"
                         \/ answer'.what \in {"write error", "incomplete write"}
                         \/ /\ answer'.status = "ok"
                            /\ req.verb = "write" => fs'[Target] = File(handled', req.len)
    OBVIOUS
  <2>1. fs \in [Paths -> Entries] /\ Target \in Paths /\ Dest \in Paths
    BY TargetFacts DEF FileInv, TypeOK
  <2>2. Done => answer'.status = "ok" /\ handled' = handled + 1
    BY DEF Done, Ok, AnswerWith
  <2>3. ASSUME NEW e, fs' = [fs EXCEPT ![Target] = e]
        PROVE  \A p \in Paths \ {Target} : fs'[p] = fs[p]
    BY <2>1, <2>3
  <2>4. CASE step' = "writing" /\ \E e : fs' = [fs EXCEPT ![Target] = e]
    BY <2>3, <2>4
  <2>5. CASE WriteData
    <3>1. PICK k \in 0..req.len :
            /\ fs' = [fs EXCEPT ![Target] = File(handled + 1, k)]
            /\ \/ k = req.len /\ Done
               \/ req.len > 0 /\ Error("write error")
               \/ k < req.len /\ Error("incomplete write")
      BY <2>5 DEF WriteData
    <3>2. \A what : Error(what) => answer'.what = what
      BY DEF Error, AnswerWith
    <3>3. fs'[Target] = File(handled + 1, k)
      BY <2>1, <3>1
    <3>4. \A p \in Paths \ {Target} : fs'[p] = fs[p]
      BY <2>3, <3>1
    <3> QED
      BY <2>2, <3>1, <3>2, <3>3, <3>4
  <2>6. CASE /\ Done /\ req.verb # "write"
             /\ \E e : fs' = [fs EXCEPT ![Target] = e]
    BY <2>2, <2>3, <2>6
  <2>7. CASE Done /\ ~Present(Dest) /\ req.verb = "copy" /\ fs' = [fs EXCEPT ![Dest] = fs[Target]]
    BY <2>1, <2>2, <2>7
  <2>8. CASE Done /\ ~Present(Dest) /\ fs' = Moved /\ req.verb = "move"
    BY <2>2, <2>8, MoveLosesNothing
  <2> QED
    BY <2>4, <2>5, <2>6, <2>7, <2>8, Changes
<1> QED
  BY <1>1, FilesCorrect, PTL DEF Spec, ChangesAreAnswered
===============================================================================
