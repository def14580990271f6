------------------------------- MODULE MemTable -------------------------------
(***************************************************************************)
(* The memory subsystem of the device: the spawn-retain process table, peek *)
(* and poke (src/mem_ops.c), the write arm and the audit sink (src/audit.c) *)
(* and the connections that come and go around them (mcp-w32s.c).  The      *)
(* server is single-threaded, so a request runs alone; but the audit file   *)
(* and the retained processes live outside it and change between the steps  *)
(* of one poke: the floors, the write, the record.                          *)
(***************************************************************************)
EXTENDS Integers, FiniteSets

CONSTANTS
    NumSlots,       \* MEM_PROC_SLOTS
    Salts,          \* the values the LCG suffix of a token can take
    Tiers,          \* the memory tiers of the hosts considered
    PokeLen,        \* bytes of a poke, all inside the access cap
    MaxSpawns,      \* bound on processes retained
    MaxPokes,       \* bound on pokes that pass their floors
    MaxSessions,    \* bound on connections
    Free,           \* a table slot not in use
    NoToken         \* an absent or empty token

AllTiers == {"none", "process", "arena", "shared_vm"}

ASSUME MemAssumption ==
    /\ NumSlots \in Nat \ {0} /\ PokeLen \in Nat \ {0}
    /\ Salts # {} /\ Tiers \subseteq AllTiers
    /\ MaxSpawns \in Nat /\ MaxPokes \in Nat /\ MaxSessions \in Nat
    /\ NoToken \notin [seq : Nat, salt : Salts]
    /\ Free \notin [token : [seq : Nat, salt : Salts], process : 1..MaxSpawns]

Slots == 1..NumSlots
Procs == 1..MaxSpawns       \* the n-th process retained
PokeIds == 1..MaxPokes      \* the n-th poke that passed its floors
Tokens == [seq : Nat, salt : Salts]
Slot == [token : Tokens, process : Procs]

\* What a write touched or a record names: a process, or the local memory.
Local == 0
NoWrite == [target |-> Local, bytes |-> 0]
Written == [target : Procs \cup {Local}, bytes : 0..PokeLen]

VARIABLES
    tier,       \* MemTierCurrent(), fixed by the host
    armed,      \* g_armed, fixed at startup
    sink,       \* the audit file can be opened for append right now
    connected,  \* Serve is running
    session,    \* connections accepted so far
    slots,      \* g_slots
    seq,        \* g_seq
    handles,    \* processes whose handle the server holds
    life,       \* process -> "none", "running" or "ended"
    issued,     \* history: process -> the token it was issued, and the session
    consumed,   \* history: processes whose token was given up
    step,       \* where the server is in a poke
    poke,       \* the poke in progress, or the last one
    stored,     \* history: poke -> what it changed
    logged,     \* poke -> its line in the audit file
    answer      \* poke -> what the client was told

vars == <<tier, armed, sink, connected, session, slots, seq, handles, life, issued,
          consumed, step, poke, stored, logged, answer>>
config == <<tier, armed>>
table == <<session, slots, seq, handles, issued, consumed>>
writes == <<step, poke, stored, logged, answer>>

NoPoke == [id |-> 0, token |-> NoToken, target |-> Local]

TypeOK ==
    /\ tier \in Tiers /\ armed \in BOOLEAN /\ sink \in BOOLEAN
    /\ connected \in BOOLEAN /\ session \in 0..MaxSessions
    /\ slots \in [Slots -> Slot \cup {Free}]
    /\ seq \in 0..MaxSpawns
    /\ handles \subseteq Procs
    /\ life \in [Procs -> {"none", "running", "ended"}]
    /\ issued \in [1..seq -> [token : Tokens, session : 1..MaxSessions]]
    /\ consumed \subseteq Procs
    /\ step \in {"idle", "write", "record"}
    /\ poke \in [id : 0..MaxPokes, token : Tokens \cup {NoToken},
                 target : Procs \cup {Local}]
    /\ stored \in [PokeIds -> Written]
    /\ logged \in [PokeIds -> Written]
    /\ answer \in [PokeIds -> {"none", "ok", "refused", "audit_failed"}]

\* AuditConfigure drops a requested arm when the sink is not writable.
Init ==
    /\ tier \in Tiers
    /\ sink \in BOOLEAN
    /\ armed \in {FALSE, sink}
    /\ connected = FALSE /\ session = 0
    /\ slots = [i \in Slots |-> Free]
    /\ seq = 0
    /\ handles = {}
    /\ life = [p \in Procs |-> "none"]
    /\ issued = <<>>
    /\ consumed = {}
    /\ step = "idle" /\ poke = NoPoke
    /\ stored = [n \in PokeIds |-> NoWrite]
    /\ logged = [n \in PokeIds |-> NoWrite]
    /\ answer = [n \in PokeIds |-> "none"]

-----------------------------------------------------------------------------
(* The table *)

\* MemFindSlot: the first slot in use whose token string matches.
Matches(token) == {i \in Slots : slots[i] # Free /\ slots[i].token = token}
FindSlot(token) == CHOOSE i \in Matches(token) : \A j \in Matches(token) : i <= j
Resolves(token) == token # NoToken /\ Matches(token) # {}
TokenProcess(token) == slots[FindSlot(token)].process

FreeSlots == {i \in Slots : slots[i] = Free}
FirstFree == CHOOSE i \in FreeSlots : \A j \in FreeSlots : i <= j

\* Faulty variant of MakeToken: numbered by slot instead of by sequence.
MakeTokenBySlot(salt) == [seq |-> FirstFree, salt |-> salt]

\* MemMakeToken, on the sequence number just incremented: "m<seq>-<lcg>".
\* (The counter is 32 bits wide; a run stays far below 2^32 spawns.)
MakeToken(salt) == [seq |-> seq + 1, salt |-> salt]

Serving == connected /\ step = "idle"

\* MemSpawnRetain past its refusals: catalog, table full, line too long and a
\* failed spawn all leave everything as it was.
SpawnRetain(salt) ==
    /\ Serving
    /\ FreeSlots # {}
    /\ seq < MaxSpawns
    /\ LET p == seq + 1
           token == MakeToken(salt)
       IN /\ seq' = seq + 1
          /\ slots' = [slots EXCEPT ![FirstFree] = [token |-> token, process |-> p]]
          /\ issued' = [q \in 1..p |-> IF q = p THEN [token |-> token, session |-> session]
                                       ELSE issued[q]]
          /\ life' = [life EXCEPT ![p] = "running"]
          /\ handles' = handles \cup {p}
    /\ UNCHANGED <<config, sink, connected, session, consumed, writes>>

\* Close the handle of a live token and empty its slot; the token is consumed.
GiveUp(token) ==
    /\ slots' = [slots EXCEPT ![FindSlot(token)] = Free]
    /\ handles' = handles \ {TokenProcess(token)}
    /\ consumed' = consumed \cup {TokenProcess(token)}

Release(token) ==
    /\ Serving
    /\ Resolves(token)
    /\ GiveUp(token)
    /\ UNCHANGED <<config, sink, connected, session, seq, life, issued, writes>>

Terminate(token) ==
    /\ Serving
    /\ Resolves(token)
    /\ life' = [life EXCEPT ![TokenProcess(token)] = "ended"]
    /\ GiveUp(token)
    /\ UNCHANGED <<config, sink, connected, session, seq, issued, writes>>

\* The accept loop: one client at a time; its retained handles go with it, its
\* processes keep running.
Accept ==
    /\ ~connected /\ session < MaxSessions
    /\ connected' = TRUE
    /\ session' = session + 1
    /\ UNCHANGED <<config, sink, slots, seq, handles, life, issued, consumed, writes>>

\* Faulty variant of ReleaseAll: the slots are emptied, the handles stay open.
ReleaseSlotsOnly ==
    /\ slots' = [i \in Slots |-> Free]
    /\ consumed' = consumed \cup {slots[i].process : i \in Slots \ FreeSlots}
    /\ UNCHANGED handles

ReleaseAll ==
    /\ slots' = [i \in Slots |-> Free]
    /\ handles' = handles \ {slots[i].process : i \in Slots \ FreeSlots}
    /\ consumed' = consumed \cup {slots[i].process : i \in Slots \ FreeSlots}

Disconnect ==
    /\ Serving
    /\ connected' = FALSE
    /\ ReleaseAll
    /\ UNCHANGED <<config, sink, session, seq, life, issued, writes>>

-----------------------------------------------------------------------------
(* Poke *)

\* Floors 1 to 4 of MemPoke: armed, in range, on a tier that has memory, at a
\* target the token names (process tier) or a writable local region (pre-NT,
\* where the token is not looked at), with the sink open for append.
PokeFloors(token) ==
    /\ Serving /\ poke.id < MaxPokes
    /\ armed
    /\ tier # "none"
    /\ tier = "process" => Resolves(token)
    /\ sink
    /\ poke' = [id |-> poke.id + 1, token |-> token,
                target |-> IF tier = "process" THEN TokenProcess(token) ELSE Local]
    /\ step' = "write"
    /\ UNCHANGED <<config, sink, connected, table, life, stored, logged, answer>>

\* WriteProcessMemory on the process tier may write a prefix, an empty one
\* included (ERROR_PARTIAL_COPY), or fail; the pre-NT store is whole.  A failed
\* write is answered at once.
PokeWrite(bytes, copied) ==
    /\ step = "write"
    /\ poke.target = Local => copied /\ bytes = PokeLen
    /\ ~copied \/ (poke.target # Local /\ life[poke.target] = "ended") => bytes = 0
    /\ IF copied
         THEN /\ stored' = [stored EXCEPT ![poke.id] =
                              [target |-> poke.target, bytes |-> bytes]]
              /\ step' = "record"
              /\ UNCHANGED answer
         ELSE /\ answer' = [answer EXCEPT ![poke.id] = "refused"]
              /\ step' = "idle"
              /\ UNCHANGED stored
    /\ UNCHANGED <<config, sink, connected, table, life, poke, logged>>

\* The pid the record is attributed to is looked up again, by token.
RecordedPid == IF Resolves(poke.token) THEN TokenProcess(poke.token) ELSE Local

\* Faulty variant of PokeRecord: the result of AuditWritePoke is not looked at.
PokeRecordLax(durable) ==
    /\ step = "record"
    /\ durable => sink
    /\ step' = "idle"
    /\ answer' = [answer EXCEPT ![poke.id] = "ok"]
    /\ logged' = IF durable
                 THEN [logged EXCEPT ![poke.id] =
                         [target |-> RecordedPid, bytes |-> stored[poke.id].bytes]]
                 ELSE logged
    /\ UNCHANGED <<config, sink, connected, table, life, poke, stored>>

\* AuditWritePoke: the record is appended, or the sink fails (it cannot be
\* opened any more, or took only part of the line) and the answer says so.
PokeRecord(durable) ==
    /\ step = "record"
    /\ durable => sink
    /\ step' = "idle"
    /\ IF durable
         THEN /\ logged' = [logged EXCEPT ![poke.id] =
                              [target |-> RecordedPid, bytes |-> stored[poke.id].bytes]]
              /\ answer' = [answer EXCEPT ![poke.id] = "ok"]
         ELSE /\ answer' = [answer EXCEPT ![poke.id] = "audit_failed"]
              /\ UNCHANGED logged
    /\ UNCHANGED <<config, sink, connected, table, life, poke, stored>>

-----------------------------------------------------------------------------
(* The world outside the server *)

\* Someone changes the audit file's permissions, or its disk fills or is freed.
SinkChanges ==
    /\ sink' = ~sink
    /\ UNCHANGED <<config, connected, table, life, writes>>

ProcessEnds(p) ==
    /\ life[p] = "running"
    /\ life' = [life EXCEPT ![p] = "ended"]
    /\ UNCHANGED <<config, sink, connected, table, writes>>

\* What a client may present: any token ever issued, or one it made up.
Presentable == [seq : 1..MaxSpawns, salt : Salts] \cup {NoToken}

Next ==
    \/ Accept \/ Disconnect
    \/ \E salt \in Salts : SpawnRetain(salt)
    \/ \E token \in Presentable : Release(token) \/ Terminate(token) \/ PokeFloors(token)
    \/ \E bytes \in 0..PokeLen, copied \in BOOLEAN : PokeWrite(bytes, copied)
    \/ \E durable \in BOOLEAN : PokeRecord(durable)
    \/ SinkChanges
    \/ \E p \in Procs : ProcessEnds(p)

Spec == Init /\ [][Next]_vars

-----------------------------------------------------------------------------
(* Properties *)

\* RetainedTokenValid: whatever was released and respawned in between, a token
\* resolves to the process it was issued for or to nothing, in the session that
\* was given it; a consumed one (released, terminated, or its client gone)
\* never resolves again; nor does one that was never issued.
TokenNamesOneProcess ==
    /\ \A p \in 1..seq :
         LET token == issued[p].token IN
           Resolves(token) => /\ TokenProcess(token) = p
                              /\ p \notin consumed
                              /\ issued[p].session = session
    /\ \A token \in Presentable :
         Resolves(token) => \E p \in 1..seq : issued[p].token = token

\* The server holds exactly the handles its table names, one slot each, and
\* none while no client is connected: release, terminate and disconnect
\* neither leak a handle nor close one twice.
HandlesAreSlots ==
    /\ handles = {slots[i].process : i \in Slots \ FreeSlots}
    /\ Cardinality(handles) = Cardinality(Slots \ FreeSlots)
    /\ ~connected => handles = {}

\* A poke in progress keeps its target: from the floors to the record, the
\* process it writes is the one its token still names.
PokeTargetHeld ==
    step # "idle" /\ tier = "process" =>
      /\ Resolves(poke.token) /\ TokenProcess(poke.token) = poke.target
      /\ poke.target \in handles

\* The pokes over and done that changed memory and have no line in the audit file.
Unlogged ==
    {n \in PokeIds : /\ stored[n].bytes > 0 /\ logged[n] = NoWrite
                     /\ ~(step = "record" /\ n = poke.id)}

\* What the audit file is worth: a line in it stands for a write that was made, of
\* the bytes really written to the process named, and its client was told ok; an ok
\* has its line; a refused poke changed nothing; and a change without its line, of
\* which audit.h says that it must not happen and the code lets it when the sink
\* fails behind the write, is never told as anything but audit_failed, nor is that
\* told of a change that has its line.
PokeIsAudited ==
    /\ \A n \in PokeIds :
         /\ answer[n] = "ok" <=> logged[n] # NoWrite
         /\ logged[n] # NoWrite => /\ logged[n].bytes = stored[n].bytes
                                   /\ tier = "process" => logged[n] = stored[n]
         /\ answer[n] = "refused" => stored[n] = NoWrite
    /\ \A n \in Unlogged : answer[n] = "audit_failed"

==============================================================================
