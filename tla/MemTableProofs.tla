---------------------------- MODULE MemTableProofs ----------------------------
(***************************************************************************)
(* Proofs about MemTable for any table size, set of salts and tiers, and    *)
(* any number of spawns, pokes and connections.  TableInv ties each slot in *)
(* use to the process and the session it was filled for; the properties of  *)
(* tokens and handles follow from it, those of pokes from PokeInv.  After   *)
(* them, the floors of MemRange that a peek or poke of any range goes       *)
(* through, and what Codecs says of ranges and numbers, of the audit file,  *)
(* of program headers, of command lines and of the catalog gate, for inputs *)
(* of every length.                                                         *)
(***************************************************************************)
EXTENDS MemTable, Codecs, TLAPS, FiniteSetTheorems, FunctionTheorems, WellFoundedInduction

-----------------------------------------------------------------------------
(* Slots *)

Used == Slots \ FreeSlots

\* Sequence numbers name processes: a slot in use belongs to a process retained
\* in this session and not given up, and no two slots share one.
TableInv ==
    /\ \A p \in 1..seq : issued[p].token.seq = p
    /\ \A i \in Used : /\ slots[i].process \in 1..seq
                       /\ issued[slots[i].process] = [token   |-> slots[i].token,
                                                      session |-> session]
                       /\ slots[i].process \notin consumed
    /\ \A i, j \in Used : slots[i].process = slots[j].process => i = j
    /\ handles = {slots[i].process : i \in Used}
    /\ consumed \subseteq 1..seq
    /\ ~connected => Used = {}
    /\ connected => session \in 1..MaxSessions

\* The poke in progress belongs to a live connection, and its target is still
\* what its token names; later poke ids are unused.
PokeInv ==
    /\ step # "idle" => /\ connected /\ poke.id \in PokeIds
                        /\ answer[poke.id] = "none" /\ logged[poke.id] = NoWrite
    /\ step = "write" => stored[poke.id] = NoWrite
    /\ step = "record" => /\ stored[poke.id].target = poke.target
                          /\ poke.target = Local => stored[poke.id].bytes > 0
    /\ step # "idle" /\ tier = "process" =>
         \E i \in Used : slots[i].token = poke.token /\ slots[i].process = poke.target
    /\ step # "idle" /\ tier # "process" => poke.target = Local
    /\ \A n \in PokeIds : n > poke.id =>
         answer[n] = "none" /\ stored[n] = NoWrite /\ logged[n] = NoWrite
    /\ PokeIsAudited

-----------------------------------------------------------------------------
(* Finding slots *)

\* A nonempty set of slots has a first one.
LEMMA LeastSlot ==
    ASSUME NEW S, S \subseteq Slots, S # {}
    PROVE  \E i \in S : \A j \in S : i <= j
<1>1. S \subseteq Nat
  BY MemAssumption DEF Slots
<1>2. \E i \in S : \A j \in S : ~(<<j, i>> \in OpToRel(<, Nat))
  BY <1>1, NatLessThanWellFounded, WFMin
<1>3. PICK i \in S : \A j \in S : ~(<<j, i>> \in OpToRel(<, Nat))
  BY <1>2
<1>4. ASSUME NEW j \in S
      PROVE  i <= j
  <2>1. i \in Nat /\ j \in Nat
    BY <1>1
  <2>2. ~(j < i)
    BY <1>3, <2>1 DEF OpToRel
  <2> QED
    BY <2>1, <2>2
<1> QED
  BY <1>4

\* The slot a spawn takes is free.
LEMMA FirstFreeIsFree ==
    ASSUME FreeSlots # {}
    PROVE  FirstFree \in FreeSlots /\ FirstFree \in Slots
<1>1. FreeSlots \subseteq Slots
  BY DEF FreeSlots
<1> QED
  BY <1>1, LeastSlot DEF FirstFree

\* A slot in use is not the free one.
LEMMA UsedIsSlot ==
    ASSUME TypeOK, NEW i \in Used
    PROVE  i \in Slots /\ slots[i] \in Slot /\ slots[i] # Free
BY DEF TypeOK, Used, FreeSlots

\* MemFindSlot on a token that resolves: the one slot that holds it.
LEMMA FindSlotIsUnique ==
    ASSUME TypeOK, TableInv, NEW token, Resolves(token)
    PROVE  /\ FindSlot(token) \in Used
           /\ slots[FindSlot(token)].token = token
           /\ \A i \in Used : slots[i].token = token => i = FindSlot(token)
<1>1. Matches(token) = {i \in Used : slots[i].token = token}
  BY DEF Matches, Used, FreeSlots
<1>2. FindSlot(token) \in Matches(token)
  <2>1. Matches(token) \subseteq Slots /\ Matches(token) # {}
    BY DEF Matches, Resolves
  <2> QED
    BY <2>1, LeastSlot DEF FindSlot
<1>3. ASSUME NEW i \in Matches(token), NEW j \in Matches(token)
      PROVE  i = j
  <2>1. issued[slots[i].process].token = token /\ issued[slots[j].process].token = token
    <3>1. i \in Used /\ j \in Used /\ slots[i].token = token /\ slots[j].token = token
      BY <1>1
    <3>2. issued[slots[i].process] = [token |-> token, session |-> session]
      BY <3>1 DEF TableInv
    <3>3. issued[slots[j].process] = [token |-> token, session |-> session]
      BY <3>1 DEF TableInv
    <3> QED
      BY <3>2, <3>3
  <2>2. slots[i].process = token.seq /\ slots[j].process = token.seq
    BY <1>1, <2>1 DEF TableInv
  <2> QED
    BY <1>1, <2>2 DEF TableInv
<1> QED
  BY <1>1, <1>2, <1>3

\* A slot in use resolves its token, to its process.
LEMMA UsedResolves ==
    ASSUME TypeOK, TableInv, NEW i \in Used
    PROVE  Resolves(slots[i].token) /\ TokenProcess(slots[i].token) = slots[i].process
<1>1. slots[i].token # NoToken
  BY UsedIsSlot, MemAssumption DEF Slot, Tokens
<1>2. i \in Matches(slots[i].token)
  BY UsedIsSlot DEF Matches
<1>3. Resolves(slots[i].token)
  BY <1>1, <1>2 DEF Resolves
<1>4. i = FindSlot(slots[i].token)
  BY <1>3, FindSlotIsUnique
<1> QED
  BY <1>3, <1>4 DEF TokenProcess

-----------------------------------------------------------------------------
(* The operations on the table *)

\* Giving a token up empties its slot, closes its handle and nothing else.
LEMMA GiveUpEffect ==
    ASSUME TypeOK, TableInv, NEW token, Resolves(token), GiveUp(token),
           UNCHANGED <<connected, session, seq, issued>>
    PROVE  /\ TableInv'
           /\ slots' \in [Slots -> Slot \cup {Free}]
           /\ handles' \subseteq Procs /\ consumed' \subseteq Procs
           /\ TokenProcess(token) \in 1..seq
<1> DEFINE f == FindSlot(token)
           p == slots[f].process
<1>1. f \in Used /\ f \in Slots /\ slots[f] \in Slot
  BY FindSlotIsUnique, UsedIsSlot
<1>2. slots' = [slots EXCEPT ![f] = Free] /\ handles' = handles \ {p}
      /\ consumed' = consumed \cup {p}
  BY DEF GiveUp, TokenProcess
<1>3. p \in 1..seq /\ p \in Procs
  BY <1>1 DEF TableInv, Slot
<1>4. TokenProcess(token) = p
  BY DEF TokenProcess
<1> HIDE DEF f, p
<1>5. Used' = Used \ {f}
  BY <1>1, <1>2 DEF Used, FreeSlots, TypeOK
<1>6. \A i \in Used' : slots'[i] = slots[i] /\ i \in Used /\ i # f
  BY <1>1, <1>2, <1>5, UsedIsSlot DEF TypeOK
<1>7. \A i \in Used' : slots[i].process # p
  BY <1>1, <1>5, <1>6 DEF TableInv, p
<1>8. handles' = {slots'[i].process : i \in Used'}
  <2>1. handles' = {slots[i].process : i \in Used} \ {p}
    BY <1>2 DEF TableInv
  <2>2. {slots[i].process : i \in Used} \ {p} = {slots[i].process : i \in Used'}
    BY <1>1, <1>5, <1>7 DEF p
  <2> QED
    BY <2>1, <2>2, <1>6
<1>9. TableInv'
  <2>1. \A i \in Used' : /\ slots'[i].process \in 1..seq
                         /\ issued[slots'[i].process] = [token   |-> slots'[i].token,
                                                         session |-> session]
                         /\ slots'[i].process \notin consumed'
    BY <1>2, <1>6, <1>7 DEF TableInv
  <2>2. \A i, j \in Used' : slots'[i].process = slots'[j].process => i = j
    BY <1>6 DEF TableInv
  <2>3. consumed' \subseteq 1..seq /\ (~connected => Used' = {})
    BY <1>2, <1>3, <1>5 DEF TableInv
  <2> QED
    BY <2>1, <2>2, <2>3, <1>8 DEF TableInv
<1> QED
  BY <1>1, <1>2, <1>3, <1>4, <1>9 DEF TypeOK

\* A spawn fills a free slot with the next process and token.
LEMMA SpawnEffect ==
    ASSUME TypeOK, TableInv, NEW salt \in Salts, SpawnRetain(salt)
    PROVE  TableInv' /\ TypeOK'
<1> DEFINE p == seq + 1
           token == MakeToken(salt)
           f == FirstFree
           s == [token |-> token, process |-> p]
<1>1. seq \in Nat /\ p \in Nat /\ p \in Procs /\ seq' = p /\ p \in 1..p
      /\ p \in 0..MaxSpawns /\ 1..seq \subseteq 1..p /\ p \notin 1..seq
      /\ \A q \in 1..p : q # p => q \in 1..seq
  BY MemAssumption DEF SpawnRetain, TypeOK, Procs
<1>2. token \in Tokens /\ token.seq = p /\ s \in Slot /\ s # Free
  <2>1. token \in Tokens /\ token.seq = p
    BY <1>1 DEF MakeToken, Tokens
  <2>2. s \in Slot
    BY <1>1, <2>1 DEF Slot
  <2>3. Free \notin Slot
    BY MemAssumption DEF Slot, Tokens, Procs
  <2> QED
    BY <2>1, <2>2, <2>3
<1>3. f \in Slots /\ f \in FreeSlots /\ f \notin Used
  BY FirstFreeIsFree DEF SpawnRetain, Used
<1>4. slots' = [slots EXCEPT ![f] = s] /\ handles' = handles \cup {p}
      /\ issued' = [q \in 1..p |-> IF q = p THEN [token |-> token, session |-> session]
                                   ELSE issued[q]]
      /\ life' = [life EXCEPT ![p] = "running"]
      /\ UNCHANGED <<connected, session, consumed>> /\ connected
  BY DEF SpawnRetain, Serving
<1>5. session \in 1..MaxSessions
  BY <1>4 DEF TableInv
<1> HIDE DEF p, token, f, s
<1>6. Used' = Used \cup {f}
  BY <1>2, <1>3, <1>4 DEF Used, FreeSlots, TypeOK
<1>7. \A i \in Used : slots'[i] = slots[i] /\ i # f
  BY <1>3, <1>4, UsedIsSlot DEF TypeOK
<1>8. slots'[f] = s /\ slots'[f].process = p /\ slots'[f].token = token
  BY <1>3, <1>4 DEF TypeOK, s
<1>9. \A q \in 1..seq : issued'[q] = issued[q]
  BY <1>1, <1>4
<1>10. issued'[p] = [token |-> token, session |-> session]
  BY <1>1, <1>4
<1>11. \A i \in Used : slots[i].process \in 1..seq /\ slots[i].process # p
  BY <1>1 DEF TableInv
<1>12. handles' = {slots'[i].process : i \in Used'}
  BY <1>4, <1>6, <1>7, <1>8 DEF TableInv
<1>13. consumed' \subseteq 1..p /\ p \notin consumed'
  BY <1>1, <1>4 DEF TableInv
<1>14. \A q \in 1..p : issued'[q].token.seq = q
  BY <1>1, <1>2, <1>9, <1>10 DEF TableInv
<1>15. \A i \in Used' : /\ slots'[i].process \in 1..p
                        /\ issued'[slots'[i].process] = [token |-> slots'[i].token,
                                                         session |-> session]
                        /\ slots'[i].process \notin consumed'
  <2>1. ASSUME NEW i \in Used
        PROVE  /\ slots'[i].process \in 1..p
               /\ issued'[slots'[i].process] = [token |-> slots'[i].token, session |-> session]
               /\ slots'[i].process \notin consumed'
    BY <1>1, <1>4, <1>7, <1>9, <1>11 DEF TableInv
  <2> QED
    BY <2>1, <1>1, <1>6, <1>8, <1>10, <1>13
<1>16. \A i, j \in Used' : slots'[i].process = slots'[j].process => i = j
  BY <1>6, <1>7, <1>8, <1>11 DEF TableInv
<1>17. TableInv'
  BY <1>1, <1>4, <1>5, <1>12, <1>13, <1>14, <1>15, <1>16 DEF TableInv
<1>18. TypeOK'
  <2>1. slots' \in [Slots -> Slot \cup {Free}] /\ handles' \subseteq Procs
        /\ life' \in [Procs -> {"none", "running", "ended"}]
    BY <1>1, <1>2, <1>4 DEF TypeOK
  <2>2. issued' \in [1..seq' -> [token : Tokens, session : 1..MaxSessions]]
    <3>1. ASSUME NEW q \in 1..p
          PROVE  issued'[q] \in [token : Tokens, session : 1..MaxSessions]
      <4>1. CASE q = p
        BY <1>2, <1>5, <1>10, <4>1
      <4>2. CASE q # p
        BY <1>1, <1>9, <4>2 DEF TypeOK
      <4> QED
        BY <4>1, <4>2
    <3> QED
      BY <1>1, <1>4, <3>1
  <2> QED
    BY <1>1, <1>4, <2>1, <2>2 DEF SpawnRetain, TypeOK, config, writes
<1> QED
  BY <1>17, <1>18

\* Losing the client empties the whole table.
LEMMA ReleaseAllEffect ==
    ASSUME TypeOK, TableInv, ReleaseAll, ~connected', UNCHANGED <<session, seq, issued>>
    PROVE  /\ TableInv'
           /\ slots' \in [Slots -> Slot \cup {Free}]
           /\ handles' \subseteq Procs /\ consumed' \subseteq Procs
<1>1. Used' = {}
  BY DEF ReleaseAll, Used, FreeSlots
<1>2. handles' = {} /\ consumed' = consumed \cup handles
  <2>1. handles = {slots[i].process : i \in Used}
    BY DEF TableInv
  <2>2. handles' = handles \ {slots[i].process : i \in Used}
    BY DEF ReleaseAll, Used
  <2>3. consumed' = consumed \cup {slots[i].process : i \in Used}
    BY DEF ReleaseAll, Used
  <2> QED
    BY <2>1, <2>2, <2>3
<1>3. handles \subseteq 1..seq
  <2>1. handles = {slots[i].process : i \in Used} /\ \A i \in Used : slots[i].process \in 1..seq
    BY DEF TableInv
  <2> QED
    BY <2>1
<1>4. TableInv'
  <2>1. \A p \in 1..seq' : issued'[p].token.seq = p
    BY DEF TableInv
  <2>2. handles' = {slots'[i].process : i \in Used'}
    BY <1>1, <1>2
  <2>3. consumed' \subseteq 1..seq'
    BY <1>2, <1>3 DEF TableInv
  <2> QED
    BY <1>1, <2>1, <2>2, <2>3 DEF TableInv
<1> QED
  BY <1>2, <1>4 DEF ReleaseAll, TypeOK

-----------------------------------------------------------------------------
(* The invariant *)

\* Between pokes, PokeInv says only that past pokes are audited.
LEMMA IdlePoke ==
    ASSUME PokeInv, step = "idle", UNCHANGED writes, UNCHANGED config
    PROVE  PokeInv'
BY DEF PokeInv, PokeIsAudited, Unlogged, writes, config

MemInv == TypeOK /\ TableInv /\ PokeInv

\* The inductive invariant of the table and of the poke in progress.
THEOREM MemCorrect == Spec => []MemInv
<1>1. Init => MemInv
  <2> SUFFICES ASSUME Init PROVE MemInv
    OBVIOUS
  <2>1. Used = {}
    BY DEF Init, Used, FreeSlots
  <2>2. 1..0 = {}
    OBVIOUS
  <2>3. issued \in [1..seq -> [token : Tokens, session : 1..MaxSessions]]
    BY <2>2 DEF Init
  <2>4. TypeOK
    <3>1. NoWrite \in Written /\ 0 \in 0..MaxSessions /\ 0 \in 0..MaxSpawns /\ 0 \in 0..MaxPokes
      BY MemAssumption DEF NoWrite, Written, Local
    <3>2. NoPoke \in [id : 0..MaxPokes, token : Tokens \cup {NoToken},
                      target : Procs \cup {Local}]
      BY <3>1 DEF NoPoke
    <3> QED
      BY <2>3, <3>1, <3>2 DEF Init, TypeOK
  <2>5. TableInv
    BY <2>1, <2>2 DEF Init, TableInv
  <2>6. PokeInv
    <3>1. \A n \in PokeIds : stored[n] = NoWrite /\ logged[n] = NoWrite /\ answer[n] = "none"
      BY DEF Init
    <3>2. Unlogged = {}
      BY <3>1 DEF Unlogged, NoWrite
    <3>3. PokeIsAudited
      BY <3>1, <3>2 DEF PokeIsAudited
    <3>4. step = "idle"
      BY DEF Init
    <3> QED
      BY <3>1, <3>3, <3>4 DEF PokeInv
  <2> QED
    BY <2>4, <2>5, <2>6 DEF MemInv
<1>2. MemInv /\ [Next]_vars => MemInv'
  <2> SUFFICES ASSUME TypeOK, TableInv, PokeInv, [Next]_vars
               PROVE  TypeOK' /\ TableInv' /\ PokeInv'
    BY DEF MemInv
  <2>1. CASE Accept
    <3>1. step = "idle" /\ Used = {} /\ slots' = slots
      BY <2>1 DEF Accept, PokeInv, TableInv
    <3>2. session' = session + 1 /\ session < MaxSessions /\ session \in Nat
      BY <2>1, MemAssumption DEF Accept, TypeOK
    <3>3. session' \in 1..MaxSessions /\ session' \in 0..MaxSessions
      BY <3>2, MemAssumption
    <3>4. TypeOK'
      BY <2>1, <3>3 DEF Accept, TypeOK, config, writes
    <3>5. Used' = {}
      BY <3>1 DEF Used, FreeSlots
    <3>6. TableInv'
      BY <2>1, <3>1, <3>3, <3>5 DEF Accept, TableInv
    <3>7. PokeInv'
      BY <2>1, <3>1, IdlePoke DEF Accept
    <3> QED
      BY <3>4, <3>6, <3>7
  <2>2. CASE Disconnect
    <3>1. step = "idle" /\ ReleaseAll /\ ~connected'
          /\ UNCHANGED <<config, sink, session, seq, life, issued, writes>>
      BY <2>2 DEF Disconnect, Serving
    <3>2. /\ TableInv'
          /\ slots' \in [Slots -> Slot \cup {Free}]
          /\ handles' \subseteq Procs /\ consumed' \subseteq Procs
      BY <3>1, ReleaseAllEffect
    <3>3. TypeOK'
      BY <2>2, <3>1, <3>2 DEF Disconnect, TypeOK, config, writes
    <3> QED
      BY <3>1, <3>2, <3>3, IdlePoke
  <2>3. ASSUME NEW salt \in Salts, SpawnRetain(salt)
        PROVE  TypeOK' /\ TableInv' /\ PokeInv'
    BY <2>3, SpawnEffect, IdlePoke DEF SpawnRetain, Serving
  <2>4. ASSUME NEW token \in Presentable, Release(token) \/ Terminate(token)
        PROVE  TypeOK' /\ TableInv' /\ PokeInv'
    <3>1. step = "idle" /\ Resolves(token) /\ GiveUp(token)
          /\ UNCHANGED <<config, sink, connected, session, seq, issued, writes>>
      BY <2>4 DEF Release, Terminate, Serving
    <3>2. /\ TableInv'
          /\ slots' \in [Slots -> Slot \cup {Free}]
          /\ handles' \subseteq Procs /\ consumed' \subseteq Procs
          /\ TokenProcess(token) \in 1..seq
      BY <3>1, GiveUpEffect
    <3>3. life' \in [Procs -> {"none", "running", "ended"}]
      BY <2>4 DEF Release, Terminate, TypeOK
    <3>4. TypeOK'
      BY <3>1, <3>2, <3>3 DEF TypeOK, config, writes
    <3> QED
      BY <3>1, <3>2, <3>4, IdlePoke
  <2>5. ASSUME NEW token \in Presentable, PokeFloors(token)
        PROVE  TypeOK' /\ TableInv' /\ PokeInv'
    <3>1. step = "idle" /\ connected /\ step' = "write"
          /\ UNCHANGED <<config, sink, connected, table, life, stored, logged, answer>>
          /\ (tier = "process" => Resolves(token))
          /\ poke' = [id |-> poke.id + 1, token |-> token,
                      target |-> IF tier = "process" THEN TokenProcess(token) ELSE Local]
      BY <2>5 DEF PokeFloors, Serving
    <3>2. poke.id + 1 \in PokeIds /\ poke.id \in Nat /\ poke.id + 1 \in 0..MaxPokes
          /\ poke.id + 1 > poke.id
      BY <2>5, MemAssumption DEF PokeFloors, TypeOK, PokeIds
    <3>3. TableInv' /\ Used' = Used
      BY <3>1 DEF TableInv, table, Used, FreeSlots
    <3>4. tier = "process" =>
            \E i \in Used : slots[i].token = token /\ slots[i].process = TokenProcess(token)
      BY <3>1, FindSlotIsUnique DEF TokenProcess
    <3>5. tier = "process" => TokenProcess(token) \in Procs
      BY <3>4, UsedIsSlot DEF Slot
    <3>6. token \in Tokens \cup {NoToken}
      BY MemAssumption DEF Presentable, Tokens
    <3>7. TypeOK'
      BY <3>1, <3>2, <3>5, <3>6 DEF TypeOK, config, table, Local
    <3>8. PokeIsAudited'
      BY <3>1 DEF PokeInv, PokeIsAudited, Unlogged, config
    <3>9. poke'.id = poke.id + 1 /\ poke'.token = token
          /\ (tier = "process" => poke'.target = TokenProcess(token))
          /\ (tier # "process" => poke'.target = Local)
      BY <3>1
    <3>10. \A n \in PokeIds : n > poke'.id =>
             answer[n] = "none" /\ stored[n] = NoWrite /\ logged[n] = NoWrite
      BY <3>2, <3>9 DEF PokeInv, PokeIds
    <3>11. answer[poke'.id] = "none" /\ stored[poke'.id] = NoWrite /\ logged[poke'.id] = NoWrite
      BY <3>2, <3>9 DEF PokeInv
    <3>12. slots' = slots /\ tier' = tier
      BY <3>1 DEF table, config
    <3>13. PokeInv'
      BY <3>1, <3>2, <3>3, <3>4, <3>8, <3>9, <3>10, <3>11, <3>12 DEF PokeInv
    <3> QED
      BY <3>3, <3>7, <3>13
  <2>6. ASSUME NEW bytes \in 0..PokeLen, NEW copied \in BOOLEAN, PokeWrite(bytes, copied)
        PROVE  TypeOK' /\ TableInv' /\ PokeInv'
    <3> DEFINE n == poke.id
    <3>1. step = "write" /\ connected /\ n \in PokeIds /\ n \in Nat
          /\ answer[n] = "none" /\ stored[n] = NoWrite /\ logged[n] = NoWrite
          /\ UNCHANGED <<config, sink, connected, table, life, poke, logged>>
      BY <2>6, MemAssumption DEF PokeWrite, PokeInv, PokeIds
    <3>2. TableInv' /\ Used' = Used /\ slots' = slots /\ tier' = tier
      BY <3>1 DEF TableInv, table, Used, FreeSlots, config
    <3>3. CASE ~copied
      <4>1. answer' = [answer EXCEPT ![n] = "refused"] /\ step' = "idle" /\ stored' = stored
        BY <2>6, <3>3 DEF PokeWrite
      <4>2. TypeOK'
        BY <3>1, <4>1 DEF TypeOK, config, table
      <4>3. PokeIsAudited'
        BY <3>1, <3>2, <4>1 DEF PokeInv, PokeIsAudited, Unlogged, TypeOK
      <4>4. PokeInv'
        BY <3>1, <3>2, <4>1, <4>3 DEF PokeInv, TypeOK, PokeIds
      <4> QED
        BY <3>2, <4>2, <4>4
    <3>4. CASE copied
      <4>1. stored' = [stored EXCEPT ![n] = [target |-> poke.target, bytes |-> bytes]]
            /\ step' = "record" /\ answer' = answer
        BY <2>6, <3>4 DEF PokeWrite
      <4>2. [target |-> poke.target, bytes |-> bytes] \in Written
        BY DEF Written, TypeOK
      <4>3. TypeOK'
        BY <3>1, <4>1, <4>2 DEF TypeOK, config, table
      <4>4. stored'[n].target = poke.target
            /\ (poke.target = Local => stored'[n].bytes > 0)
            /\ \A m \in PokeIds : m # n => stored'[m] = stored[m]
        BY <2>6, <3>1, <3>4, <4>1, MemAssumption DEF TypeOK, PokeWrite
      <4>5. PokeIsAudited'
        BY <3>1, <3>2, <4>1, <4>4 DEF PokeInv, PokeIsAudited, Unlogged
      <4>6. PokeInv'
        BY <3>1, <3>2, <4>1, <4>4, <4>5 DEF PokeInv, PokeIds
      <4> QED
        BY <3>2, <4>3, <4>6
    <3> QED
      BY <3>3, <3>4
  <2>7. ASSUME NEW durable \in BOOLEAN, PokeRecord(durable)
        PROVE  TypeOK' /\ TableInv' /\ PokeInv'
    <3> DEFINE n == poke.id
    <3>1. step = "record" /\ connected /\ n \in PokeIds /\ n \in Nat /\ step' = "idle"
          /\ answer[n] = "none" /\ logged[n] = NoWrite
          /\ stored[n].target = poke.target
          /\ (poke.target = Local => stored[n].bytes > 0)
          /\ UNCHANGED <<config, sink, connected, table, life, poke, stored>>
      BY <2>7, MemAssumption DEF PokeRecord, PokeInv, PokeIds
    <3>2. TableInv' /\ tier' = tier
      BY <3>1 DEF TableInv, table, Used, FreeSlots, config
    <3>3. stored[n] \in Written
      BY <3>1 DEF TypeOK
    <3>4. RecordedPid \in Procs \cup {Local}
          /\ (tier = "process" => RecordedPid = poke.target)
      <4>1. RecordedPid \in Procs \cup {Local}
        BY FindSlotIsUnique, UsedIsSlot DEF RecordedPid, TokenProcess, Slot
      <4>2. ASSUME tier = "process" PROVE RecordedPid = poke.target
        <5>1. PICK i \in Used : slots[i].token = poke.token /\ slots[i].process = poke.target
          BY <3>1, <4>2 DEF PokeInv
        <5> QED
          BY <5>1, UsedResolves DEF RecordedPid
      <4> QED
        BY <4>1, <4>2
    <3>5. CASE durable
      <4> DEFINE line == [target |-> RecordedPid, bytes |-> stored[n].bytes]
      <4>1. logged' = [logged EXCEPT ![n] = line] /\ answer' = [answer EXCEPT ![n] = "ok"]
        BY <2>7, <3>5 DEF PokeRecord
      <4>2. line \in Written
        BY <3>3, <3>4 DEF Written
      <4>3. tier = "process" => line = stored[n]
        BY <3>1, <3>3, <3>4 DEF Written
      <4>4. line.bytes = stored[n].bytes /\ line # NoWrite
        <5>1. CASE tier = "process"
          <6>1. PICK i \in Used : slots[i].process = poke.target
            BY <3>1, <5>1 DEF PokeInv
          <6>2. poke.target \in Procs
            BY <6>1, UsedIsSlot DEF Slot
          <6>3. line.target = poke.target /\ poke.target # NoWrite.target
            BY <3>4, <5>1, <6>2 DEF NoWrite, Local, Procs
          <6> QED
            BY <6>3
        <5>2. CASE tier # "process"
          BY <3>1, <5>2 DEF NoWrite, PokeInv
        <5> QED
          BY <5>1, <5>2
      <4> HIDE DEF line
      <4>5. TypeOK'
        BY <3>1, <4>1, <4>2 DEF TypeOK, config, table
      <4>6. PokeIsAudited'
        BY <3>1, <3>2, <4>1, <4>3, <4>4 DEF PokeInv, PokeIsAudited, Unlogged, TypeOK
      <4>7. PokeInv'
        BY <3>1, <3>2, <4>1, <4>6 DEF PokeInv, TypeOK, PokeIds
      <4> QED
        BY <3>2, <4>5, <4>7
    <3>6. CASE ~durable
      <4>1. logged' = logged /\ answer' = [answer EXCEPT ![n] = "audit_failed"]
        BY <2>7, <3>6 DEF PokeRecord
      <4>2. TypeOK'
        BY <3>1, <4>1 DEF TypeOK, config, table
      <4>3. PokeIsAudited'
        BY <3>1, <3>2, <4>1 DEF PokeInv, PokeIsAudited, Unlogged, TypeOK
      <4>4. PokeInv'
        BY <3>1, <3>2, <4>1, <4>3 DEF PokeInv, TypeOK, PokeIds
      <4> QED
        BY <3>2, <4>2, <4>4
    <3> QED
      BY <3>5, <3>6
  <2>8. ASSUME SinkChanges \/ UNCHANGED vars \/ \E p \in Procs : ProcessEnds(p)
        PROVE  TypeOK' /\ TableInv' /\ PokeInv'
    <3>1. UNCHANGED <<config, connected, table, writes>>
      BY <2>8 DEF SinkChanges, ProcessEnds, vars, config, table, writes
    <3>2. sink' \in BOOLEAN /\ life' \in [Procs -> {"none", "running", "ended"}]
      BY <2>8 DEF SinkChanges, ProcessEnds, vars, TypeOK
    <3>3. TypeOK'
      BY <3>1, <3>2 DEF TypeOK, config, table, writes
    <3>4. TableInv'
      BY <3>1 DEF TableInv, table, Used, FreeSlots
    <3>5. PokeInv'
      BY <3>1 DEF PokeInv, PokeIsAudited, Unlogged, table, writes, config, Used, FreeSlots
    <3> QED
      BY <3>3, <3>4, <3>5
  <2> QED
    BY <2>1, <2>2, <2>3, <2>4, <2>5, <2>6, <2>7, <2>8 DEF Next
<1> QED
  BY <1>1, <1>2, PTL DEF Spec

-----------------------------------------------------------------------------
(* What follows *)

\* TokenNamesOneProcess: a token is never aimed at another process than its own.
THEOREM TokensHold == Spec => []TokenNamesOneProcess
<1>1. MemInv => TokenNamesOneProcess
  <2> SUFFICES ASSUME TypeOK, TableInv PROVE TokenNamesOneProcess
    BY DEF MemInv
  <2>1. ASSUME NEW token, Resolves(token)
        PROVE  /\ TokenProcess(token) \in 1..seq
               /\ issued[TokenProcess(token)] = [token |-> token, session |-> session]
               /\ TokenProcess(token) \notin consumed
               /\ TokenProcess(token) = token.seq
    <3>1. FindSlot(token) \in Used /\ slots[FindSlot(token)].token = token
      BY <2>1, FindSlotIsUnique
    <3>2. /\ TokenProcess(token) \in 1..seq
          /\ issued[TokenProcess(token)] = [token |-> token, session |-> session]
          /\ TokenProcess(token) \notin consumed
      BY <3>1 DEF TableInv, TokenProcess
    <3>3. issued[TokenProcess(token)].token.seq = TokenProcess(token)
      BY <3>2 DEF TableInv
    <3> QED
      BY <3>2, <3>3
  <2>2. ASSUME NEW p \in 1..seq, Resolves(issued[p].token)
        PROVE  /\ TokenProcess(issued[p].token) = p
               /\ p \notin consumed
               /\ issued[p].session = session
    <3> DEFINE token == issued[p].token
    <3>1. token.seq = p
      BY DEF TableInv
    <3>2. Resolves(token)
      BY <2>2
    <3> HIDE DEF token
    <3>3. TokenProcess(token) = p /\ p \notin consumed
          /\ issued[p] = [token |-> token, session |-> session]
      BY <2>1, <3>1, <3>2
    <3> QED
      BY <3>3 DEF token
  <2>3. ASSUME NEW token \in Presentable, Resolves(token)
        PROVE  \E p \in 1..seq : issued[p].token = token
    <3>1. TokenProcess(token) \in 1..seq
          /\ issued[TokenProcess(token)] = [token |-> token, session |-> session]
      BY <2>1, <2>3
    <3>2. issued[TokenProcess(token)].token = token
      BY <3>1
    <3> QED
      BY <3>1, <3>2
  <2> QED
    BY <2>2, <2>3 DEF TokenNamesOneProcess
<1> QED
  BY <1>1, MemCorrect, PTL

\* HandlesAreSlots: the table and the handles held agree, one for one.
THEOREM HandlesHold == Spec => []HandlesAreSlots
<1>1. MemInv => HandlesAreSlots
  <2> SUFFICES ASSUME TypeOK, TableInv PROVE HandlesAreSlots
    BY DEF MemInv
  <2> DEFINE g == [i \in Used |-> slots[i].process]
  <2>1. g \in Surjection(Used, handles) /\ g \in Injection(Used, handles)
    <3>1. g \in [Used -> handles] /\ \A h \in handles : \E i \in Used : g[i] = h
      BY DEF TableInv
    <3>2. \A i, j \in Used : g[i] = g[j] => i = j
      BY DEF TableInv
    <3> HIDE DEF g
    <3> QED
      BY <3>1, <3>2, Fun_IsInj, Fun_IsSurj
  <2>2. IsFiniteSet(Used)
    <3>1. IsFiniteSet(Slots)
      BY FS_Interval, MemAssumption DEF Slots
    <3> QED
      BY <3>1, FS_Subset DEF Used
  <2>3. Cardinality(handles) = Cardinality(Used)
    BY <2>1, <2>2, FS_Surjection
  <2> QED
    BY <2>3 DEF HandlesAreSlots, TableInv, Used
<1> QED
  BY <1>1, MemCorrect, PTL

\* PokeTargetHeld: no step of the world outside moves a poke's target.
THEOREM TargetHeld == Spec => []PokeTargetHeld
<1>1. MemInv => PokeTargetHeld
  <2> SUFFICES ASSUME TypeOK, TableInv, PokeInv, step # "idle", tier = "process"
               PROVE  /\ Resolves(poke.token) /\ TokenProcess(poke.token) = poke.target
                      /\ poke.target \in handles
    BY DEF MemInv, PokeTargetHeld
  <2>1. PICK i \in Used : slots[i].token = poke.token /\ slots[i].process = poke.target
    BY DEF PokeInv
  <2> QED
    BY <2>1, UsedResolves DEF TableInv
<1> QED
  BY <1>1, MemCorrect, PTL

\* PokeIsAudited: a line in the audit file for every ok and for nothing else, true to
\* the write; no write behind a refusal; and a write without its line is always told
\* audit_failed.
THEOREM PokesAudited == Spec => []PokeIsAudited
<1>1. MemInv => PokeIsAudited
  BY DEF MemInv, PokeInv
<1> QED
  BY <1>1, MemCorrect, PTL

-----------------------------------------------------------------------------
(* The floors of peek and poke *)

\* The constants as numbers.
LEMMA SpaceFacts ==
    /\ Space \in Nat /\ Space > 1 /\ Space % 16 = 0
    /\ MaxAccess \in Nat /\ MaxAccess < Space
BY MemRangeAssumption

\* A sum of a base and a size is a word, or one turn of the words too large.
LEMMA WrapsOnce ==
    ASSUME NEW n \in Nat
    PROVE  /\ n < Space => n % Space = n
           /\ n >= Space /\ n < 2 * Space => n % Space = n - Space
<1>1. CASE n < Space
  BY <1>1, SpaceFacts
<1>2. CASE n >= Space /\ n < 2 * Space
  <2> DEFINE q == n \div Space
             r == n % Space
  <2>1. q \in Int /\ r \in Int /\ 0 <= r /\ r < Space /\ n = Space * q + r
    BY SpaceFacts
  <2> HIDE DEF q, r
  <2>2. q = 1
    <3>1. q < 1 => Space * q <= 0
      BY <2>1, SpaceFacts
    <3>2. q > 1 => Space * q >= 2 * Space
      BY <2>1, SpaceFacts
    <3> QED
      BY <1>2, <2>1, <3>1, <3>2, SpaceFacts
  <2>3. r = n - Space
    BY <2>1, <2>2, SpaceFacts
  <2> QED
    BY <1>2, <2>3, SpaceFacts DEF r
<1> QED
  BY <1>1, <1>2

\* What the decision says is accessible lies in the region.
LEMMA AccessibleInRegion ==
    ASSUME NEW region \in Regions, NEW addr \in Addresses, NEW len \in Nat,
           NEW forWrite \in BOOLEAN,
           MemRegionAccessibleDecision(region, addr, len, forWrite) > 0
    PROVE  LET n == MemRegionAccessibleDecision(region, addr, len, forWrite)
           IN  n \in Nat /\ n <= len /\ Touches(region, addr, n, forWrite)
<1> DEFINE n == MemRegionAccessibleDecision(region, addr, len, forWrite)
           end == (region.base + region.size) % Space
           barred == \/ ~region.committed \/ region.guarded \/ region.protection = "no access"
                     \/ forWrite /\ region.protection # "write"
                     \/ addr < region.base \/ addr >= end
<1>1. /\ region.base \in Nat /\ region.base < Space /\ region.size \in Nat /\ region.size <= Space
      /\ 0 < region.size
      /\ addr \in Nat /\ addr < Space /\ region.protection \in Protections
  BY SpaceFacts DEF Regions, Addresses
<1>2. /\ region.committed /\ ~region.guarded /\ region.protection # "no access"
      /\ forWrite => region.protection = "write"
      /\ addr >= region.base /\ ~(addr >= end)
      /\ n = IF end - addr >= len THEN len ELSE end - addr
  <2>1. n = IF barred THEN 0 ELSE IF end - addr >= len THEN len ELSE end - addr
    BY Zenon DEF MemRegionAccessibleDecision
  <2>2. n # 0
    <3> HIDE DEF n
    <3>1. n > 0
      BY DEF n
    <3> QED
      BY <3>1
  <2>3. ~barred /\ n = IF end - addr >= len THEN len ELSE end - addr
    <3> HIDE DEF n, barred, end
    <3> QED
      BY <2>1, <2>2, Zenon
  <2>4. ~(addr < region.base)
    BY <2>3
  <2>5. addr >= region.base
    BY <1>1, <2>4
  <2> HIDE DEF n, end
  <2> QED
    BY <2>3, <2>5, Zenon DEF barred
<1>9. addr >= region.base /\ ~(addr >= end)
  <2> HIDE DEF n, end
  <2> QED
    BY <1>2, Zenon
<1>10. n = IF end - addr >= len THEN len ELSE end - addr
  <2> HIDE DEF n, end
  <2> QED
    BY <1>2, Zenon
<1>3. end \in Nat /\ addr < end /\ end = region.base + region.size /\ end <= Space
  <2>1. end \in Nat /\ end < Space
    <3>1. region.base + region.size \in Nat
      BY <1>1
    <3> QED
      BY <3>1, SpaceFacts
  <2>2. addr < end
    BY <1>1, <1>9, <2>1
  <2>3. CASE region.base + region.size < Space
    <3>1. region.base + region.size \in Nat
      BY <1>1
    <3>2. end = region.base + region.size
      BY <2>3, <3>1, WrapsOnce
    <3> QED
      BY <2>1, <2>2, <2>3, <3>2, SpaceFacts
  <2>4. CASE region.base + region.size >= Space
    <3>1. end = region.base + region.size - Space
      BY <1>1, <2>4, WrapsOnce, SpaceFacts
    <3>2. end <= region.base
      BY <1>1, <3>1, SpaceFacts
    <3> QED
      BY <1>1, <1>9, <2>1, <2>2, <3>2
  <2> QED
    BY <1>1, <2>3, <2>4, SpaceFacts
<1> HIDE DEF n, end
<1>4. n \in Nat /\ n <= len /\ addr + n <= end
  BY <1>1, <1>3, <1>9, <1>10
<1>5. ASSUME NEW a \in addr..(addr + n - 1) PROVE InRegion(region, a)
  BY <1>1, <1>3, <1>4, <1>9 DEF InRegion
<1>6. region.protection \in IF forWrite THEN {"write"} ELSE {"read", "write"}
  BY <1>1, <1>2 DEF Protections
<1>7. addr + n <= Space
  BY <1>1, <1>3, <1>4, SpaceFacts
<1>8. Touches(region, addr, n, forWrite)
  BY <1>2, <1>5, <1>6, <1>7 DEF Touches
<1> QED
  BY <1>4, <1>8 DEF n

\* AccessStaysInRegion: for any region, any address and any length of the wire.
THEOREM AccessHolds ==
    ASSUME NEW region \in Regions, NEW addr \in Addresses, NEW len \in Addresses
    PROVE  AccessStaysInRegion(region, addr, len)
<1>1. addr \in Nat /\ addr < Space /\ len \in Nat /\ len < Space
  BY SpaceFacts DEF Addresses
<1>2. MemRangeInBounds(addr, len, MaxAccess) => addr + len < Space
  BY <1>1, SpaceFacts DEF MemRangeInBounds
<1>3. ASSUME PeekBytes(region, addr, len) > 0
      PROVE  /\ PeekBytes(region, addr, len) <= len
             /\ Touches(region, addr, PeekBytes(region, addr, len), FALSE)
             /\ ~PeekTruncated(region, addr, len) => PeekBytes(region, addr, len) = len
  <2> DEFINE n == MemRegionAccessibleDecision(region, addr, len, FALSE)
  <2>1. PeekBytes(region, addr, len) = n /\ n > 0
    <3>1. PeekBytes(region, addr, len) # 0
      <4>1. ~(0 > 0)
        OBVIOUS
      <4> QED
        BY <1>3, <4>1, Zenon
    <3>2. PeekBytes(region, addr, len) = n
      BY <3>1, Zenon DEF PeekBytes
    <3> HIDE DEF n
    <3> QED
      BY <1>3, <3>2, Zenon
  <2>2. n \in Nat /\ n <= len /\ Touches(region, addr, n, FALSE)
    BY <1>1, <2>1, AccessibleInRegion
  <2> HIDE DEF n
  <2>3. ~(n # 0 /\ n < len) => n = len
    BY <1>1, <2>1, <2>2
  <2> QED
    BY <2>1, <2>2, <2>3 DEF PeekTruncated
<1>4. ASSUME PokeStores(region, addr, len), len > 0 PROVE Touches(region, addr, len, TRUE)
  <2> DEFINE n == MemRegionAccessibleDecision(region, addr, len, TRUE)
  <2>1. n >= len
    BY <1>4 DEF PokeStores
  <2>2. n > 0
    <3>1. n \in Int
      <4> DEFINE end == (region.base + region.size) % Space
      <4>1. region.base + region.size \in Nat
        BY SpaceFacts DEF Regions, Addresses
      <4>2. end \in Int
        BY <4>1, SpaceFacts
      <4>3. n \in {0, len, end - addr}
        BY Zenon DEF MemRegionAccessibleDecision
      <4> HIDE DEF n, end
      <4> QED
        BY <1>1, <4>2, <4>3
    <3> HIDE DEF n
    <3> QED
      BY <1>1, <1>4, <2>1, <3>1
  <2>3. n \in Nat /\ n <= len /\ Touches(region, addr, n, TRUE)
    BY <1>1, <2>2, AccessibleInRegion
  <2> HIDE DEF n
  <2>4. n = len
    BY <1>1, <2>1, <2>3
  <2> QED
    BY <2>3, <2>4
<1> QED
  BY <1>2, <1>3, <1>4 DEF AccessStaysInRegion

\* The digit step of MemParseU32 is exact: it yields the number the digits so far spell
\* if that is a word, and refuses it otherwise, in either base.
THEOREM DigitIsExact ==
    ASSUME NEW base \in {Ten, Sixteen}, NEW val \in Addresses, NEW d \in DigitsOf(base)
    PROVE  ParseDigit(val, d, base) = IF val * base + d < Space THEN val * base + d ELSE Invalid
<1> DEFINE top == (Space - 1) \div base
<1>1. /\ base \in Nat /\ base > 1 /\ (base = 10 \/ base = 16)
      /\ val \in Nat /\ val < Space /\ d \in Nat /\ d < base /\ val # Invalid
      /\ Space \in Nat
  BY SpaceFacts DEF Ten, Sixteen, Addresses, DigitsOf, Invalid
<1>2. top \in Nat /\ base * top <= Space - 1 /\ Space - 1 < base * (top + 1)
  <2>1. CASE base = 10
    BY <2>1, SpaceFacts
  <2>2. CASE base = 16
    BY <2>2, SpaceFacts
  <2> QED
    BY <1>1, <2>1, <2>2
<1> HIDE DEF top
<1>3. ParseDigit(val, d, base) =
        IF val > top THEN Invalid
        ELSE IF base = 10 /\ val * base > (Space - 1) - d THEN Invalid
        ELSE ((val * base) % Space) + d
  BY <1>1 DEF ParseDigit, top, Ten
<1>4. CASE val > top
  <2>1. val * base + d >= Space
    BY <1>1, <1>2, <1>4
  <2> QED
    BY <1>1, <1>3, <1>4, <2>1
<1>5. CASE ~(val > top)
  <2>1. val * base \in Nat /\ val * base <= Space - 1
    BY <1>1, <1>2, <1>5
  <2>2. (val * base) % Space = val * base
    BY <1>1, <2>1, WrapsOnce
  <2>3. CASE base = 10
    BY <1>1, <1>3, <1>5, <2>1, <2>2, <2>3
  <2>4. CASE base = 16
    <3>1. val * 16 + d < Space
      <4>1. PICK k \in Nat : Space = 16 * k
        BY SpaceFacts
      <4> QED
        BY <1>1, <2>1, <2>4, <4>1
    <3> QED
      BY <1>1, <1>3, <1>5, <2>1, <2>2, <2>4, <3>1
  <2> QED
    BY <1>1, <2>3, <2>4
<1> QED
  BY <1>4, <1>5

-----------------------------------------------------------------------------
(* Folds *)

\* Induction over the natural numbers, for a set of them.
LEMMA SetInduction ==
    ASSUME NEW T, 0 \in T, \A n \in Nat : n \in T => n + 1 \in T
    PROVE  \A n \in Nat : n \in T
<1> DEFINE missed == Nat \ T
           R == {ss \in Nat \X Nat : ss[1] < ss[2]}
<1>1. SUFFICES ASSUME missed # {} PROVE FALSE
  OBVIOUS
<1>2. IsWellFoundedOn(R, Nat)
  BY NatLessThanWellFounded DEF OpToRel
<1>3. PICK x \in missed : \A y \in missed : ~ (<<y, x>> \in R)
  <2>1. missed \subseteq Nat
    OBVIOUS
  <2> HIDE DEF missed, R
  <2> QED
    BY <1>1, <1>2, <2>1, WFMin
<1>4. x \in Nat /\ x # 0 /\ x - 1 \in Nat /\ (x - 1) + 1 = x /\ x - 1 < x
  BY <1>3
<1>5. <<x - 1, x>> \in R
  BY <1>4
<1>6. x - 1 \in T
  BY <1>3, <1>4, <1>5
<1> QED
  BY <1>3, <1>4, <1>6

\* A set of numbers with a bound has a greatest element, which Max chooses.
LEMMA MaxOfBounded ==
    ASSUME NEW n \in Int, NEW s \in SUBSET Int, s # {}, \A k \in s : k <= n
    PROVE  Max(s) \in s /\ \A k \in s : k <= Max(s)
<1> DEFINE Bounded(m) == \E k \in s : k >= m
           T == {m \in Nat : (\E k \in s : n - m <= k) => \E x \in s : \A k \in s : x >= k}
<1>1. 0 \in T
  <2>1. ASSUME NEW k \in s, n - 0 <= k PROVE \A y \in s : k >= y
    BY <2>1
  <2> QED
    BY <2>1
<1>2. ASSUME NEW m \in Nat, m \in T PROVE m + 1 \in T
  <2>1. CASE \E k \in s : n - m <= k
    BY <1>2, <2>1
  <2>2. CASE ~ \E k \in s : n - m <= k
    <3>1. ASSUME NEW k \in s, n - (m + 1) <= k PROVE \A y \in s : k >= y
      BY <2>2, <3>1
    <3> QED
      BY <3>1
  <2> QED
    BY <2>1, <2>2
<1>3. \A m \in Nat : m \in T
  <2> HIDE DEF T
  <2> QED
    BY <1>1, <1>2, SetInduction
<1>4. \E x \in s : \A k \in s : x >= k
  <2>1. PICK k \in s : TRUE
    OBVIOUS
  <2>2. n - k \in Nat /\ n - (n - k) <= k
    BY <2>1
  <2> QED
    BY <1>3, <2>1, <2>2
<1>5. Max(s) \in s /\ \A k \in s : Max(s) >= k
  BY <1>4 DEF Max
<1>6. ASSUME NEW k \in s PROVE k <= Max(s)
  BY <1>5
<1> QED
  BY <1>5, <1>6

\* So have the positions up to n.
LEMMA MaxOfSome ==
    ASSUME NEW n \in Nat, NEW s \in SUBSET (1..n), s # {}
    PROVE  Max(s) \in s /\ \A k \in s : k <= Max(s)
<1>1. n \in Int /\ s \in SUBSET Int /\ s # {} /\ \A k \in s : k <= n
  OBVIOUS
<1> QED
  BY <1>1, MaxOfBounded

\* The greatest element of a range.
LEMMA MaxOfRange ==
    ASSUME NEW n \in Nat
    PROVE  Max(1..(n + 1)) = n + 1
<1> DEFINE m == n + 1
           s == 1..m
<1>1. m \in Nat /\ m \in s /\ s \in SUBSET (1..m) /\ s # {}
  OBVIOUS
<1>2. Max(s) \in s /\ \A k \in s : k <= Max(s)
  <2> HIDE DEF s, m
  <2> QED
    BY <1>1, MaxOfSome
<1>3. Max(s) \in 1..m /\ m <= Max(s)
  BY <1>1, <1>2
<1> QED
  BY <1>1, <1>3

\* Folding by a function.
OneFold(h, g, base, items, s) ==
    h[s] = IF s = {} THEN base ELSE g[<<h[s \ {Max(s)}], items[Max(s)]>>]

\* Such a fold exists, over every set of positions.
LEMMA RunExists ==
    ASSUME NEW A, NEW B, NEW g \in [A \X B -> A], NEW base \in A, NEW items \in Seq(B)
    PROVE  \E h \in [SUBSET (1..Len(items)) -> A] :
             \A s \in SUBSET (1..Len(items)) : OneFold(h, g, base, items, s)
<1> DEFINE Good(n) == \E h \in [SUBSET (1..n) -> A] :
                        \A s \in SUBSET (1..n) : OneFold(h, g, base, items, s)
           T == {n \in Nat : n <= Len(items) => Good(n)}
<1>0. Len(items) \in Nat /\ \A i \in 1..Len(items) : items[i] \in B
  OBVIOUS
<1>1. Good(0)
  <2> DEFINE h == [s \in SUBSET (1..0) |-> base]
  <2>1. h \in [SUBSET (1..0) -> A]
    OBVIOUS
  <2>2. ASSUME NEW s \in SUBSET (1..0) PROVE OneFold(h, g, base, items, s)
    <3>1. s = {} /\ h[s] = base
      OBVIOUS
    <3> HIDE DEF h
    <3> QED
      BY <3>1 DEF OneFold
  <2> HIDE DEF h
  <2> QED
    BY <2>1, <2>2
<1>2. ASSUME NEW n \in Nat, n + 1 <= Len(items), Good(n) PROVE Good(n + 1)
  <2>2. PICK f \in [SUBSET (1..n) -> A] : \A s \in SUBSET (1..n) : OneFold(f, g, base, items, s)
    BY <1>2
  <2>3. items[n + 1] \in B
    BY <1>0, <1>2
  <2> DEFINE h == [s \in SUBSET (1..(n + 1)) |->
                     IF n + 1 \in s THEN g[<<f[s \ {n + 1}], items[n + 1]>>] ELSE f[s]]
  <2>4. ASSUME NEW s \in SUBSET (1..(n + 1))
        PROVE  h[s] \in A /\ OneFold(h, g, base, items, s)
    <3>1. CASE n + 1 \in s
      <4>1. s \ {n + 1} \in SUBSET (1..n) /\ s \ {n + 1} \in SUBSET (1..(n + 1))
        OBVIOUS
      <4>2. Max(s) = n + 1
        <5>1. s # {} /\ n + 1 \in Nat
          BY <3>1
        <5>2. Max(s) \in s /\ \A k \in s : k <= Max(s)
          BY <5>1, MaxOfSome
        <5>3. Max(s) \in 1..(n + 1) /\ n + 1 <= Max(s)
          BY <3>1, <5>2
        <5> QED
          BY <5>3
      <4>3. h[s] = g[<<f[s \ {n + 1}], items[n + 1]>>] /\ h[s \ {n + 1}] = f[s \ {n + 1}]
        BY <3>1, <4>1
      <4>4. h[s] \in A
        BY <2>3, <4>1, <4>3
      <4> HIDE DEF h
      <4> QED
        BY <3>1, <4>2, <4>3, <4>4 DEF OneFold
    <3>2. CASE n + 1 \notin s
      <4>1. s \in SUBSET (1..n)
        BY <3>2
      <4>2. h[s] = f[s] /\ f[s] \in A /\ OneFold(f, g, base, items, s)
        BY <2>2, <3>2, <4>1
      <4>3. s \ {Max(s)} \in SUBSET (1..(n + 1)) /\ n + 1 \notin s \ {Max(s)}
        BY <3>2
      <4>4. h[s \ {Max(s)}] = f[s \ {Max(s)}]
        BY <4>3
      <4> HIDE DEF h
      <4> QED
        BY <4>2, <4>4 DEF OneFold
    <3> QED
      BY <3>1, <3>2
  <2>5. h \in [SUBSET (1..(n + 1)) -> A]
    BY <2>4
  <2> HIDE DEF h
  <2> QED
    BY <2>4, <2>5
<1>3. Len(items) \in T
  <2> HIDE DEF Good
  <2>1. 0 \in T
    BY <1>1
  <2>2. ASSUME NEW n \in Nat, n \in T PROVE n + 1 \in T
    BY <1>0, <1>2, <2>2
  <2> HIDE DEF T
  <2> QED
    BY <1>0, <2>1, <2>2, SetInduction
<1>4. Good(Len(items))
  <2> HIDE DEF Good
  <2> QED
    BY <1>0, <1>3
<1> QED
  BY <1>4

\* The value after each element, when g folds items from base on.
FoldSteps(A, g, base, items, r) ==
    /\ r \in [0..Len(items) -> A]
    /\ r[0] = base
    /\ \A k \in 0..(Len(items) - 1) : r[k + 1] = g[<<r[k], items[k + 1]>>]

\* Folding items by g from base on comes to v.
ComesTo(A, g, base, items, v) == \E r : FoldSteps(A, g, base, items, r) /\ r[Len(items)] = v

\* A function on sets of positions that satisfies the equations of a fold, as far
\* as its values are known to be in A.
FoldsBy(A, g, base, items, h) ==
    /\ h[{}] = base
    /\ \A s \in SUBSET (1..Len(items)) :
         s # {} /\ h[s \ {Max(s)}] \in A => h[s] = g[<<h[s \ {Max(s)}], items[Max(s)]>>]

\* A function that satisfies a fold's equations, as far as its values are known to
\* be in A, takes the fold's steps on the first elements of the itemsuence.
LEMMA FoldHasSteps ==
    ASSUME NEW A, NEW B, NEW g \in [A \X B -> A], NEW base \in A, NEW items \in Seq(B),
           NEW h, FoldsBy(A, g, base, items, h)
    PROVE  ComesTo(A, g, base, items, h[1..Len(items)])
<1> DEFINE T == {n \in Nat : n <= Len(items) => h[1..n] \in A}
           r == [k \in 0..Len(items) |-> h[1..k]]
<1>0. Len(items) \in Nat /\ \A i \in 1..Len(items) : items[i] \in B
  OBVIOUS
<1>1. h[1..0] = base
  <2>1. 1..0 = {}
    OBVIOUS
  <2> QED
    BY <2>1 DEF FoldsBy
<1>2. ASSUME NEW n \in Nat, n + 1 <= Len(items), h[1..n] \in A
      PROVE  h[1..(n + 1)] = g[<<h[1..n], items[n + 1]>>]
  <2>1. n + 1 \in 1..(n + 1) /\ 1..(n + 1) \in SUBSET (1..Len(items))
    BY <1>0, <1>2
  <2>2. 1..(n + 1) # {}
    BY <2>1
  <2>3. Max(1..(n + 1)) = n + 1
    BY MaxOfRange
  <2>4. (1..(n + 1)) \ {n + 1} = 1..n
    OBVIOUS
  <2> QED
    BY <1>2, <2>1, <2>2, <2>3, <2>4 DEF FoldsBy
<1>3. \A n \in Nat : n \in T
  <2>1. 0 \in T
    BY <1>1
  <2>2. ASSUME NEW n \in Nat, n \in T PROVE n + 1 \in T
    <3>1. SUFFICES ASSUME n + 1 <= Len(items) PROVE h[1..(n + 1)] \in A
      OBVIOUS
    <3>2. h[1..n] \in A /\ items[n + 1] \in B
      BY <1>0, <2>2, <3>1
    <3>3. h[1..(n + 1)] = g[<<h[1..n], items[n + 1]>>]
      BY <1>2, <3>1, <3>2
    <3> QED
      BY <3>2, <3>3
  <2> HIDE DEF T
  <2> QED
    BY <2>1, <2>2, SetInduction
<1>4. \A k \in 0..Len(items) : k \in Nat /\ h[1..k] \in A
  BY <1>0, <1>3
<1>5. r \in [0..Len(items) -> A] /\ r[0] = base /\ r[Len(items)] = h[1..Len(items)]
  BY <1>0, <1>1, <1>4
<1>6. ASSUME NEW k \in 0..(Len(items) - 1) PROVE r[k + 1] = g[<<r[k], items[k + 1]>>]
  <2>1. k \in 0..Len(items) /\ k + 1 \in 0..Len(items) /\ k + 1 <= Len(items) /\ k \in Nat
    BY <1>0
  <2>2. h[1..(k + 1)] = g[<<h[1..k], items[k + 1]>>]
    BY <1>2, <1>4, <2>1
  <2> QED
    BY <2>1, <2>2
<1> HIDE DEF r
<1> QED
  BY <1>5, <1>6 DEF FoldSteps, ComesTo


-----------------------------------------------------------------------------
(* Numbers of the wire *)

Words == Addresses \cup {Invalid}
Marks == 0..HexMark
ParseStep(base) == [p \in Words \X Marks |-> ParseDigit(p[1], p[2], base)]
Parsed(base, digits) == FoldLeft(LAMBDA v, d : ParseDigit(v, d, base), 0, digits)
SpellStep(base) == [p \in Nat \X Marks |-> p[1] * base + p[2]]
Denoted(base, digits) == FoldLeft(LAMBDA v, d : v * base + d, 0, digits)

\* One digit leaves a word or a refusal.
LEMMA ParseDigitType ==
    ASSUME NEW base \in {Ten, Sixteen}, NEW v \in Words, NEW d \in Marks
    PROVE  ParseDigit(v, d, base) \in Words
<1>1. CASE v = Invalid \/ d \notin DigitsOf(base)
  BY <1>1 DEF ParseDigit, Words
<1>2. CASE v \in Addresses /\ d \in DigitsOf(base)
  <2>1. ParseDigit(v, d, base) = IF v * base + d < Space THEN v * base + d ELSE Invalid
    BY <1>2, DigitIsExact
  <2>2. v * base + d \in Nat /\ Space \in Nat
    BY <1>2, SpaceFacts DEF Ten, Sixteen, Addresses, DigitsOf
  <2> QED
    BY <2>1, <2>2 DEF Words, Addresses
<1> QED
  BY <1>1, <1>2 DEF Words

\* A digit leads from a word or a refusal to a word or a refusal.
LEMMA ParseStepType ==
    ASSUME NEW base \in {Ten, Sixteen}
    PROVE  ParseStep(base) \in [Words \X Marks -> Words] /\ 0 \in Words
<1>1. ASSUME NEW p \in Words \X Marks PROVE ParseDigit(p[1], p[2], base) \in Words
  <2>1. p[1] \in Words /\ p[2] \in Marks
    OBVIOUS
  <2> QED
    BY <2>1, ParseDigitType
<1>2. 0 \in Words
  BY SpaceFacts DEF Words, Addresses
<1> QED
  BY <1>1, <1>2 DEF ParseStep

\* A digit leads from a number to a number.
LEMMA SpellStepType ==
    ASSUME NEW base \in {Ten, Sixteen}
    PROVE  SpellStep(base) \in [Nat \X Marks -> Nat] /\ 0 \in Nat
<1>1. ASSUME NEW p \in Nat \X Marks PROVE p[1] * base + p[2] \in Nat
  BY DEF Marks, Ten, Sixteen
<1> QED
  BY <1>1 DEF SpellStep

\* MemParseU32 takes its digits one after the other.
LEMMA ParsedSteps ==
    ASSUME NEW base \in {Ten, Sixteen}, NEW digits \in Seq(Marks)
    PROVE  ComesTo(Words, ParseStep(base), 0, digits, Parsed(base, digits))
<1> DEFINE g == ParseStep(base)
           Is(h) == h = [s \in SUBSET DOMAIN digits |->
                          IF s = {} THEN 0 ELSE ParseDigit(h[s \ {Max(s)}], digits[Max(s)], base)]
<1>0. DOMAIN digits = 1..Len(digits) /\ Len(digits) \in Nat
      /\ \A i \in 1..Len(digits) : digits[i] \in Marks
  OBVIOUS
<1>1. Parsed(base, digits) = (CHOOSE h : Is(h))[DOMAIN digits]
  BY DEF Parsed, FoldLeft, MapThenFoldSet
<1>2. ASSUME NEW s \in SUBSET (1..Len(digits)), s # {}
      PROVE  digits[Max(s)] \in Marks /\ s \ {Max(s)} \in SUBSET (1..Len(digits))
  BY <1>0, <1>2, MaxOfSome
<1>3. ASSUME NEW a \in Words, NEW b \in Marks PROVE g[<<a, b>>] = ParseDigit(a, b, base)
  BY <1>3 DEF ParseStep
<1>4. g \in [Words \X Marks -> Words] /\ 0 \in Words
  BY ParseStepType
<1> HIDE DEF g
<1>5. \E h : Is(h)
  <2>1. PICK h \in [SUBSET (1..Len(digits)) -> Words] :
          \A s \in SUBSET (1..Len(digits)) : OneFold(h, g, 0, digits, s)
    BY <1>4, RunExists
  <2>2. ASSUME NEW s \in SUBSET DOMAIN digits
        PROVE  h[s] = IF s = {} THEN 0 ELSE ParseDigit(h[s \ {Max(s)}], digits[Max(s)], base)
    BY <1>0, <1>2, <1>3, <2>1 DEF OneFold
  <2>3. Is(h)
    BY <1>0, <2>1, <2>2
  <2> QED
    BY <2>3
<1>6. PICK h : Is(h) /\ Parsed(base, digits) = h[DOMAIN digits]
  <2> HIDE DEF Is
  <2> QED
    BY <1>1, <1>5
<1>7. ASSUME NEW s \in SUBSET (1..Len(digits)), s # {}, h[s \ {Max(s)}] \in Words
      PROVE  h[s] = g[<<h[s \ {Max(s)}], digits[Max(s)]>>]
  <2>1. h[s] = ParseDigit(h[s \ {Max(s)}], digits[Max(s)], base)
    BY <1>0, <1>6, <1>7
  <2> QED
    BY <1>2, <1>3, <1>7, <2>1
<1>8. h[{}] = 0
  <2>1. {} \in SUBSET DOMAIN digits
    OBVIOUS
  <2> QED
    BY <1>6, <2>1
<1> HIDE DEF Is
<1>9. FoldsBy(Words, g, 0, digits, h)
  BY <1>7, <1>8 DEF FoldsBy
<1>10. ComesTo(Words, g, 0, digits, h[1..Len(digits)])
  BY <1>4, <1>9, FoldHasSteps
<1> QED
  BY <1>0, <1>6, <1>10 DEF g

\* The number that digits spell, one digit after the other.
LEMMA SpelledSteps ==
    ASSUME NEW base \in {Ten, Sixteen}, NEW digits \in Seq(Marks)
    PROVE  ComesTo(Nat, SpellStep(base), 0, digits, Denoted(base, digits))
<1> DEFINE g == SpellStep(base)
           Is(h) == h = [s \in SUBSET DOMAIN digits |->
                          IF s = {} THEN 0 ELSE h[s \ {Max(s)}] * base + digits[Max(s)]]
<1>0. DOMAIN digits = 1..Len(digits) /\ Len(digits) \in Nat
      /\ \A i \in 1..Len(digits) : digits[i] \in Marks
  OBVIOUS
<1>1. Denoted(base, digits) = (CHOOSE h : Is(h))[DOMAIN digits]
  BY DEF Denoted, FoldLeft, MapThenFoldSet
<1>2. ASSUME NEW s \in SUBSET (1..Len(digits)), s # {}
      PROVE  digits[Max(s)] \in Marks /\ s \ {Max(s)} \in SUBSET (1..Len(digits))
  BY <1>0, <1>2, MaxOfSome
<1>3. ASSUME NEW a \in Nat, NEW b \in Marks PROVE g[<<a, b>>] = a * base + b
  BY <1>3 DEF SpellStep
<1>4. g \in [Nat \X Marks -> Nat] /\ 0 \in Nat
  BY SpellStepType
<1> HIDE DEF g
<1>5. \E h : Is(h)
  <2>1. PICK h \in [SUBSET (1..Len(digits)) -> Nat] :
          \A s \in SUBSET (1..Len(digits)) : OneFold(h, g, 0, digits, s)
    BY <1>4, RunExists
  <2>2. ASSUME NEW s \in SUBSET DOMAIN digits
        PROVE  h[s] = IF s = {} THEN 0 ELSE h[s \ {Max(s)}] * base + digits[Max(s)]
    BY <1>0, <1>2, <1>3, <2>1 DEF OneFold
  <2>3. Is(h)
    BY <1>0, <2>1, <2>2
  <2> QED
    BY <2>3
<1>6. PICK h : Is(h) /\ Denoted(base, digits) = h[DOMAIN digits]
  <2> HIDE DEF Is
  <2> QED
    BY <1>1, <1>5
<1>7. ASSUME NEW s \in SUBSET (1..Len(digits)), s # {}, h[s \ {Max(s)}] \in Nat
      PROVE  h[s] = g[<<h[s \ {Max(s)}], digits[Max(s)]>>]
  <2>1. h[s] = h[s \ {Max(s)}] * base + digits[Max(s)]
    BY <1>0, <1>6, <1>7
  <2> QED
    BY <1>2, <1>3, <1>7, <2>1
<1>8. h[{}] = 0
  <2>1. {} \in SUBSET DOMAIN digits
    OBVIOUS
  <2> QED
    BY <1>6, <2>1
<1> HIDE DEF Is
<1>9. FoldsBy(Nat, g, 0, digits, h)
  BY <1>7, <1>8 DEF FoldsBy
<1>10. ComesTo(Nat, g, 0, digits, h[1..Len(digits)])
  BY <1>4, <1>9, FoldHasSteps
<1> QED
  BY <1>0, <1>6, <1>10 DEF g

\* MemParseU32's loop over digits of its base yields the number they spell, where that
\* is a word, and a refusal where not; with any other symbol among them it refuses.
LEMMA ParsedIsSpelled ==
    ASSUME NEW base \in {Ten, Sixteen}, NEW digits \in Seq(Marks)
    PROVE  Parsed(base, digits) =
             IF ToSet(digits) \subseteq DigitsOf(base) /\ Denoted(base, digits) < Space
             THEN Denoted(base, digits) ELSE Invalid
<1>0. /\ Len(digits) \in Nat /\ \A i \in 1..Len(digits) : digits[i] \in Marks
      /\ ToSet(digits) = {digits[i] : i \in 1..Len(digits)}
  BY DEF ToSet
<1>1. PICK r : FoldSteps(Words, ParseStep(base), 0, digits, r) /\ r[Len(digits)] = Parsed(base, digits)
  BY ParsedSteps DEF ComesTo
<1>2. PICK t : FoldSteps(Nat, SpellStep(base), 0, digits, t) /\ t[Len(digits)] = Denoted(base, digits)
  BY SpelledSteps DEF ComesTo
<1> DEFINE Spelling(k) == \A i \in 1..k : digits[i] \in DigitsOf(base)
           RightAt(k) == r[k] = IF Spelling(k) /\ t[k] < Space THEN t[k] ELSE Invalid
           T == {k \in Nat : k <= Len(digits) => RightAt(k)}
<1>3. 0 \in T
  BY <1>1, <1>2, SpaceFacts DEF FoldSteps
<1>4. ASSUME NEW k \in Nat, k \in T PROVE k + 1 \in T
  <2>1. SUFFICES ASSUME k + 1 <= Len(digits) PROVE RightAt(k + 1)
    OBVIOUS
  <2> DEFINE d == digits[k + 1]
  <2>2. k \in 0..(Len(digits) - 1) /\ k \in 0..Len(digits) /\ k + 1 \in 0..Len(digits) /\ k + 1 \in 1..Len(digits)
    BY <1>0, <2>1
  <2>3. r[k] \in Words /\ t[k] \in Nat /\ d \in Marks
    BY <1>0, <1>1, <1>2, <2>2 DEF FoldSteps
  <2>4. r[k + 1] = ParseDigit(r[k], d, base)
    <3>1. r[k + 1] = ParseStep(base)[<<r[k], d>>]
      BY <1>1, <2>2 DEF FoldSteps
    <3> QED
      BY <2>3, <3>1 DEF ParseStep
  <2>5. t[k + 1] = t[k] * base + d
    <3>1. t[k + 1] = SpellStep(base)[<<t[k], d>>]
      BY <1>2, <2>2 DEF FoldSteps
    <3> QED
      BY <2>3, <3>1 DEF SpellStep
  <2>6. RightAt(k)
    BY <1>4, <2>2, <1>0
  <2>7. Spelling(k + 1) <=> Spelling(k) /\ d \in DigitsOf(base)
    <3>1. 1..(k + 1) = (1..k) \cup {k + 1}
      OBVIOUS
    <3> QED
      BY <3>1
  <2> HIDE DEF Spelling, d
  <2>8. t[k + 1] \in Nat /\ t[k] <= t[k + 1]
    BY <2>3, <2>5 DEF Marks, Ten, Sixteen
  <2>9. CASE ~Spelling(k) \/ t[k] >= Space
    <3>1. r[k] = Invalid
      BY <2>3, <2>6, <2>9, SpaceFacts
    <3>2. r[k + 1] = Invalid
      BY <2>4, <3>1 DEF ParseDigit
    <3> QED
      BY <2>3, <2>7, <2>8, <2>9, <3>2, SpaceFacts
  <2>10. CASE Spelling(k) /\ t[k] < Space
    <3>1. r[k] = t[k] /\ t[k] \in Addresses
      BY <2>3, <2>6, <2>10, SpaceFacts DEF Addresses
    <3>2. CASE d \in DigitsOf(base)
      <4>1. r[k + 1] = IF t[k + 1] < Space THEN t[k + 1] ELSE Invalid
        BY <2>4, <2>5, <3>1, <3>2, DigitIsExact
      <4> QED
        BY <2>7, <2>10, <3>2, <4>1
    <3>3. CASE d \notin DigitsOf(base)
      <4>1. r[k + 1] = Invalid
        BY <2>4, <3>3 DEF ParseDigit
      <4> QED
        BY <2>7, <3>3, <4>1
    <3> QED
      BY <3>2, <3>3
  <2> QED
    BY <2>3, <2>9, <2>10, SpaceFacts
<1>5. RightAt(Len(digits))
  <2> HIDE DEF RightAt
  <2>1. 0 \in T /\ \A k \in Nat : k \in T => k + 1 \in T
    BY <1>3, <1>4
  <2>2. Len(digits) \in T
    <3> HIDE DEF T
    <3> QED
      BY <1>0, <2>1, SetInduction
  <2> QED
    BY <1>0, <2>2
<1>6. Spelling(Len(digits)) <=> ToSet(digits) \subseteq DigitsOf(base)
  BY <1>0
<1> QED
  BY <1>1, <1>2, <1>5, <1>6

\* ParseIsExact: a number of the wire is read exactly or refused, however long.
LEMMA ParseHolds ==
    ASSUME NEW text \in Seq(Marks)
    PROVE  ParseIsExact(text)
<1> DEFINE hex == Len(text) >= 2 /\ text[1] = 0 /\ text[2] = HexMark
           digits == IF hex THEN SubSeq(text, 3, Len(text)) ELSE text
           base == IF hex THEN Sixteen ELSE Ten
           refused == digits = <<>> \/ HexMark \in ToSet(digits)
<1>1. digits \in Seq(Marks) /\ base \in {Ten, Sixteen}
  <2>1. SubSeq(text, 3, Len(text)) \in Seq(Marks)
    OBVIOUS
  <2> QED
    BY <2>1
<1>2. MemParseU32(text) = IF refused THEN Invalid ELSE Parsed(base, digits)
  BY Zenon DEF MemParseU32, Parsed
<1>3. ParseIsExact(text) <=>
        IF refused \/ ~(ToSet(digits) \subseteq DigitsOf(base)) THEN MemParseU32(text) = Invalid
        ELSE MemParseU32(text) = IF Denoted(base, digits) < Space THEN Denoted(base, digits) ELSE Invalid
  BY Zenon DEF ParseIsExact, Denoted
<1> HIDE DEF digits, base, refused
<1>4. Parsed(base, digits) =
        IF ToSet(digits) \subseteq DigitsOf(base) /\ Denoted(base, digits) < Space
        THEN Denoted(base, digits) ELSE Invalid
  BY <1>1, ParsedIsSpelled
<1> QED
  BY <1>2, <1>3, <1>4

-----------------------------------------------------------------------------
(* Programs *)

Files == Seq(Int)

\* The offset of a header is a number.
LEMMA OffsetType ==
    ASSUME NEW file \in Files, Len(file) >= DosSize
    PROVE  Offset(file) \in Int /\ Wrap(Offset(file) + 2) \in Int
<1>1. ASSUME NEW n \in Int PROVE Wrap(n) \in Int
  <2> DEFINE b == Base * Base
             m == n % b
  <2>1. b \in Nat /\ b > 0
    BY BinFmtAssumption
  <2> HIDE DEF b
  <2>2. m \in Int
    BY <2>1
  <2>3. Wrap(n) = IF 2 * m < b THEN m ELSE m - b
    BY DEF Wrap, b
  <2> HIDE DEF m
  <2> QED
    BY <2>1, <2>2, <2>3
<1>2. DosSize - 1 \in 1..Len(file) /\ DosSize \in 1..Len(file)
  BY BinFmtAssumption
<1>3. file[DosSize - 1] + Base * file[DosSize] \in Int
  <2>1. file[DosSize - 1] \in Int /\ file[DosSize] \in Int /\ Base \in Int
    BY <1>2, BinFmtAssumption DEF Files
  <2> QED
    BY <2>1
<1> QED
  BY <1>1, <1>3 DEF Offset

\* The bytes that are read say what the file says, where they reach as far.
LEMMA FirstBytesSay ==
    ASSUME NEW file \in Files, NEW offset \in Nat, NEW magic \in {MZ, NE, PE}
    PROVE  /\ Says(FirstBytes(file), offset, magic) => Says(file, offset, magic)
           /\ Says(file, offset, magic) /\ offset + Len(magic) <= ReadBytes =>
                Says(FirstBytes(file), offset, magic)
<1> DEFINE buf == FirstBytes(file)
           n == offset + Len(magic)
<1>1. Len(magic) \in Nat /\ Len(magic) <= 4 /\ n \in Nat /\ Len(file) \in Nat /\ ReadBytes \in Nat
  <2>1. Len(magic) = 2 \/ Len(magic) = 4
    BY DEF MZ, NE, PE
  <2>2. Len(magic) \in Nat /\ Len(magic) <= 4
    <3> DEFINE l == Len(magic)
    <3> HIDE DEF l
    <3>1. (l = 2 \/ l = 4) => l \in Nat /\ l <= 4
      OBVIOUS
    <3> QED
      BY <2>1, <3>1 DEF l
  <2>3. n \in Nat
    BY <2>2
  <2> HIDE DEF n
  <2> QED
    BY <2>2, <2>3, BinFmtAssumption DEF Files
<1>2. /\ buf \in Files /\ Len(buf) = IF Len(file) < ReadBytes THEN Len(file) ELSE ReadBytes
      /\ \A i \in 1..Len(buf) : buf[i] = file[i]
  BY <1>1 DEF FirstBytes, Files
<1>3. ASSUME n <= Len(buf)
      PROVE  n <= Len(file) /\ SubSeq(buf, offset + 1, n) = SubSeq(file, offset + 1, n)
  <2>1. n <= Len(file) /\ \A i \in 1..n : buf[i] = file[i]
    BY <1>1, <1>2, <1>3
  <2> DEFINE a == SubSeq(buf, offset + 1, n)
             b == SubSeq(file, offset + 1, n)
  <2>2. a \in Files /\ b \in Files /\ Len(a) = Len(b) /\ Len(a) = n - offset
    <3>1. ASSUME NEW x \in Files, n <= Len(x)
          PROVE  SubSeq(x, offset + 1, n) \in Files /\ Len(SubSeq(x, offset + 1, n)) = n - offset
      <4> DEFINE m == offset + 1
      <4>1. m \in Nat \ {0} /\ m <= n + 1 /\ n \in Nat /\ n - m + 1 = n - offset
        BY <1>1
      <4> HIDE DEF m, n
      <4>2. \A i \in m..n : i \in 1..Len(x)
        BY <3>1, <4>1 DEF Files
      <4>3. SubSeq(x, m, n) \in Files
        BY <3>1, <4>1, <4>2 DEF Files
      <4>4. Len(SubSeq(x, m, n)) = n - m + 1
        BY <3>1, <4>1 DEF Files
      <4> QED
        BY <4>1, <4>3, <4>4 DEF m
    <3> QED
      BY <1>2, <1>3, <2>1, <3>1
  <2>3. ASSUME NEW i \in 1..Len(a) PROVE a[i] = b[i]
    <3>1. offset + i \in 1..n
      BY <1>1, <2>2
    <3>2. a[i] = buf[offset + i] /\ b[i] = file[offset + i]
      BY <1>1, <1>2, <1>3, <2>1, <2>2 DEF Files
    <3> QED
      BY <2>1, <3>1, <3>2
  <2> HIDE DEF a, b
  <2> QED
    BY <2>1, <2>2, <2>3 DEF Files, a, b
<1> HIDE DEF buf
<1>4. Says(buf, offset, magic) => Says(file, offset, magic)
  BY <1>1, <1>2, <1>3 DEF Says
<1>5. Says(file, offset, magic) /\ n <= ReadBytes => Says(buf, offset, magic)
  BY <1>1, <1>2, <1>3 DEF Says
<1> QED
  BY <1>4, <1>5 DEF buf

\* classify_from_header tells what a file is, where its offset does not overflow:
\* a 16-bit program is spared, and a 32-bit one is not, if its new header was read.
LEMMA HeaderIsTold ==
    ASSUME NEW file \in Files,
           Len(file) >= DosSize => Offset(file) + 2 = Wrap(Offset(file) + 2)
    PROVE  /\ Kind(file) \in {"mz", "ne16"} => \A class \in HeaderClasses(file) : Spared(class)
           /\ Kind(file) = "pe32" /\ Offset(file) + Len(PE) <= ReadBytes =>
                HeaderClasses(file) = {"pe32"}
<1> DEFINE buf == FirstBytes(file)
           at == Offset(file)
<1>1. DosSize \in Nat /\ DosSize >= 4 /\ ReadBytes \in Nat /\ ReadBytes > DosSize /\ Len(file) \in Nat
      /\ Len(MZ) = 2 /\ Len(PE) = 4
  BY BinFmtAssumption DEF Files, MZ, PE
<1>2. /\ buf \in Files /\ Len(buf) = IF Len(file) < ReadBytes THEN Len(file) ELSE ReadBytes
      /\ \A i \in 1..Len(buf) : buf[i] = file[i]
  BY <1>1 DEF FirstBytes, Files
<1>3. Says(buf, 0, MZ) <=> Says(file, 0, MZ)
  <2>1. 0 \in Nat /\ MZ \in {MZ, NE, PE} /\ 0 + Len(MZ) <= ReadBytes
    BY <1>1
  <2> QED
    BY <2>1, FirstBytesSay
<1>4. CASE ~Says(file, 0, MZ)
  BY <1>3, <1>4 DEF Kind, HeaderClasses
<1>5. CASE Says(file, 0, MZ) /\ Len(file) < DosSize
  <2>1. Len(buf) < DosSize
    BY <1>1, <1>2, <1>5
  <2> QED
    BY <1>3, <1>5, <2>1 DEF Kind, HeaderClasses, Spared
<1>6. CASE Says(file, 0, MZ) /\ Len(file) >= DosSize
  <2>1. Len(buf) >= DosSize /\ ~(Len(buf) < DosSize) /\ ~(Len(file) < DosSize)
    BY <1>1, <1>2, <1>6
  <2>2. Offset(buf) = at /\ at \in Int /\ Wrap(at + 2) = at + 2
    <3>1. buf[DosSize - 1] = file[DosSize - 1] /\ buf[DosSize] = file[DosSize]
      BY <1>1, <1>2, <2>1
    <3> QED
      BY <1>6, <3>1, OffsetType DEF Offset
  <2>3. HeaderClasses(file) = NewHeader(buf)
    BY <1>3, <1>6, <2>1 DEF HeaderClasses
  <2> HIDE DEF at, buf
  <2>4. CASE at < DosSize
    <3>1. NewHeader(buf) = {"mz"} /\ ~(at >= DosSize)
      BY <1>1, <2>2, <2>4 DEF NewHeader
    <3>2. Kind(file) = "mz"
      BY <1>6, <2>1, <3>1 DEF Kind, at
    <3> QED
      BY <2>3, <3>1, <3>2 DEF Spared
  <2>5. CASE at >= DosSize
    <3>1. at \in Nat /\ ~(at < DosSize) /\ ~(Wrap(at + 2) < 0)
      BY <1>1, <2>2, <2>5
    <3>2. NewHeader(buf) = IF Says(buf, at, PE) THEN {"pe32"}
                           ELSE IF Says(buf, at, NE) THEN {"ne16"} ELSE {"mz"}
      BY <2>2, <3>1 DEF NewHeader
    <3>3. Kind(file) = IF Says(file, at, PE) THEN "pe32"
                       ELSE IF Says(file, at, NE) THEN "ne16" ELSE "mz"
      BY <1>6, <2>1, <2>5 DEF Kind, at
    <3>4. /\ Says(buf, at, PE) => Says(file, at, PE)
          /\ Says(file, at, PE) /\ at + Len(PE) <= ReadBytes => Says(buf, at, PE)
      BY <3>1, FirstBytesSay DEF buf
    <3> QED
      BY <2>3, <3>2, <3>3, <3>4 DEF Spared, at
  <2> QED
    BY <1>1, <2>2, <2>4, <2>5
<1> QED
  BY <1>1, <1>4, <1>5, <1>6

\* BinFmtClassify tells what a file is to the system that starts it, for a file of
\* any bytes and any length, not only for those that BinaryIsTold makes.
LEMMA FileIsTold ==
    ASSUME NEW file \in Files, NEW name \in {"path", "extension", "bare"},
           NEW host \in Lookups(AnswersFor(Kind(file))),
           \/ host.kernel \in DOMAIN ScsClass /\ host.found # "nowhere"
           \/ /\ host.readable /\ host.found \in Opens(name)
              /\ Len(file) >= DosSize => Offset(file) + 2 = Wrap(Offset(file) + 2)
    PROVE  LET told == Classify(name, host, file)
           IN  /\ Kind(file) \in {"mz", "ne16"} => \A class \in told : Spared(class)
               /\ Kind(file) = "pe32" /\ (host.kernel \in DOMAIN ScsClass \/ Offset(file) + Len(PE) <= ReadBytes) =>
                    told = {"pe32"}
<1>1. Kind(file) \in {"other", "mz", "pe32", "ne16"}
  BY DEF Kind
<1>2. host.found # "nowhere"
  BY DEF Opens
<1>3. host.kernel \in {"absent", "fails"} \cup AnswersFor(Kind(file))
  BY DEF Lookups
<1>4. CASE host.kernel \in DOMAIN ScsClass
  <2>1. Classify(name, host, file) = {ScsClass[host.kernel]}
    BY <1>2, <1>4 DEF Classify
  <2>2. host.kernel \in AnswersFor(Kind(file))
    BY <1>3, <1>4 DEF ScsClass
  <2>3. CASE Kind(file) = "pe32"
    BY <2>1, <2>2, <2>3 DEF AnswersFor, ScsClass
  <2>4. CASE Kind(file) = "mz"
    BY <2>1, <2>2, <2>4 DEF AnswersFor, ScsClass, Spared
  <2>5. CASE Kind(file) = "ne16"
    BY <2>1, <2>2, <2>5 DEF AnswersFor, ScsClass, Spared
  <2>6. CASE Kind(file) = "other"
    BY <2>6
  <2> QED
    BY <1>1, <2>3, <2>4, <2>5, <2>6
<1>5. CASE host.kernel \notin DOMAIN ScsClass
  <2>1. Classify(name, host, file) = HeaderClasses(file)
    BY <1>2, <1>5 DEF Classify
  <2>2. Len(file) >= DosSize => Offset(file) + 2 = Wrap(Offset(file) + 2)
    BY <1>5
  <2> QED
    BY <1>5, <2>1, <2>2, HeaderIsTold
<1> QED
  BY <1>4, <1>5

\* BinaryIsTold: for a header of any size, with any offset in it.
LEMMA BinaryHolds ==
    ASSUME NEW size \in Nat, NEW offset \in Nat
    PROVE  BinaryIsTold(size, offset)
<1>1. ASSUME NEW magic \in {MZ, NE, PE} PROVE Program(size, offset, magic) \in Files
  <2> DEFINE at == Wrap(offset)
             Byte1(i) == IF i <= 2 THEN MZ[i]
                         ELSE IF i = DosSize - 1 THEN offset % Base
                         ELSE IF i = DosSize THEN offset \div Base
                         ELSE IF i > DosSize /\ i - at \in DOMAIN magic THEN magic[i - at] ELSE 0
  <2>1. ASSUME NEW i \in 1..size PROVE Byte1(i) \in Int
    <3>1. i <= 2 => MZ[i] \in Int
      BY DEF MZ
    <3>2. offset % Base \in Int /\ offset \div Base \in Int
      BY BinFmtAssumption
    <3>3. i - at \in DOMAIN magic => magic[i - at] \in Int
      BY DEF MZ, NE, PE
    <3> HIDE DEF at
    <3> QED
      BY <3>1, <3>2, <3>3
  <2>2. Program(size, offset, magic) = [i \in 1..size |-> Byte1(i)]
    BY DEF Program
  <2> HIDE DEF Byte1
  <2> QED
    BY <2>1, <2>2 DEF Files
<1>2. ASSUME NEW magic \in {MZ, NE, PE}, NEW file \in Files
      PROVE  \A name \in {"path", "extension", "bare"}, host \in Lookups(AnswersFor(Kind(file))) :
               LET told == Classify(name, host, file)
                   asked == host.kernel \in DOMAIN ScsClass
                   read == host.readable /\ host.found \in Opens(name)
                   overflows == Len(file) >= DosSize /\ Offset(file) + 2 # Wrap(Offset(file) + 2)
               IN  ((asked /\ host.found # "nowhere") \/ (read /\ ~overflows)) =>
                     /\ Kind(file) \in {"mz", "ne16"} => \A class \in told : Spared(class)
                     /\ Kind(file) = "pe32" /\ (asked \/ Offset(file) + Len(PE) <= ReadBytes) => told = {"pe32"}
  BY FileIsTold
<1> QED
  BY <1>1, <1>2 DEF BinaryIsTold

-----------------------------------------------------------------------------
(* The audit log *)

Texts == Seq(Nat)
AuditCalls == [len : Nat, fault : Faults]
Logs == [current : Texts, rotated : Texts, written : Texts, calls : Nat]

\* What of a record gets to its file: at most the record, nothing but its bytes and
\* its newline, and all of it where nothing fails.
LEMMA ArrivesFacts ==
    ASSUME NEW n \in Nat, NEW call \in AuditCalls
    PROVE  LET text == Arrives(n, call)
           IN  /\ text \in Texts /\ Len(text) <= Needed(call)
               /\ \A i \in 1..Len(text) : text[i] \in {0, n}
               /\ call.fault = "open" => text = <<>>
               /\ call.fault \notin {"open", "cut", "newline"} =>
                    /\ Len(text) = call.len + 1 /\ text[call.len + 1] = 0
                    /\ \A i \in 1..call.len : text[i] = n
               /\ Len(text) > 1 => text[1] = n
<1> DEFINE whole == Record(n, call.len)
           text == Arrives(n, call)
<1>1. call.len \in Nat /\ call.fault \in Faults
  BY DEF AuditCalls
<1>2. /\ whole \in Texts /\ Len(whole) = call.len + 1 /\ whole[call.len + 1] = 0
      /\ \A i \in 1..call.len : whole[i] = n
  <2> DEFINE line == [i \in 1..call.len |-> n]
  <2>1. line \in Texts /\ Len(line) = call.len /\ \A i \in 1..call.len : line[i] = n
    BY <1>1 DEF Texts
  <2>2. whole = Append(line, 0)
    BY DEF Record
  <2> HIDE DEF line, whole
  <2> QED
    BY <1>1, <2>1, <2>2 DEF Texts
<1> HIDE DEF whole
<1>3. ASSUME NEW m \in 0..(call.len + 1)
      PROVE  LET part == SubSeq(whole, 1, m)
             IN  part \in Texts /\ Len(part) = m /\ \A i \in 1..m : part[i] = whole[i]
  BY <1>1, <1>2 DEF Texts
<1>4. 0 \in 0..(call.len + 1) /\ 1 \in 0..(call.len + 1) /\ call.len \in 0..(call.len + 1)
      /\ call.len + 1 \in 0..(call.len + 1)
  BY <1>1
<1>5. \A i \in 1..(call.len + 1) : whole[i] \in {0, n}
  BY <1>1, <1>2
<1>6. CASE call.fault = "open"
  <2>1. text = <<>>
    BY <1>6 DEF Arrives
  <2> HIDE DEF text
  <2> QED
    BY <1>1, <1>6, <2>1 DEF Texts, Needed, text
<1>7. CASE call.fault = "cut"
  <2>1. text = SubSeq(whole, 1, 1)
    BY <1>7 DEF Arrives, whole
  <2>2. text \in Texts /\ Len(text) = 1 /\ text[1] = whole[1]
    BY <1>3, <1>4, <2>1
  <2> HIDE DEF text
  <2> QED
    BY <1>1, <1>4, <1>5, <1>7, <2>2 DEF Needed, text
<1>8. CASE call.fault = "newline"
  <2>1. text = SubSeq(whole, 1, call.len)
    BY <1>8 DEF Arrives, whole
  <2>2. text \in Texts /\ Len(text) = call.len /\ \A i \in 1..call.len : text[i] = whole[i]
    BY <1>3, <1>4, <2>1
  <2>3. \A i \in 1..call.len : i \in 1..(call.len + 1)
    BY <1>1
  <2> HIDE DEF text
  <2>4. \A i \in 1..Len(text) : text[i] \in {0, n}
    BY <1>5, <2>2, <2>3
  <2>5. Len(text) > 1 => text[1] = n
    BY <1>1, <1>2, <2>2
  <2>6. Len(text) <= Needed(call)
    BY <1>1, <2>2 DEF Needed
  <2> QED
    BY <1>8, <2>2, <2>4, <2>5, <2>6 DEF text
<1>9. CASE call.fault \notin {"open", "cut", "newline"}
  <2>1. text = whole
    BY <1>9 DEF Arrives, whole
  <2> HIDE DEF text
  <2> QED
    BY <1>1, <1>2, <1>5, <1>9, <2>1 DEF Needed, text
<1> QED
  BY <1>6, <1>7, <1>8, <1>9

\* Whether write_line renames the file before it appends.
MovesFile(log, call) ==
    LET existing == IF call.fault = "stat" THEN 0 ELSE Len(log.current)
    IN  existing > 0 /\ existing + Needed(call) > MaxBytes /\ call.fault # "rename"

\* One call, file by file.
LEMMA WriteLineIs ==
    ASSUME NEW log \in Logs, NEW call \in AuditCalls
    PROVE  LET text == Arrives(log.calls + 1, call)
               next == WriteLine(log, call)
           IN  /\ next \in Logs
               /\ next.calls = log.calls + 1
               /\ next.written = log.written \o text
               /\ MovesFile(log, call) => next.current = text /\ next.rotated = log.current
               /\ ~MovesFile(log, call) => next.current = log.current \o text /\ next.rotated = log.rotated
<1> DEFINE text == Arrives(log.calls + 1, call)
           kept == IF MovesFile(log, call) THEN <<>> ELSE log.current
           next == WriteLine(log, call)
<1>1. log.current \in Texts /\ log.rotated \in Texts /\ log.written \in Texts /\ log.calls \in Nat
  BY DEF Logs
<1>2. text \in Texts
  <2>1. log.calls + 1 \in Nat
    BY <1>1
  <2> QED
    BY <2>1, ArrivesFacts
<1>3. next = [current |-> kept \o text,
              rotated |-> IF MovesFile(log, call) THEN log.current ELSE log.rotated,
              written |-> log.written \o text, calls |-> log.calls + 1]
  BY DEF WriteLine, MovesFile
<1> HIDE DEF text, next
<1>4. MovesFile(log, call) => kept \o text = text
  BY <1>2 DEF Texts
<1>5. kept \o text \in Texts /\ log.written \o text \in Texts
  BY <1>1, <1>2 DEF Texts
<1>6. next \in Logs
  BY <1>1, <1>3, <1>5 DEF Logs
<1>7. next.calls = log.calls + 1 /\ next.written = log.written \o text /\ next.current = kept \o text
      /\ next.rotated = IF MovesFile(log, call) THEN log.current ELSE log.rotated
  BY <1>3
<1>8. ~MovesFile(log, call) => kept \o text = log.current \o text
  OBVIOUS
<1> HIDE DEF kept
<1> QED
  BY <1>4, <1>6, <1>7, <1>8 DEF text, next

LogStep == [p \in Logs \X AuditCalls |-> WriteLine(p[1], p[2])]

\* A record leads from a log to a log.
LEMMA LogStepType ==
    LogStep \in [Logs \X AuditCalls -> Logs] /\ EmptyLog \in Logs
<1>1. ASSUME NEW p \in Logs \X AuditCalls PROVE WriteLine(p[1], p[2]) \in Logs
  <2>1. p[1] \in Logs /\ p[2] \in AuditCalls
    OBVIOUS
  <2> QED
    BY <2>1, WriteLineIs
<1>2. EmptyLog \in Logs
  BY DEF EmptyLog, Logs, Texts
<1> QED
  BY <1>1, <1>2 DEF LogStep

\* The log is written one call after the other.
LEMMA LoggedSteps ==
    ASSUME NEW calls \in Seq(AuditCalls)
    PROVE  ComesTo(Logs, LogStep, EmptyLog, calls, Logged(calls))
<1> DEFINE g == LogStep
           Is(h) == h = [s \in SUBSET DOMAIN calls |->
                          IF s = {} THEN EmptyLog ELSE WriteLine(h[s \ {Max(s)}], calls[Max(s)])]
<1>0. DOMAIN calls = 1..Len(calls) /\ Len(calls) \in Nat
      /\ \A i \in 1..Len(calls) : calls[i] \in AuditCalls
  OBVIOUS
<1>1. Logged(calls) = (CHOOSE h : Is(h))[DOMAIN calls]
  BY DEF Logged, FoldLeft, MapThenFoldSet
<1>2. ASSUME NEW s \in SUBSET (1..Len(calls)), s # {}
      PROVE  calls[Max(s)] \in AuditCalls /\ s \ {Max(s)} \in SUBSET (1..Len(calls))
  BY <1>0, <1>2, MaxOfSome
<1>3. ASSUME NEW a \in Logs, NEW b \in AuditCalls PROVE g[<<a, b>>] = WriteLine(a, b)
  BY <1>3 DEF LogStep
<1>4. g \in [Logs \X AuditCalls -> Logs] /\ EmptyLog \in Logs
  BY LogStepType
<1> HIDE DEF g
<1>5. \E h : Is(h)
  <2>1. PICK h \in [SUBSET (1..Len(calls)) -> Logs] :
          \A s \in SUBSET (1..Len(calls)) : OneFold(h, g, EmptyLog, calls, s)
    BY <1>4, RunExists
  <2>2. ASSUME NEW s \in SUBSET DOMAIN calls
        PROVE  h[s] = IF s = {} THEN EmptyLog ELSE WriteLine(h[s \ {Max(s)}], calls[Max(s)])
    BY <1>0, <1>2, <1>3, <2>1 DEF OneFold
  <2>3. Is(h)
    BY <1>0, <2>1, <2>2
  <2> QED
    BY <2>3
<1>6. PICK h : Is(h) /\ Logged(calls) = h[DOMAIN calls]
  <2> HIDE DEF Is
  <2> QED
    BY <1>1, <1>5
<1>7. ASSUME NEW s \in SUBSET (1..Len(calls)), s # {}, h[s \ {Max(s)}] \in Logs
      PROVE  h[s] = g[<<h[s \ {Max(s)}], calls[Max(s)]>>]
  <2>1. h[s] = WriteLine(h[s \ {Max(s)}], calls[Max(s)])
    BY <1>0, <1>6, <1>7
  <2> QED
    BY <1>2, <1>3, <1>7, <2>1
<1>8. h[{}] = EmptyLog
  <2>1. {} \in SUBSET DOMAIN calls
    OBVIOUS
  <2> QED
    BY <1>6, <2>1
<1> HIDE DEF Is
<1>9. FoldsBy(Logs, g, EmptyLog, calls, h)
  BY <1>7, <1>8 DEF FoldsBy
<1>10. ComesTo(Logs, g, EmptyLog, calls, h[1..Len(calls)])
  BY <1>4, <1>9, FoldHasSteps
<1> QED
  BY <1>0, <1>6, <1>10 DEF g

\* What the property says of a call: whether its record was cut, and whether the
\* one written before it left its line open.
CutShort(calls, n) == calls[n].fault \in {"cut", "newline"}
WrittenBefore(calls, n) == {m \in 1..(n - 1) : calls[m].fault # "open"}
Clean(calls, n) == WrittenBefore(calls, n) # {} => ~CutShort(calls, Max(WrittenBefore(calls, n)))

\* A line of len bytes n stands in the file, from the start of a line on.
WholeIn(file, n, len) ==
    \E p \in 0..Len(file) :
      /\ p + len + 1 <= Len(file)
      /\ p = 0 \/ file[p] = 0
      /\ \A i \in 1..len : file[p + i] = n
      /\ file[p + len + 1] = 0

\* A file of the first k records: those that were not cut, or written after one that
\* was, stand in it whole.
FileInv(calls, file, k) ==
    /\ \A i \in 1..Len(file) : file[i] \in 0..k
    /\ \A n \in 1..k :
         (\E i \in 1..Len(file) : file[i] = n) /\ ~CutShort(calls, n) /\ Clean(calls, n) =>
           WholeIn(file, n, calls[n].len)

\* The two files are the end of what was written, and what is missing before them
\* made room for more than the cap less the longest record.
PlacedAt(log, top, o) ==
    /\ Len(log.written) = o + Len(log.rotated) + Len(log.current)
    /\ \A i \in 1..Len(log.rotated) : log.written[o + i] = log.rotated[i]
    /\ \A i \in 1..Len(log.current) : log.written[o + Len(log.rotated) + i] = log.current[i]
    /\ o > 0 => Len(log.rotated) > MaxBytes - top

\* The log after k calls: a file is either empty or ends in a newline, unless the
\* last record written was cut.
AuditInv(calls, top, log, k) ==
    /\ log.calls = k
    /\ \E o \in Nat : PlacedAt(log, top, o)
    /\ Clean(calls, k + 1) => Len(log.current) = 0 \/ log.current[Len(log.current)] = 0
    /\ FileInv(calls, log.rotated, k)
    /\ FileInv(calls, log.current, k)

\* The bytes of two sequences one after the other.
LEMMA TwoParts ==
    ASSUME NEW s \in Texts, NEW t \in Texts
    PROVE  /\ s \o t \in Texts /\ Len(s \o t) = Len(s) + Len(t) /\ Len(s) \in Nat /\ Len(t) \in Nat
           /\ \A i \in 1..Len(s) : (s \o t)[i] = s[i]
           /\ \A i \in 1..Len(t) : (s \o t)[Len(s) + i] = t[i]
BY DEF Texts

\* A whole line stays whole when the file grows.
LEMMA WholeStays ==
    ASSUME NEW s \in Texts, NEW t \in Texts, NEW n \in Nat, NEW len \in Nat, WholeIn(s, n, len)
    PROVE  WholeIn(s \o t, n, len)
<1> DEFINE u == s \o t
<1>1. /\ Len(u) = Len(s) + Len(t) /\ Len(s) \in Nat /\ Len(t) \in Nat
      /\ \A i \in 1..Len(s) : u[i] = s[i]
  BY TwoParts
<1> HIDE DEF u
<1>2. PICK p \in 0..Len(s) :
        /\ p + len + 1 <= Len(s)
        /\ p = 0 \/ s[p] = 0
        /\ \A i \in 1..len : s[p + i] = n
        /\ s[p + len + 1] = 0
  BY DEF WholeIn
<1>3. p \in 0..Len(u) /\ p + len + 1 <= Len(u) /\ p + len + 1 \in 1..Len(s)
  BY <1>1, <1>2
<1>4. p = 0 \/ u[p] = 0
  BY <1>1, <1>2
<1>5. ASSUME NEW i \in 1..len PROVE u[p + i] = n
  <2>1. p + i \in 1..Len(s)
    BY <1>1, <1>2
  <2> QED
    BY <1>1, <1>2, <2>1
<1>6. u[p + len + 1] = 0
  BY <1>1, <1>2, <1>3
<1> QED
  BY <1>3, <1>4, <1>5, <1>6 DEF WholeIn, u

\* The record written last is the one the next follows.
LEMMA WrittenLast ==
    ASSUME NEW calls \in Seq(AuditCalls), NEW k \in Nat, k + 1 <= Len(calls)
    PROVE  /\ calls[k + 1].fault = "open" => (Clean(calls, k + 2) <=> Clean(calls, k + 1))
           /\ calls[k + 1].fault # "open" => (Clean(calls, k + 2) <=> ~CutShort(calls, k + 1))
<1>1. (k + 2) - 1 = k + 1 /\ (k + 1) - 1 = k /\ 1..(k + 1) = (1..k) \cup {k + 1}
  OBVIOUS
<1>2. CASE calls[k + 1].fault = "open"
  <2>1. WrittenBefore(calls, k + 2) = WrittenBefore(calls, k + 1)
    BY <1>1, <1>2 DEF WrittenBefore
  <2> QED
    BY <1>2, <2>1 DEF Clean
<1>3. CASE calls[k + 1].fault # "open"
  <2> DEFINE s == WrittenBefore(calls, k + 2)
             m == k + 1
  <2>1. m \in Nat /\ m \in s /\ s \in SUBSET (1..m)
    BY <1>1, <1>3 DEF WrittenBefore
  <2>2. s # {} /\ Max(s) = m
    <3> HIDE DEF s, m
    <3>1. s # {}
      BY <2>1
    <3>2. Max(s) \in s /\ m <= Max(s)
      BY <2>1, <3>1, MaxOfSome
    <3>3. Max(s) \in 1..m
      BY <2>1, <3>2
    <3> QED
      BY <2>1, <3>1, <3>2, <3>3
  <2> QED
    BY <1>3, <2>2 DEF Clean
<1> QED
  BY <1>2, <1>3

\* A call preserves what is known of the log.
LEMMA AuditInvStep ==
    ASSUME NEW calls \in Seq(AuditCalls), NEW k \in Nat, k + 1 <= Len(calls),
           NEW top \in Nat, \A i \in 1..Len(calls) : Needed(calls[i]) <= top,
           NEW log \in Logs, AuditInv(calls, top, log, k)
    PROVE  AuditInv(calls, top, WriteLine(log, calls[k + 1]), k + 1)
<1> DEFINE call == calls[k + 1]
           n == k + 1
           text == Arrives(n, call)
           next == WriteLine(log, call)
           moves == MovesFile(log, call)
<1>1. n \in 1..Len(calls) /\ n \in Nat /\ n > k /\ Len(calls) \in Nat
  OBVIOUS
<1>2. call \in AuditCalls /\ call.len \in Nat /\ Needed(call) <= top /\ Needed(call) = call.len + 1
  <2>1. call \in AuditCalls
    BY <1>1
  <2> QED
    BY <1>1, <2>1 DEF AuditCalls, Needed
<1>3. /\ log.current \in Texts /\ log.rotated \in Texts /\ log.written \in Texts /\ log.calls = k
      /\ Len(log.current) \in Nat /\ Len(log.rotated) \in Nat /\ Len(log.written) \in Nat
  BY DEF Logs, AuditInv, Texts
<1>4. /\ text \in Texts /\ Len(text) \in Nat
      /\ \A i \in 1..Len(text) : text[i] \in {0, n}
      /\ call.fault = "open" => text = <<>>
      /\ call.fault \notin {"open", "cut", "newline"} =>
           /\ Len(text) = call.len + 1 /\ text[call.len + 1] = 0
           /\ \A i \in 1..call.len : text[i] = n
  <2>0. n \in Nat /\ call \in AuditCalls
    BY <1>1, <1>2
  <2> HIDE DEF n, call
  <2>1. text \in Texts
    BY <2>0, ArrivesFacts
  <2>2. Len(text) \in Nat
    BY <2>1 DEF Texts
  <2>3. \A i \in 1..Len(text) : text[i] \in {0, n}
    BY <2>0, ArrivesFacts
  <2>4. call.fault = "open" => text = <<>>
    BY <2>0, ArrivesFacts
  <2>5. call.fault \notin {"open", "cut", "newline"} =>
           /\ Len(text) = call.len + 1 /\ text[call.len + 1] = 0
           /\ \A i \in 1..call.len : text[i] = n
    <3>1. n \in Nat /\ call \in AuditCalls
      BY <1>1, <1>2
    <3> HIDE DEF n, call
    <3> QED
      BY <3>1, ArrivesFacts
  <2> HIDE DEF text
  <2> QED
    BY <2>1, <2>2, <2>3, <2>4, <2>5
<1>5. /\ next \in Logs /\ next.calls = n /\ next.written = log.written \o text
      /\ moves => next.current = text /\ next.rotated = log.current
      /\ ~moves => next.current = log.current \o text /\ next.rotated = log.rotated
  BY <1>2, <1>3, WriteLineIs
<1>6. moves => Len(log.current) > MaxBytes - top
  BY <1>2, <1>3, AuditFileAssumption DEF MovesFile
<1> HIDE DEF text, next, moves
<1>7. \E o \in Nat : PlacedAt(next, top, o)
  <2>1. PICK o \in Nat : PlacedAt(log, top, o)
    BY DEF AuditInv
  <2> DEFINE w == log.written \o text
  <2>2. /\ Len(w) = Len(log.written) + Len(text)
        /\ \A i \in 1..Len(log.written) : w[i] = log.written[i]
        /\ \A i \in 1..Len(text) : w[Len(log.written) + i] = text[i]
    BY <1>3, <1>4, TwoParts
  <2> HIDE DEF w
  <2>3. /\ Len(log.written) = o + Len(log.rotated) + Len(log.current)
        /\ \A i \in 1..Len(log.rotated) : w[o + i] = log.rotated[i]
        /\ \A i \in 1..Len(log.current) : w[o + Len(log.rotated) + i] = log.current[i]
    <3> DEFINE a == Len(log.rotated)
               b == Len(log.current)
               l == Len(log.written)
    <3>0. a \in Nat /\ b \in Nat /\ l = o + a + b
      BY <1>3, <2>1 DEF PlacedAt
    <3>1. \A i \in 1..Len(log.rotated) : o + i \in 1..Len(log.written)
      <4> HIDE DEF a, b, l
      <4>1. \A i \in 1..a : o + i \in 1..l
        BY <3>0
      <4> QED
        BY <4>1 DEF a, l
    <3>2. \A i \in 1..Len(log.current) : o + Len(log.rotated) + i \in 1..Len(log.written)
      <4> HIDE DEF a, b, l
      <4>1. \A i \in 1..b : o + a + i \in 1..l
        BY <3>0
      <4> QED
        BY <4>1 DEF a, b, l
    <3> HIDE DEF a, b, l
    <3> QED
      BY <2>1, <2>2, <3>1, <3>2 DEF PlacedAt
  <2>4. CASE moves
    <3> DEFINE p == o + Len(log.rotated)
    <3>1. p \in Nat
      BY <1>3
    <3>2. Len(w) = p + Len(log.current) + Len(text)
      BY <1>3, <2>2, <2>3
    <3>3. \A i \in 1..Len(log.current) : w[p + i] = log.current[i]
      BY <2>3
    <3>4. \A i \in 1..Len(text) : w[p + Len(log.current) + i] = text[i]
      BY <2>2, <2>3
    <3> HIDE DEF p
    <3>5. PlacedAt(next, top, p)
      BY <1>5, <1>6, <2>4, <3>2, <3>3, <3>4 DEF PlacedAt, w
    <3> QED
      BY <3>1, <3>5
  <2>5. CASE ~moves
    <3> DEFINE c == log.current \o text
    <3>1. /\ Len(c) = Len(log.current) + Len(text)
          /\ \A i \in 1..Len(log.current) : c[i] = log.current[i]
          /\ \A i \in 1..Len(text) : c[Len(log.current) + i] = text[i]
      BY <1>3, <1>4, TwoParts
    <3> HIDE DEF c
    <3> DEFINE a == Len(log.rotated)
               b == Len(log.current)
               l == Len(log.written)
               x == Len(text)
               y == Len(c)
    <3>0. a \in Nat /\ b \in Nat /\ x \in Nat /\ l = o + a + b /\ y = b + x /\ Len(w) = l + x
      BY <1>3, <1>4, <2>2, <2>3, <3>1
    <3>2. Len(w) = o + Len(log.rotated) + Len(c)
      <4> HIDE DEF a, b, l, x, y
      <4>1. Len(w) = o + a + y
        BY <3>0
      <4> QED
        BY <4>1 DEF a, y
    <3>3. ASSUME NEW i \in 1..Len(c) PROVE w[o + Len(log.rotated) + i] = c[i]
      <4>1. CASE i <= Len(log.current)
        <5>1. i \in 1..Len(log.current)
          BY <1>3, <1>4, <3>1, <4>1
        <5> QED
          BY <2>3, <3>1, <5>1
      <4>2. CASE i > Len(log.current)
        <5> DEFINE j == i - Len(log.current)
        <5>1. j \in 1..Len(text) /\ Len(log.current) + j = i
          BY <1>3, <1>4, <3>1, <4>2
        <5>2. Len(log.written) + j = o + Len(log.rotated) + i
          <6>1. j \in Nat /\ b + j = i
            BY <5>1
          <6> HIDE DEF a, b, l, j
          <6>2. l + j = o + a + i
            BY <3>0, <6>1
          <6> QED
            BY <6>2 DEF l, a
        <5> HIDE DEF j
        <5>3. w[Len(log.written) + j] = text[j] /\ c[Len(log.current) + j] = text[j]
          BY <2>2, <3>1, <5>1
        <5> QED
          BY <5>1, <5>2, <5>3
      <4> QED
        BY <1>3, <1>4, <3>1, <4>1, <4>2
    <3>4. o > 0 => Len(log.rotated) > MaxBytes - top
      BY <2>1 DEF PlacedAt
    <3>5. next.written = w /\ next.current = c /\ next.rotated = log.rotated
      BY <1>5, <2>5 DEF w, c
    <3>6. PlacedAt(next, top, o)
      BY <2>3, <3>2, <3>3, <3>4, <3>5 DEF PlacedAt
    <3> QED
      BY <3>6
  <2> QED
    BY <2>4, <2>5
<1>8. ASSUME Clean(calls, k + 2)
      PROVE  Len(next.current) = 0 \/ next.current[Len(next.current)] = 0
  <2>1. CASE call.fault = "open"
    <3>1. text = <<>> /\ Len(text) = 0
      BY <1>4, <2>1
    <3>2. Clean(calls, k + 1)
      BY <1>8, <2>1, WrittenLast
    <3>3. Len(log.current) = 0 \/ log.current[Len(log.current)] = 0
      BY <3>2 DEF AuditInv
    <3>4. log.current \o text = log.current
      BY <1>3, <3>1 DEF Texts
    <3> QED
      BY <1>5, <3>1, <3>3, <3>4
  <2>2. CASE call.fault # "open"
    <3>1. ~CutShort(calls, n)
      BY <1>8, <2>2, WrittenLast
    <3>2. Len(text) = call.len + 1 /\ text[Len(text)] = 0
      BY <1>4, <2>2, <3>1 DEF CutShort
    <3>3. CASE moves
      BY <1>5, <3>2, <3>3
    <3>4. CASE ~moves
      <4> DEFINE c == log.current \o text
      <4>1. /\ Len(c) = Len(log.current) + Len(text)
            /\ \A i \in 1..Len(text) : c[Len(log.current) + i] = text[i]
        BY <1>3, <1>4, TwoParts
      <4>2. next.current = c
        BY <1>5, <3>4
      <4> HIDE DEF c
      <4>3. Len(text) \in 1..Len(text)
        BY <1>2, <3>2
      <4> QED
        BY <3>2, <4>1, <4>2, <4>3
    <3> QED
      BY <3>3, <3>4
  <2> QED
    BY <2>1, <2>2
<1>9. FileInv(calls, log.current, k) /\ FileInv(calls, log.rotated, k)
  BY DEF AuditInv
<1>10. ASSUME NEW file \in Texts, FileInv(calls, file, k) PROVE FileInv(calls, file, n)
  <2>1. \A i \in 1..Len(file) : file[i] \in 0..n /\ file[i] # n
    BY <1>1, <1>10 DEF FileInv
  <2>2. \A m \in 1..n : m \in 1..k \/ m = n
    BY <1>1
  <2> HIDE DEF n
  <2> QED
    BY <1>10, <2>1, <2>2 DEF FileInv
<1>11. ASSUME NEW file \in Texts, FileInv(calls, file, k),
              Clean(calls, n) => Len(file) = 0 \/ file[Len(file)] = 0
       PROVE  FileInv(calls, file \o text, n)
  <2> DEFINE c == file \o text
  <2>1. /\ c \in Texts /\ Len(c) = Len(file) + Len(text) /\ Len(file) \in Nat
        /\ \A i \in 1..Len(file) : c[i] = file[i]
        /\ \A i \in 1..Len(text) : c[Len(file) + i] = text[i]
    BY <1>4, <1>11, TwoParts
  <2>2. ASSUME NEW i \in 1..Len(c)
        PROVE  \/ i \in 1..Len(file) /\ c[i] = file[i]
               \/ \E j \in 1..Len(text) : i = Len(file) + j /\ c[i] = text[j]
    <3>1. CASE i <= Len(file)
      BY <2>1, <3>1
    <3>2. CASE i > Len(file)
      <4>1. i - Len(file) \in 1..Len(text) /\ i = Len(file) + (i - Len(file))
        BY <1>4, <2>1, <3>2
      <4> QED
        BY <2>1, <4>1
    <3> QED
      BY <2>1, <3>1, <3>2
  <2> HIDE DEF c
  <2>3. \A i \in 1..Len(file) : file[i] \in 0..k
    BY <1>11 DEF FileInv
  <2>4. ASSUME NEW i \in 1..Len(c) PROVE c[i] \in 0..n
    <3>1. CASE i \in 1..Len(file) /\ c[i] = file[i]
      <4>1. c[i] \in 0..k
        BY <2>3, <3>1
      <4> QED
        BY <4>1
    <3>2. ASSUME NEW j \in 1..Len(text), c[i] = text[j] PROVE c[i] \in 0..n
      BY <1>1, <1>4, <3>2
    <3> QED
      BY <2>2, <3>1, <3>2
  <2>5. ASSUME NEW m \in 1..k, \E i \in 1..Len(c) : c[i] = m, ~CutShort(calls, m), Clean(calls, m)
        PROVE  WholeIn(c, m, calls[m].len)
    <3>1. PICK i \in 1..Len(c) : c[i] = m
      BY <2>5
    <3>2. i \in 1..Len(file) /\ c[i] = file[i]
      <4>1. ASSUME NEW j \in 1..Len(text), c[i] = text[j] PROVE FALSE
        BY <1>1, <1>4, <2>5, <3>1, <4>1
      <4> QED
        BY <2>2, <4>1
    <3>3. WholeIn(file, m, calls[m].len)
      BY <1>11, <2>5, <3>1, <3>2 DEF FileInv
    <3>4. m \in Nat /\ calls[m].len \in Nat
      <4>1. m \in 1..Len(calls)
        BY <1>1
      <4>2. calls[m] \in AuditCalls
        BY <4>1
      <4> QED
        BY <4>2 DEF AuditCalls
    <3> QED
      BY <1>4, <3>3, <3>4, WholeStays DEF c
  <2>6. ASSUME \E i \in 1..Len(c) : c[i] = n, ~CutShort(calls, n), Clean(calls, n)
        PROVE  WholeIn(c, n, call.len)
    <3>1. Len(text) > 0
      <4>1. PICK i \in 1..Len(c) : c[i] = n
        BY <2>6
      <4>2. ~(i \in 1..Len(file) /\ c[i] = file[i])
        BY <1>1, <2>3, <4>1
      <4>3. PICK j \in 1..Len(text) : TRUE
        BY <2>2, <4>2
      <4> QED
        BY <1>4, <4>3
    <3>2. call.fault \notin {"open", "cut", "newline"}
      <4>1. call.fault # "open"
        BY <1>4, <3>1
      <4> QED
        BY <2>6, <4>1 DEF CutShort
    <3>3. /\ Len(text) = call.len + 1 /\ text[call.len + 1] = 0
          /\ \A i \in 1..call.len : text[i] = n
      BY <1>4, <3>2
    <3>4. Len(file) \in 0..Len(c) /\ Len(file) + call.len + 1 <= Len(c)
      <4>1. Len(file) \in Nat /\ call.len \in Nat
        BY <1>2, <2>1
      <4>2. Len(c) = Len(file) + (call.len + 1)
        BY <2>1, <3>3
      <4> QED
        BY <4>1, <4>2
    <3>5. Len(file) = 0 \/ c[Len(file)] = 0
      <4>1. Len(file) # 0 => Len(file) \in 1..Len(file)
        BY <2>1
      <4> QED
        BY <1>11, <2>1, <2>6, <4>1
    <3>6. ASSUME NEW i \in 1..call.len PROVE c[Len(file) + i] = n
      <4>1. i \in 1..Len(text)
        BY <1>2, <3>3
      <4> QED
        BY <2>1, <3>3, <4>1
    <3>7. c[Len(file) + call.len + 1] = 0
      <4> DEFINE j == call.len + 1
      <4>1. j \in 1..Len(text) /\ text[j] = 0 /\ Len(file) + call.len + 1 = Len(file) + j
        BY <1>2, <2>1, <3>3
      <4> HIDE DEF j
      <4> QED
        BY <2>1, <4>1
    <3> QED
      BY <3>4, <3>5, <3>6, <3>7 DEF WholeIn
  <2>7. \A m \in 1..n : m \in 1..k \/ m = n
    BY <1>1
  <2> HIDE DEF n, call
  <2>8. FileInv(calls, c, n)
    BY <2>4, <2>5, <2>6, <2>7 DEF FileInv, call
  <2> QED
    BY <2>8 DEF c
<1>12. FileInv(calls, next.rotated, n)
  BY <1>3, <1>5, <1>9, <1>10
<1>13. FileInv(calls, next.current, n)
  <2>1. CASE moves
    <3>1. <<>> \in Texts /\ Len(<<>>) = 0 /\ <<>> \o text = text /\ FileInv(calls, <<>>, k)
      BY <1>4 DEF Texts, FileInv
    <3> QED
      BY <1>5, <1>11, <2>1, <3>1
  <2>2. CASE ~moves
    <3>1. Clean(calls, n) => Len(log.current) = 0 \/ log.current[Len(log.current)] = 0
      BY DEF AuditInv
    <3> QED
      BY <1>3, <1>5, <1>9, <1>11, <2>2, <3>1
  <2> QED
    BY <2>1, <2>2
<1>14. n + 1 = k + 2
  OBVIOUS
<1> QED
  BY <1>5, <1>7, <1>8, <1>12, <1>13, <1>14 DEF AuditInv, next
Rows == {rows \in Seq(Texts) : rows # <<>>}
PutByte(rows, b) ==
    IF b = 0 THEN Append(rows, <<>>) ELSE [rows EXCEPT ![Len(rows)] = Append(@, b)]
PutStep == [p \in Rows \X Nat |-> PutByte(p[1], p[2])]
RowsOf(file) == FoldLeft(PutByte, << <<>> >>, file)

\* A byte ends the last line or lengthens it, and leaves the others.
LEMMA PutByteIs ==
    ASSUME NEW rows \in Rows, NEW b \in Nat
    PROVE  LET next == PutByte(rows, b)
           IN  /\ next \in Rows /\ Len(rows) \in Nat \ {0}
               /\ b = 0 => Len(next) = Len(rows) + 1 /\ next[Len(rows) + 1] = <<>>
                           /\ \A i \in 1..Len(rows) : next[i] = rows[i]
               /\ b # 0 => Len(next) = Len(rows) /\ next[Len(rows)] = Append(rows[Len(rows)], b)
                           /\ \A i \in 1..(Len(rows) - 1) : next[i] = rows[i]
<1>1. /\ rows \in Seq(Texts) /\ Len(rows) \in Nat \ {0} /\ <<>> \in Texts
      /\ rows[Len(rows)] \in Texts
  BY DEF Rows, Texts
<1>2. CASE b = 0
  <2> DEFINE next == Append(rows, <<>>)
  <2>1. next \in Seq(Texts) /\ Len(next) = Len(rows) + 1 /\ next[Len(rows) + 1] = <<>>
        /\ \A i \in 1..Len(rows) : next[i] = rows[i]
    BY <1>1
  <2>2. next # <<>>
    BY <1>1, <2>1
  <2>3. PutByte(rows, b) = next
    BY <1>2 DEF PutByte
  <2> HIDE DEF next
  <2> QED
    BY <1>1, <1>2, <2>1, <2>2, <2>3 DEF Rows
<1>3. CASE b # 0
  <2> DEFINE next == [rows EXCEPT ![Len(rows)] = Append(@, b)]
             longer == Append(rows[Len(rows)], b)
  <2>1. longer \in Texts
    BY <1>1 DEF Texts
  <2>2. next = [rows EXCEPT ![Len(rows)] = longer]
    OBVIOUS
  <2> HIDE DEF longer
  <2>3. next \in Seq(Texts) /\ Len(next) = Len(rows) /\ next[Len(rows)] = longer
        /\ \A i \in 1..(Len(rows) - 1) : next[i] = rows[i]
    <3> DEFINE m == Len(rows)
    <3>1. m \in Nat \ {0} /\ m \in 1..m /\ rows \in [1..m -> Texts]
      BY <1>1
    <3> HIDE DEF m
    <3>2. next = [rows EXCEPT ![m] = longer]
      BY <2>2 DEF m
    <3> HIDE DEF next
    <3>3. next \in [1..m -> Texts] /\ next[m] = longer
      BY <2>1, <3>1, <3>2
    <3>4. \A i \in 1..(m - 1) : next[i] = rows[i]
      BY <3>1, <3>2
    <3>5. next \in Seq(Texts) /\ Len(next) = m
      BY <3>1, <3>3
    <3> QED
      BY <3>3, <3>4, <3>5 DEF m
  <2>4. PutByte(rows, b) = next
    BY <1>3 DEF PutByte
  <2> HIDE DEF next
  <2>5. next # <<>>
    BY <1>1, <2>3
  <2> QED
    BY <1>1, <1>3, <2>3, <2>4, <2>5 DEF Rows, longer
<1> QED
  BY <1>2, <1>3

\* A byte leads from lines to lines.
LEMMA PutStepType ==
    PutStep \in [Rows \X Nat -> Rows] /\ << <<>> >> \in Rows
<1>1. ASSUME NEW p \in Rows \X Nat PROVE PutByte(p[1], p[2]) \in Rows
  <2>1. p[1] \in Rows /\ p[2] \in Nat
    OBVIOUS
  <2> QED
    BY <2>1, PutByteIs
<1>2. << <<>> >> \in Rows
  BY DEF Rows, Texts
<1> QED
  BY <1>1, <1>2 DEF PutStep

\* The lines of a file are put together one byte after the other.
LEMMA RowsSteps ==
    ASSUME NEW file \in Seq(Nat)
    PROVE  ComesTo(Rows, PutStep, << <<>> >>, file, RowsOf(file))
<1> DEFINE g == PutStep
           Is(h) == h = [s \in SUBSET DOMAIN file |->
                          IF s = {} THEN << <<>> >> ELSE PutByte(h[s \ {Max(s)}], file[Max(s)])]
<1>0. DOMAIN file = 1..Len(file) /\ Len(file) \in Nat
      /\ \A i \in 1..Len(file) : file[i] \in Nat
  OBVIOUS
<1>1. RowsOf(file) = (CHOOSE h : Is(h))[DOMAIN file]
  BY DEF RowsOf, FoldLeft, MapThenFoldSet
<1>2. ASSUME NEW s \in SUBSET (1..Len(file)), s # {}
      PROVE  file[Max(s)] \in Nat /\ s \ {Max(s)} \in SUBSET (1..Len(file))
  BY <1>0, <1>2, MaxOfSome
<1>3. ASSUME NEW a \in Rows, NEW b \in Nat PROVE g[<<a, b>>] = PutByte(a, b)
  BY <1>3 DEF PutStep
<1>4. g \in [Rows \X Nat -> Rows] /\ << <<>> >> \in Rows
  BY PutStepType
<1> HIDE DEF g
<1>5. \E h : Is(h)
  <2>1. PICK h \in [SUBSET (1..Len(file)) -> Rows] :
          \A s \in SUBSET (1..Len(file)) : OneFold(h, g, << <<>> >>, file, s)
    BY <1>4, RunExists
  <2>2. ASSUME NEW s \in SUBSET DOMAIN file
        PROVE  h[s] = IF s = {} THEN << <<>> >> ELSE PutByte(h[s \ {Max(s)}], file[Max(s)])
    BY <1>0, <1>2, <1>3, <2>1 DEF OneFold
  <2>3. Is(h)
    BY <1>0, <2>1, <2>2
  <2> QED
    BY <2>3
<1>6. PICK h : Is(h) /\ RowsOf(file) = h[DOMAIN file]
  <2> HIDE DEF Is
  <2> QED
    BY <1>1, <1>5
<1>7. ASSUME NEW s \in SUBSET (1..Len(file)), s # {}, h[s \ {Max(s)}] \in Rows
      PROVE  h[s] = g[<<h[s \ {Max(s)}], file[Max(s)]>>]
  <2>1. h[s] = PutByte(h[s \ {Max(s)}], file[Max(s)])
    BY <1>0, <1>6, <1>7
  <2> QED
    BY <1>2, <1>3, <1>7, <2>1
<1>8. h[{}] = << <<>> >>
  <2>1. {} \in SUBSET DOMAIN file
    OBVIOUS
  <2> QED
    BY <1>6, <2>1
<1> HIDE DEF Is
<1>9. FoldsBy(Rows, g, << <<>> >>, file, h)
  BY <1>7, <1>8 DEF FoldsBy
<1>10. ComesTo(Rows, g, << <<>> >>, file, h[1..Len(file)])
  BY <1>4, <1>9, FoldHasSteps
<1> QED
  BY <1>0, <1>6, <1>10 DEF g

\* A line that stands whole in a file is one of its lines.
LEMMA WholeIsLine ==
    ASSUME NEW file \in Texts, NEW n \in Nat, n # 0, NEW len \in Nat, WholeIn(file, n, len)
    PROVE  [i \in 1..len |-> n] \in Lines(file)
<1> DEFINE line == [i \in 1..len |-> n]
           size == Len(file)
<1>0. size \in Nat /\ file \in Seq(Nat) /\ \A i \in 1..size : file[i] \in Nat
  BY DEF Texts
<1>1. PICK r : FoldSteps(Rows, PutStep, << <<>> >>, file, r) /\ r[size] = RowsOf(file)
  BY <1>0, RowsSteps DEF ComesTo
<1>2. PICK p \in 0..size :
        /\ p + len + 1 <= size
        /\ p = 0 \/ file[p] = 0
        /\ \A i \in 1..len : file[p + i] = n
        /\ file[p + len + 1] = 0
  BY DEF WholeIn
<1> HIDE DEF size
<1>3. /\ \A k \in 0..size : r[k] \in Rows
      /\ \A k \in 0..(size - 1) : r[k + 1] = PutByte(r[k], file[k + 1])
  <2>1. r \in [0..size -> Rows] /\ \A k \in 0..(size - 1) : r[k + 1] = PutStep[<<r[k], file[k + 1]>>]
    BY <1>1 DEF FoldSteps, size
  <2>2. ASSUME NEW k \in 0..(size - 1) PROVE r[k + 1] = PutByte(r[k], file[k + 1])
    <3>1. k \in 0..size /\ k + 1 \in 1..size
      BY <1>0
    <3>2. r[k] \in Rows /\ file[k + 1] \in Nat
      BY <1>0, <2>1, <3>1
    <3> QED
      BY <2>1, <3>2 DEF PutStep
  <2> QED
    BY <2>1, <2>2
<1> DEFINE m == Len(r[p])
<1>4. m \in Nat \ {0} /\ r[p][m] = <<>>
  <2>1. CASE p = 0
    <3>1. r[p] = << <<>> >>
      BY <1>1, <2>1 DEF FoldSteps
    <3> QED
      BY <3>1
  <2>2. CASE p # 0
    <3>1. p - 1 \in 0..(size - 1) /\ p - 1 \in 0..size /\ (p - 1) + 1 = p
      BY <1>0, <1>2, <2>2
    <3>2. r[p] = PutByte(r[p - 1], 0)
      BY <1>2, <1>3, <2>2, <3>1
    <3>3. r[p - 1] \in Rows
      BY <1>3, <3>1
    <3> QED
      BY <3>2, <3>3, PutByteIs
  <2> QED
    BY <2>1, <2>2
<1> HIDE DEF m
<1> DEFINE Writing(j) == Len(r[p + j]) = m /\ r[p + j][m] = [i \in 1..j |-> n]
           T == {j \in Nat : j <= len => Writing(j)}
<1>5. 0 \in T
  <2>1. p + 0 = p /\ [i \in 1..0 |-> n] = <<>>
    BY <1>2
  <2> QED
    BY <1>4, <2>1 DEF m
<1>6. ASSUME NEW j \in Nat, j \in T PROVE j + 1 \in T
  <2>1. SUFFICES ASSUME j + 1 <= len PROVE Writing(j + 1)
    OBVIOUS
  <2>2. p + j \in 0..(size - 1) /\ p + j \in 0..size /\ (p + j) + 1 = p + (j + 1) /\ j + 1 \in 1..len
    BY <1>0, <1>2, <2>1
  <2>3. r[p + (j + 1)] = PutByte(r[p + j], n) /\ r[p + j] \in Rows
    BY <1>2, <1>3, <2>2
  <2>4. Len(r[p + j]) = m /\ r[p + j][m] = [i \in 1..j |-> n]
    BY <1>6, <2>1
  <2>5. Append([i \in 1..j |-> n], n) = [i \in 1..(j + 1) |-> n]
    <3> DEFINE a == Append([i \in 1..j |-> n], n)
               b == [i \in 1..(j + 1) |-> n]
    <3>1. a \in Seq(Nat) /\ Len(a) = j + 1 /\ \A i \in 1..(j + 1) : a[i] = n
      OBVIOUS
    <3>2. b \in Seq(Nat) /\ Len(b) = j + 1 /\ \A i \in 1..(j + 1) : b[i] = n
      OBVIOUS
    <3> HIDE DEF a, b
    <3> QED
      BY <3>1, <3>2
  <2> DEFINE rows == r[p + j]
             next == PutByte(rows, n)
  <2>6. Len(next) = Len(rows) /\ next[Len(rows)] = Append(rows[Len(rows)], n)
    <3>1. rows \in Rows
      BY <2>3
    <3> HIDE DEF rows
    <3> QED
      BY <3>1, PutByteIs
  <2>7. next = r[p + (j + 1)]
    BY <2>3
  <2> HIDE DEF next
  <2> QED
    BY <2>4, <2>5, <2>6, <2>7
<1>7. Writing(len)
  <2> HIDE DEF Writing
  <2>1. 0 \in T /\ \A j \in Nat : j \in T => j + 1 \in T
    BY <1>5, <1>6
  <2>2. len \in T
    <3> HIDE DEF T
    <3> QED
      BY <2>1, SetInduction
  <2> QED
    BY <2>2
<1> DEFINE q == p + len + 1
           Reached(j) == Len(r[q + j]) > m /\ r[q + j][m] = line
           S == {j \in Nat : q + j <= size => Reached(j)}
<1>8. q \in Nat /\ q <= size
  BY <1>2
<1>9. 0 \in S
  <2>1. p + len \in 0..(size - 1) /\ p + len \in 0..size /\ (p + len) + 1 = q /\ q + 0 = q
    BY <1>0, <1>2
  <2>2. r[q] = PutByte(r[p + len], 0) /\ r[p + len] \in Rows
    BY <1>2, <1>3, <2>1
  <2>3. m \in 1..m
    BY <1>4
  <2> HIDE DEF line, q
  <2>4. Len(r[q]) > m /\ r[q][m] = line
    BY <1>4, <1>7, <2>2, <2>3, PutByteIs DEF line
  <2> QED
    BY <2>1, <2>4
<1> HIDE DEF q, line
<1>10. ASSUME NEW j \in Nat, j \in S PROVE j + 1 \in S
  <2>1. SUFFICES ASSUME q + (j + 1) <= size PROVE Reached(j + 1)
    OBVIOUS
  <2>2. q + j \in 0..(size - 1) /\ q + j \in 0..size /\ (q + j) + 1 = q + (j + 1) /\ (q + j) + 1 \in 1..size
    BY <1>0, <1>8, <2>1
  <2>3. r[q + (j + 1)] = PutByte(r[q + j], file[(q + j) + 1]) /\ r[q + j] \in Rows
        /\ file[(q + j) + 1] \in Nat
    BY <1>0, <1>3, <2>2
  <2>4. Len(r[q + j]) > m /\ r[q + j][m] = line
    BY <1>10, <2>2, <2>1, <1>8, <1>0
  <2>5. Len(r[q + j]) \in Nat /\ m \in 1..Len(r[q + j]) /\ m \in 1..(Len(r[q + j]) - 1)
    <3>1. Len(r[q + j]) \in Nat
      BY <2>3, PutByteIs
    <3> QED
      BY <1>4, <2>4, <3>1
  <2> QED
    BY <1>4, <2>3, <2>4, <2>5, PutByteIs
<1>11. Reached(size - q)
  <2> HIDE DEF Reached
  <2>1. 0 \in S /\ \A j \in Nat : j \in S => j + 1 \in S
    BY <1>9, <1>10
  <2>2. size - q \in Nat /\ q + (size - q) <= size
    BY <1>0, <1>8
  <2>3. size - q \in S
    <3> HIDE DEF S
    <3> QED
      BY <2>1, <2>2, SetInduction
  <2> QED
    BY <2>2, <2>3
<1>12. Len(RowsOf(file)) > m /\ RowsOf(file)[m] = line /\ RowsOf(file) \in Rows
  <2>1. q + (size - q) = size /\ size \in 0..size
    BY <1>0, <1>8
  <2> QED
    BY <1>1, <1>3, <1>11, <2>1
<1>13. line \in ToSet(RowsOf(file))
  <2>1. RowsOf(file) \in Seq(Texts)
    BY <1>12 DEF Rows
  <2>2. m \in DOMAIN RowsOf(file)
    BY <1>4, <1>12, <2>1
  <2> QED
    BY <1>12, <2>2 DEF ToSet
<1>14. Lines(file) = ToSet(RowsOf(file))
  BY Zenon DEF Lines, RowsOf, PutByte
<1> QED
  BY <1>13, <1>14 DEF line

\* A sequence is a suffix of another where it stands at the other's end.
LEMMA SuffixAt ==
    ASSUME NEW s \in Texts, NEW t \in Texts, NEW o \in Nat, Len(t) = o + Len(s),
           \A i \in 1..Len(s) : t[o + i] = s[i]
    PROVE  IsSuffix(s, t) /\ (o = 0 => s = t)
<1> DEFINE a == Len(s)
           b == Len(t)
           x == Reverse(s)
           y == Reverse(t)
<1>1. /\ a \in Nat /\ b \in Nat /\ b = o + a
      /\ \A i \in 1..a : s[i] \in Nat
      /\ \A i \in 1..b : t[i] \in Nat
  <2>1. a \in Nat /\ \A i \in 1..a : s[i] \in Nat
    BY DEF Texts
  <2>2. b \in Nat /\ \A i \in 1..b : t[i] \in Nat
    BY DEF Texts
  <2> QED
    BY <2>1, <2>2
<1>2. x = [i \in 1..a |-> s[(a - i) + 1]] /\ y = [i \in 1..b |-> t[(b - i) + 1]]
  BY DEF Reverse
<1>3. (\A i \in 1..a : (a - i) + 1 \in 1..a) /\ (\A i \in 1..b : (b - i) + 1 \in 1..b)
  <2> HIDE DEF a, b
  <2> QED
    BY <1>1
<1>4. x \in Texts /\ y \in Texts /\ Len(x) = a /\ Len(y) = b
  <2> HIDE DEF a, b, x, y
  <2>1. a \in Nat /\ \A i \in 1..a : s[(a - i) + 1] \in Nat
    BY <1>1, <1>3
  <2>2. x \in Texts /\ Len(x) = a
    BY <1>2, <2>1 DEF Texts
  <2>3. b \in Nat /\ \A i \in 1..b : t[(b - i) + 1] \in Nat
    BY <1>1, <1>3
  <2>4. y \in Texts /\ Len(y) = b
    BY <1>2, <2>3 DEF Texts
  <2> QED
    BY <2>2, <2>4
<1>5. ASSUME NEW i \in 1..a PROVE x[i] = y[i]
  <2>1. i \in 1..b /\ (b - i) + 1 = o + ((a - i) + 1) /\ (a - i) + 1 \in 1..a
    <3> HIDE DEF a, b
    <3> QED
      BY <1>1, <1>3
  <2>2. x[i] = s[(a - i) + 1] /\ y[i] = t[(b - i) + 1]
    BY <1>2, <2>1
  <2>3. t[o + ((a - i) + 1)] = s[(a - i) + 1]
    BY <2>1
  <2> QED
    BY <2>1, <2>2, <2>3
<1>6. o = 0 => s = t
  <2>1. ASSUME o = 0, NEW i \in 1..a PROVE t[i] = s[i]
    <3>1. o + i = i
      BY <2>1
    <3> QED
      BY <2>1, <3>1
  <2> QED
    BY <1>1, <2>1 DEF Texts
<1>7. SubSeq(x, 1, a) = SubSeq(y, 1, a) /\ a <= b
  <2>1. a <= b
    <3> HIDE DEF a, b
    <3> QED
      BY <1>1
  <2>2. ASSUME NEW z \in Texts, a <= Len(z)
        PROVE  SubSeq(z, 1, a) \in Texts /\ Len(SubSeq(z, 1, a)) = a /\ \A i \in 1..a : SubSeq(z, 1, a)[i] = z[i]
    <3>1. a \in 0..Len(z) /\ z \in Seq(Nat)
      BY <1>1, <2>2 DEF Texts
    <3> HIDE DEF a
    <3> QED
      BY <3>1 DEF Texts
  <2> DEFINE u == SubSeq(x, 1, a)
             v == SubSeq(y, 1, a)
  <2>3. u \in Texts /\ Len(u) = a /\ \A i \in 1..a : u[i] = x[i]
    BY <1>1, <1>4, <2>2
  <2>4. v \in Texts /\ Len(v) = a /\ \A i \in 1..a : v[i] = y[i]
    BY <1>4, <2>1, <2>2
  <2>5. \A i \in 1..a : u[i] = v[i]
    BY <1>5, <2>3, <2>4
  <2> HIDE DEF a, b, x, y, u, v
  <2>6. u = v
    BY <2>3, <2>4, <2>5 DEF Texts
  <2> QED
    BY <2>1, <2>6 DEF u, v
<1> QED
  BY <1>4, <1>6, <1>7 DEF IsSuffix, IsPrefix

\* The longest record of any calls.
LongestOf(calls) == Max({0} \cup {Needed(calls[i]) : i \in DOMAIN calls})

\* No record is longer than the longest.
LEMMA LongestBounds ==
    ASSUME NEW calls \in Seq(AuditCalls)
    PROVE  LongestOf(calls) \in Nat /\ \A i \in 1..Len(calls) : Needed(calls[i]) <= LongestOf(calls)
<1> DEFINE need(i) == Needed(calls[i])
           s == {0} \cup {need(i) : i \in DOMAIN calls}
           T == {k \in Nat : k <= Len(calls) => \E n \in Nat : \A i \in 1..k : need(i) <= n}
<1>1. Len(calls) \in Nat /\ DOMAIN calls = 1..Len(calls)
  OBVIOUS
<1>2. ASSUME NEW i \in 1..Len(calls) PROVE need(i) \in Nat
  <2>1. calls[i] \in AuditCalls
    BY <1>1
  <2> QED
    BY <2>1 DEF AuditCalls, Needed
<1> HIDE DEF need
<1>3. 0 \in T
  BY <1>1
<1>4. ASSUME NEW k \in Nat, k \in T PROVE k + 1 \in T
  <2>1. SUFFICES ASSUME k + 1 <= Len(calls) PROVE \E n \in Nat : \A i \in 1..(k + 1) : need(i) <= n
    OBVIOUS
  <2>2. PICK n \in Nat : \A i \in 1..k : need(i) <= n
    BY <1>1, <1>4, <2>1
  <2>3. need(k + 1) \in Nat /\ \A i \in 1..(k + 1) : i \in 1..k \/ i = k + 1
    BY <1>1, <1>2, <2>1
  <2>4. \A i \in 1..k : need(i) \in Nat
    BY <1>1, <1>2, <2>1
  <2>5. \A i \in 1..(k + 1) : need(i) <= n + need(k + 1)
    BY <2>2, <2>3, <2>4
  <2>6. n + need(k + 1) \in Nat
    BY <2>3
  <2> QED
    BY <2>5, <2>6
<1>5. PICK n \in Nat : \A i \in 1..Len(calls) : need(i) <= n
  <2>1. Len(calls) \in T
    <3> HIDE DEF T
    <3> QED
      BY <1>1, <1>3, <1>4, SetInduction
  <2> QED
    BY <1>1, <2>1
<1>6. s \in SUBSET Int /\ s \in SUBSET Nat /\ s # {} /\ \A k \in s : k <= n
  BY <1>1, <1>2, <1>5
<1>7. Max(s) \in s /\ \A k \in s : k <= Max(s)
  <2> HIDE DEF s
  <2> QED
    BY <1>6, MaxOfBounded
<1>8. \A i \in 1..Len(calls) : need(i) \in s
  BY <1>1
<1>9. Max(s) = LongestOf(calls)
  BY DEF LongestOf, need
<1> HIDE DEF s
<1>10. LongestOf(calls) \in Nat /\ \A i \in 1..Len(calls) : need(i) <= LongestOf(calls)
  BY <1>6, <1>7, <1>8, <1>9
<1> QED
  BY <1>10 DEF need

\* Without a size that cannot be read or a rename that fails, a call leaves a file
\* within the cap, or one of a single record.
LEMMA CappedOrOne ==
    ASSUME NEW log \in Logs, NEW call \in AuditCalls, call.fault \notin {"stat", "rename"}
    PROVE  LET file == WriteLine(log, call).current
           IN  Len(file) <= MaxBytes \/ Cardinality(ToSet(file) \ {0}) = 1
<1> DEFINE n == log.calls + 1
           text == Arrives(n, call)
           next == WriteLine(log, call)
           file == next.current
<1>1. /\ log.current \in Texts /\ Len(log.current) \in Nat /\ n \in Nat /\ n # 0
      /\ call.len \in Nat /\ Needed(call) = call.len + 1 /\ MaxBytes \in Nat \ {0}
  BY AuditFileAssumption DEF Logs, Texts, AuditCalls, Needed
<1>2. /\ text \in Texts /\ Len(text) <= Needed(call)
      /\ \A i \in 1..Len(text) : text[i] \in {0, n}
      /\ Len(text) > 1 => text[1] = n
  <2>1. n \in Nat
    BY <1>1
  <2> HIDE DEF n
  <2> QED
    BY <2>1, ArrivesFacts
<1>3. Len(text) \in Nat
  BY <1>2 DEF Texts
<1>4. Len(text) <= MaxBytes \/ Cardinality(ToSet(text) \ {0}) = 1
  <2>1. SUFFICES ASSUME Len(text) > MaxBytes PROVE Cardinality(ToSet(text) \ {0}) = 1
    BY <1>1, <1>3
  <2>2. Len(text) > 1 /\ 1 \in 1..Len(text) /\ DOMAIN text = 1..Len(text)
    <3>1. DOMAIN text = 1..Len(text)
      BY <1>2 DEF Texts
    <3> HIDE DEF text
    <3> QED
      BY <1>1, <1>3, <2>1, <3>1
  <2>3. text[1] = n
    BY <1>2, <2>2
  <2> HIDE DEF text, n
  <2>4. ToSet(text) \ {0} = {n}
    BY <1>1, <1>2, <2>2, <2>3 DEF ToSet
  <2> QED
    BY <2>4, FS_Singleton
<1>5. MovesFile(log, call) => file = text
  BY WriteLineIs
<1>6. ~MovesFile(log, call) => file = log.current \o text
  BY WriteLineIs
<1> HIDE DEF file, text
<1>7. CASE MovesFile(log, call)
  BY <1>4, <1>5, <1>7 DEF file
<1>8. CASE ~MovesFile(log, call)
  <2>1. Len(log.current) = 0 \/ Len(log.current) + Needed(call) <= MaxBytes
    BY <1>1, <1>8 DEF MovesFile
  <2>2. CASE Len(log.current) = 0
    <3>1. log.current \o text = text
      <4>1. log.current = <<>>
        BY <1>1, <2>2 DEF Texts
      <4>2. \A x \in Texts : <<>> \o x = x
        BY DEF Texts
      <4> QED
        BY <1>2, <4>1, <4>2
    <3> QED
      BY <1>4, <1>6, <1>8, <3>1 DEF file
  <2>3. CASE Len(log.current) + Needed(call) <= MaxBytes
    <3>1. Len(log.current \o text) = Len(log.current) + Len(text)
      BY <1>1, <1>2, TwoParts
    <3>2. Len(log.current \o text) <= MaxBytes
      BY <1>1, <1>2, <1>3, <2>3, <3>1
    <3> QED
      BY <1>6, <1>8, <3>2 DEF file
  <2> QED
    BY <2>1, <2>2, <2>3
<1> QED
  BY <1>7, <1>8

\* AuditIsKept: for any number of calls, records of any length, any faults and any cap.
LEMMA AuditHolds ==
    ASSUME NEW calls \in Seq(AuditCalls)
    PROVE  AuditIsKept(calls)
<1> DEFINE log == Logged(calls)
           size == Len(calls)
           kept == log.rotated \o log.current
           top == LongestOf(calls)
<1>0. size \in Nat /\ DOMAIN calls = 1..size /\ \A i \in 1..size : calls[i] \in AuditCalls
  OBVIOUS
<1>1. top \in Nat /\ \A i \in 1..size : Needed(calls[i]) <= top
  BY LongestBounds
<1>2. PICK r : FoldSteps(Logs, LogStep, EmptyLog, calls, r) /\ r[size] = log
  BY LoggedSteps DEF ComesTo
<1> HIDE DEF log, top
<1>3. /\ \A k \in 0..size : r[k] \in Logs
      /\ \A k \in 0..(size - 1) : r[k + 1] = WriteLine(r[k], calls[k + 1])
      /\ r[0] = EmptyLog
  <2>1. r \in [0..size -> Logs] /\ r[0] = EmptyLog
        /\ \A k \in 0..(size - 1) : r[k + 1] = LogStep[<<r[k], calls[k + 1]>>]
    BY <1>2 DEF FoldSteps
  <2>2. ASSUME NEW k \in 0..(size - 1) PROVE r[k + 1] = WriteLine(r[k], calls[k + 1])
    <3>1. k \in 0..size /\ k + 1 \in 1..size
      BY <1>0
    <3>2. r[k] \in Logs /\ calls[k + 1] \in AuditCalls
      BY <1>0, <2>1, <3>1
    <3> QED
      BY <2>1, <3>2 DEF LogStep
  <2> QED
    BY <2>1, <2>2
<1> HIDE DEF size
<1> DEFINE Inv(k) == AuditInv(calls, top, r[k], k)
           T == {k \in Nat : k <= size => Inv(k)}
<1>4. 0 \in T
  <2>1. PlacedAt(EmptyLog, top, 0)
    BY DEF PlacedAt, EmptyLog
  <2>2. FileInv(calls, <<>>, 0)
    BY DEF FileInv
  <2>3. AuditInv(calls, top, EmptyLog, 0)
    BY <2>1, <2>2 DEF AuditInv, EmptyLog
  <2> QED
    BY <1>3, <2>3
<1>5. ASSUME NEW k \in Nat, k \in T PROVE k + 1 \in T
  <2>1. SUFFICES ASSUME k + 1 <= size PROVE Inv(k + 1)
    OBVIOUS
  <2>2. k \in 0..size /\ k \in 0..(size - 1)
    BY <1>0, <2>1
  <2>3. r[k] \in Logs /\ r[k + 1] = WriteLine(r[k], calls[k + 1]) /\ AuditInv(calls, top, r[k], k)
    BY <1>3, <1>5, <2>2
  <2>4. AuditInv(calls, top, WriteLine(r[k], calls[k + 1]), k + 1)
    BY <1>1, <2>1, <2>3, AuditInvStep DEF size
  <2> QED
    BY <2>3, <2>4
<1>6. log \in Logs /\ AuditInv(calls, top, log, size)
  <2> HIDE DEF Inv
  <2>1. 0 \in T /\ \A k \in Nat : k \in T => k + 1 \in T
    BY <1>4, <1>5
  <2>2. size \in T
    <3> HIDE DEF T
    <3> QED
      BY <1>0, <2>1, SetInduction
  <2> QED
    BY <1>0, <1>2, <1>3, <2>2 DEF Inv
<1>7. /\ log.rotated \in Texts /\ log.current \in Texts /\ log.written \in Texts
      /\ Len(log.rotated) \in Nat /\ Len(log.current) \in Nat
      /\ kept \in Texts /\ Len(kept) = Len(log.rotated) + Len(log.current)
      /\ \A i \in 1..Len(log.rotated) : kept[i] = log.rotated[i]
      /\ \A i \in 1..Len(log.current) : kept[Len(log.rotated) + i] = log.current[i]
  <2>1. log.rotated \in Texts /\ log.current \in Texts /\ log.written \in Texts
    BY <1>6 DEF Logs
  <2> QED
    BY <2>1, TwoParts
<1> HIDE DEF kept
<1> DEFINE a == Len(log.rotated)
           b == Len(log.current)
<1>8. a \in Nat /\ b \in Nat /\ Len(kept) = a + b
  BY <1>7
<1>9. /\ \A i \in 1..a : kept[i] = log.rotated[i]
      /\ \A i \in 1..b : kept[a + i] = log.current[i]
  BY <1>7
<1>10. ASSUME NEW i \in 1..Len(kept)
      PROVE  \/ i \in 1..Len(log.rotated) /\ kept[i] = log.rotated[i]
             \/ \E j \in 1..Len(log.current) : i = Len(log.rotated) + j /\ kept[i] = log.current[j]
  <2> HIDE DEF a, b
  <2>1. CASE i <= a
    BY <1>8, <1>9, <2>1 DEF a
  <2>2. CASE i > a
    <3> DEFINE j == i - a
    <3>1. j \in 1..b /\ i = a + j
      BY <1>8, <2>2
    <3> HIDE DEF j
    <3>2. kept[a + j] = log.current[j]
      BY <1>9, <3>1
    <3> QED
      BY <3>1, <3>2 DEF a, b
  <2> QED
    BY <1>8, <2>1, <2>2
<1>11. IsSuffix(kept, log.written) /\ (kept # log.written => Len(kept) > MaxBytes - top)
  <2>1. PICK o \in Nat : PlacedAt(log, top, o)
    BY <1>6 DEF AuditInv
  <2>2. Len(log.written) = o + Len(kept)
    <3>1. Len(log.written) = o + a + b
      BY <2>1 DEF PlacedAt
    <3> HIDE DEF a, b
    <3> QED
      BY <1>8, <3>1
  <2>3. ASSUME NEW i \in 1..Len(kept) PROVE log.written[o + i] = kept[i]
    <3>1. CASE i \in 1..Len(log.rotated) /\ kept[i] = log.rotated[i]
      BY <2>1, <3>1 DEF PlacedAt
    <3>2. ASSUME NEW j \in 1..Len(log.current), i = Len(log.rotated) + j, kept[i] = log.current[j]
          PROVE  log.written[o + i] = kept[i]
      <4>1. o + i = o + a + j
        <5> HIDE DEF a
        <5> QED
          BY <1>8, <3>2 DEF a
      <4> QED
        BY <2>1, <3>2, <4>1 DEF PlacedAt
    <3> QED
      BY <1>10, <3>1, <3>2
  <2>4. IsSuffix(kept, log.written) /\ (o = 0 => kept = log.written)
    <3>1. kept \in Texts /\ log.written \in Texts
      BY <1>7
    <3> HIDE DEF a, b
    <3> QED
      BY <2>2, <2>3, <3>1, SuffixAt
  <2>5. o > 0 => Len(kept) > MaxBytes - top
    <3>1. o > 0 => a > MaxBytes - top
      BY <2>1 DEF PlacedAt
    <3> HIDE DEF a, b
    <3> QED
      BY <1>1, <1>8, <3>1, AuditFileAssumption
  <2> QED
    BY <2>4, <2>5
<1>12. (\A n \in DOMAIN calls : calls[n].fault \notin {"stat", "rename"}) =>
         Len(log.current) <= MaxBytes \/ Cardinality(ToSet(log.current) \ {0}) = 1
  <2>1. SUFFICES ASSUME \A n \in DOMAIN calls : calls[n].fault \notin {"stat", "rename"}
                 PROVE  Len(log.current) <= MaxBytes \/ Cardinality(ToSet(log.current) \ {0}) = 1
    OBVIOUS
  <2>2. CASE size = 0
    <3>1. log = EmptyLog
      BY <1>2, <1>3, <2>2
    <3> QED
      BY <3>1, AuditFileAssumption DEF EmptyLog
  <2>3. CASE size # 0
    <3> DEFINE k == size - 1
    <3>1. k \in 0..(size - 1) /\ k \in 0..size /\ k + 1 = size /\ size \in 1..size
      BY <1>0, <2>3
    <3>2. log = WriteLine(r[k], calls[size]) /\ r[k] \in Logs /\ calls[size] \in AuditCalls
      BY <1>0, <1>2, <1>3, <3>1
    <3>3. calls[size].fault \notin {"stat", "rename"}
      BY <1>0, <2>1, <3>1
    <3> QED
      BY <3>2, <3>3, CappedOrOne
  <2> QED
    BY <2>2, <2>3
<1>13. ASSUME NEW n \in DOMAIN calls, Contains(kept, n), ~CutShort(calls, n), Clean(calls, n)
       PROVE  [i \in 1..calls[n].len |-> n] \in Lines(log.rotated) \cup Lines(log.current)
  <2>1. n \in 1..size /\ n \in Nat /\ n # 0 /\ calls[n].len \in Nat
    <3>1. calls[n] \in AuditCalls
      BY <1>0
    <3> QED
      BY <1>0, <3>1 DEF AuditCalls
  <2>2. FileInv(calls, log.rotated, size) /\ FileInv(calls, log.current, size)
    BY <1>6 DEF AuditInv
  <2>3. (\E i \in 1..Len(log.rotated) : log.rotated[i] = n) \/ (\E i \in 1..Len(log.current) : log.current[i] = n)
    BY <1>10, <1>13 DEF Contains
  <2>4. WholeIn(log.rotated, n, calls[n].len) \/ WholeIn(log.current, n, calls[n].len)
    BY <1>13, <2>1, <2>2, <2>3 DEF FileInv
  <2> QED
    BY <1>7, <2>1, <2>4, WholeIsLine
<1>14. AuditIsKept(calls) <=>
         /\ IsSuffix(kept, log.written)
         /\ kept # log.written => Len(kept) > MaxBytes - top
         /\ (\A n \in DOMAIN calls : calls[n].fault \notin {"stat", "rename"}) =>
              Len(log.current) <= MaxBytes \/ Cardinality(ToSet(log.current) \ {0}) = 1
         /\ \A n \in DOMAIN calls :
              (Contains(kept, n) /\ ~CutShort(calls, n) /\ Clean(calls, n)) =>
                [i \in 1..calls[n].len |-> n] \in Lines(log.rotated) \cup Lines(log.current)
  BY Zenon DEF AuditIsKept, kept, log, top, LongestOf, CutShort, Clean, WrittenBefore
<1> QED
  BY <1>11, <1>12, <1>13, <1>14

-----------------------------------------------------------------------------
(* Every input *)

InputType == subject \in DOMAIN Alphabet /\ input \in Seq(Alphabet[subject])

\* An input is made of the pieces of its subject.
LEMMA InputTyped == InputSpec => []InputType
<1>1. InputInit => InputType
  BY DEF InputInit, InputType
<1>2. InputType /\ [Grow]_inputVars => InputType'
  <2> SUFFICES ASSUME InputType, [Grow]_inputVars PROVE InputType'
    OBVIOUS
  <2>1. CASE Grow
    <3>1. subject' = subject
      BY <2>1 DEF Grow
    <3>2. PICK c \in Alphabet[subject] : input' = Append(input, c)
      BY <2>1 DEF Grow
    <3>3. input' \in Seq(Alphabet[subject])
      BY <3>2 DEF InputType
    <3> QED
      BY <3>1, <3>3 DEF InputType
  <2>2. CASE UNCHANGED inputVars
    BY <2>2 DEF inputVars, InputType
  <2> QED
    BY <2>1, <2>2
<1> QED
  BY <1>1, <1>2, PTL DEF InputSpec

\* The pieces of a subject are what its properties take.
LEMMA PiecesOf ==
    ASSUME InputType, subject \in DOMAIN Pieces
    PROVE  \A i \in 1..Len(input) : input[i] \in Pieces[subject]
BY CodecsAssumption DEF InputType

\* Peeks and pokes of any range stay in their region, and a number of the wire of
\* any length is the address it spells or refused.
THEOREM RangeHolds == InputSpec => []RangeSound
<1>1. InputType => RangeSound
  <2> SUFFICES ASSUME InputType PROVE RangeSound
    OBVIOUS
  <2>1. ASSUME subject = "number" PROVE ParseIsExact(input)
    <3>1. \A i \in 1..Len(input) : input[i] \in Marks
      BY <2>1, PiecesOf DEF Pieces, Marks
    <3>2. input \in Seq(Marks)
      BY <3>1 DEF InputType
    <3> QED
      BY <3>2, ParseHolds
  <2>2. ASSUME subject = "range", Len(input) = 2, NEW region \in Regions
        PROVE  AccessStaysInRegion(region, input[1], input[2])
    <3>1. input[1] \in Addresses /\ input[2] \in Addresses
      BY <2>2, PiecesOf DEF Pieces
    <3> QED
      BY <3>1, AccessHolds
  <2> QED
    BY <2>1, <2>2 DEF RangeSound
<1> QED
  BY <1>1, InputTyped, PTL

\* The audit log keeps the last of what was written, whole and within its size,
\* whatever records come and whatever fails.
THEOREM LogHolds == InputSpec => []AuditSound
<1>1. InputType => AuditSound
  <2> SUFFICES ASSUME InputType, subject = "audit" PROVE AuditIsKept(input)
    BY DEF AuditSound
  <2>1. \A i \in 1..Len(input) : input[i] \in AuditCalls
    BY PiecesOf DEF Pieces, AuditCalls
  <2>2. input \in Seq(AuditCalls)
    BY <2>1 DEF InputType
  <2> QED
    BY <2>2, AuditHolds
<1> QED
  BY <1>1, InputTyped, PTL

-----------------------------------------------------------------------------
(* Folds one after the other *)

\* A fold of nothing comes to its base, and to nothing else.
LEMMA NoSteps ==
    ASSUME NEW A, NEW g, NEW base \in A
    PROVE  ComesTo(A, g, base, <<>>, base)
<1> DEFINE r == [k \in 0..0 |-> base]
<1>1. Len(<<>>) = 0 /\ 0..(0 - 1) = {}
  OBVIOUS
<1>2. r \in [0..0 -> A] /\ r[0] = base
  OBVIOUS
<1> HIDE DEF r
<1>3. FoldSteps(A, g, base, <<>>, r)
  BY <1>1, <1>2 DEF FoldSteps
<1> QED
  BY <1>1, <1>2, <1>3 DEF ComesTo

\* What comes of a fold is in the set it runs in.
LEMMA ComesInto ==
    ASSUME NEW A, NEW B, NEW g, NEW base, NEW s \in Seq(B), NEW v, ComesTo(A, g, base, s, v)
    PROVE  v \in A
<1>1. PICK r : FoldSteps(A, g, base, s, r) /\ r[Len(s)] = v
  BY DEF ComesTo
<1>2. Len(s) \in 0..Len(s)
  OBVIOUS
<1> QED
  BY <1>1, <1>2 DEF FoldSteps

\* One element more is one step more.
LEMMA StepMore ==
    ASSUME NEW A, NEW B, NEW g \in [A \X B -> A], NEW base \in A, NEW s \in Seq(B), NEW b \in B,
           NEW v, ComesTo(A, g, base, s, v)
    PROVE  ComesTo(A, g, base, Append(s, b), g[<<v, b>>])
<1>1. PICK r : FoldSteps(A, g, base, s, r) /\ r[Len(s)] = v
  BY DEF ComesTo
<1> DEFINE n == Len(s)
           t == Append(s, b)
           q == [k \in 0..(n + 1) |-> IF k = n + 1 THEN g[<<v, b>>] ELSE r[k]]
<1>2. n \in Nat /\ Len(t) = n + 1 /\ t[n + 1] = b /\ \A i \in 1..n : t[i] = s[i]
  OBVIOUS
<1>3. r \in [0..n -> A] /\ r[0] = base /\ \A k \in 0..(n - 1) : r[k + 1] = g[<<r[k], s[k + 1]>>]
  BY <1>1 DEF FoldSteps
<1>4. v \in A /\ g[<<v, b>>] \in A /\ r[n] = v
  BY <1>1, ComesInto
<1> HIDE DEF n, t
<1>5. q \in [0..(n + 1) -> A] /\ q[0] = base /\ q[n + 1] = g[<<v, b>>] /\ \A k \in 0..n : q[k] = r[k]
  BY <1>2, <1>3, <1>4
<1> HIDE DEF q
<1>6. ASSUME NEW k \in 0..((n + 1) - 1) PROVE q[k + 1] = g[<<q[k], t[k + 1]>>]
  <2>1. CASE k = n
    <3>1. q[n] = v /\ n \in 0..n
      BY <1>2, <1>4, <1>5
    <3> QED
      BY <1>2, <1>5, <2>1, <3>1
  <2>2. CASE k \in 0..(n - 1)
    <3>1. k \in 0..n /\ k + 1 \in 0..n /\ k + 1 \in 1..n
      BY <1>2, <2>2
    <3> QED
      BY <1>2, <1>3, <1>5, <2>2, <3>1
  <2> QED
    BY <1>2, <2>1, <2>2
<1>7. FoldSteps(A, g, base, t, q)
  BY <1>2, <1>5, <1>6 DEF FoldSteps
<1> QED
  BY <1>2, <1>5, <1>7 DEF ComesTo, t

\* The fold of two sequences is that of the second from where that of the first ended.
LEMMA ThenMore ==
    ASSUME NEW A, NEW B, NEW g \in [A \X B -> A], NEW base \in A, NEW s \in Seq(B), NEW t \in Seq(B),
           NEW v, ComesTo(A, g, base, s, v), NEW w, ComesTo(A, g, v, t, w)
    PROVE  ComesTo(A, g, base, s \o t, w)
<1>1. PICK r : FoldSteps(A, g, v, t, r) /\ r[Len(t)] = w
  BY DEF ComesTo
<1> DEFINE n == Len(t)
           Upto(k) == s \o SubSeq(t, 1, k)
           T == {k \in Nat : k <= n => ComesTo(A, g, base, Upto(k), r[k])}
<1>2. n \in Nat /\ \A i \in 1..n : t[i] \in B
  OBVIOUS
<1>3. r[0] = v /\ \A k \in 0..(n - 1) : r[k + 1] = g[<<r[k], t[k + 1]>>]
  BY <1>1 DEF FoldSteps
<1>4. Upto(0) = s
  <2>1. SubSeq(t, 1, 0) = <<>>
    OBVIOUS
  <2> QED
    BY <2>1
<1>5. ASSUME NEW k \in Nat, k + 1 <= n
      PROVE  Upto(k) \in Seq(B) /\ Upto(k + 1) = Append(Upto(k), t[k + 1])
  <2>1. SubSeq(t, 1, k) \in Seq(B) /\ SubSeq(t, 1, k + 1) = Append(SubSeq(t, 1, k), t[k + 1])
    BY <1>2, <1>5
  <2> QED
    BY <2>1
<1>6. 0 \in T
  BY <1>3, <1>4
<1>7. ASSUME NEW k \in Nat, k \in T PROVE k + 1 \in T
  <2>1. SUFFICES ASSUME k + 1 <= n PROVE ComesTo(A, g, base, Upto(k + 1), r[k + 1])
    OBVIOUS
  <2>2. k <= n /\ k \in 0..(n - 1) /\ k + 1 \in 1..n
    BY <1>2, <2>1
  <2>3. ComesTo(A, g, base, Upto(k), r[k]) /\ t[k + 1] \in B /\ r[k + 1] = g[<<r[k], t[k + 1]>>]
    BY <1>2, <1>3, <1>7, <2>2
  <2>4. Upto(k) \in Seq(B) /\ Upto(k + 1) = Append(Upto(k), t[k + 1])
    BY <1>5, <2>1
  <2> HIDE DEF n, Upto
  <2> QED
    BY <2>3, <2>4, StepMore
<1>8. n \in T
  <2> HIDE DEF T
  <2> QED
    BY <1>2, <1>6, <1>7, SetInduction
<1>9. Upto(n) = s \o t
  <2>1. SubSeq(t, 1, n) = t
    OBVIOUS
  <2> QED
    BY <2>1
<1>10. ComesTo(A, g, base, Upto(n), r[n])
  <2> HIDE DEF Upto
  <2> QED
    BY <1>2, <1>8
<1> HIDE DEF Upto
<1> QED
  BY <1>1, <1>9, <1>10

\* A fold comes to one value.
LEMMA ComesToOne ==
    ASSUME NEW A, NEW B, NEW g, NEW base, NEW s \in Seq(B),
           NEW v, ComesTo(A, g, base, s, v), NEW w, ComesTo(A, g, base, s, w)
    PROVE  v = w
<1>1. PICK r : FoldSteps(A, g, base, s, r) /\ r[Len(s)] = v
  BY DEF ComesTo
<1>2. PICK q : FoldSteps(A, g, base, s, q) /\ q[Len(s)] = w
  BY DEF ComesTo
<1> DEFINE n == Len(s)
           T == {k \in Nat : k <= n => r[k] = q[k]}
<1>3. n \in Nat
  OBVIOUS
<1>4. r[0] = q[0] /\ \A k \in 0..(n - 1) : r[k + 1] = g[<<r[k], s[k + 1]>>] /\ q[k + 1] = g[<<q[k], s[k + 1]>>]
  BY <1>1, <1>2 DEF FoldSteps
<1> HIDE DEF n
<1>5. 0 \in T
  BY <1>4
<1>6. ASSUME NEW k \in Nat, k \in T PROVE k + 1 \in T
  <2>1. SUFFICES ASSUME k + 1 <= n PROVE r[k + 1] = q[k + 1]
    OBVIOUS
  <2>2. k <= n /\ k \in 0..(n - 1)
    BY <1>3, <2>1
  <2> QED
    BY <1>4, <1>6, <2>2
<1>7. n \in T
  <2> HIDE DEF T
  <2> QED
    BY <1>3, <1>5, <1>6, SetInduction
<1> QED
  BY <1>1, <1>2, <1>3, <1>7 DEF n

\* A fold comes to something.
LEMMA ComesToSome ==
    ASSUME NEW A, NEW B, NEW g \in [A \X B -> A], NEW base \in A, NEW items \in Seq(B)
    PROVE  \E v \in A : ComesTo(A, g, base, items, v)
<1> DEFINE Upto(k) == SubSeq(items, 1, k)
           n == Len(items)
           Some(k) == \E v \in A : ComesTo(A, g, base, Upto(k), v)
           T == {k \in Nat : k <= n => Some(k)}
<1>1. n \in Nat /\ Upto(0) = <<>> /\ Upto(n) = items
  OBVIOUS
<1>2. ASSUME NEW k \in Nat, k + 1 <= n
      PROVE  Upto(k) \in Seq(B) /\ items[k + 1] \in B /\ Upto(k + 1) = Append(Upto(k), items[k + 1])
  BY <1>2
<1> HIDE DEF Upto, n
<1>3. 0 \in T
  <2>1. ComesTo(A, g, base, Upto(0), base)
    BY <1>1, NoSteps
  <2> QED
    BY <2>1
<1>4. ASSUME NEW k \in Nat, k \in T PROVE k + 1 \in T
  <2>1. SUFFICES ASSUME k + 1 <= n PROVE Some(k + 1)
    OBVIOUS
  <2>2. k <= n
    BY <1>1, <2>1
  <2>3. PICK v \in A : ComesTo(A, g, base, Upto(k), v)
    BY <1>4, <2>2
  <2>4. Upto(k) \in Seq(B) /\ items[k + 1] \in B /\ Upto(k + 1) = Append(Upto(k), items[k + 1])
    BY <1>2, <2>1
  <2>5. ComesTo(A, g, base, Upto(k + 1), g[<<v, items[k + 1]>>])
    BY <2>3, <2>4, StepMore
  <2>6. g[<<v, items[k + 1]>>] \in A
    BY <2>3, <2>4
  <2> QED
    BY <2>5, <2>6
<1>5. n \in T
  <2> HIDE DEF T
  <2> QED
    BY <1>1, <1>3, <1>4, SetInduction
<1>6. Some(n)
  <2> HIDE DEF Some
  <2> QED
    BY <1>1, <1>5
<1> QED
  BY <1>1, <1>6

-----------------------------------------------------------------------------
(* The argument line *)

\* The states of the loops of ArgvLine, over texts of the characters C, and one
\* pass of each.
Quoting(C) == [out : Seq(C), run : Nat]
QuotePut(s, c) ==
    IF c = Slash THEN [s EXCEPT !.run = @ + 1]
    ELSE IF c = Quote THEN [out |-> s.out \o Times(2 * s.run + 1, Slash) \o <<Quote>>, run |-> 0]
    ELSE [out |-> s.out \o Times(s.run, Slash) \o <<c>>, run |-> 0]
QuoteStep(C) == [p \in Quoting(C) \X C |-> QuotePut(p[1], p[2])]
QuoteBase == [out |-> <<Quote>>, run |-> 0]
QuoteRun(arg) == FoldLeft(QuotePut, QuoteBase, arg)

Escaping(C) == [out : Seq(C), quoted : BOOLEAN]
EscapePut(s, c) ==
    IF c = Quote THEN [out |-> Append(s.out, c), quoted |-> ~s.quoted]
    ELSE IF c \in {Operator, Caret, Percent} /\ ~s.quoted
    THEN [s EXCEPT !.out = @ \o <<Caret, c>>]
    ELSE [s EXCEPT !.out = Append(@, c)]
EscapeStep(C) == [p \in Escaping(C) \X C |-> EscapePut(p[1], p[2])]
EscapeBase == [out |-> <<>>, quoted |-> FALSE]
EscapeRun(line) == FoldLeft(EscapePut, EscapeBase, line)

Reading(C) == [args : Seq(Seq(C)), cur : Seq(C), run : Nat, quoted : BOOLEAN, in : BOOLEAN]
Reader(args, cur, run, quoted, in) == [args |-> args, cur |-> cur, run |-> run, quoted |-> quoted, in |-> in]
Yes == TRUE
No == FALSE
ReadPut(s, c) ==
    IF c = Slash THEN [s EXCEPT !.run = @ + 1, !.in = TRUE]
    ELSE IF c = Quote THEN
      LET cur == s.cur \o Times(s.run \div 2, Slash) IN
        IF s.run % 2 = 1 THEN [s EXCEPT !.cur = Append(cur, Quote), !.run = 0, !.in = TRUE]
        ELSE [s EXCEPT !.cur = cur, !.run = 0, !.quoted = ~@, !.in = TRUE]
    ELSE LET cur == s.cur \o Times(s.run, Slash) IN
      IF c # Blank \/ s.quoted THEN [s EXCEPT !.cur = Append(cur, c), !.run = 0, !.in = TRUE]
      ELSE IF s.in THEN [s EXCEPT !.args = Append(@, cur), !.cur = <<>>, !.run = 0, !.in = FALSE]
      ELSE s
ReadStep(C) == [p \in Reading(C) \X C |-> ReadPut(p[1], p[2])]
ReadBase == [args |-> <<>>, cur |-> <<>>, run |-> 0, quoted |-> FALSE, in |-> FALSE]
ReadRun(line) == FoldLeft(ReadPut, ReadBase, line)

Shelling(C) == [line : Seq(C), quoted : BOOLEAN, caret : BOOLEAN, operated : BOOLEAN, expanded : BOOLEAN]
Shell(line, quoted, caret, expanded) ==
    [line |-> line, quoted |-> quoted, caret |-> caret, operated |-> FALSE, expanded |-> expanded]
ShellPut(s, c) ==
    IF s.caret THEN [s EXCEPT !.line = Append(@, c), !.caret = FALSE]
    ELSE IF c = Quote THEN [s EXCEPT !.line = Append(@, c), !.quoted = ~@]
    ELSE IF c = Caret /\ ~s.quoted THEN [s EXCEPT !.caret = TRUE]
    ELSE [s EXCEPT !.line = Append(@, c),
                   !.operated = @ \/ (c = Operator /\ ~s.quoted),
                   !.expanded = @ \/ c = Percent]
ShellStep(C) == [p \in Shelling(C) \X C |-> ShellPut(p[1], p[2])]
ShellBase == [line |-> <<>>, quoted |-> FALSE, caret |-> FALSE, operated |-> FALSE, expanded |-> FALSE]

\* A run of one character, and the next longer one.
LEMMA TimesIs ==
    ASSUME NEW C, NEW c \in C, NEW n \in Nat
    PROVE  Times(n, c) \in Seq(C) /\ Times(n + 1, c) = Append(Times(n, c), c) /\ Times(0, c) = <<>>
<1>1. Times(n, c) \in Seq(C) /\ Len(Times(n, c)) = n
  BY DEF Times
<1>2. Times(n + 1, c) = Append(Times(n, c), c)
  BY DEF Times
<1>3. Times(0, c) = <<>>
  BY DEF Times
<1> QED
  BY <1>1, <1>2, <1>3

\* A character leads from a state of the quoting to another.
LEMMA QuoteStepType ==
    ASSUME NEW C, {Quote, Slash} \subseteq C
    PROVE  QuoteStep(C) \in [Quoting(C) \X C -> Quoting(C)] /\ QuoteBase \in Quoting(C)
<1>1. ASSUME NEW s \in Quoting(C), NEW c \in C PROVE QuotePut(s, c) \in Quoting(C)
  <2>1. s.out \in Seq(C) /\ s.run \in Nat /\ 2 * s.run + 1 \in Nat
    BY DEF Quoting
  <2>2. Times(2 * s.run + 1, Slash) \in Seq(C) /\ Times(s.run, Slash) \in Seq(C)
    BY <2>1, TimesIs
  <2>3. /\ s.out \o Times(2 * s.run + 1, Slash) \o <<Quote>> \in Seq(C)
        /\ s.out \o Times(s.run, Slash) \o <<c>> \in Seq(C)
    <3> HIDE DEF QuotePut
    <3> QED
      BY <2>1, <2>2
  <2>4. CASE c = Slash
    BY <2>1, <2>4 DEF QuotePut, Quoting
  <2>5. CASE c = Quote
    BY <2>3, <2>5 DEF QuotePut, Quoting, Quote, Slash
  <2>6. CASE c \notin {Slash, Quote}
    BY <2>3, <2>6 DEF QuotePut, Quoting
  <2> QED
    BY <2>4, <2>5, <2>6
<1>2. QuoteBase \in Quoting(C)
  BY DEF QuoteBase, Quoting
<1> QED
  BY <1>1, <1>2 DEF QuoteStep

\* A character leads from a state of the escape to another.
LEMMA EscapeStepType ==
    ASSUME NEW C, Caret \in C
    PROVE  EscapeStep(C) \in [Escaping(C) \X C -> Escaping(C)] /\ EscapeBase \in Escaping(C)
<1>1. ASSUME NEW s \in Escaping(C), NEW c \in C PROVE EscapePut(s, c) \in Escaping(C)
  <2>1. s.out \in Seq(C) /\ s.out \o <<Caret, c>> \in Seq(C) /\ Append(s.out, c) \in Seq(C) /\ s.quoted \in BOOLEAN
    BY DEF Escaping
  <2> QED
    BY <2>1 DEF EscapePut, Escaping
<1>2. EscapeBase \in Escaping(C)
  BY DEF EscapeBase, Escaping
<1> QED
  BY <1>1, <1>2 DEF EscapeStep


\* The fields of a state of the runtime's reader.
LEMMA ReaderIs ==
    ASSUME NEW C, NEW args, NEW cur, NEW run, NEW quoted, NEW in
    PROVE  /\ Reader(args, cur, run, quoted, in) \in Reading(C) <=>
                /\ args \in Seq(Seq(C)) /\ cur \in Seq(C) /\ run \in Nat
                /\ quoted \in BOOLEAN /\ in \in BOOLEAN
           /\ \A s \in Reading(C) : s = Reader(s.args, s.cur, s.run, s.quoted, s.in)
<1> DEFINE K == Seq(C)
           L == Seq(K)
<1>1. Reading(C) = [args : L, cur : K, run : Nat, quoted : BOOLEAN, in : BOOLEAN]
  BY DEF Reading
<1> HIDE DEF K, L
<1>2. Reader(args, cur, run, quoted, in) \in Reading(C) <=>
        args \in L /\ cur \in K /\ run \in Nat /\ quoted \in BOOLEAN /\ in \in BOOLEAN
  BY <1>1 DEF Reader
<1>3. \A s \in Reading(C) : s = Reader(s.args, s.cur, s.run, s.quoted, s.in)
  BY <1>1 DEF Reader
<1> QED
  BY <1>2, <1>3 DEF K, L

\* What the runtime's reader does with a character: backslashes wait for a quote
\* behind them, a quote behind an odd number of them is a character, and a blank
\* outside quotes ends an argument.
LEMMA ReadPutIs ==
    ASSUME NEW args, NEW cur, NEW run, NEW quoted, NEW in, NEW c
    PROVE  /\ c = Slash =>
                ReadPut(Reader(args, cur, run, quoted, in), c) =
                  Reader(args, cur, run + 1, quoted, Yes)
           /\ c = Quote /\ run % 2 = 1 =>
                ReadPut(Reader(args, cur, run, quoted, in), c) =
                  Reader(args, Append(cur \o Times(run \div 2, Slash), Quote), 0, quoted, Yes)
           /\ c = Quote /\ run % 2 # 1 =>
                ReadPut(Reader(args, cur, run, No, in), c) =
                  Reader(args, cur \o Times(run \div 2, Slash), 0, Yes, Yes)
           /\ c = Quote /\ run % 2 # 1 =>
                ReadPut(Reader(args, cur, run, Yes, in), c) =
                  Reader(args, cur \o Times(run \div 2, Slash), 0, No, Yes)
           /\ c \notin {Slash, Quote, Blank} =>
                ReadPut(Reader(args, cur, run, quoted, in), c) =
                  Reader(args, Append(cur \o Times(run, Slash), c), 0, quoted, Yes)
           /\ c = Blank =>
                ReadPut(Reader(args, cur, run, Yes, in), c) =
                  Reader(args, Append(cur \o Times(run, Slash), c), 0, Yes, Yes)
           /\ c = Blank =>
                ReadPut(Reader(args, cur, run, No, Yes), c) =
                  Reader(Append(args, cur \o Times(run, Slash)), <<>>, 0, No, No)
           /\ c = Blank =>
                ReadPut(Reader(args, cur, run, No, No), c) =
                  Reader(args, cur, run, No, No)
<1> DEFINE half == cur \o Times(run \div 2, Slash)
           all == cur \o Times(run, Slash)
<1>9. Slash # Quote /\ Blank # Slash /\ Blank # Quote
  BY DEF Slash, Quote, Blank
<1>10. ASSUME NEW s, s.args = args, s.cur = cur, s.run = run
       PROVE  /\ c = Slash => ReadPut(s, c) = [s EXCEPT !.run = @ + 1, !.in = TRUE]
              /\ c = Quote /\ run % 2 = 1 => ReadPut(s, c) = [s EXCEPT !.cur = Append(half, Quote), !.run = 0, !.in = TRUE]
              /\ c = Quote /\ run % 2 # 1 =>
                   ReadPut(s, c) = [s EXCEPT !.cur = half, !.run = 0, !.quoted = ~@, !.in = TRUE]
              /\ c \notin {Slash, Quote, Blank} \/ (c = Blank /\ s.quoted) =>
                   ReadPut(s, c) = [s EXCEPT !.cur = Append(all, c), !.run = 0, !.in = TRUE]
              /\ c = Blank /\ ~s.quoted /\ s.in =>
                   ReadPut(s, c) = [s EXCEPT !.args = Append(@, all), !.cur = <<>>, !.run = 0, !.in = FALSE]
              /\ c = Blank /\ ~s.quoted /\ ~s.in => ReadPut(s, c) = s
  <2>1. c = Slash => ReadPut(s, c) = [s EXCEPT !.run = @ + 1, !.in = TRUE]
    BY DEF ReadPut
  <2>2. c = Quote =>
          ReadPut(s, c) = IF run % 2 = 1 THEN [s EXCEPT !.cur = Append(half, Quote), !.run = 0, !.in = TRUE]
                          ELSE [s EXCEPT !.cur = half, !.run = 0, !.quoted = ~@, !.in = TRUE]
    BY <1>9, <1>10 DEF ReadPut
  <2>3. c \notin {Slash, Quote} =>
          ReadPut(s, c) = IF c # Blank \/ s.quoted THEN [s EXCEPT !.cur = Append(all, c), !.run = 0, !.in = TRUE]
                          ELSE IF s.in THEN [s EXCEPT !.args = Append(@, all), !.cur = <<>>, !.run = 0, !.in = FALSE]
                          ELSE s
    BY <1>9, <1>10 DEF ReadPut
  <2> HIDE DEF half, all
  <2> QED
    BY <1>9, <2>1, <2>2, <2>3
<1> HIDE DEF half, all
<1>1. c = Slash => ReadPut(Reader(args, cur, run, quoted, in), c) = Reader(args, cur, run + 1, quoted, Yes)
  <2> DEFINE s == Reader(args, cur, run, quoted, in)
  <2>1. s.args = args /\ s.cur = cur /\ s.run = run /\ s.quoted = quoted /\ s.in = in
    BY DEF Reader
  <2>2. c = Slash => ReadPut(s, c) = [s EXCEPT !.run = @ + 1, !.in = TRUE]
    <3> HIDE DEF s
    <3> QED
      BY <1>9, <1>10, <2>1 DEF Yes, No
  <2> QED
    BY <2>2 DEF Reader, Yes, No
<1>2. c = Quote /\ run % 2 = 1 => ReadPut(Reader(args, cur, run, quoted, in), c) = Reader(args, Append(half, Quote), 0, quoted, Yes)
  <2> DEFINE s == Reader(args, cur, run, quoted, in)
  <2>1. s.args = args /\ s.cur = cur /\ s.run = run /\ s.quoted = quoted /\ s.in = in
    BY DEF Reader
  <2>2. c = Quote /\ run % 2 = 1 => ReadPut(s, c) = [s EXCEPT !.cur = Append(half, Quote), !.run = 0, !.in = TRUE]
    <3> HIDE DEF s
    <3> QED
      BY <1>9, <1>10, <2>1 DEF Yes, No
  <2> QED
    BY <2>2 DEF Reader, Yes, No
<1>3. c = Quote /\ run % 2 # 1 => ReadPut(Reader(args, cur, run, No, in), c) = Reader(args, half, 0, Yes, Yes)
  <2> DEFINE s == Reader(args, cur, run, No, in)
  <2>1. s.args = args /\ s.cur = cur /\ s.run = run /\ s.quoted = No /\ s.in = in
    BY DEF Reader
  <2>2. c = Quote /\ run % 2 # 1 => ReadPut(s, c) = [s EXCEPT !.cur = half, !.run = 0, !.quoted = ~@, !.in = TRUE]
    <3> HIDE DEF s
    <3> QED
      BY <1>9, <1>10, <2>1 DEF Yes, No
  <2> QED
    BY <2>2 DEF Reader, Yes, No
<1>4. c = Quote /\ run % 2 # 1 => ReadPut(Reader(args, cur, run, Yes, in), c) = Reader(args, half, 0, No, Yes)
  <2> DEFINE s == Reader(args, cur, run, Yes, in)
  <2>1. s.args = args /\ s.cur = cur /\ s.run = run /\ s.quoted = Yes /\ s.in = in
    BY DEF Reader
  <2>2. c = Quote /\ run % 2 # 1 => ReadPut(s, c) = [s EXCEPT !.cur = half, !.run = 0, !.quoted = ~@, !.in = TRUE]
    <3> HIDE DEF s
    <3> QED
      BY <1>9, <1>10, <2>1 DEF Yes, No
  <2> QED
    BY <2>2 DEF Reader, Yes, No
<1>5. c \notin {Slash, Quote, Blank} => ReadPut(Reader(args, cur, run, quoted, in), c) = Reader(args, Append(all, c), 0, quoted, Yes)
  <2> DEFINE s == Reader(args, cur, run, quoted, in)
  <2>1. s.args = args /\ s.cur = cur /\ s.run = run /\ s.quoted = quoted /\ s.in = in
    BY DEF Reader
  <2>2. c \notin {Slash, Quote, Blank} => ReadPut(s, c) = [s EXCEPT !.cur = Append(all, c), !.run = 0, !.in = TRUE]
    <3> HIDE DEF s
    <3> QED
      BY <1>9, <1>10, <2>1 DEF Yes, No
  <2> QED
    BY <2>2 DEF Reader, Yes, No
<1>6. c = Blank => ReadPut(Reader(args, cur, run, Yes, in), c) = Reader(args, Append(all, c), 0, Yes, Yes)
  <2> DEFINE s == Reader(args, cur, run, Yes, in)
  <2>1. s.args = args /\ s.cur = cur /\ s.run = run /\ s.quoted = Yes /\ s.in = in
    BY DEF Reader
  <2>2. c = Blank => ReadPut(s, c) = [s EXCEPT !.cur = Append(all, c), !.run = 0, !.in = TRUE]
    <3> HIDE DEF s
    <3> QED
      BY <1>9, <1>10, <2>1 DEF Yes, No
  <2> QED
    BY <2>2 DEF Reader, Yes, No
<1>7. c = Blank => ReadPut(Reader(args, cur, run, No, Yes), c) = Reader(Append(args, all), <<>>, 0, No, No)
  <2> DEFINE s == Reader(args, cur, run, No, Yes)
  <2>1. s.args = args /\ s.cur = cur /\ s.run = run /\ s.quoted = No /\ s.in = Yes
    BY DEF Reader
  <2>2. c = Blank => ReadPut(s, c) = [s EXCEPT !.args = Append(@, all), !.cur = <<>>, !.run = 0, !.in = FALSE]
    <3> HIDE DEF s
    <3> QED
      BY <1>9, <1>10, <2>1 DEF Yes, No
  <2> QED
    BY <2>2 DEF Reader, Yes, No
<1>8. c = Blank => ReadPut(Reader(args, cur, run, No, No), c) = Reader(args, cur, run, No, No)
  <2> DEFINE s == Reader(args, cur, run, No, No)
  <2>1. s.args = args /\ s.cur = cur /\ s.run = run /\ s.quoted = No /\ s.in = No
    BY DEF Reader
  <2>2. c = Blank => ReadPut(s, c) = s
    <3> HIDE DEF s
    <3> QED
      BY <1>9, <1>10, <2>1 DEF Yes, No
  <2> QED
    BY <2>2 DEF Reader, Yes, No
<1> QED
  BY <1>1, <1>2, <1>3, <1>4, <1>5, <1>6, <1>7, <1>8 DEF half, all

\* A character leads from a state of the runtime's reader to another.
LEMMA ReadStepType ==
    ASSUME NEW C, {Quote, Slash} \subseteq C
    PROVE  ReadStep(C) \in [Reading(C) \X C -> Reading(C)] /\ ReadBase \in Reading(C)
<1>1. ASSUME NEW args \in Seq(Seq(C)), NEW cur \in Seq(C), NEW run \in Nat,
             NEW quoted \in BOOLEAN, NEW in \in BOOLEAN, NEW c \in C
      PROVE  ReadPut(Reader(args, cur, run, quoted, in), c) \in Reading(C)
  <2> DEFINE half == cur \o Times(run \div 2, Slash)
             all == cur \o Times(run, Slash)
  <2>1. Times(run \div 2, Slash) \in Seq(C) /\ Times(run, Slash) \in Seq(C) /\ run + 1 \in Nat
    <3>1. run \div 2 \in Nat
      OBVIOUS
    <3> QED
      BY <3>1, TimesIs
  <2>2. half \in Seq(C) /\ all \in Seq(C) /\ Append(half, Quote) \in Seq(C) /\ Append(all, c) \in Seq(C)
    BY <2>1
  <2>3. Append(args, all) \in Seq(Seq(C)) /\ <<>> \in Seq(C)
    <3> DEFINE K == Seq(C)
    <3>1. args \in Seq(K) /\ all \in K
      BY <2>2
    <3> HIDE DEF all, K
    <3>2. Append(args, all) \in Seq(K)
      BY <3>1
    <3>3. <<>> \in K
      BY DEF K
    <3> QED
      BY <3>2, <3>3 DEF K
  <2>12. Yes \in BOOLEAN /\ No \in BOOLEAN /\ 0 \in Nat
    BY DEF Yes, No
  <2>4. CASE c = Slash
    <3>1. ReadPut(Reader(args, cur, run, quoted, in), c) = Reader(args, cur, run + 1, quoted, Yes)
      BY <2>4, ReadPutIs
    <3>2. Reader(args, cur, run + 1, quoted, Yes) \in Reading(C)
      BY <2>1, <2>12, ReaderIs
    <3> QED
      BY <3>1, <3>2
  <2>5. CASE c = Quote /\ run % 2 = 1
    <3>1. ReadPut(Reader(args, cur, run, quoted, in), c) = Reader(args, Append(half, Quote), 0, quoted, Yes)
      BY <2>5, ReadPutIs
    <3>2. Reader(args, Append(half, Quote), 0, quoted, Yes) \in Reading(C)
      BY <2>2, <2>12, ReaderIs
    <3> QED
      BY <3>1, <3>2
  <2>6. CASE c = Quote /\ run % 2 # 1 /\ ~quoted
    <3>0. quoted = No
      BY <2>6 DEF Yes, No
    <3>1. ReadPut(Reader(args, cur, run, No, in), c) = Reader(args, half, 0, Yes, Yes)
      BY <2>6, ReadPutIs
    <3>2. Reader(args, half, 0, Yes, Yes) \in Reading(C)
      BY <2>2, <2>12, ReaderIs
    <3> QED
      BY <3>0, <3>1, <3>2
  <2>7. CASE c = Quote /\ run % 2 # 1 /\ quoted
    <3>0. quoted = Yes
      BY <2>7 DEF Yes, No
    <3>1. ReadPut(Reader(args, cur, run, Yes, in), c) = Reader(args, half, 0, No, Yes)
      BY <2>7, ReadPutIs
    <3>2. Reader(args, half, 0, No, Yes) \in Reading(C)
      BY <2>2, <2>12, ReaderIs
    <3> QED
      BY <3>0, <3>1, <3>2
  <2>8. CASE c \notin {Slash, Quote, Blank}
    <3>1. ReadPut(Reader(args, cur, run, quoted, in), c) = Reader(args, Append(all, c), 0, quoted, Yes)
      BY <2>8, ReadPutIs
    <3>2. Reader(args, Append(all, c), 0, quoted, Yes) \in Reading(C)
      BY <2>2, <2>12, ReaderIs
    <3> QED
      BY <3>1, <3>2
  <2>9. CASE c = Blank /\ quoted
    <3>0. quoted = Yes
      BY <2>9 DEF Yes, No
    <3>1. ReadPut(Reader(args, cur, run, Yes, in), c) = Reader(args, Append(all, c), 0, Yes, Yes)
      BY <2>9, ReadPutIs
    <3>2. Reader(args, Append(all, c), 0, Yes, Yes) \in Reading(C)
      BY <2>2, <2>12, ReaderIs
    <3> QED
      BY <3>0, <3>1, <3>2
  <2>10. CASE c = Blank /\ ~quoted /\ in
    <3>0. quoted = No /\ in = Yes
      BY <2>10 DEF Yes, No
    <3>1. ReadPut(Reader(args, cur, run, No, Yes), c) = Reader(Append(args, all), <<>>, 0, No, No)
      BY <2>10, ReadPutIs
    <3>2. Reader(Append(args, all), <<>>, 0, No, No) \in Reading(C)
      BY <2>3, <2>12, ReaderIs
    <3> QED
      BY <3>0, <3>1, <3>2
  <2>11. CASE c = Blank /\ ~quoted /\ ~in
    <3>0. quoted = No /\ in = No
      BY <2>11 DEF Yes, No
    <3>1. ReadPut(Reader(args, cur, run, No, No), c) = Reader(args, cur, run, No, No)
      BY <2>11, ReadPutIs
    <3>2. Reader(args, cur, run, No, No) \in Reading(C)
      BY <2>1, <2>12, ReaderIs
    <3> QED
      BY <3>0, <3>1, <3>2
  <2> QED
    BY <2>4, <2>5, <2>6, <2>7, <2>8, <2>9, <2>10, <2>11
<1>2. ReadBase \in Reading(C)
  <2>1. ReadBase = Reader(<<>>, <<>>, 0, FALSE, FALSE)
    BY DEF ReadBase, Reader
  <2>2. <<>> \in Seq(C) /\ <<>> \in Seq(Seq(C))
    OBVIOUS
  <2> QED
    BY <2>1, <2>2, ReaderIs
<1> QED
  <2>1. ASSUME NEW s \in Reading(C), NEW c \in C PROVE ReadPut(s, c) \in Reading(C)
    <3>1. s = Reader(s.args, s.cur, s.run, s.quoted, s.in)
      BY ReaderIs
    <3>2. /\ s.args \in Seq(Seq(C)) /\ s.cur \in Seq(C) /\ s.run \in Nat
          /\ s.quoted \in BOOLEAN /\ s.in \in BOOLEAN
      BY <3>1, ReaderIs
    <3> QED
      BY <1>1, <3>1, <3>2
  <2> QED
    BY <1>2, <2>1 DEF ReadStep

\* A character leads from a state of the shell's reader to another.
LEMMA ShellStepType ==
    ASSUME NEW C
    PROVE  ShellStep(C) \in [Shelling(C) \X C -> Shelling(C)] /\ ShellBase \in Shelling(C)
<1>1. ASSUME NEW s \in Shelling(C), NEW c \in C PROVE ShellPut(s, c) \in Shelling(C)
  <2>1. Append(s.line, c) \in Seq(C)
    BY DEF Shelling
  <2> QED
    BY <2>1 DEF ShellPut, Shelling
<1>2. ShellBase \in Shelling(C)
  BY DEF ShellBase, Shelling
<1> QED
  BY <1>1, <1>2 DEF ShellStep

\* An argument is quoted one character after the other.
LEMMA QuoteSteps ==
    ASSUME NEW C, {Quote, Slash} \subseteq C, NEW arg \in Seq(C)
    PROVE  ComesTo(Quoting(C), QuoteStep(C), QuoteBase, arg, QuoteRun(arg))
<1> DEFINE g == QuoteStep(C)
           Is(h) == h = [s \in SUBSET DOMAIN arg |->
                          IF s = {} THEN QuoteBase ELSE QuotePut(h[s \ {Max(s)}], arg[Max(s)])]
<1>0. DOMAIN arg = 1..Len(arg) /\ Len(arg) \in Nat
      /\ \A i \in 1..Len(arg) : arg[i] \in C
  OBVIOUS
<1>1. QuoteRun(arg) = (CHOOSE h : Is(h))[DOMAIN arg]
  BY DEF QuoteRun, FoldLeft, MapThenFoldSet
<1>2. ASSUME NEW s \in SUBSET (1..Len(arg)), s # {}
      PROVE  arg[Max(s)] \in C /\ s \ {Max(s)} \in SUBSET (1..Len(arg))
  BY <1>0, <1>2, MaxOfSome
<1>3. ASSUME NEW a \in Quoting(C), NEW b \in C PROVE g[<<a, b>>] = QuotePut(a, b)
  BY <1>3 DEF QuoteStep
<1>4. g \in [Quoting(C) \X C -> Quoting(C)] /\ QuoteBase \in Quoting(C)
  BY QuoteStepType
<1> HIDE DEF g
<1>5. \E h : Is(h)
  <2>1. PICK h \in [SUBSET (1..Len(arg)) -> Quoting(C)] :
          \A s \in SUBSET (1..Len(arg)) : OneFold(h, g, QuoteBase, arg, s)
    BY <1>4, RunExists
  <2>2. ASSUME NEW s \in SUBSET DOMAIN arg
        PROVE  h[s] = IF s = {} THEN QuoteBase ELSE QuotePut(h[s \ {Max(s)}], arg[Max(s)])
    BY <1>0, <1>2, <1>3, <2>1 DEF OneFold
  <2>3. Is(h)
    BY <1>0, <2>1, <2>2
  <2> QED
    BY <2>3
<1>6. PICK h : Is(h) /\ QuoteRun(arg) = h[DOMAIN arg]
  <2> HIDE DEF Is
  <2> QED
    BY <1>1, <1>5
<1>7. ASSUME NEW s \in SUBSET (1..Len(arg)), s # {}, h[s \ {Max(s)}] \in Quoting(C)
      PROVE  h[s] = g[<<h[s \ {Max(s)}], arg[Max(s)]>>]
  <2>1. h[s] = QuotePut(h[s \ {Max(s)}], arg[Max(s)])
    BY <1>0, <1>6, <1>7
  <2> QED
    BY <1>2, <1>3, <1>7, <2>1
<1>8. h[{}] = QuoteBase
  <2>1. {} \in SUBSET DOMAIN arg
    OBVIOUS
  <2> QED
    BY <1>6, <2>1
<1> HIDE DEF Is
<1>9. FoldsBy(Quoting(C), g, QuoteBase, arg, h)
  BY <1>7, <1>8 DEF FoldsBy
<1>10. ComesTo(Quoting(C), g, QuoteBase, arg, h[1..Len(arg)])
  BY <1>4, <1>9, FoldHasSteps
<1> QED
  BY <1>0, <1>6, <1>10 DEF g

\* A line is escaped one character after the other.
LEMMA EscapeSteps ==
    ASSUME NEW C, Caret \in C, NEW line \in Seq(C)
    PROVE  ComesTo(Escaping(C), EscapeStep(C), EscapeBase, line, EscapeRun(line))
<1> DEFINE g == EscapeStep(C)
           Is(h) == h = [s \in SUBSET DOMAIN line |->
                          IF s = {} THEN EscapeBase ELSE EscapePut(h[s \ {Max(s)}], line[Max(s)])]
<1>0. DOMAIN line = 1..Len(line) /\ Len(line) \in Nat
      /\ \A i \in 1..Len(line) : line[i] \in C
  OBVIOUS
<1>1. EscapeRun(line) = (CHOOSE h : Is(h))[DOMAIN line]
  BY DEF EscapeRun, FoldLeft, MapThenFoldSet
<1>2. ASSUME NEW s \in SUBSET (1..Len(line)), s # {}
      PROVE  line[Max(s)] \in C /\ s \ {Max(s)} \in SUBSET (1..Len(line))
  BY <1>0, <1>2, MaxOfSome
<1>3. ASSUME NEW a \in Escaping(C), NEW b \in C PROVE g[<<a, b>>] = EscapePut(a, b)
  BY <1>3 DEF EscapeStep
<1>4. g \in [Escaping(C) \X C -> Escaping(C)] /\ EscapeBase \in Escaping(C)
  BY EscapeStepType
<1> HIDE DEF g
<1>5. \E h : Is(h)
  <2>1. PICK h \in [SUBSET (1..Len(line)) -> Escaping(C)] :
          \A s \in SUBSET (1..Len(line)) : OneFold(h, g, EscapeBase, line, s)
    BY <1>4, RunExists
  <2>2. ASSUME NEW s \in SUBSET DOMAIN line
        PROVE  h[s] = IF s = {} THEN EscapeBase ELSE EscapePut(h[s \ {Max(s)}], line[Max(s)])
    BY <1>0, <1>2, <1>3, <2>1 DEF OneFold
  <2>3. Is(h)
    BY <1>0, <2>1, <2>2
  <2> QED
    BY <2>3
<1>6. PICK h : Is(h) /\ EscapeRun(line) = h[DOMAIN line]
  <2> HIDE DEF Is
  <2> QED
    BY <1>1, <1>5
<1>7. ASSUME NEW s \in SUBSET (1..Len(line)), s # {}, h[s \ {Max(s)}] \in Escaping(C)
      PROVE  h[s] = g[<<h[s \ {Max(s)}], line[Max(s)]>>]
  <2>1. h[s] = EscapePut(h[s \ {Max(s)}], line[Max(s)])
    BY <1>0, <1>6, <1>7
  <2> QED
    BY <1>2, <1>3, <1>7, <2>1
<1>8. h[{}] = EscapeBase
  <2>1. {} \in SUBSET DOMAIN line
    OBVIOUS
  <2> QED
    BY <1>6, <2>1
<1> HIDE DEF Is
<1>9. FoldsBy(Escaping(C), g, EscapeBase, line, h)
  BY <1>7, <1>8 DEF FoldsBy
<1>10. ComesTo(Escaping(C), g, EscapeBase, line, h[1..Len(line)])
  BY <1>4, <1>9, FoldHasSteps
<1> QED
  BY <1>0, <1>6, <1>10 DEF g

\* The runtime reads a line one character after the other.
LEMMA ReadSteps ==
    ASSUME NEW C, {Quote, Slash} \subseteq C, NEW line \in Seq(C)
    PROVE  ComesTo(Reading(C), ReadStep(C), ReadBase, line, ReadRun(line))
<1> DEFINE g == ReadStep(C)
           Is(h) == h = [s \in SUBSET DOMAIN line |->
                          IF s = {} THEN ReadBase ELSE ReadPut(h[s \ {Max(s)}], line[Max(s)])]
<1>0. DOMAIN line = 1..Len(line) /\ Len(line) \in Nat
      /\ \A i \in 1..Len(line) : line[i] \in C
  OBVIOUS
<1>1. ReadRun(line) = (CHOOSE h : Is(h))[DOMAIN line]
  BY DEF ReadRun, FoldLeft, MapThenFoldSet
<1>2. ASSUME NEW s \in SUBSET (1..Len(line)), s # {}
      PROVE  line[Max(s)] \in C /\ s \ {Max(s)} \in SUBSET (1..Len(line))
  BY <1>0, <1>2, MaxOfSome
<1>3. ASSUME NEW a \in Reading(C), NEW b \in C PROVE g[<<a, b>>] = ReadPut(a, b)
  BY <1>3 DEF ReadStep
<1>4. g \in [Reading(C) \X C -> Reading(C)] /\ ReadBase \in Reading(C)
  BY ReadStepType
<1> HIDE DEF g
<1>5. \E h : Is(h)
  <2>1. PICK h \in [SUBSET (1..Len(line)) -> Reading(C)] :
          \A s \in SUBSET (1..Len(line)) : OneFold(h, g, ReadBase, line, s)
    BY <1>4, RunExists
  <2>2. ASSUME NEW s \in SUBSET DOMAIN line
        PROVE  h[s] = IF s = {} THEN ReadBase ELSE ReadPut(h[s \ {Max(s)}], line[Max(s)])
    BY <1>0, <1>2, <1>3, <2>1 DEF OneFold
  <2>3. Is(h)
    BY <1>0, <2>1, <2>2
  <2> QED
    BY <2>3
<1>6. PICK h : Is(h) /\ ReadRun(line) = h[DOMAIN line]
  <2> HIDE DEF Is
  <2> QED
    BY <1>1, <1>5
<1>7. ASSUME NEW s \in SUBSET (1..Len(line)), s # {}, h[s \ {Max(s)}] \in Reading(C)
      PROVE  h[s] = g[<<h[s \ {Max(s)}], line[Max(s)]>>]
  <2>1. h[s] = ReadPut(h[s \ {Max(s)}], line[Max(s)])
    BY <1>0, <1>6, <1>7
  <2> QED
    BY <1>2, <1>3, <1>7, <2>1
<1>8. h[{}] = ReadBase
  <2>1. {} \in SUBSET DOMAIN line
    OBVIOUS
  <2> QED
    BY <1>6, <2>1
<1> HIDE DEF Is
<1>9. FoldsBy(Reading(C), g, ReadBase, line, h)
  BY <1>7, <1>8 DEF FoldsBy
<1>10. ComesTo(Reading(C), g, ReadBase, line, h[1..Len(line)])
  BY <1>4, <1>9, FoldHasSteps
<1> QED
  BY <1>0, <1>6, <1>10 DEF g

\* The shell reads a line one character after the other.
LEMMA ShellSteps ==
    ASSUME NEW C, NEW line \in Seq(C)
    PROVE  ComesTo(Shelling(C), ShellStep(C), ShellBase, line, CmdRead(line))
<1> DEFINE g == ShellStep(C)
           Is(h) == h = [s \in SUBSET DOMAIN line |->
                          IF s = {} THEN ShellBase ELSE ShellPut(h[s \ {Max(s)}], line[Max(s)])]
<1>0. DOMAIN line = 1..Len(line) /\ Len(line) \in Nat
      /\ \A i \in 1..Len(line) : line[i] \in C
  OBVIOUS
<1>1. CmdRead(line) = (CHOOSE h : Is(h))[DOMAIN line]
  BY DEF CmdRead, ShellPut, ShellBase, FoldLeft, MapThenFoldSet
<1>2. ASSUME NEW s \in SUBSET (1..Len(line)), s # {}
      PROVE  line[Max(s)] \in C /\ s \ {Max(s)} \in SUBSET (1..Len(line))
  BY <1>0, <1>2, MaxOfSome
<1>3. ASSUME NEW a \in Shelling(C), NEW b \in C PROVE g[<<a, b>>] = ShellPut(a, b)
  BY <1>3 DEF ShellStep
<1>4. g \in [Shelling(C) \X C -> Shelling(C)] /\ ShellBase \in Shelling(C)
  BY ShellStepType
<1> HIDE DEF g
<1>5. \E h : Is(h)
  <2>1. PICK h \in [SUBSET (1..Len(line)) -> Shelling(C)] :
          \A s \in SUBSET (1..Len(line)) : OneFold(h, g, ShellBase, line, s)
    BY <1>4, RunExists
  <2>2. ASSUME NEW s \in SUBSET DOMAIN line
        PROVE  h[s] = IF s = {} THEN ShellBase ELSE ShellPut(h[s \ {Max(s)}], line[Max(s)])
    BY <1>0, <1>2, <1>3, <2>1 DEF OneFold
  <2>3. Is(h)
    BY <1>0, <2>1, <2>2
  <2> QED
    BY <2>3
<1>6. PICK h : Is(h) /\ CmdRead(line) = h[DOMAIN line]
  <2> HIDE DEF Is
  <2> QED
    BY <1>1, <1>5
<1>7. ASSUME NEW s \in SUBSET (1..Len(line)), s # {}, h[s \ {Max(s)}] \in Shelling(C)
      PROVE  h[s] = g[<<h[s \ {Max(s)}], line[Max(s)]>>]
  <2>1. h[s] = ShellPut(h[s \ {Max(s)}], line[Max(s)])
    BY <1>0, <1>6, <1>7
  <2> QED
    BY <1>2, <1>3, <1>7, <2>1
<1>8. h[{}] = ShellBase
  <2>1. {} \in SUBSET DOMAIN line
    OBVIOUS
  <2> QED
    BY <1>6, <2>1
<1> HIDE DEF Is
<1>9. FoldsBy(Shelling(C), g, ShellBase, line, h)
  BY <1>7, <1>8 DEF FoldsBy
<1>10. ComesTo(Shelling(C), g, ShellBase, line, h[1..Len(line)])
  BY <1>4, <1>9, FoldHasSteps
<1> QED
  BY <1>0, <1>6, <1>10 DEF g

\* The runtime's reader comes from s to t over a text.
Reads(C, s, text, t) == ComesTo(Reading(C), ReadStep(C), s, text, t)

\* Reading a text is reading its parts one after the other.
LEMMA ReadsThen ==
    ASSUME NEW C, {Quote, Slash} \subseteq C, NEW s \in Reading(C), NEW t, NEW u,
           NEW x \in Seq(C), NEW y \in Seq(C), Reads(C, s, x, t), Reads(C, t, y, u)
    PROVE  Reads(C, s, x \o y, u)
<1>1. ReadStep(C) \in [Reading(C) \X C -> Reading(C)]
  BY ReadStepType
<1> QED
  BY <1>1, ThenMore DEF Reads

\* Reading one character more.
LEMMA ReadsOneMore ==
    ASSUME NEW C, {Quote, Slash} \subseteq C, NEW s \in Reading(C), NEW t,
           NEW x \in Seq(C), Reads(C, s, x, t), NEW c \in C
    PROVE  Reads(C, s, Append(x, c), ReadPut(t, c)) /\ t \in Reading(C)
<1>1. ReadStep(C) \in [Reading(C) \X C -> Reading(C)]
  BY ReadStepType
<1>2. t \in Reading(C)
  BY ComesInto DEF Reads
<1>3. ReadStep(C)[<<t, c>>] = ReadPut(t, c)
  BY <1>2 DEF ReadStep
<1>4. ComesTo(Reading(C), ReadStep(C), s, Append(x, c), ReadStep(C)[<<t, c>>])
  BY <1>1, StepMore DEF Reads
<1> QED
  BY <1>2, <1>3, <1>4 DEF Reads

\* Backslashes wait for what comes behind them.
LEMMA SlashesWait ==
    ASSUME NEW C, {Quote, Slash} \subseteq C, NEW args \in Seq(Seq(C)), NEW cur \in Seq(C), NEW n \in Nat
    PROVE  Reads(C, Reader(args, cur, 0, Yes, Yes), Times(n, Slash), Reader(args, cur, n, Yes, Yes))
<1> DEFINE T == {k \in Nat : Reads(C, Reader(args, cur, 0, Yes, Yes), Times(k, Slash),
                                   Reader(args, cur, k, Yes, Yes))}
<1>1. Reader(args, cur, 0, Yes, Yes) \in Reading(C)
  <2>1. Yes \in BOOLEAN /\ 0 \in Nat
    BY DEF Yes
  <2> QED
    BY <2>1, ReaderIs
<1>2. 0 \in T
  <2>1. Times(0, Slash) = <<>>
    BY TimesIs
  <2> QED
    BY <1>1, <2>1, NoSteps DEF Reads
<1>3. ASSUME NEW k \in Nat, k \in T PROVE k + 1 \in T
  <2> DEFINE j == k + 1
  <2>0. j \in Nat
    OBVIOUS
  <2>1. Times(k, Slash) \in Seq(C) /\ Times(j, Slash) = Append(Times(k, Slash), Slash)
    BY TimesIs
  <2>2. ReadPut(Reader(args, cur, k, Yes, Yes), Slash) = Reader(args, cur, j, Yes, Yes)
    BY ReadPutIs
  <2>3. Reads(C, Reader(args, cur, 0, Yes, Yes), Append(Times(k, Slash), Slash),
              ReadPut(Reader(args, cur, k, Yes, Yes), Slash))
    BY <1>1, <1>3, <2>1, ReadsOneMore
  <2> HIDE DEF j
  <2>4. j \in Nat /\ Reads(C, Reader(args, cur, 0, Yes, Yes), Times(j, Slash), Reader(args, cur, j, Yes, Yes))
    BY <2>0, <2>1, <2>2, <2>3
  <2>5. j \in T
    BY <2>4
  <2> QED
    BY <2>5 DEF j
<1>4. n \in T
  <2> HIDE DEF T
  <2> QED
    BY <1>2, <1>3, SetInduction
<1> QED
  BY <1>4

\* Before an argument: the earlier ones are read, and none is begun.
Before(args) == Reader(args, <<>>, 0, No, No)

\* What is quoted of an argument so far is read as what was taken of it, but for
\* the backslashes that are still to be written.
HeldBack(C, args, s, taken) ==
    \E cur \in Seq(C) : /\ cur \o Times(s.run, Slash) = taken
                        /\ Reads(C, Before(args), s.out, Reader(args, cur, 0, Yes, Yes))

\* That stays so with one character more.
LEMMA HeldBackStep ==
    ASSUME NEW C, {Quote, Slash} \subseteq C, NEW args \in Seq(Seq(C)), NEW s \in Quoting(C),
           NEW taken \in Seq(C), HeldBack(C, args, s, taken), NEW c \in C
    PROVE  HeldBack(C, args, QuotePut(s, c), Append(taken, c))
<1> DEFINE out == s.out
           run == s.run
<1>1. out \in Seq(C) /\ run \in Nat
  BY DEF Quoting
<1>2. PICK cur \in Seq(C) : cur \o Times(run, Slash) = taken
                            /\ Reads(C, Before(args), out, Reader(args, cur, 0, Yes, Yes))
  BY DEF HeldBack
<1>3. Before(args) \in Reading(C) /\ Yes \in BOOLEAN
  <2>1. Yes \in BOOLEAN /\ No \in BOOLEAN /\ <<>> \in Seq(C) /\ 0 \in Nat
    BY DEF Yes, No
  <2> QED
    BY <2>1, ReaderIs DEF Before
<1>4. ASSUME NEW n \in Nat
      PROVE  /\ Times(n, Slash) \in Seq(C) /\ out \o Times(n, Slash) \in Seq(C)
             /\ Reads(C, Before(args), out \o Times(n, Slash), Reader(args, cur, n, Yes, Yes))
  <2>1. Times(n, Slash) \in Seq(C)
    BY TimesIs
  <2>2. Reads(C, Reader(args, cur, 0, Yes, Yes), Times(n, Slash), Reader(args, cur, n, Yes, Yes))
    BY <1>2, <1>3, SlashesWait
  <2>3. Reads(C, Before(args), out \o Times(n, Slash), Reader(args, cur, n, Yes, Yes))
    BY <1>1, <1>2, <1>3, <2>1, <2>2, ReadsThen
  <2> HIDE DEF out
  <2> QED
    BY <1>1, <2>1, <2>3
<1>5. CASE c = Slash
  <2> DEFINE next == QuotePut(s, c)
  <2>1. next = [s EXCEPT !.run = @ + 1]
    BY <1>5 DEF QuotePut
  <2>2. next.out = out /\ next.run = run + 1
    BY <1>1, <2>1 DEF Quoting
  <2>3. Times(run + 1, Slash) = Append(Times(run, Slash), Slash) /\ Times(run, Slash) \in Seq(C)
    BY <1>1, TimesIs
  <2> HIDE DEF next, out, run
  <2>4. cur \o Times(run + 1, Slash) = Append(taken, Slash)
    <3> DEFINE t == Times(run, Slash)
    <3>1. t \in Seq(C) /\ Slash \in C
      BY <2>3
    <3> HIDE DEF t
    <3>2. cur \o Append(t, Slash) = Append(cur \o t, Slash)
      BY <3>1
    <3> QED
      BY <1>2, <2>3, <3>2 DEF t
  <2> QED
    BY <1>2, <1>5, <2>2, <2>4 DEF HeldBack, next
<1>6. CASE c = Quote
  <2> DEFINE next == QuotePut(s, c)
             n == 2 * run + 1
             text == out \o Times(n, Slash)
             all == cur \o Times(run, Slash)
  <2>1. next = [out |-> text \o <<Quote>>, run |-> 0]
    BY <1>6 DEF QuotePut, Quote, Slash
  <2>2. n \in Nat /\ n % 2 = 1 /\ n \div 2 = run
    <3> HIDE DEF run
    <3> QED
      BY <1>1
  <2> HIDE DEF n
  <2>3. text \in Seq(C) /\ Reads(C, Before(args), text, Reader(args, cur, n, Yes, Yes))
    BY <1>4, <2>2
  <2> HIDE DEF text
  <2>4. ReadPut(Reader(args, cur, n, Yes, Yes), Quote) = Reader(args, Append(cur \o Times(n \div 2, Slash), Quote), 0, Yes, Yes)
    BY <2>2, ReadPutIs
  <2>5. Reads(C, Before(args), Append(text, Quote), Reader(args, Append(all, Quote), 0, Yes, Yes))
    BY <1>3, <2>2, <2>3, <2>4, ReadsOneMore
  <2>6. next.out = Append(text, Quote) /\ next.run = 0
    BY <2>1, <2>3
  <2>7. all = taken /\ Append(taken, Quote) \in Seq(C)
    BY <1>2
  <2>8. Times(0, Slash) = <<>>
    BY TimesIs
  <2> HIDE DEF next, all
  <2>9. Append(taken, Quote) \o Times(0, Slash) = Append(taken, Quote)
    BY <2>7, <2>8
  <2> QED
    BY <1>6, <2>5, <2>6, <2>7, <2>9 DEF HeldBack, next
<1>7. CASE c \notin {Slash, Quote}
  <2> DEFINE next == QuotePut(s, c)
             text == out \o Times(run, Slash)
             all == cur \o Times(run, Slash)
  <2>1. next = [out |-> text \o <<c>>, run |-> 0]
    BY <1>7 DEF QuotePut
  <2>2. text \in Seq(C) /\ Reads(C, Before(args), text, Reader(args, cur, run, Yes, Yes))
    BY <1>1, <1>4
  <2> HIDE DEF text
  <2>3. ReadPut(Reader(args, cur, run, Yes, Yes), c) = Reader(args, Append(all, c), 0, Yes, Yes)
    <3>1. c = Blank \/ c \notin {Slash, Quote, Blank}
      BY <1>7
    <3> QED
      BY <3>1, ReadPutIs
  <2>4. Reads(C, Before(args), Append(text, c), Reader(args, Append(all, c), 0, Yes, Yes))
    BY <1>3, <2>2, <2>3, ReadsOneMore
  <2>5. next.out = Append(text, c) /\ next.run = 0
    BY <2>1, <2>2
  <2>6. all = taken /\ Append(taken, c) \in Seq(C)
    BY <1>2
  <2>7. Times(0, Slash) = <<>>
    BY TimesIs
  <2> HIDE DEF next, all
  <2>8. Append(taken, c) \o Times(0, Slash) = Append(taken, c)
    BY <2>6, <2>7
  <2> QED
    BY <2>4, <2>5, <2>6, <2>8 DEF HeldBack, next
<1> QED
  BY <1>5, <1>6, <1>7

\* An argument in quotes is read as it was, whatever backslashes and quotes are in it.
LEMMA QuotedIsRead ==
    ASSUME NEW C, {Quote, Slash} \subseteq C, NEW args \in Seq(Seq(C)), NEW arg \in Seq(C)
    PROVE  /\ Quoted(arg) \in Seq(C)
           /\ Reads(C, Before(args), Quoted(arg), Reader(args, arg, 0, No, Yes))
<1>1. PICK r : FoldSteps(Quoting(C), QuoteStep(C), QuoteBase, arg, r) /\ r[Len(arg)] = QuoteRun(arg)
  BY QuoteSteps DEF ComesTo
<1> DEFINE n == Len(arg)
           Upto(k) == SubSeq(arg, 1, k)
           T == {k \in Nat : k <= n => HeldBack(C, args, r[k], Upto(k))}
<1>2. n \in Nat /\ Upto(0) = <<>> /\ Upto(n) = arg
  OBVIOUS
<1>3. ASSUME NEW k \in Nat, k + 1 <= n
      PROVE  Upto(k) \in Seq(C) /\ arg[k + 1] \in C /\ Upto(k + 1) = Append(Upto(k), arg[k + 1])
  BY <1>3
<1>4. /\ r[0] = QuoteBase
      /\ \A k \in 0..n : r[k] \in Quoting(C)
      /\ \A k \in 0..(n - 1) : r[k + 1] = QuoteStep(C)[<<r[k], arg[k + 1]>>]
  BY <1>1 DEF FoldSteps
<1>5. Before(args) \in Reading(C) /\ Yes \in BOOLEAN
  <2>1. Yes \in BOOLEAN /\ No \in BOOLEAN /\ <<>> \in Seq(C) /\ 0 \in Nat
    BY DEF Yes, No
  <2> QED
    BY <2>1, ReaderIs DEF Before
<1> HIDE DEF Upto, n
<1>6. 0 \in T
  <2>1. ReadPut(Before(args), Quote) = Reader(args, <<>> \o Times(0 \div 2, Slash), 0, Yes, Yes)
    <3> DEFINE z == 0
               e == <<>>
    <3>1. z % 2 # 1 /\ Before(args) = Reader(args, e, z, No, No)
      BY DEF Before
    <3> HIDE DEF z, e
    <3>2. ReadPut(Reader(args, e, z, No, No), Quote) = Reader(args, e \o Times(z \div 2, Slash), 0, Yes, Yes)
      BY <3>1, ReadPutIs
    <3> QED
      BY <3>1, <3>2 DEF z, e
  <2>2. Times(0, Slash) = <<>> /\ 0 \div 2 = 0 /\ <<>> \o <<>> = <<>> /\ <<>> \in Seq(C)
    BY TimesIs
  <2>3. Reads(C, Before(args), <<>>, Before(args))
    BY <1>5, NoSteps DEF Reads
  <2>4. Reads(C, Before(args), Append(<<>>, Quote), ReadPut(Before(args), Quote))
    BY <1>5, <2>2, <2>3, ReadsOneMore
  <2>5. Append(<<>>, Quote) = <<Quote>>
    OBVIOUS
  <2>6. Reads(C, Before(args), <<Quote>>, Reader(args, <<>>, 0, Yes, Yes))
    BY <2>1, <2>2, <2>4, <2>5
  <2>7. QuoteBase.out = <<Quote>> /\ QuoteBase.run = 0
    BY DEF QuoteBase
  <2>8. HeldBack(C, args, QuoteBase, <<>>)
    BY <2>2, <2>6, <2>7 DEF HeldBack
  <2> QED
    BY <1>2, <1>4, <2>8
<1>7. ASSUME NEW k \in Nat, k \in T PROVE k + 1 \in T
  <2>1. SUFFICES ASSUME k + 1 <= n PROVE HeldBack(C, args, r[k + 1], Upto(k + 1))
    OBVIOUS
  <2>2. k <= n /\ k \in 0..n /\ k \in 0..(n - 1)
    BY <1>2, <2>1
  <2>3. HeldBack(C, args, r[k], Upto(k)) /\ r[k] \in Quoting(C)
    BY <1>4, <1>7, <2>2
  <2>4. Upto(k) \in Seq(C) /\ arg[k + 1] \in C /\ Upto(k + 1) = Append(Upto(k), arg[k + 1])
    BY <1>3, <2>1
  <2>5. r[k + 1] = QuotePut(r[k], arg[k + 1])
    BY <1>4, <2>2, <2>3, <2>4 DEF QuoteStep
  <2> QED
    BY <2>3, <2>4, <2>5, HeldBackStep
<1>8. n \in T
  <2> HIDE DEF T
  <2> QED
    BY <1>2, <1>6, <1>7, SetInduction
<1> DEFINE end == QuoteRun(arg)
           half == end.run
           text == end.out \o Times(2 * half, Slash)
<1>9. HeldBack(C, args, end, arg) /\ end \in Quoting(C)
  <2>1. n \in 0..n
    BY <1>2
  <2> QED
    BY <1>1, <1>2, <1>4, <1>8, <2>1 DEF n
<1>10. Quoted(arg) = text \o <<Quote>>
  BY Zenon DEF Quoted, QuoteRun, QuotePut, QuoteBase
<1> HIDE DEF end
<1>11. end.out \in Seq(C) /\ half \in Nat
  BY <1>9 DEF Quoting
<1>12. PICK cur \in Seq(C) : cur \o Times(half, Slash) = arg
                             /\ Reads(C, Before(args), end.out, Reader(args, cur, 0, Yes, Yes))
  BY <1>9 DEF HeldBack
<1> DEFINE m == 2 * half
<1>13. m \in Nat /\ m % 2 # 1 /\ m \div 2 = half
  <2> HIDE DEF half
  <2> QED
    BY <1>11
<1> HIDE DEF m, half
<1>14. Times(m, Slash) \in Seq(C)
  BY <1>13, TimesIs
<1>15. Reads(C, Reader(args, cur, 0, Yes, Yes), Times(m, Slash), Reader(args, cur, m, Yes, Yes))
  BY <1>5, <1>12, <1>13, SlashesWait
<1> DEFINE outer == end.out \o Times(m, Slash)
<1>16. outer \in Seq(C) /\ Reads(C, Before(args), outer, Reader(args, cur, m, Yes, Yes))
  <2>1. outer \in Seq(C)
    BY <1>11, <1>14
  <2> QED
    BY <1>5, <1>11, <1>12, <1>14, <1>15, <2>1, ReadsThen
<1>17. Quoted(arg) = outer \o <<Quote>>
  BY <1>10 DEF m, half
<1> HIDE DEF outer
<1>18. outer \o <<Quote>> = Append(outer, Quote) /\ Append(outer, Quote) \in Seq(C)
  BY <1>16
<1>19. ReadPut(Reader(args, cur, m, Yes, Yes), Quote) = Reader(args, cur \o Times(half, Slash), 0, No, Yes)
  <2>1. ReadPut(Reader(args, cur, m, Yes, Yes), Quote) = Reader(args, cur \o Times(m \div 2, Slash), 0, No, Yes)
    BY <1>13, ReadPutIs
  <2> QED
    BY <1>13, <2>1
<1>20. Reads(C, Before(args), Append(outer, Quote), ReadPut(Reader(args, cur, m, Yes, Yes), Quote))
  BY <1>5, <1>16, ReadsOneMore
<1> QED
  BY <1>12, <1>17, <1>18, <1>19, <1>20 DEF half

\* After an argument: the earlier ones are read, and it is under the reader's hand.
Behind(C, args, arg, s) ==
    \E cur \in Seq(C), run \in Nat :
      cur \o Times(run, Slash) = arg /\ s = Reader(args, cur, run, No, Yes)

\* An argument that needs no quotes is read as it is.
LEMMA PlainIsRead ==
    ASSUME NEW C, {Quote, Slash} \subseteq C, NEW args \in Seq(Seq(C)), NEW arg \in Seq(C),
           ~ArgvNeedsQuoting(arg)
    PROVE  \E s : Behind(C, args, arg, s) /\ Reads(C, Before(args), arg, s)
<1> DEFINE n == Len(arg)
           Upto(k) == SubSeq(arg, 1, k)
           So(k) == \E s : Behind(C, args, Upto(k), s) /\ Reads(C, Before(args), Upto(k), s)
           T == {k \in Nat : k + 1 <= n => So(k + 1)}
<1>1. n \in Nat /\ n # 0 /\ \A i \in 1..n : arg[i] \in C /\ arg[i] \notin {Blank, Quote}
  <2>1. arg # <<>> /\ {Blank, Quote} \cap ToSet(arg) = {}
    BY DEF ArgvNeedsQuoting
  <2>2. ToSet(arg) = {arg[i] : i \in 1..n}
    BY DEF ToSet
  <2>3. n \in Nat /\ n # 0 /\ \A i \in 1..n : arg[i] \in C
    BY <2>1
  <2> HIDE DEF n
  <2>4. \A i \in 1..n : arg[i] \in ToSet(arg)
    BY <2>2
  <2> QED
    BY <2>1, <2>3, <2>4
<1>2. Upto(0) = <<>> /\ Upto(n) = arg
  OBVIOUS
<1>3. ASSUME NEW k \in Nat, k + 1 <= n
      PROVE  Upto(k) \in Seq(C) /\ arg[k + 1] \in C /\ Upto(k + 1) = Append(Upto(k), arg[k + 1])
             /\ arg[k + 1] \notin {Blank, Quote}
  <2>1. Upto(k) \in Seq(C) /\ arg[k + 1] \in C /\ Upto(k + 1) = Append(Upto(k), arg[k + 1])
    BY <1>3
  <2>2. k + 1 \in 1..n
    BY <1>1, <1>3
  <2> QED
    BY <1>1, <2>1, <2>2
<1>4. Before(args) \in Reading(C) /\ Yes \in BOOLEAN /\ No \in BOOLEAN
  <2>1. Yes \in BOOLEAN /\ No \in BOOLEAN /\ <<>> \in Seq(C) /\ 0 \in Nat
    BY DEF Yes, No
  <2> QED
    BY <2>1, ReaderIs DEF Before
<1> HIDE DEF Upto, n
<1>5. ASSUME NEW taken \in Seq(C), NEW cur \in Seq(C), NEW run \in Nat, NEW in,
             cur \o Times(run, Slash) = taken, Reads(C, Before(args), taken, Reader(args, cur, run, No, in)),
             NEW c \in C, c \notin {Blank, Quote}
      PROVE  \E s : Behind(C, args, Append(taken, c), s) /\ Reads(C, Before(args), Append(taken, c), s)
  <2>1. Reads(C, Before(args), Append(taken, c), ReadPut(Reader(args, cur, run, No, in), c))
    BY <1>4, <1>5, ReadsOneMore
  <2>2. Times(run, Slash) \in Seq(C) /\ Times(run + 1, Slash) = Append(Times(run, Slash), Slash)
        /\ Times(0, Slash) = <<>>
    BY TimesIs
  <2> DEFINE t == Times(run, Slash)
  <2>3. CASE c = Slash
    <3>1. ReadPut(Reader(args, cur, run, No, in), c) = Reader(args, cur, run + 1, No, Yes)
      BY <2>3, ReadPutIs
    <3>2. cur \o Times(run + 1, Slash) = Append(taken, c)
      <4>1. t \in Seq(C) /\ Times(run + 1, Slash) = Append(t, Slash) /\ cur \o t = taken
        BY <1>5, <2>2
      <4> HIDE DEF t
      <4>2. cur \o Append(t, Slash) = Append(cur \o t, Slash)
        BY <4>1
      <4> QED
        BY <2>3, <4>1, <4>2
    <3>3. Behind(C, args, Append(taken, c), Reader(args, cur, run + 1, No, Yes))
      <4> DEFINE m == run + 1
      <4>1. m \in Nat /\ cur \o Times(m, Slash) = Append(taken, c)
        BY <3>2
      <4> HIDE DEF m
      <4>2. Behind(C, args, Append(taken, c), Reader(args, cur, m, No, Yes))
        BY <4>1 DEF Behind
      <4> QED
        BY <4>2 DEF m
    <3> QED
      BY <2>1, <3>1, <3>3
  <2>4. CASE c # Slash
    <3>1. ReadPut(Reader(args, cur, run, No, in), c) = Reader(args, Append(taken, c), 0, No, Yes)
      <4>1. c \notin {Slash, Quote, Blank}
        BY <1>5, <2>4
      <4>2. ReadPut(Reader(args, cur, run, No, in), c) = Reader(args, Append(cur \o Times(run, Slash), c), 0, No, Yes)
        BY <4>1, ReadPutIs
      <4> QED
        BY <1>5, <4>2
    <3>2. Append(taken, c) \in Seq(C) /\ Append(taken, c) \o Times(0, Slash) = Append(taken, c)
      BY <2>2
    <3>3. Behind(C, args, Append(taken, c), Reader(args, Append(taken, c), 0, No, Yes))
      BY <3>2 DEF Behind
    <3> QED
      BY <2>1, <3>1, <3>3
  <2> QED
    BY <2>3, <2>4
<1>6. 0 \in T
  <2>1. Upto(0) \in Seq(C) /\ arg[1] \in C /\ Upto(1) = Append(Upto(0), arg[1]) /\ arg[1] \notin {Blank, Quote}
    <3>1. 0 \in Nat /\ 0 + 1 <= n /\ 0 + 1 = 1
      BY <1>1
    <3> QED
      BY <1>3, <3>1
  <2>2. Reads(C, Before(args), <<>>, Before(args))
    BY <1>4, NoSteps DEF Reads
  <2>3. <<>> \in Seq(C) /\ Times(0, Slash) = <<>> /\ <<>> \o <<>> = <<>>
    BY TimesIs
  <2>4. Reads(C, Before(args), Upto(0), Reader(args, <<>>, 0, No, No)) /\ <<>> \o Times(0, Slash) = Upto(0)
    BY <1>2, <2>2, <2>3 DEF Before
  <2>5. So(1)
    BY <1>5, <2>1, <2>3, <2>4
  <2>6. 0 + 1 = 1
    OBVIOUS
  <2> HIDE DEF So
  <2> QED
    BY <2>5, <2>6
<1>7. ASSUME NEW k \in Nat, k \in T PROVE k + 1 \in T
  <2> DEFINE j == k + 1
  <2>1. SUFFICES ASSUME j + 1 <= n PROVE So(j + 1)
    OBVIOUS
  <2>2. j \in Nat /\ j <= n
    BY <1>1, <2>1
  <2>3. So(j)
    BY <1>7, <2>2
  <2> HIDE DEF j
  <2>4. PICK s : Behind(C, args, Upto(j), s) /\ Reads(C, Before(args), Upto(j), s)
    BY <2>3
  <2>5. PICK cur \in Seq(C), run \in Nat : cur \o Times(run, Slash) = Upto(j) /\ s = Reader(args, cur, run, No, Yes)
    BY <2>4 DEF Behind
  <2>6. Upto(j) \in Seq(C) /\ arg[j + 1] \in C /\ Upto(j + 1) = Append(Upto(j), arg[j + 1])
        /\ arg[j + 1] \notin {Blank, Quote}
    BY <1>3, <2>1, <2>2
  <2> QED
    BY <1>5, <2>4, <2>5, <2>6
<1>8. \A k \in Nat : k \in T
  <2> HIDE DEF T
  <2> QED
    BY <1>6, <1>7, SetInduction
<1>9. So(n)
  <2> DEFINE k == n - 1
  <2>1. k \in Nat /\ k + 1 = n
    BY <1>1
  <2> HIDE DEF k, So
  <2>2. k \in T
    BY <1>8, <2>1
  <2> QED
    BY <2>1, <2>2
<1> QED
  BY <1>2, <1>9

\* Either way, what ArgvEscapeArg makes of an argument is read as the argument.
LEMMA EscapedIsRead ==
    ASSUME NEW C, {Quote, Slash} \subseteq C, NEW args \in Seq(Seq(C)), NEW arg \in Seq(C)
    PROVE  /\ ArgvEscapeArg(arg) \in Seq(C)
           /\ \E s : Behind(C, args, arg, s) /\ Reads(C, Before(args), ArgvEscapeArg(arg), s)
<1>1. CASE ArgvNeedsQuoting(arg)
  <2>1. Quoted(arg) \in Seq(C) /\ Reads(C, Before(args), Quoted(arg), Reader(args, arg, 0, No, Yes))
    BY QuotedIsRead
  <2>2. Times(0, Slash) = <<>> /\ arg \o <<>> = arg /\ 0 \in Nat
    BY TimesIs
  <2>3. Behind(C, args, arg, Reader(args, arg, 0, No, Yes))
    BY <2>2 DEF Behind
  <2> QED
    BY <1>1, <2>1, <2>3 DEF ArgvEscapeArg
<1>2. CASE ~ArgvNeedsQuoting(arg)
  BY <1>2, PlainIsRead DEF ArgvEscapeArg
<1> QED
  BY <1>1, <1>2

\* The sequences of seqs one after the other, up to each of them.
Flattens(C, seqs, f) ==
    /\ f \in [1..Len(seqs) -> Seq(C)]
    /\ f[1] = seqs[1]
    /\ \A i \in 1..(Len(seqs) - 1) : f[i + 1] = f[i] \o seqs[i + 1]

\* FlattenSeq puts them together one by one.
LEMMA FlattenSteps ==
    ASSUME NEW C, NEW seqs \in Seq(Seq(C)), Len(seqs) # 0
    PROVE  \E f : Flattens(C, seqs, f) /\ FlattenSeq(seqs) = f[Len(seqs)]
<1> DEFINE K == Seq(C)
           n == Len(seqs)
           Is(f) == f = [i \in 1..n |-> IF i = 1 THEN seqs[i] ELSE f[i - 1] \o seqs[i]]
           g == [p \in K \X K |-> p[1] \o p[2]]
<1>1. n \in Nat \ {0} /\ \A i \in 1..n : seqs[i] \in K
  OBVIOUS
<1>2. FlattenSeq(seqs) = (CHOOSE f : Is(f))[n]
  BY DEF FlattenSeq
<1>3. g \in [K \X K -> K] /\ <<>> \in K
  OBVIOUS
<1>4. \A a, b \in K : g[<<a, b>>] = a \o b /\ <<>> \o b = b
  <2>1. \A b \in K : <<>> \o b = b
    OBVIOUS
  <2> HIDE DEF K
  <2>2. \A a, b \in K : g[<<a, b>>] = a \o b
    OBVIOUS
  <2> QED
    BY <2>1, <2>2
<1> HIDE DEF g
<1>5. \E v \in K : ComesTo(K, g, <<>>, seqs, v)
  <2>1. seqs \in Seq(K)
    OBVIOUS
  <2> HIDE DEF K
  <2> QED
    BY <1>3, <2>1, ComesToSome
<1>6. PICK r : FoldSteps(K, g, <<>>, seqs, r)
  BY <1>5 DEF ComesTo
<1>7. /\ r[0] = <<>> /\ \A k \in 0..n : r[k] \in K
      /\ \A k \in 0..(n - 1) : r[k + 1] = g[<<r[k], seqs[k + 1]>>]
  BY <1>6 DEF FoldSteps
<1> DEFINE q == [i \in 1..n |-> r[i]]
<1> HIDE DEF K, n
<1>8. r[1] = seqs[1] /\ \A i \in 1..(n - 1) : r[i + 1] = r[i] \o seqs[i + 1]
  <2>1. ASSUME NEW k \in 0..(n - 1) PROVE r[k + 1] = r[k] \o seqs[k + 1]
    <3>1. k \in 0..n /\ k + 1 \in 1..n
      BY <1>1
    <3>2. r[k] \in K /\ seqs[k + 1] \in K
      BY <1>1, <1>7, <3>1
    <3> QED
      BY <1>4, <1>7, <3>2
  <2>2. 0 \in 0..(n - 1) /\ 1 \in 1..n /\ 0 + 1 = 1
    BY <1>1
  <2>3. r[1] = <<>> \o seqs[1] /\ seqs[1] \in K
    BY <1>1, <1>7, <2>1, <2>2
  <2>4. r[1] = seqs[1]
    BY <1>4, <2>3
  <2>5. \A i \in 1..(n - 1) : i \in 0..(n - 1)
    BY <1>1
  <2> QED
    BY <2>1, <2>4, <2>5
<1>9. Is(q)
  <2>1. ASSUME NEW i \in 1..n PROVE q[i] = IF i = 1 THEN seqs[i] ELSE q[i - 1] \o seqs[i]
    <3>1. CASE i = 1
      BY <1>8, <3>1
    <3>2. CASE i # 1
      <4> DEFINE j == i - 1
      <4>1. j \in 1..(n - 1) /\ j + 1 = i /\ j \in 1..n
        BY <1>1, <3>2
      <4> HIDE DEF j
      <4>2. q[i] = r[j + 1] /\ q[j] = r[j]
        BY <4>1
      <4>3. q[i] = q[j] \o seqs[i]
        BY <1>8, <4>1, <4>2
      <4> HIDE DEF q
      <4> QED
        BY <3>2, <4>3 DEF j
    <3> QED
      BY <3>1, <3>2
  <2> QED
    BY <2>1
<1>10. PICK f : Is(f) /\ FlattenSeq(seqs) = f[n]
  <2> HIDE DEF Is
  <2> QED
    BY <1>2, <1>9
<1>11. ASSUME NEW i \in 1..n PROVE f[i] = IF i = 1 THEN seqs[i] ELSE f[i - 1] \o seqs[i]
  BY <1>10
<1>12. f = [i \in 1..n |-> f[i]]
  BY <1>10
<1> HIDE DEF Is, q
<1>13. f[1] = seqs[1] /\ \A i \in 1..(n - 1) : f[i + 1] = f[i] \o seqs[i + 1]
  <2>1. f[1] = seqs[1]
    BY <1>1, <1>11
  <2>2. ASSUME NEW i \in 1..(n - 1) PROVE f[i + 1] = f[i] \o seqs[i + 1]
    <3>1. i + 1 \in 1..n /\ i + 1 # 1 /\ (i + 1) - 1 = i
      BY <1>1
    <3> QED
      BY <1>11, <3>1
  <2> QED
    BY <2>1, <2>2
<1> DEFINE T == {k \in Nat : k + 1 <= n => f[k + 1] \in K}
<1>14. 0 \in T
  BY <1>1, <1>13
<1>15. ASSUME NEW k \in Nat, k \in T PROVE k + 1 \in T
  <2> DEFINE j == k + 1
  <2>1. SUFFICES ASSUME j + 1 <= n PROVE f[j + 1] \in K
    OBVIOUS
  <2>2. j \in 1..(n - 1) /\ j <= n /\ j + 1 \in 1..n
    BY <1>1, <2>1
  <2>3. f[j] \in K
    BY <1>15, <2>2
  <2> HIDE DEF j
  <2>4. f[j + 1] = f[j] \o seqs[j + 1] /\ seqs[j + 1] \in K
    BY <1>1, <1>13, <2>2
  <2> QED
    BY <2>3, <2>4 DEF K
<1>16. \A k \in Nat : k \in T
  <2> HIDE DEF T
  <2> QED
    BY <1>14, <1>15, SetInduction
<1>17. ASSUME NEW i \in 1..n PROVE f[i] \in K
  <2> DEFINE k == i - 1
  <2>1. k \in Nat /\ k + 1 = i /\ i <= n
    BY <1>1
  <2> HIDE DEF k
  <2>2. k \in T
    BY <1>16, <2>1
  <2> QED
    BY <2>1, <2>2
<1>18. f \in [1..n -> K]
  BY <1>12, <1>17
<1> QED
  BY <1>10, <1>13, <1>18 DEF Flattens, K, n

\* One character before a text comes behind what stands before both.
LEMMA OneBetween ==
    ASSUME NEW C, NEW c \in C, NEW x \in Seq(C), NEW y \in Seq(C)
    PROVE  x \o (<<c>> \o y) = Append(x, c) \o y
<1> DEFINE m == <<c>> \o y
<1>1. m \in Seq(C) /\ Len(m) = Len(y) + 1 /\ m[1] = c /\ \A i \in 1..Len(y) : m[i + 1] = y[i]
  OBVIOUS
<1> HIDE DEF m
<1>2. x \o m \in Seq(C) /\ Append(x, c) \o y \in Seq(C)
  BY <1>1
<1>3. /\ Len(x) \in Nat /\ Len(y) \in Nat /\ Len(x \o m) = Len(x) + Len(y) + 1
      /\ Len(Append(x, c) \o y) = Len(x) + Len(y) + 1
  <2>1. Len(x \o m) = Len(x) + Len(m) /\ Len(x) \in Nat /\ Len(y) \in Nat
    <3>1. Len(x) \in Nat /\ Len(y) \in Nat
      <4>1. \A z \in Seq(C) : Len(z) \in Nat
        OBVIOUS
      <4> QED
        BY <4>1
    <3>2. Len(x \o m) = Len(x) + Len(m)
      <4>1. \A z \in Seq(C) : Len(x \o z) = Len(x) + Len(z)
        OBVIOUS
      <4>2. m \in Seq(C)
        BY <1>1
      <4> QED
        BY <4>1, <4>2
    <3> QED
      BY <3>1, <3>2
  <2>2. Append(x, c) \in Seq(C) /\ Len(Append(x, c)) = Len(x) + 1
    OBVIOUS
  <2>3. Len(Append(x, c) \o y) = Len(Append(x, c)) + Len(y)
    BY <2>2
  <2> QED
    BY <1>1, <2>1, <2>2, <2>3
<1>4. ASSUME NEW i \in 1..Len(x \o m) PROVE (x \o m)[i] = (Append(x, c) \o y)[i]
  <2>1. CASE i <= Len(x)
    BY <1>1, <2>1
  <2>2. CASE i = Len(x) + 1
    BY <1>1, <2>2
  <2>4. i \in Nat
    BY <1>3
  <2>3. CASE i > Len(x) + 1
    <3> DEFINE k == i - Len(x) - 1
    <3>1. k \in 1..Len(y) /\ i = Len(x) + k + 1
      BY <1>1, <2>3
    <3>2. (x \o m)[i] = m[k + 1]
      BY <1>1, <3>1
    <3>3. (Append(x, c) \o y)[i] = y[k]
      BY <3>1
    <3> QED
      BY <1>1, <3>1, <3>2, <3>3
  <2> QED
    <3>1. i <= Len(x) \/ i = Len(x) + 1 \/ i > Len(x) + 1
      BY <1>3, <2>4
    <3> HIDE DEF m
    <3> QED
      BY <2>1, <2>2, <2>3, <3>1
<1>5. x \o m = Append(x, c) \o y
  BY <1>2, <1>3, <1>4
<1> QED
  BY <1>5 DEF m

\* The pieces of a line, each argument with the blank before it.
PiecesOfLine(argv) ==
    [i \in DOMAIN argv |-> (IF i > 1 THEN <<Blank>> ELSE <<>>) \o ArgvEscapeArg(argv[i])]
LineOfArgs(argv) == FlattenSeq(PiecesOfLine(argv))

\* The line is a text of what its pieces are.
LEMMA LineIsText ==
    ASSUME NEW C, NEW D, Blank \in D, NEW argv \in Seq(C),
           \A i \in 1..Len(argv) : ArgvEscapeArg(argv[i]) \in Seq(D)
    PROVE  /\ PiecesOfLine(argv) \in Seq(Seq(D)) /\ Len(PiecesOfLine(argv)) = Len(argv)
           /\ LineOfArgs(argv) \in Seq(D)
           /\ Len(argv) = 0 => LineOfArgs(argv) = <<>>
<1> DEFINE K == Seq(D)
           n == Len(argv)
           seqs == PiecesOfLine(argv)
<1> DEFINE Bit(i) == (IF i > 1 THEN <<Blank>> ELSE <<>>) \o ArgvEscapeArg(argv[i])
<1>1. \A i \in 1..n : Bit(i) \in K
  OBVIOUS
<1>2. DOMAIN argv = 1..n /\ n \in Nat
  OBVIOUS
<1>3. seqs = [i \in 1..n |-> Bit(i)]
  BY <1>2 DEF PiecesOfLine
<1> HIDE DEF n, K, seqs, Bit
<1>4. seqs \in Seq(K) /\ Len(seqs) = n
  BY <1>1, <1>2, <1>3
<1>5. CASE n = 0
  <2>1. seqs = <<>>
    BY <1>4, <1>5
  <2>2. FlattenSeq(seqs) = <<>>
    BY <2>1 DEF FlattenSeq
  <2>3. <<>> \in Seq(D)
    OBVIOUS
  <2> QED
    BY <1>4, <2>2, <2>3 DEF LineOfArgs, seqs, n, K
<1>6. CASE n # 0
  <2>1. PICK f : Flattens(D, seqs, f) /\ FlattenSeq(seqs) = f[Len(seqs)]
    BY <1>4, <1>6, FlattenSteps DEF K
  <2>2. n \in 1..n
    BY <1>2, <1>6
  <2>3. FlattenSeq(seqs) \in Seq(D)
    BY <1>4, <2>1, <2>2 DEF Flattens
  <2> QED
    BY <1>4, <1>6, <2>3 DEF LineOfArgs, seqs, n, K
<1> QED
  BY <1>5, <1>6

\* The line that ArgvJoin makes of arguments is read as the arguments.
LEMMA LineIsRead ==
    ASSUME NEW C, {Quote, Slash, Blank} \subseteq C, NEW argv \in Seq(Seq(C))
    PROVE  LineOfArgs(argv) \in Seq(C) /\ ArgvRead(LineOfArgs(argv)) = argv
<1> DEFINE n == Len(argv)
           Upto(k) == SubSeq(argv, 1, k)
           line == LineOfArgs(argv)
           seqs == PiecesOfLine(argv)
<1>1. n \in Nat /\ Upto(0) = <<>> /\ Upto(n) = argv /\ \A i \in 1..n : argv[i] \in Seq(C)
  OBVIOUS
<1>2. ASSUME NEW k \in Nat, k + 1 <= n
      PROVE  Upto(k) \in Seq(Seq(C)) /\ Upto(k + 1) = Append(Upto(k), argv[k + 1])
  <2> DEFINE K == Seq(C)
  <2>1. argv \in Seq(K)
    OBVIOUS
  <2> HIDE DEF K
  <2>2. Upto(k) \in Seq(K) /\ Upto(k + 1) = Append(Upto(k), argv[k + 1])
    BY <1>2, <2>1
  <2> QED
    BY <2>2 DEF K
<1>3. \A i \in 1..n : ArgvEscapeArg(argv[i]) \in Seq(C)
  <2>1. <<>> \in Seq(Seq(C))
    OBVIOUS
  <2> QED
    BY <1>1, <2>1, EscapedIsRead
<1>4. line \in Seq(C) /\ (n = 0 => line = <<>>) /\ seqs \in Seq(Seq(C)) /\ Len(seqs) = n
  BY <1>1, <1>3, LineIsText
<1>5. \A i \in 1..n : seqs[i] = (IF i > 1 THEN <<Blank>> ELSE <<>>) \o ArgvEscapeArg(argv[i])
  BY DEF PiecesOfLine
<1>6. ReadBase = Before(<<>>) /\ ReadBase \in Reading(C)
  BY ReadStepType DEF ReadBase, Before, Reader, No
<1>7. Reads(C, Before(<<>>), line, ReadRun(line))
  BY <1>4, <1>6, ReadSteps DEF Reads
<1> DEFINE end == ReadRun(line)
<1>8. ArgvRead(line) = IF end.in THEN Append(end.args, end.cur \o Times(end.run, Slash)) ELSE end.args
  BY Zenon DEF ArgvRead, ReadRun, ReadPut, ReadBase
<1> HIDE DEF n, Upto, line, seqs, end
<1>9. CASE n = 0
  <2> DEFINE s == Before(<<>>)
  <2>0. s \in Reading(C) /\ Reads(C, s, line, end)
    BY <1>6, <1>7 DEF end
  <2> HIDE DEF s
  <2>1. Reads(C, s, <<>>, s)
    BY <2>0, NoSteps DEF Reads
  <2>2. end = Before(<<>>)
    <3>1. line = <<>> /\ <<>> \in Seq(C)
      BY <1>4, <1>9
    <3>2. end = s
      BY <2>0, <2>1, <3>1, ComesToOne DEF Reads
    <3> QED
      BY <3>2 DEF s
  <2>3. end.in = FALSE /\ end.args = <<>>
    BY <2>2 DEF Before, Reader, No
  <2> QED
    BY <1>1, <1>4, <1>8, <1>9, <2>3 DEF line
<1>10. CASE n # 0
  <2>1. PICK f : Flattens(C, seqs, f) /\ FlattenSeq(seqs) = f[n]
    BY <1>4, <1>10, FlattenSteps
  <2>2. /\ f \in [1..n -> Seq(C)] /\ f[1] = seqs[1]
        /\ \A i \in 1..(n - 1) : f[i + 1] = f[i] \o seqs[i + 1]
    BY <1>4, <2>1 DEF Flattens
  <2> DEFINE So(k) == \E s : Behind(C, Upto(k), argv[k + 1], s) /\ Reads(C, Before(<<>>), f[k + 1], s)
             T == {k \in Nat : k + 1 <= n => So(k)}
  <2>3. 0 \in T
    <3>1. 1 \in 1..n /\ 0 + 1 = 1 /\ ~(1 > 1)
      BY <1>1, <1>10
    <3>2. f[1] = <<>> \o ArgvEscapeArg(argv[1])
      BY <1>5, <2>2, <3>1
    <3>3. f[1] = ArgvEscapeArg(argv[1])
      BY <1>3, <3>1, <3>2
    <3>4. \E s : Behind(C, <<>>, argv[1], s) /\ Reads(C, Before(<<>>), ArgvEscapeArg(argv[1]), s)
      <4>1. <<>> \in Seq(Seq(C))
        OBVIOUS
      <4> QED
        BY <1>1, <3>1, <4>1, EscapedIsRead
    <3>5. So(0)
      BY <1>1, <3>1, <3>3, <3>4
    <3> HIDE DEF So
    <3> QED
      BY <3>5
  <2>4. ASSUME NEW k \in Nat, k \in T PROVE k + 1 \in T
    <3> DEFINE j == k + 1
    <3>1. SUFFICES ASSUME j + 1 <= n PROVE So(j)
      OBVIOUS
    <3>2. j \in 1..n /\ j \in 1..(n - 1) /\ j + 1 \in 1..n /\ j + 1 > 1 /\ k + 1 <= n
      BY <1>1, <3>1
    <3>3. PICK s : Behind(C, Upto(k), argv[j], s) /\ Reads(C, Before(<<>>), f[j], s)
      BY <2>4, <3>2
    <3>4. Upto(k) \in Seq(Seq(C)) /\ Upto(j) = Append(Upto(k), argv[j])
      BY <1>2, <3>2
    <3>5. Upto(j) \in Seq(Seq(C))
      BY <1>2, <3>1, <3>2
    <3> HIDE DEF j
    <3>6. PICK cur \in Seq(C), run \in Nat :
            cur \o Times(run, Slash) = argv[j] /\ s = Reader(Upto(k), cur, run, No, Yes)
      BY <3>3 DEF Behind
    <3>7. ReadPut(s, Blank) = Before(Upto(j))
      <4>1. ReadPut(Reader(Upto(k), cur, run, No, Yes), Blank)
              = Reader(Append(Upto(k), cur \o Times(run, Slash)), <<>>, 0, No, No)
        BY ReadPutIs
      <4> QED
        BY <3>4, <3>6, <4>1 DEF Before
    <3>8. f[j] \in Seq(C) /\ argv[j + 1] \in Seq(C)
      BY <1>1, <2>2, <3>2
    <3>9. Reads(C, Before(<<>>), Append(f[j], Blank), Before(Upto(j)))
      BY <1>6, <3>3, <3>7, <3>8, ReadsOneMore
    <3>10. PICK t : Behind(C, Upto(j), argv[j + 1], t)
                    /\ Reads(C, Before(Upto(j)), ArgvEscapeArg(argv[j + 1]), t)
      BY <3>5, <3>8, EscapedIsRead
    <3>11. ArgvEscapeArg(argv[j + 1]) \in Seq(C)
      BY <1>3, <3>2
    <3>12. Append(f[j], Blank) \in Seq(C)
      BY <3>8
    <3>13. Reads(C, Before(<<>>), Append(f[j], Blank) \o ArgvEscapeArg(argv[j + 1]), t)
      BY <1>6, <3>9, <3>10, <3>11, <3>12, ReadsThen
    <3>14. f[j + 1] = f[j] \o (<<Blank>> \o ArgvEscapeArg(argv[j + 1]))
      BY <1>5, <2>2, <3>2
    <3>15. f[j + 1] = Append(f[j], Blank) \o ArgvEscapeArg(argv[j + 1])
      <4> DEFINE y == ArgvEscapeArg(argv[j + 1])
      <4>1. y \in Seq(C) /\ Blank \in C /\ f[j + 1] = f[j] \o (<<Blank>> \o y)
        BY <3>11, <3>14
      <4> HIDE DEF y
      <4>2. \A x \in Seq(C) : x \o (<<Blank>> \o y) = Append(x, Blank) \o y
        BY <4>1, OneBetween
      <4>3. f[j] \o (<<Blank>> \o y) = Append(f[j], Blank) \o y
        BY <3>8, <4>2
      <4> QED
        BY <4>1, <4>3 DEF y
    <3> QED
      BY <3>10, <3>13, <3>15
  <2>5. \A k \in Nat : k \in T
    <3> HIDE DEF T
    <3> QED
      BY <2>3, <2>4, SetInduction
  <2> DEFINE k == n - 1
  <2>6. k \in Nat /\ k + 1 = n /\ k + 1 <= n
    BY <1>1, <1>10
  <2>7. So(k)
    <3> HIDE DEF k, So
    <3>1. k \in T
      BY <2>5, <2>6
    <3> QED
      BY <2>6, <3>1
  <2> HIDE DEF k
  <2>8. PICK s : Behind(C, Upto(k), argv[n], s) /\ Reads(C, Before(<<>>), f[n], s)
    BY <2>6, <2>7
  <2>9. PICK cur \in Seq(C), run \in Nat :
          cur \o Times(run, Slash) = argv[n] /\ s = Reader(Upto(k), cur, run, No, Yes)
    BY <2>8 DEF Behind
  <2>10. line = f[n]
    BY <2>1 DEF line, seqs, LineOfArgs
  <2>11. s = end
    BY <1>4, <1>7, <2>8, <2>10, ComesToOne DEF Reads, end
  <2>12. end.in = TRUE /\ end.args = Upto(k) /\ end.cur \o Times(end.run, Slash) = argv[n]
    BY <2>9, <2>11 DEF Reader, Yes
  <2>13. Append(Upto(k), argv[n]) = argv
    BY <1>1, <1>2, <2>6
  <2> QED
    BY <1>4, <1>8, <2>12, <2>13 DEF line
<1> QED
  BY <1>9, <1>10

\* What is in a text with one character more.
LEMMA OneMoreIn ==
    ASSUME NEW C, NEW x \in Seq(C), NEW c
    PROVE  ToSet(Append(x, c)) = ToSet(x) \cup {c}
<1>1. Len(x) \in Nat /\ Len(Append(x, c)) = Len(x) + 1 /\ Append(x, c)[Len(x) + 1] = c
      /\ \A i \in 1..Len(x) : Append(x, c)[i] = x[i]
  OBVIOUS
<1>2. ToSet(x) = {x[i] : i \in 1..Len(x)} /\ ToSet(Append(x, c)) = {Append(x, c)[i] : i \in 1..(Len(x) + 1)}
  BY DEF ToSet
<1>3. 1..(Len(x) + 1) = 1..Len(x) \cup {Len(x) + 1}
  BY <1>1
<1> DEFINE n == Len(x)
           t == Append(x, c)
<1> HIDE DEF n, t
<1> QED
  BY <1>1, <1>2, <1>3 DEF n, t

\* What is escaped of a line so far is handed on by the shell as what was taken of
\* it, no operator outside quotes, and a variable only where quotes were opened.
HandedOn(s, e, taken) ==
    /\ s.line = taken /\ s.quoted = e.quoted /\ s.caret = No /\ s.operated = No
    /\ s.expanded => Percent \in ToSet(taken) /\ Quote \in ToSet(taken)
    /\ e.quoted => Quote \in ToSet(taken)
Handed(C, e, taken) ==
    \E s \in Shelling(C) : HandedOn(s, e, taken) /\ ComesTo(Shelling(C), ShellStep(C), ShellBase, e.out, s)

\* The shell reads one character more.
LEMMA ShellOneMore ==
    ASSUME NEW C, NEW x \in Seq(C), NEW s \in Shelling(C), NEW c \in C,
           ComesTo(Shelling(C), ShellStep(C), ShellBase, x, s)
    PROVE  /\ ShellPut(s, c) \in Shelling(C)
           /\ ComesTo(Shelling(C), ShellStep(C), ShellBase, Append(x, c), ShellPut(s, c))
<1>1. ShellStep(C) \in [Shelling(C) \X C -> Shelling(C)] /\ ShellBase \in Shelling(C)
  BY ShellStepType
<1>2. ShellStep(C)[<<s, c>>] = ShellPut(s, c)
  BY DEF ShellStep
<1>3. ShellStep(C)[<<s, c>>] \in Shelling(C)
  BY <1>1
<1>4. ComesTo(Shelling(C), ShellStep(C), ShellBase, Append(x, c), ShellStep(C)[<<s, c>>])
  BY <1>1, StepMore
<1> QED
  BY <1>2, <1>3, <1>4

\* That stays so with one character more.
LEMMA HandedStep ==
    ASSUME NEW C, Caret \in C, NEW e \in Escaping(C), NEW taken \in Seq(C), Handed(C, e, taken), NEW c \in C
    PROVE  Handed(C, EscapePut(e, c), Append(taken, c))
<1> DEFINE out == e.out
           quoted == e.quoted
<1>1. out \in Seq(C) /\ quoted \in BOOLEAN
  BY DEF Escaping
<1>2. PICK s \in Shelling(C) : HandedOn(s, e, taken) /\ ComesTo(Shelling(C), ShellStep(C), ShellBase, out, s)
  BY DEF Handed
<1>3. /\ s.line = taken /\ s.quoted = quoted /\ s.caret = FALSE /\ s.operated = FALSE
      /\ s.expanded => Percent \in ToSet(taken) /\ Quote \in ToSet(taken)
      /\ quoted => Quote \in ToSet(taken)
  BY <1>2 DEF HandedOn, No
<1>4. ToSet(Append(taken, c)) = ToSet(taken) \cup {c}
  BY OneMoreIn
<1>5. DOMAIN s = {"line", "quoted", "caret", "operated", "expanded"} /\ s.expanded \in BOOLEAN
  BY DEF Shelling
<1>6. Quote # Caret /\ Quote # Percent /\ Quote # Operator /\ Caret # Percent /\ Caret # Operator
      /\ Percent # Operator
  BY DEF Quote, Caret, Percent, Operator
<1> DEFINE next == EscapePut(e, c)
<1>7. CASE c = Quote
  <2>1. next = [out |-> Append(out, c), quoted |-> ~quoted]
    BY <1>7 DEF EscapePut
  <2>2. ShellPut(s, c) = [s EXCEPT !.line = Append(@, c), !.quoted = ~@]
    BY <1>3, <1>7 DEF ShellPut
  <2> DEFINE t == ShellPut(s, c)
  <2>3. /\ t.line = Append(taken, c) /\ t.quoted = ~quoted /\ t.caret = FALSE
        /\ t.operated = FALSE /\ t.expanded = s.expanded
    BY <1>3, <1>5, <2>2
  <2>4. next.out = Append(out, c) /\ next.quoted = ~quoted
    BY <2>1
  <2>5. t \in Shelling(C) /\ ComesTo(Shelling(C), ShellStep(C), ShellBase, Append(out, c), t)
    BY <1>1, <1>2, ShellOneMore
  <2> HIDE DEF next, t, out, quoted
  <2>6. HandedOn(t, next, Append(taken, c))
    BY <1>3, <1>4, <1>7, <2>3, <2>4 DEF HandedOn, No
  <2> QED
    BY <2>4, <2>5, <2>6 DEF Handed, next
<1>8. CASE c \in {Operator, Caret, Percent} /\ ~quoted
  <2>1. next = [e EXCEPT !.out = @ \o <<Caret, c>>]
    BY <1>6, <1>8 DEF EscapePut
  <2>2. next.out = out \o <<Caret, c>> /\ next.quoted = quoted
    BY <2>1 DEF Escaping
  <2>3. out \o <<Caret, c>> = Append(Append(out, Caret), c) /\ Append(out, Caret) \in Seq(C)
    <3> HIDE DEF out
    <3> QED
      BY <1>1
  <2> DEFINE m == ShellPut(s, Caret)
             t == ShellPut(m, c)
  <2>4. m = [s EXCEPT !.caret = TRUE]
    BY <1>3, <1>6, <1>8 DEF ShellPut
  <2>5. m.line = taken /\ m.quoted = quoted /\ m.caret = TRUE /\ m.operated = FALSE /\ m.expanded = s.expanded
        /\ DOMAIN m = DOMAIN s
    BY <1>3, <1>5, <2>4
  <2>6. m \in Shelling(C) /\ ComesTo(Shelling(C), ShellStep(C), ShellBase, Append(out, Caret), m)
    BY <1>1, <1>2, ShellOneMore
  <2> HIDE DEF m
  <2>7. t = [m EXCEPT !.line = Append(@, c), !.caret = FALSE]
    BY <2>5 DEF ShellPut
  <2>8. t.line = Append(taken, c) /\ t.quoted = quoted /\ t.caret = FALSE
        /\ t.operated = FALSE /\ t.expanded = s.expanded
    BY <1>5, <2>5, <2>7
  <2>9. t \in Shelling(C) /\ ComesTo(Shelling(C), ShellStep(C), ShellBase, Append(Append(out, Caret), c), t)
    BY <2>3, <2>6, ShellOneMore
  <2> HIDE DEF next, t, out, quoted
  <2>10. HandedOn(t, next, Append(taken, c))
    BY <1>3, <1>4, <2>2, <2>8 DEF HandedOn, No
  <2> QED
    BY <2>2, <2>3, <2>9, <2>10 DEF Handed, next
<1>9. CASE c # Quote /\ ~(c \in {Operator, Caret, Percent} /\ ~quoted)
  <2>1. next = [e EXCEPT !.out = Append(@, c)]
    BY <1>9 DEF EscapePut
  <2>2. next.out = Append(out, c) /\ next.quoted = quoted
    BY <2>1 DEF Escaping
  <2> DEFINE t == ShellPut(s, c)
  <2>3. t = [s EXCEPT !.line = Append(@, c), !.operated = @ \/ (c = Operator /\ ~s.quoted),
                      !.expanded = @ \/ c = Percent]
    BY <1>3, <1>9 DEF ShellPut
  <2>4. /\ t.line = Append(taken, c) /\ t.quoted = quoted /\ t.caret = FALSE
        /\ t.operated = (s.operated \/ (c = Operator /\ ~s.quoted))
        /\ t.expanded = (s.expanded \/ c = Percent)
    BY <1>3, <1>5, <2>3
  <2>5. ~(c = Operator /\ ~s.quoted) /\ (c = Percent => quoted)
    BY <1>3, <1>9
  <2>6. t.operated = FALSE
    BY <1>3, <2>4, <2>5
  <2>7. t \in Shelling(C) /\ ComesTo(Shelling(C), ShellStep(C), ShellBase, Append(out, c), t)
    BY <1>1, <1>2, ShellOneMore
  <2> HIDE DEF next, t, out, quoted
  <2>8. HandedOn(t, next, Append(taken, c))
    BY <1>3, <1>4, <2>2, <2>4, <2>5, <2>6 DEF HandedOn, No
  <2> QED
    BY <2>2, <2>7, <2>8 DEF Handed, next
<1> QED
  BY <1>7, <1>8, <1>9

\* The shell hands on the line that was escaped for it, acts on no operator of it,
\* and expands a variable only in a line with quotes.
LEMMA EscapedIsHanded ==
    ASSUME NEW C, Caret \in C, NEW line \in Seq(C)
    PROVE  LET read == CmdRead(EscapeRun(line).out)
           IN  /\ read.line = line /\ ~read.operated
               /\ read.expanded => Percent \in ToSet(line) /\ Quote \in ToSet(line)
<1>1. PICK r : FoldSteps(Escaping(C), EscapeStep(C), EscapeBase, line, r) /\ r[Len(line)] = EscapeRun(line)
  BY EscapeSteps DEF ComesTo
<1> DEFINE n == Len(line)
           Upto(k) == SubSeq(line, 1, k)
           T == {k \in Nat : k <= n => Handed(C, r[k], Upto(k))}
<1>2. n \in Nat /\ Upto(0) = <<>> /\ Upto(n) = line
  OBVIOUS
<1>3. ASSUME NEW k \in Nat, k + 1 <= n
      PROVE  Upto(k) \in Seq(C) /\ line[k + 1] \in C /\ Upto(k + 1) = Append(Upto(k), line[k + 1])
  BY <1>3
<1>4. /\ r[0] = EscapeBase
      /\ \A k \in 0..n : r[k] \in Escaping(C)
      /\ \A k \in 0..(n - 1) : r[k + 1] = EscapeStep(C)[<<r[k], line[k + 1]>>]
  BY <1>1 DEF FoldSteps
<1> HIDE DEF Upto, n
<1>5. 0 \in T
  <2>1. EscapeBase.out = <<>> /\ EscapeBase.quoted = FALSE
    BY DEF EscapeBase
  <2>2. ShellBase \in Shelling(C)
    BY ShellStepType
  <2>3. ComesTo(Shelling(C), ShellStep(C), ShellBase, <<>>, ShellBase)
    BY <2>2, NoSteps
  <2>4. HandedOn(ShellBase, EscapeBase, <<>>)
    BY <2>1 DEF HandedOn, ShellBase, No
  <2>5. Handed(C, EscapeBase, <<>>)
    BY <2>1, <2>2, <2>3, <2>4 DEF Handed
  <2> QED
    BY <1>2, <1>4, <2>5
<1>6. ASSUME NEW k \in Nat, k \in T PROVE k + 1 \in T
  <2>1. SUFFICES ASSUME k + 1 <= n PROVE Handed(C, r[k + 1], Upto(k + 1))
    OBVIOUS
  <2>2. k <= n /\ k \in 0..n /\ k \in 0..(n - 1)
    BY <1>2, <2>1
  <2>3. Handed(C, r[k], Upto(k)) /\ r[k] \in Escaping(C)
    BY <1>4, <1>6, <2>2
  <2>4. Upto(k) \in Seq(C) /\ line[k + 1] \in C /\ Upto(k + 1) = Append(Upto(k), line[k + 1])
    BY <1>3, <2>1
  <2>5. r[k + 1] = EscapePut(r[k], line[k + 1])
    BY <1>4, <2>2, <2>3, <2>4 DEF EscapeStep
  <2> QED
    BY <2>3, <2>4, <2>5, HandedStep
<1>7. n \in T
  <2> HIDE DEF T
  <2> QED
    BY <1>2, <1>5, <1>6, SetInduction
<1> DEFINE e == EscapeRun(line)
<1>8. Handed(C, e, line) /\ e \in Escaping(C)
  <2>1. n \in 0..n
    BY <1>2
  <2> QED
    BY <1>1, <1>2, <1>4, <1>7, <2>1 DEF n
<1> HIDE DEF e
<1>9. e.out \in Seq(C)
  BY <1>8 DEF Escaping
<1>10. PICK s \in Shelling(C) : HandedOn(s, e, line) /\ ComesTo(Shelling(C), ShellStep(C), ShellBase, e.out, s)
  BY <1>8 DEF Handed
<1>11. ComesTo(Shelling(C), ShellStep(C), ShellBase, e.out, CmdRead(e.out))
  BY <1>9, ShellSteps
<1>12. CmdRead(e.out) = s
  BY <1>9, <1>10, <1>11, ComesToOne
<1>13. /\ s.line = line /\ ~s.operated
       /\ s.expanded => Percent \in ToSet(line) /\ Quote \in ToSet(line)
  BY <1>10 DEF HandedOn, No
<1> QED
  BY <1>12, <1>13 DEF e

\* A character that is in no text of a set's.
LEMMA NotInText ==
    ASSUME NEW C, NEW c, NEW x \in Seq(C \ {c})
    PROVE  c \notin ToSet(x)
<1>1. ToSet(x) = {x[i] : i \in 1..Len(x)} /\ \A i \in 1..Len(x) : x[i] \in C \ {c}
  BY DEF ToSet
<1> QED
  BY <1>1

\* A text without a character is one of the others.
LEMMA WithoutIt ==
    ASSUME NEW C, NEW c, NEW x \in Seq(C), c \notin ToSet(x)
    PROVE  x \in Seq(C \ {c})
<1>1. ToSet(x) = {x[i] : i \in 1..Len(x)} /\ \A i \in 1..Len(x) : x[i] \in C
  BY DEF ToSet
<1>2. \A i \in 1..Len(x) : x[i] \in ToSet(x)
  BY <1>1
<1>3. \A i \in 1..Len(x) : x[i] \in C \ {c}
  BY <1>1, <1>2
<1> QED
  BY <1>3

\* The characters of arguments and of the lines made of them.
ArgvChars == {Quote, Slash, Blank, Caret}

\* A line has a percent sign only from an argument, and quotes only where one needs
\* them.
LEMMA LineHasOnlyTheirs ==
    ASSUME NEW C, ArgvChars \subseteq C, NEW argv \in Seq(Seq(C))
    PROVE  /\ Percent \in ToSet(LineOfArgs(argv)) => \E i \in DOMAIN argv : Percent \in ToSet(argv[i])
           /\ Quote \in ToSet(LineOfArgs(argv)) => \E i \in DOMAIN argv : ArgvNeedsQuoting(argv[i])
<1>1. DOMAIN argv = 1..Len(argv) /\ \A i \in 1..Len(argv) : argv[i] \in Seq(C)
  OBVIOUS
<1>2. ASSUME \A i \in DOMAIN argv : Percent \notin ToSet(argv[i])
      PROVE  Percent \notin ToSet(LineOfArgs(argv))
  <2> DEFINE D == C \ {Percent}
  <2>1. {Quote, Slash} \subseteq D /\ Blank \in D
    BY DEF ArgvChars, Quote, Slash, Blank, Percent
  <2>2. \A i \in 1..Len(argv) : argv[i] \in Seq(D)
    BY <1>1, <1>2, WithoutIt
  <2> HIDE DEF D
  <2>3. \A i \in 1..Len(argv) : ArgvEscapeArg(argv[i]) \in Seq(D)
    <3>1. <<>> \in Seq(Seq(D))
      OBVIOUS
    <3> QED
      BY <2>1, <2>2, <3>1, EscapedIsRead
  <2>4. argv \in Seq(Seq(C))
    OBVIOUS
  <2>5. LineOfArgs(argv) \in Seq(D)
    BY <2>1, <2>3, <2>4, LineIsText
  <2> QED
    BY <2>5, NotInText DEF D
<1>3. ASSUME \A i \in DOMAIN argv : ~ArgvNeedsQuoting(argv[i])
      PROVE  Quote \notin ToSet(LineOfArgs(argv))
  <2> DEFINE D == C \ {Quote}
  <2>1. Blank \in D
    BY DEF ArgvChars, Quote, Slash, Blank
  <2>2. ASSUME NEW i \in 1..Len(argv) PROVE ArgvEscapeArg(argv[i]) \in Seq(D)
    <3>1. ~ArgvNeedsQuoting(argv[i]) /\ argv[i] \in Seq(C)
      BY <1>1, <1>3
    <3>2. Quote \notin ToSet(argv[i])
      BY <3>1 DEF ArgvNeedsQuoting
    <3>3. ArgvEscapeArg(argv[i]) = argv[i]
      BY <3>1 DEF ArgvEscapeArg
    <3> QED
      BY <3>1, <3>2, <3>3, WithoutIt
  <2> HIDE DEF D
  <2>5. LineOfArgs(argv) \in Seq(D)
    BY <2>1, <2>2, LineIsText
  <2> QED
    BY <2>5, NotInText DEF D
<1> QED
  BY <1>2, <1>3

\* The program gets the arguments that were asked for, whatever is in them, on
\* either route.
LEMMA ArgvArrives ==
    ASSUME NEW C, ArgvChars \subseteq C, NEW argv \in Seq(Seq(C)), NEW room
    PROVE  ArgumentsArrive(argv, room)
<1> DEFINE text == LineOfArgs(argv)
           line == ArgvJoin(argv, room)
           tail == ArgvCmdEscape(line, room)
           read == CmdRead(tail)
<1>1. text \in Seq(C) /\ ArgvRead(text) = argv
  BY LineIsRead DEF ArgvChars
<1>2. line = Fit(text, room)
  BY DEF ArgvJoin, LineOfArgs, PiecesOfLine
<1>3. line # NoLine => line = text
  BY <1>2 DEF Fit
<1>4. tail = Fit(EscapeRun(line).out, room)
  BY Zenon DEF ArgvCmdEscape, EscapeRun, EscapePut, EscapeBase
<1>5. tail # NoLine => tail = EscapeRun(line).out
  BY <1>4 DEF Fit
<1>6. LET all == CmdRead(EscapeRun(text).out)
      IN  /\ all.line = text /\ ~all.operated
          /\ all.expanded => Percent \in ToSet(text) /\ Quote \in ToSet(text)
  BY <1>1, EscapedIsHanded DEF ArgvChars
<1>7. /\ Percent \in ToSet(text) => \E i \in DOMAIN argv : Percent \in ToSet(argv[i])
      /\ Quote \in ToSet(text) => \E i \in DOMAIN argv : ArgvNeedsQuoting(argv[i])
  BY LineHasOnlyTheirs
<1> HIDE DEF text, line, tail
<1>8. line # NoLine =>
        /\ ArgvRead(line) = argv
        /\ tail # NoLine => /\ read.line = line
                            /\ ~read.operated
                            /\ read.expanded =>
                                 /\ \E i \in DOMAIN argv : Percent \in ToSet(argv[i])
                                 /\ \E i \in DOMAIN argv : ArgvNeedsQuoting(argv[i])
  BY <1>1, <1>3, <1>5, <1>6, <1>7
<1> QED
  BY <1>8 DEF ArgumentsArrive, line, tail

-----------------------------------------------------------------------------
(* The lists of a text's parts *)

Lists(C) == {parts \in Seq(Seq(C)) : parts # <<>>}
PartPut(parts, c, mark) ==
    IF c = mark THEN Append(parts, <<>>) ELSE [parts EXCEPT ![Len(parts)] = Append(@, c)]
PartStep(C, mark) == [p \in Lists(C) \X C |-> PartPut(p[1], p[2], mark)]

\* A character leads from a list of texts to another.
LEMMA PartStepType ==
    ASSUME NEW C, NEW mark
    PROVE  PartStep(C, mark) \in [Lists(C) \X C -> Lists(C)] /\ << <<>> >> \in Lists(C)
<1> DEFINE K == Seq(C)
<1>1. <<>> \in K /\ \A x \in K, c \in C : Append(x, c) \in K
  OBVIOUS
<1>2. Lists(C) = {parts \in Seq(K) : parts # <<>>}
  BY DEF Lists
<1> HIDE DEF K
<1>3. ASSUME NEW parts \in Lists(C), NEW c \in C PROVE PartPut(parts, c, mark) \in Lists(C)
  <2>1. parts \in Seq(K) /\ parts # <<>>
    BY <1>2
  <2>2. CASE c = mark
    <3>1. Append(parts, <<>>) \in Seq(K) /\ Append(parts, <<>>) # <<>>
      BY <1>1, <2>1
    <3> QED
      BY <1>2, <2>2, <3>1 DEF PartPut
  <2>3. CASE c # mark
    <3> DEFINE n == Len(parts)
               next == [parts EXCEPT ![n] = Append(@, c)]
    <3>1. n \in Nat /\ n # 0 /\ n \in 1..n /\ parts \in [1..n -> K]
      BY <2>1
    <3> HIDE DEF n
    <3>2. parts[n] \in K
      BY <3>1
    <3>3. Append(parts[n], c) \in K
      BY <1>1, <3>2
    <3>4. next \in [1..n -> K]
      BY <3>1, <3>3
    <3>5. next \in Seq(K) /\ next # <<>>
      BY <3>1, <3>4
    <3> QED
      BY <1>2, <2>3, <3>5 DEF PartPut, n
  <2> QED
    BY <2>2, <2>3
<1>4. << <<>> >> \in Lists(C)
  <2>1. << <<>> >> \in Seq(K) /\ << <<>> >> # <<>>
    BY <1>1
  <2> QED
    BY <1>2, <2>1
<1> QED
  BY <1>3, <1>4 DEF PartStep

\* A text is taken apart one character after the other.
LEMMA PartSteps ==
    ASSUME NEW C, NEW mark, NEW text \in Seq(C)
    PROVE  ComesTo(Lists(C), PartStep(C, mark), << <<>> >>, text, Parts(text, mark))
<1> DEFINE g == PartStep(C, mark)
           Is(h) == h = [s \in SUBSET DOMAIN text |->
                          IF s = {} THEN << <<>> >> ELSE PartPut(h[s \ {Max(s)}], text[Max(s)], mark)]
<1>0. DOMAIN text = 1..Len(text) /\ Len(text) \in Nat
      /\ \A i \in 1..Len(text) : text[i] \in C
  OBVIOUS
<1>1. Parts(text, mark) = (CHOOSE h : Is(h))[DOMAIN text]
  BY DEF Parts, PartPut, FoldLeft, MapThenFoldSet
<1>2. ASSUME NEW s \in SUBSET (1..Len(text)), s # {}
      PROVE  text[Max(s)] \in C /\ s \ {Max(s)} \in SUBSET (1..Len(text))
  BY <1>0, <1>2, MaxOfSome
<1>3. ASSUME NEW a \in Lists(C), NEW b \in C PROVE g[<<a, b>>] = PartPut(a, b, mark)
  BY <1>3 DEF PartStep
<1>4. g \in [Lists(C) \X C -> Lists(C)] /\ << <<>> >> \in Lists(C)
  BY PartStepType
<1> HIDE DEF g
<1>5. \E h : Is(h)
  <2>1. PICK h \in [SUBSET (1..Len(text)) -> Lists(C)] :
          \A s \in SUBSET (1..Len(text)) : OneFold(h, g, << <<>> >>, text, s)
    BY <1>4, RunExists
  <2>2. ASSUME NEW s \in SUBSET DOMAIN text
        PROVE  h[s] = IF s = {} THEN << <<>> >> ELSE PartPut(h[s \ {Max(s)}], text[Max(s)], mark)
    BY <1>0, <1>2, <1>3, <2>1 DEF OneFold
  <2>3. Is(h)
    BY <1>0, <2>1, <2>2
  <2> QED
    BY <2>3
<1>6. PICK h : Is(h) /\ Parts(text, mark) = h[DOMAIN text]
  <2> HIDE DEF Is
  <2> QED
    BY <1>1, <1>5
<1>7. ASSUME NEW s \in SUBSET (1..Len(text)), s # {}, h[s \ {Max(s)}] \in Lists(C)
      PROVE  h[s] = g[<<h[s \ {Max(s)}], text[Max(s)]>>]
  <2>1. h[s] = PartPut(h[s \ {Max(s)}], text[Max(s)], mark)
    BY <1>0, <1>6, <1>7
  <2> QED
    BY <1>2, <1>3, <1>7, <2>1
<1>8. h[{}] = << <<>> >>
  <2>1. {} \in SUBSET DOMAIN text
    OBVIOUS
  <2> QED
    BY <1>6, <2>1
<1> HIDE DEF Is
<1>9. FoldsBy(Lists(C), g, << <<>> >>, text, h)
  BY <1>7, <1>8 DEF FoldsBy
<1>10. ComesTo(Lists(C), g, << <<>> >>, text, h[1..Len(text)])
  BY <1>4, <1>9, FoldHasSteps
<1> QED
  BY <1>0, <1>6, <1>10 DEF g

\* The arguments between the marks of a text are texts of its characters.
LEMMA PartsAreLists ==
    ASSUME NEW C, NEW mark, NEW text \in Seq(C)
    PROVE  Parts(text, mark) \in Seq(Seq(C))
<1>1. Parts(text, mark) \in Lists(C)
  BY PartSteps, ComesInto
<1> QED
  BY <1>1 DEF Lists

\* A program is told from its file as what it runs as, for a header of any size
\* with any offset, and gets the argument list its line was made from, for every
\* list of arguments of any length, whatever the room for the line.
THEOREM ProgramHolds == InputSpec => []ProgramSound
<1>1. InputType => ProgramSound
  <2> SUFFICES ASSUME InputType PROVE ProgramSound
    OBVIOUS
  <2>1. ASSUME subject = "program", Len(input) = 2
        PROVE  BinaryIsTold(input[1], input[2])
    <3>1. input[1] \in Nat /\ input[2] \in Nat
      BY <2>1, PiecesOf DEF Pieces
    <3> QED
      BY <3>1, BinaryHolds
  <2>2. ASSUME subject = "argv", NEW room
        PROVE  ArgumentsArrive(Parts(input, "next"), room)
    <3> DEFINE C == Alphabet["argv"] \cup ArgvChars
    <3>1. input \in Seq(C)
      BY <2>2 DEF InputType
    <3>2. ArgvChars \subseteq C
      OBVIOUS
    <3> HIDE DEF C
    <3>3. Parts(input, "next") \in Seq(Seq(C))
      BY <3>1, PartsAreLists
    <3> QED
      BY <3>2, <3>3, ArgvArrives
  <2> QED
    BY <2>1, <2>2 DEF ProgramSound
<1> QED
  BY <1>1, InputTyped, PTL

-----------------------------------------------------------------------------
(* The first that matches *)

\* A nonempty set of positions has a first one, which Min chooses.
LEMMA MinOfSome ==
    ASSUME NEW n \in Nat, NEW s \in SUBSET (1..n), s # {}
    PROVE  Min(s) \in s /\ \A k \in s : Min(s) <= k
<1>1. s \subseteq Nat
  OBVIOUS
<1>2. PICK x \in s : \A k \in s : ~(<<k, x>> \in OpToRel(<, Nat))
  BY <1>1, NatLessThanWellFounded, WFMin
<1>3. ASSUME NEW k \in s PROVE x <= k
  <2>1. x \in Nat /\ k \in Nat
    BY <1>1
  <2>2. ~(k < x)
    BY <1>2, <2>1 DEF OpToRel
  <2> QED
    BY <2>1, <2>2
<1> QED
  BY <1>3 DEF Min

\* SelectInSeq comes to the first position there is, or to none.
LEMMA FirstOf ==
    ASSUME NEW n \in Nat, NEW hits \in SUBSET (1..n), NEW first,
           first = IF hits # {} THEN Min(hits) ELSE 0
    PROVE  \/ hits = {} /\ first = 0
           \/ first \in hits /\ first \in 1..n /\ first # 0 /\ \A j \in 1..(first - 1) : j \in 1..n /\ j \notin hits
<1>1. CASE hits = {}
  BY <1>1
<1>2. CASE hits # {}
  <2>1. first \in hits /\ \A k \in hits : first <= k
    <3>1. first = Min(hits)
      BY <1>2
    <3>2. Min(hits) \in hits /\ \A k \in hits : Min(hits) <= k
      BY Zenon, <1>2, MinOfSome
    <3> QED
      BY Zenon, <3>1, <3>2
  <2>2. first \in 1..n /\ first # 0
    BY <2>1
  <2> QED
    BY <2>1, <2>2
<1> QED
  BY <1>1, <1>2

\* CatalogLookup finds the first entry of the name.
Named(e, name) == SameText(e.name, name)
LEMMA LookupIs ==
    ASSUME NEW C, NEW cat \in Seq(C), NEW name
    PROVE  \/ /\ \A i \in 1..Len(cat) : ~Named(cat[i], name)
              /\ CatalogLookup(cat, name) = NoEntry
           \/ \E i \in 1..Len(cat) : /\ Named(cat[i], name) /\ CatalogLookup(cat, name) = cat[i]
                                     /\ \A j \in 1..(i - 1) : ~Named(cat[j], name)
<1> DEFINE n == Len(cat)
           hits == {i \in 1..n : Named(cat[i], name)}
           first == IF hits # {} THEN Min(hits) ELSE 0
<1>1. CatalogLookup(cat, name) = IF first = 0 THEN NoEntry ELSE cat[first]
  BY Zenon DEF CatalogLookup, SelectInSeq, Named
<1>2. n \in Nat /\ hits \in SUBSET (1..n)
  OBVIOUS
<1>3. \A i \in 1..n : Named(cat[i], name) <=> i \in hits
  BY Zenon
<1>4. \/ hits = {} /\ first = 0
      \/ first \in hits /\ first \in 1..n /\ first # 0 /\ \A j \in 1..(first - 1) : j \in 1..n /\ j \notin hits
  <2> HIDE DEF hits, n
  <2> QED
    BY <1>2, FirstOf
<1> HIDE DEF n, hits, first
<1> QED
  BY <1>1, <1>3, <1>4 DEF n

\* FindOption finds the first option that takes the token.
LEMMA OptionIs ==
    ASSUME NEW C, NEW entry, NEW options \in Seq(C), entry.options = options, NEW tok
    PROVE  \/ /\ \A i \in 1..Len(options) : ~Takes(options[i], tok)
              /\ FindOption(entry, tok) = NoOption
           \/ \E i \in 1..Len(options) : Takes(options[i], tok) /\ FindOption(entry, tok) = options[i]
<1> DEFINE n == Len(options)
           hits == {i \in 1..n : Takes(options[i], tok)}
           first == IF hits # {} THEN Min(hits) ELSE 0
<1>1. FindOption(entry, tok) = IF first = 0 THEN NoOption ELSE options[first]
  BY Zenon DEF FindOption, SelectInSeq
<1>2. n \in Nat /\ hits \in SUBSET (1..n)
  OBVIOUS
<1>3. \A i \in 1..n : Takes(options[i], tok) <=> i \in hits
  BY Zenon
<1>4. \/ hits = {} /\ first = 0
      \/ first \in hits /\ first \in 1..n /\ first # 0
  <2> HIDE DEF hits, n
  <2> QED
    BY <1>2, FirstOf
<1> HIDE DEF n, hits, first
<1> QED
  BY <1>1, <1>3, <1>4 DEF n
-----------------------------------------------------------------------------
(* CatalogValidateArgs *)

Checking == [allowed : BOOLEAN, next : Nat]
CheckPut(entry, argv, s, i) ==
    IF i < s.next \/ ~s.allowed \/ ~IsFlagToken(argv[i]) THEN s
    ELSE LET option == FindOption(entry, argv[i]) IN
      IF option = NoOption THEN [s EXCEPT !.allowed = FALSE]
      ELSE IF /\ option.hasArg /\ SameText(option.flag, argv[i])
              /\ i < Len(argv) /\ ~IsFlagToken(argv[i + 1])
           THEN [s EXCEPT !.next = i + 2]
      ELSE s
CheckStep(entry, argv) == [p \in Checking \X Nat |-> CheckPut(entry, argv, p[1], p[2])]
CheckBase == [allowed |-> TRUE, next |-> 2]
PositionsOf(argv) == [i \in DOMAIN argv |-> i]
CheckRun(entry, argv) ==
    LET Check(s, i) == CheckPut(entry, argv, s, i) IN FoldLeft(Check, CheckBase, PositionsOf(argv))

\* A token leads from a state of the check to another.
LEMMA CheckStepType ==
    ASSUME NEW entry, NEW argv
    PROVE  CheckStep(entry, argv) \in [Checking \X Nat -> Checking] /\ CheckBase \in Checking
<1>1. ASSUME NEW s \in Checking, NEW i \in Nat PROVE CheckPut(entry, argv, s, i) \in Checking
  <2>1. [s EXCEPT !.allowed = FALSE] \in Checking /\ [s EXCEPT !.next = i + 2] \in Checking
    <3>1. i + 2 \in Nat
      OBVIOUS
    <3> DEFINE k == i + 2
    <3> HIDE DEF k
    <3>2. k \in Nat => [s EXCEPT !.next = k] \in Checking
      BY DEF Checking
    <3>3. [s EXCEPT !.allowed = FALSE] \in Checking
      BY DEF Checking
    <3> QED
      BY <3>1, <3>2, <3>3 DEF k
  <2> QED
    BY Zenon, <2>1 DEF CheckPut
<1>2. CheckBase \in Checking
  BY DEF CheckBase, Checking
<1> QED
  BY <1>1, <1>2 DEF CheckStep

\* An argument list is checked one token after the other.
LEMMA CheckSteps ==
    ASSUME NEW entry, NEW C, NEW argv \in Seq(C),
           NEW items, items = PositionsOf(argv)
    PROVE  ComesTo(Checking, CheckStep(entry, argv), CheckBase, PositionsOf(argv), CheckRun(entry, argv))
<1> DEFINE g == CheckStep(entry, argv)
           Is(h) == h = [s \in SUBSET DOMAIN items |->
                          IF s = {} THEN CheckBase ELSE CheckPut(entry, argv, h[s \ {Max(s)}], items[Max(s)])]
<1>0. /\ DOMAIN items = 1..Len(items) /\ Len(items) \in Nat
      /\ \A i \in 1..Len(items) : items[i] \in Nat
      /\ items \in Seq(Nat)
  <2>1. Len(argv) \in Nat /\ DOMAIN argv = 1..Len(argv)
    OBVIOUS
  <2>2. items = [i \in 1..Len(argv) |-> i]
    BY <2>1 DEF PositionsOf
  <2> QED
    BY <2>1, <2>2
<1>1. CheckRun(entry, argv) = (CHOOSE h : Is(h))[DOMAIN items]
  BY DEF CheckRun, FoldLeft, MapThenFoldSet
<1>2. ASSUME NEW s \in SUBSET (1..Len(items)), s # {}
      PROVE  items[Max(s)] \in Nat /\ s \ {Max(s)} \in SUBSET (1..Len(items))
  BY <1>0, <1>2, MaxOfSome
<1>3. ASSUME NEW a \in Checking, NEW b \in Nat PROVE g[<<a, b>>] = CheckPut(entry, argv, a, b)
  BY <1>3 DEF CheckStep
<1>4. g \in [Checking \X Nat -> Checking] /\ CheckBase \in Checking
  BY <1>0, CheckStepType
<1> DEFINE N == Nat
<1> HIDE DEF Is
<1>11. g \in [Checking \X N -> Checking] /\ CheckBase \in Checking
  BY <1>4
<1>12. items \in Seq(N)
  BY <1>0
<1> USE DEF Is
<1> HIDE DEF N
<1>5. \E h : Is(h)
  <2>1. PICK h \in [SUBSET (1..Len(items)) -> Checking] :
          \A s \in SUBSET (1..Len(items)) : OneFold(h, g, CheckBase, items, s)
    BY <1>11, <1>12, RunExists
  <2>2. ASSUME NEW s \in SUBSET DOMAIN items
        PROVE  h[s] = IF s = {} THEN CheckBase ELSE CheckPut(entry, argv, h[s \ {Max(s)}], items[Max(s)])
    BY <1>0, <1>2, <1>3, <2>1 DEF OneFold
  <2>3. Is(h)
    BY <1>0, <2>1, <2>2
  <2> QED
    BY <2>3
<1>6. PICK h : Is(h) /\ CheckRun(entry, argv) = h[DOMAIN items]
  <2> HIDE DEF Is
  <2> QED
    BY <1>1, <1>5
<1>7. ASSUME NEW s \in SUBSET (1..Len(items)), s # {}, h[s \ {Max(s)}] \in Checking
      PROVE  h[s] = g[<<h[s \ {Max(s)}], items[Max(s)]>>]
  <2>1. h[s] = CheckPut(entry, argv, h[s \ {Max(s)}], items[Max(s)])
    BY <1>0, <1>6, <1>7
  <2> QED
    BY <1>2, <1>3, <1>7, <2>1
<1>8. h[{}] = CheckBase
  <2>1. {} \in SUBSET DOMAIN items
    OBVIOUS
  <2> QED
    BY <1>6, <2>1
<1> HIDE DEF Is
<1>9. FoldsBy(Checking, g, CheckBase, items, h)
  BY <1>7, <1>8 DEF FoldsBy
<1>10. ComesTo(Checking, g, CheckBase, items, h[1..Len(items)])
  BY <1>9, <1>11, <1>12, FoldHasSteps
<1> QED
  BY <1>0, <1>6, <1>10 DEF g

\* A token may stand among a command's arguments when it is no flag or the command
\* has an option for it.
Fine(entry, tok) == IsFlagToken(tok) => FindOption(entry, tok) # NoOption
AllFine(entry, argv, k) == \A j \in 2..k : Fine(entry, argv[j])

\* The tokens up to k are checked; those passed over after it are no flags.
CheckedTo(entry, argv, s, k) ==
    /\ s.next >= 2
    /\ s.allowed <=> AllFine(entry, argv, k)
    /\ \A j \in (k + 1)..(s.next - 1) : j = 1 \/ ~IsFlagToken(argv[j])

\* That stays so with one token more.
LEMMA CheckedStep ==
    ASSUME NEW entry, NEW argv, NEW s \in Checking, NEW k \in Nat, CheckedTo(entry, argv, s, k)
    PROVE  CheckedTo(entry, argv, CheckPut(entry, argv, s, k + 1), k + 1)
<1> DEFINE i == k + 1
           next == s.next
           allowed == s.allowed
           option == FindOption(entry, argv[i])
           t == CheckPut(entry, argv, s, i)
           fine == Fine(entry, argv[i])
           before == AllFine(entry, argv, k)
           after == AllFine(entry, argv, i)
           flag(j) == IsFlagToken(argv[j])
<1> SUFFICES CheckedTo(entry, argv, t, i)
  OBVIOUS
<1>1. next \in Nat /\ allowed \in BOOLEAN /\ i \in Nat /\ i >= 1 /\ i = k + 1
  BY DEF Checking
<1>2. /\ next >= 2 /\ (allowed <=> before)
      /\ \A j \in i..(next - 1) : j = 1 \/ ~flag(j)
  BY DEF CheckedTo
<1>3. \A m \in Nat : m >= 2 /\ [s EXCEPT !.next = m] = [s EXCEPT !.next = m]
                       => [s EXCEPT !.next = m].next = m /\ [s EXCEPT !.next = m].allowed = allowed
  BY DEF Checking
<1>4. [s EXCEPT !.allowed = FALSE].next = next /\ ~[s EXCEPT !.allowed = FALSE].allowed
  BY DEF Checking
<1>5. after <=> before /\ (i = 1 \/ fine)
  <2>1. i # 1 => 2..i = (2..k) \cup {i}
    BY <1>1
  <2>2. i = 1 => 2..k = {} /\ 2..i = {}
    BY <1>1
  <2> HIDE DEF i
  <2> QED
    BY <2>1, <2>2 DEF AllFine
<1>6. fine <=> (flag(i) => option # NoOption)
  BY DEF Fine
<1>7. CheckedTo(entry, argv, t, i) <=>
        /\ t.next >= 2 /\ (t.allowed <=> after)
        /\ \A j \in (i + 1)..(t.next - 1) : j = 1 \/ ~flag(j)
  BY DEF CheckedTo
<1> HIDE DEF i, next, allowed, after, before, fine, flag
<1>8. CASE i < next \/ ~allowed \/ ~flag(i)
  <2>1. t = s
    BY Zenon, <1>8 DEF CheckPut, next, allowed, flag
  <2>2. after <=> before
    <3>1. CASE i < next
      <4>1. i \in i..(next - 1)
        BY <1>1, <3>1
      <4> QED
        BY <1>2, <1>5, <1>6, <4>1
    <3>2. CASE ~allowed
      BY <1>2, <1>5, <3>2
    <3>3. CASE ~flag(i)
      BY <1>5, <1>6, <3>3
    <3> QED
      BY <1>8, <3>1, <3>2, <3>3
  <2>3. \A j \in (i + 1)..(next - 1) : j \in i..(next - 1)
    BY <1>1
  <2>4. t.next = next /\ t.allowed = allowed
    BY <2>1 DEF next, allowed
  <2> HIDE DEF t
  <2> QED
    BY <1>2, <1>7, <2>2, <2>3, <2>4
<1>9. CASE ~(i < next) /\ allowed /\ flag(i)
  <2>1. i # 1 /\ before /\ (after <=> option # NoOption)
    BY <1>1, <1>2, <1>5, <1>6, <1>9
  <2>2. (i + 1)..(next - 1) = {}
    BY <1>1, <1>9
  <2>3. CASE option = NoOption
    <3>1. t = [s EXCEPT !.allowed = FALSE]
      BY Zenon, <1>9, <2>3 DEF CheckPut, next, allowed, flag
    <3>2. t.next = next /\ ~t.allowed
      BY <1>4, <3>1
    <3> HIDE DEF t
    <3> QED
      BY <1>2, <1>7, <2>1, <2>2, <2>3, <3>2
  <2> DEFINE takes == /\ option.hasArg /\ SameText(option.flag, argv[i])
                      /\ i < Len(argv) /\ ~flag(i + 1)
  <2>4. CASE option # NoOption /\ takes
    <3>1. t = [s EXCEPT !.next = i + 2]
      BY Zenon, <1>9, <2>4 DEF CheckPut, next, allowed, flag
    <3>2. i + 2 \in Nat /\ i + 2 >= 2
      BY <1>1
    <3>3. t.next = i + 2 /\ t.allowed = allowed
      BY <1>3, <3>1, <3>2
    <3>4. (i + 1)..(t.next - 1) = {i + 1}
      BY <1>1, <3>3
    <3> HIDE DEF t, option
    <3>5. \A j \in (i + 1)..(t.next - 1) : j = 1 \/ ~flag(j)
      BY <2>4, <3>4
    <3> QED
      BY <1>7, <1>9, <2>1, <2>4, <3>2, <3>3, <3>5
  <2>5. CASE option # NoOption /\ ~takes
    <3>1. t = s
      BY Zenon, <1>9, <2>5 DEF CheckPut, next, allowed, flag
    <3>2. t.next = next /\ t.allowed = allowed
      BY <3>1 DEF next, allowed
    <3> HIDE DEF t, option
    <3> QED
      BY <1>2, <1>7, <1>9, <2>1, <2>2, <2>5, <3>2
  <2> QED
    BY <2>3, <2>4, <2>5
<1> QED
  BY <1>1, <1>8, <1>9

\* CatalogValidateArgs lets an argument list pass just when every flag of it is one
\* of the command's.
LEMMA ValidateIs ==
    ASSUME NEW entry, NEW C, NEW argv \in Seq(C)
    PROVE  CatalogValidateArgs(entry, argv) <=> entry # NoEntry /\ AllFine(entry, argv, Len(argv))
<1> DEFINE items == PositionsOf(argv)
           n == Len(argv)
           end == CheckRun(entry, argv)
<1>1. CatalogValidateArgs(entry, argv) <=> entry # NoEntry /\ end.allowed
  BY Zenon DEF CatalogValidateArgs, CheckRun, CheckPut, CheckBase, PositionsOf
<1>2. n \in Nat /\ DOMAIN argv = 1..n
  OBVIOUS
<1>3. items = [i \in 1..n |-> i]
  BY <1>2 DEF PositionsOf
<1>4. Len(items) = n /\ \A i \in 1..n : items[i] = i
  BY <1>2, <1>3
<1>5. PICK r : FoldSteps(Checking, CheckStep(entry, argv), CheckBase, items, r) /\ r[Len(items)] = end
  BY CheckSteps DEF ComesTo
<1> HIDE DEF n, items, end
<1>6. /\ r[0] = CheckBase
      /\ \A k \in 0..n : r[k] \in Checking
      /\ \A k \in 0..(n - 1) : r[k + 1] = CheckStep(entry, argv)[<<r[k], items[k + 1]>>]
  BY <1>4, <1>5 DEF FoldSteps
<1> DEFINE T == {k \in Nat : k <= n => CheckedTo(entry, argv, r[k], k)}
<1>7. 0 \in T
  <2>1. CheckBase.next = 2 /\ CheckBase.allowed
    BY DEF CheckBase
  <2>2. AllFine(entry, argv, 0)
    BY DEF AllFine
  <2>3. \A j \in (0 + 1)..(2 - 1) : j = 1
    OBVIOUS
  <2>4. CheckedTo(entry, argv, CheckBase, 0)
    BY <2>1, <2>2, <2>3 DEF CheckedTo
  <2> QED
    BY <1>6, <2>4
<1>8. ASSUME NEW k \in Nat, k \in T PROVE k + 1 \in T
  <2>1. SUFFICES ASSUME k + 1 <= n PROVE CheckedTo(entry, argv, r[k + 1], k + 1)
    OBVIOUS
  <2>2. k <= n /\ k \in 0..n /\ k \in 0..(n - 1) /\ k + 1 \in 1..n /\ k + 1 \in Nat
    BY <1>2, <2>1
  <2>3. CheckedTo(entry, argv, r[k], k) /\ r[k] \in Checking /\ items[k + 1] = k + 1
    BY <1>4, <1>6, <1>8, <2>2
  <2>4. r[k + 1] = CheckPut(entry, argv, r[k], k + 1)
    BY <1>6, <2>2, <2>3 DEF CheckStep
  <2> QED
    BY <2>3, <2>4, CheckedStep
<1>9. n \in T
  <2> HIDE DEF T
  <2> QED
    BY <1>2, <1>7, <1>8, SetInduction
<1>10. CheckedTo(entry, argv, end, n)
  BY <1>2, <1>4, <1>5, <1>9
<1> QED
  BY <1>1, <1>10 DEF CheckedTo, n

-----------------------------------------------------------------------------
(* What the gate lets run *)

\* The characters of catalogs, requests and lines: strings, of which the prover
\* does not know that those that are spelled out are some.
Chars ==
    STRING \cup ArgvChars \cup {FlagSign} \cup
    { "s", "d", "v", "q", "x", "flag", "arg", "kind", "shell-builtin", "shell_modern", "shell_win32s",
      "positional", "name", "supports_win32s", "options", "version", "commands" }
OptionType == [flag : Seq(Chars), hasArg : BOOLEAN]
EntryType == [name : Seq(Chars), builtin : BOOLEAN, win32s : BOOLEAN,
              modern : Seq(Chars), shellWin32s : Seq(Chars), options : Seq(OptionType)]

LowerOf(c) == IF c \in DOMAIN Lower THEN Lower[c] ELSE c

\* A text without its case is as long as the text.
LEMMA FoldIs ==
    ASSUME NEW v \in Seq(Chars)
    PROVE  /\ Fold(v) \in Seq(Chars) /\ Len(Fold(v)) = Len(v)
           /\ \A i \in 1..Len(v) : Fold(v)[i] = LowerOf(v[i])
<1>1. Len(v) \in Nat /\ DOMAIN v = 1..Len(v) /\ \A i \in 1..Len(v) : v[i] \in Chars
  OBVIOUS
<1>2. ASSUME NEW c \in Chars PROVE LowerOf(c) \in Chars
  <2>1. "s" \in Chars /\ "d" \in Chars
    BY DEF Chars
  <2>2. CASE c \in {"S", "D"}
    <3>1. Lower[c] \in {"s", "d"}
      BY <2>2 DEF Lower
    <3> QED
      BY <2>1, <3>1 DEF LowerOf
  <2>3. CASE c \notin {"S", "D"}
    <3>1. c \notin DOMAIN Lower
      BY <2>3 DEF Lower
    <3> QED
      BY <3>1 DEF LowerOf
  <2> QED
    BY <2>2, <2>3
<1> DEFINE n == Len(v)
<1>3. Fold(v) = [i \in 1..n |-> LowerOf(v[i])]
  BY <1>1 DEF Fold, LowerOf
<1> HIDE DEF n
<1>4. \A i \in 1..n : LowerOf(v[i]) \in Chars
  BY <1>1, <1>2 DEF n
<1>5. Fold(v) \in Seq(Chars) /\ Len(Fold(v)) = n /\ \A i \in 1..n : Fold(v)[i] = LowerOf(v[i])
  BY <1>1, <1>3, <1>4 DEF n
<1> QED
  BY <1>5 DEF n

\* An option that takes a token is the token, or its flag is what the token begins with.
LEMMA TakenBegins ==
    ASSUME NEW o \in OptionType, NEW tok \in Seq(Chars), Takes(o, tok)
    PROVE  SameText(o.flag, tok) \/ (o.hasArg /\ IsPrefix(Fold(o.flag), Fold(tok)))
<1> DEFINE flag == o.flag
           n == Len(flag)
           head == SubSeq(tok, 1, n)
<1>1. flag \in Seq(Chars) /\ n \in Nat /\ Len(tok) \in Nat
  <2>1. flag \in Seq(Chars)
    BY DEF OptionType
  <2> HIDE DEF flag
  <2> QED
    BY <2>1
<1> HIDE DEF flag
<1>2. CASE SameText(o.flag, tok)
  BY <1>2
<1>3. CASE ~SameText(o.flag, tok)
  <2>1. o.hasArg /\ Len(tok) > n /\ SameText(flag, head)
    BY <1>3 DEF Takes, flag
  <2>2. head \in Seq(Chars) /\ Len(head) = n /\ \A i \in 1..n : head[i] = tok[i]
    BY <1>1, <2>1
  <2>3. /\ Fold(flag) \in Seq(Chars) /\ Len(Fold(flag)) = n
        /\ Fold(tok) \in Seq(Chars) /\ Len(Fold(tok)) = Len(tok)
        /\ \A i \in 1..Len(tok) : Fold(tok)[i] = LowerOf(tok[i])
    BY <1>1, FoldIs
  <2>4. \A i \in 1..n : Fold(head)[i] = LowerOf(head[i])
    BY <2>2, FoldIs
  <2>5. Fold(flag) = Fold(head)
    BY <2>1 DEF SameText
  <2>6. \A i \in 1..n : i \in 1..Len(tok)
    BY <1>1, <2>1
  <2>7. \A i \in 1..n : Fold(flag)[i] = Fold(tok)[i]
    BY <2>2, <2>3, <2>4, <2>5, <2>6
  <2> DEFINE f == Fold(flag)
             g == Fold(tok)
  <2>8. f \in Seq(Chars) /\ g \in Seq(Chars) /\ Len(f) = n /\ Len(g) = Len(tok) /\ \A i \in 1..n : f[i] = g[i]
    BY <2>3, <2>7
  <2> HIDE DEF f, g, n, head
  <2>9. SubSeq(f, 1, Len(f)) = SubSeq(g, 1, Len(f)) /\ Len(f) <= Len(g)
    BY <1>1, <2>1, <2>8
  <2>10. IsPrefix(f, g)
    BY <2>9 DEF IsPrefix
  <2> QED
    BY <2>1, <2>10 DEF f, g, flag
<1> QED
  BY <1>2, <1>3

\* What a request of arguments comes to: its line, escaped for the shell.
LEMMA TailIs ==
    ASSUME NEW side, NEW req, NEW args \in Seq(Seq(Chars)), NEW line,
           line = Joined(side, req), line = ArgvJoin(args, LineRoom), line # NoLine
    PROVE  line \in Seq(Chars) /\ ArgvRead(line) = args
<1>1. {Quote, Slash, Blank} \subseteq Chars
  BY DEF Chars, ArgvChars
<1>2. LineOfArgs(args) \in Seq(Chars) /\ ArgvRead(LineOfArgs(args)) = args
  BY <1>1, LineIsRead
<1>3. line = Fit(LineOfArgs(args), LineRoom)
  BY DEF ArgvJoin, LineOfArgs, PiecesOfLine
<1>4. line = LineOfArgs(args)
  BY <1>3 DEF Fit
<1> QED
  BY <1>2, <1>4

\* The shell's reading of an escaped line that fitted.
LEMMA TailIsHanded ==
    ASSUME NEW line \in Seq(Chars), NEW room, ArgvCmdEscape(line, room) # NoLine
    PROVE  LET read == CmdRead(ArgvCmdEscape(line, room)) IN read.line = line /\ ~read.operated
<1>1. Caret \in Chars
  BY DEF Chars, ArgvChars
<1>2. ArgvCmdEscape(line, room) = Fit(EscapeRun(line).out, room)
  BY Zenon DEF ArgvCmdEscape, EscapeRun, EscapePut, EscapeBase
<1>3. ArgvCmdEscape(line, room) = EscapeRun(line).out
  BY <1>2 DEF Fit
<1> QED
  BY <1>1, <1>3, EscapedIsHanded

\* Each flag among arguments that are all fine is one of the command's options.
LEMMA FlagsAreListed ==
    ASSUME NEW e \in EntryType, NEW argv \in Seq(Seq(Chars)), NEW k \in 2..Len(argv),
           AllFine(e, argv, Len(argv)), IsFlagToken(argv[k])
    PROVE  \E o \in ToSet(e.options) :
             \/ SameText(o.flag, argv[k])
             \/ o.hasArg /\ IsPrefix(Fold(o.flag), Fold(argv[k]))
<1> DEFINE options == e.options
           tok == argv[k]
<1>1. FindOption(e, tok) # NoOption
  BY DEF AllFine, Fine
<1>2. options \in Seq(OptionType)
  BY DEF EntryType
<1>3. tok \in Seq(Chars)
  OBVIOUS
<1> HIDE DEF tok, options
<1>4. PICK i \in 1..Len(options) : Takes(options[i], tok)
  <2>1. e.options = options
    BY DEF options
  <2> QED
    BY <1>1, <1>2, <2>1, OptionIs
<1>5. options[i] \in OptionType /\ options[i] \in ToSet(options)
  BY <1>2 DEF ToSet
<1>6. SameText(options[i].flag, tok) \/ (options[i].hasArg /\ IsPrefix(Fold(options[i].flag), Fold(tok)))
  BY <1>3, <1>4, <1>5, TakenBegins
<1> QED
  BY <1>5, <1>6 DEF tok, options

\* Behind an enforced catalog runs what the gate let pass and nothing else.
LEMMA PassedRuns ==
    ASSUME NEW side, NEW req, side.catalog \in Seq(EntryType),
           req.argv \in Seq(Seq(Chars)), req.line \in Seq(Chars)
    PROVE  RunsWhatPassed(side, req)
<1> DEFINE argv == req.argv
           entry == EntryOf(side, req)
           line == Joined(side, req)
           tail == RequestTail(side, req)
           read == CmdRead(tail)
           args == IF UsesBuiltinPrefix(side, req) THEN SubSeq(argv, 2, Len(argv)) ELSE argv
           cat == side.catalog
           name == CommandName(req)
<1> SUFFICES ASSUME Runs(side, req) PROVE RunsWhatPassed(side, req)
  BY Zenon DEF RunsWhatPassed
<1>1. /\ Enforced(side, req) => entry # NoEntry
      /\ Enforced(side, req) /\ argv # <<>> => CatalogValidateArgs(entry, argv)
      /\ line # NoLine /\ ~TooLongLine(side, req)
  BY Zenon DEF Runs, Told
<1>2. ViaShell(side, req) => tail # NoLine
  BY Zenon, <1>1 DEF TooLongLine
<1>3. tail = ArgvCmdEscape(line, LineRoom)
  BY Zenon DEF RequestTail
<1>4. argv # <<>> => line = ArgvJoin(args, LineRoom)
  BY Zenon DEF Joined
<1>5. argv = <<>> => line = req.line
  BY Zenon DEF Joined
<1>6. args \in Seq(Seq(Chars))
  <2>1. SubSeq(argv, 2, Len(argv)) \in Seq(Seq(Chars))
    <3> DEFINE K == Seq(Chars)
    <3>1. argv \in Seq(K)
      OBVIOUS
    <3> HIDE DEF K, argv
    <3>2. SubSeq(argv, 2, Len(argv)) \in Seq(K)
      BY <3>1
    <3> QED
      BY <3>2 DEF K
  <2> QED
    BY <2>1
<1>7. ~ViaShell(side, req) => CommandLine(side, req) = line
  BY Zenon DEF CommandLine
<1>8. Enforced(side, req) => entry = CatalogLookup(cat, name)
  BY Zenon DEF EntryOf
<1>9. entry # NoEntry /\ entry.builtin => ViaShell(side, req)
  BY Zenon DEF ViaShell, Builtin
<1>10. cat \in Seq(EntryType) /\ argv \in Seq(Seq(Chars)) /\ req.line \in Seq(Chars)
  OBVIOUS
<1> HIDE DEF argv, entry, line, tail, args, cat, name
<1>11. line \in Seq(Chars) /\ (argv # <<>> => ArgvRead(line) = args)
  <2>1. CASE argv = <<>>
    BY <1>5, <1>10, <2>1
  <2>2. CASE argv # <<>>
    BY <1>1, <1>4, <1>6, <2>2, TailIs DEF line
  <2> QED
    BY <2>1, <2>2
<1>12. ViaShell(side, req) => read.line = line /\ ~read.operated
  BY <1>2, <1>3, <1>11, TailIsHanded
<1>13. argv # <<>> => SeenArgs(side, req) = args
  BY <1>7, <1>11, <1>12 DEF SeenArgs, tail
<1>14. ASSUME Enforced(side, req)
       PROVE  \E i \in DOMAIN cat :
                LET e == cat[i] IN
                  /\ SameText(e.name, name)
                  /\ e.builtin => ViaShell(side, req)
                  /\ \A k \in 2..Len(argv) : IsFlagToken(argv[k]) =>
                       \E o \in ToSet(e.options) :
                         \/ SameText(o.flag, argv[k])
                         \/ o.hasArg /\ IsPrefix(Fold(o.flag), Fold(argv[k]))
  <2>1. PICK i \in 1..Len(cat) : Named(cat[i], name) /\ CatalogLookup(cat, name) = cat[i]
    BY <1>1, <1>8, <1>10, <1>14, LookupIs
  <2>2. entry = cat[i] /\ entry # NoEntry
    BY <1>1, <1>8, <1>14, <2>1
  <2>3. cat[i] \in EntryType /\ i \in DOMAIN cat
    BY <1>10, <2>1
  <2>4. ASSUME NEW k \in 2..Len(argv), IsFlagToken(argv[k])
        PROVE  \E o \in ToSet(cat[i].options) :
                 \/ SameText(o.flag, argv[k])
                 \/ o.hasArg /\ IsPrefix(Fold(o.flag), Fold(argv[k]))
    <3>1. argv # <<>>
      <4>1. Len(<<>>) = 0
        OBVIOUS
      <4> QED
        BY <2>4, <4>1
    <3>2. CatalogValidateArgs(entry, argv)
      BY <1>1, <1>14, <3>1
    <3>3. AllFine(entry, argv, Len(argv))
      BY <1>10, <3>2, ValidateIs
    <3> QED
      BY <1>10, <2>2, <2>3, <2>4, <3>3, FlagsAreListed
  <2> QED
    BY Zenon, <1>9, <2>1, <2>2, <2>3, <2>4 DEF Named
<1>15. RunsWhatPassed(side, req) <=>
         /\ ViaShell(side, req) => ~read.operated
         /\ argv # <<>> /\ (ViaShell(side, req) => PlainTail(side, req)) => SeenArgs(side, req) = args
         /\ Enforced(side, req) =>
              \E i \in DOMAIN cat :
                LET e == cat[i] IN
                  /\ SameText(e.name, name)
                  /\ e.builtin => ViaShell(side, req)
                  /\ \A k \in 2..Len(argv) : IsFlagToken(argv[k]) =>
                       \E o \in ToSet(e.options) :
                         \/ SameText(o.flag, argv[k])
                         \/ o.hasArg /\ IsPrefix(Fold(o.flag), Fold(argv[k]))
  BY Zenon DEF RunsWhatPassed, argv, tail, args, cat, name
<1> QED
  BY Zenon, <1>12, <1>13, <1>14, <1>15

\* The gate only refuses.
LEMMA GateRefuses ==
    ASSUME NEW cats, NEW side \in Sessions(cats), NEW req
    PROVE  GateOnlyRefuses(side, req)
<1> DEFINE off == [side EXCEPT !.unsafeMode = TRUE]
<1>1. off.unsafeMode /\ off.win32s = side.win32s /\ off.hasPty = side.hasPty
  BY DEF Sessions
<1> HIDE DEF off
<1>2. ~Enforced(off, req)
  BY Zenon, <1>1 DEF Enforced
<1>3. EntryOf(off, req) = NoEntry
  BY Zenon, <1>2 DEF EntryOf
<1>4. ~Builtin(off, req) /\ ~UsesBuiltinPrefix(off, req) /\ (ViaShell(off, req) <=> req.shell)
  BY Zenon, <1>3 DEF Builtin, UsesBuiltinPrefix, ViaShell
<1>5. ASSUME Runs(side, req), Enforced(side, req), ~Builtin(side, req)
      PROVE  Runs(off, req) /\ CommandLine(off, req) = CommandLine(side, req)
  <2>1. ~UsesBuiltinPrefix(side, req) /\ (ViaShell(side, req) <=> req.shell)
    BY Zenon, <1>5 DEF UsesBuiltinPrefix, ViaShell
  <2>2. Joined(off, req) = Joined(side, req)
    BY Zenon, <1>4, <2>1 DEF Joined
  <2>3. RequestTail(off, req) = RequestTail(side, req)
    BY Zenon, <2>2 DEF RequestTail
  <2>4. Prefix(off, req) = Prefix(side, req)
    BY Zenon, <1>1, <1>4, <2>1 DEF Prefix
  <2>5. CommandLine(off, req) = CommandLine(side, req)
    BY Zenon, <1>4, <2>1, <2>2, <2>3, <2>4 DEF CommandLine
  <2>6. TooLongLine(off, req) <=> TooLongLine(side, req)
    BY Zenon, <1>4, <2>1, <2>3, <2>5 DEF TooLongLine
  <2>7. /\ CommandName(req) # <<>> /\ req.stdin # "invalid" /\ req.stdin # "too large"
        /\ ~(req.pty /\ ~side.hasPty) /\ Joined(side, req) # NoLine /\ ~TooLongLine(side, req)
    BY Zenon, <1>5 DEF Runs, Told
  <2>8. Told(off, req) = "run"
    BY Zenon, <1>1, <1>2, <2>2, <2>6, <2>7 DEF Told
  <2> QED
    BY <2>5, <2>8 DEF Runs
<1> QED
  BY Zenon, <1>5 DEF GateOnlyRefuses, off

-----------------------------------------------------------------------------
(* What a file's scan keeps *)

Places == {"top", "commands", "entry", "options", "option", "skipped object", "skipped array"}
Stages == {"open", "first", "key", "colon", "value", "after", "done", "failed"}
Tags == {"{", "}", "[", "]", ",", ":", "string", "null", "true"}
TokenType == [t : Tags, v : Seq(Chars)]
CatalogScan ==
    [in : Seq(Places), at : Stages, key : Seq(Chars), name : Seq(Chars),
     entry : EntryType, option : OptionType, entries : Seq(EntryType)]

\* A text that is cut is a text.
LEMMA CutIs ==
    ASSUME NEW v \in Seq(Chars), NEW size \in Nat \ {0}
    PROVE  CutField(v, size) \in Seq(Chars)
<1> DEFINE m == IF Len(v) < size THEN Len(v) ELSE size - 1
<1>1. m \in Nat /\ m <= Len(v) /\ \A i \in 1..Len(v) : v[i] \in Chars
  OBVIOUS
<1>2. SubSeq(v, 1, m) \in Seq(Chars)
  <2> HIDE DEF m
  <2> QED
    BY <1>1
<1> QED
  BY <1>2 DEF CutField

\* A state of the scan with a part of it changed is one.
LEMMA ScanWith ==
    ASSUME NEW s \in CatalogScan
    PROVE  /\ \A x \in Seq(Places) : [s EXCEPT !.in = x] \in CatalogScan
           /\ \A x \in Stages : [s EXCEPT !.at = x] \in CatalogScan
           /\ \A x \in Seq(Chars) : [s EXCEPT !.key = x] \in CatalogScan /\ [s EXCEPT !.name = x] \in CatalogScan
           /\ \A x \in EntryType : [s EXCEPT !.entry = x] \in CatalogScan
           /\ \A x \in OptionType : [s EXCEPT !.option = x] \in CatalogScan
           /\ \A x \in Seq(EntryType) : [s EXCEPT !.entries = x] \in CatalogScan
<1> DEFINE C == Seq(Chars)
           P == Seq(Places)
           E == Seq(EntryType)
<1>1. CatalogScan = [in : P, at : Stages, key : C, name : C, entry : EntryType, option : OptionType, entries : E]
  BY DEF CatalogScan
<1> HIDE DEF C, P, E
<1>2. \A x \in P : [s EXCEPT !.in = x] \in CatalogScan
  BY <1>1
<1>3. \A x \in Stages : [s EXCEPT !.at = x] \in CatalogScan
  BY <1>1
<1>4. \A x \in C : [s EXCEPT !.key = x] \in CatalogScan /\ [s EXCEPT !.name = x] \in CatalogScan
  BY <1>1
<1>5. \A x \in EntryType : [s EXCEPT !.entry = x] \in CatalogScan
  BY <1>1
<1>6. \A x \in OptionType : [s EXCEPT !.option = x] \in CatalogScan
  BY <1>1
<1>7. \A x \in E : [s EXCEPT !.entries = x] \in CatalogScan
  BY <1>1
<1> QED
  BY <1>2, <1>3, <1>4, <1>5, <1>6, <1>7 DEF C, P, E

\* So are an entry and an option.
LEMMA EntryWith ==
    ASSUME NEW e \in EntryType
    PROVE  /\ \A x \in Seq(Chars) : /\ [e EXCEPT !.name = x] \in EntryType
                                    /\ [e EXCEPT !.modern = x] \in EntryType
                                    /\ [e EXCEPT !.shellWin32s = x] \in EntryType
           /\ \A x \in BOOLEAN : [e EXCEPT !.builtin = x] \in EntryType /\ [e EXCEPT !.win32s = x] \in EntryType
           /\ \A x \in Seq(OptionType) : [e EXCEPT !.options = x] \in EntryType
<1> DEFINE C == Seq(Chars)
           O == Seq(OptionType)
<1>1. EntryType = [name : C, builtin : BOOLEAN, win32s : BOOLEAN, modern : C, shellWin32s : C, options : O]
  BY DEF EntryType
<1> HIDE DEF C, O
<1>2. \A x \in C : /\ [e EXCEPT !.name = x] \in EntryType
                   /\ [e EXCEPT !.modern = x] \in EntryType
                   /\ [e EXCEPT !.shellWin32s = x] \in EntryType
  BY <1>1
<1>3. \A x \in BOOLEAN : [e EXCEPT !.builtin = x] \in EntryType /\ [e EXCEPT !.win32s = x] \in EntryType
  BY <1>1
<1>4. \A x \in O : [e EXCEPT !.options = x] \in EntryType
  BY <1>1
<1> QED
  BY <1>2, <1>3, <1>4 DEF C, O

\* Nothing scanned yet.
LEMMA NothingScanned == NoEntry \in EntryType /\ NoOption \in OptionType /\ Scanner \in CatalogScan
<1>1. NoOption \in OptionType
  BY DEF NoOption, OptionType
<1>2. NoEntry \in EntryType
  BY DEF NoEntry, EntryType
<1>3. <<"top">> \in Seq(Places) /\ <<>> \in Seq(EntryType) /\ <<>> \in Seq(Chars) /\ "open" \in Stages
  BY DEF Places, Stages
<1> QED
  BY <1>1, <1>2, <1>3 DEF Scanner, CatalogScan

\* The scan goes into a container and on.
LEMMA EnterIs ==
    ASSUME NEW s \in CatalogScan
    PROVE  /\ ScanFailed(s) \in CatalogScan
           /\ \A x \in Stages : [s EXCEPT !.at = x] \in CatalogScan
           /\ \A c \in Places, x \in Stages : Enter(s, c, x) \in CatalogScan
<1>1. "failed" \in Stages
  BY DEF Stages
<1>2. ScanFailed(s) \in CatalogScan
  BY <1>1, ScanWith DEF ScanFailed
<1>3. ASSUME NEW c \in Places, NEW x \in Stages PROVE Enter(s, c, x) \in CatalogScan
  <2>1. s.in \in Seq(Places)
    BY DEF CatalogScan
  <2>2. Append(s.in, c) \in Seq(Places)
    BY <2>1
  <2> DEFINE t == [s EXCEPT !.in = Append(@, c)]
  <2>3. t \in CatalogScan
    BY <2>2, ScanWith
  <2>4. Enter(s, c, x) = [t EXCEPT !.at = x]
    BY DEF Enter, CatalogScan
  <2> HIDE DEF t
  <2> QED
    BY <2>3, <2>4, ScanWith
<1> QED
  BY <1>2, <1>3, ScanWith

\* It leaves one, whose entry or option is stored.
LEMMA LeaveIs ==
    ASSUME NEW s \in CatalogScan
    PROVE  Leave(s) \in CatalogScan
<1> DEFINE back == SubSeq(s.in, 1, Len(s.in) - 1)
           inner == [s EXCEPT !.in = back]
           outer == [inner EXCEPT !.at = "after"]
           kept == [s.entry EXCEPT !.options = Append(@, s.option)]
           named == [s.entry EXCEPT !.name = s.name]
           all == Append(s.entries, named)
<1>1. "after" \in Stages /\ "done" \in Stages
  BY DEF Stages
<1>2. s.in \in Seq(Places) /\ s.name \in Seq(Chars) /\ s.entry \in EntryType /\ s.option \in OptionType
      /\ s.entries \in Seq(EntryType)
  BY DEF CatalogScan
<1>3. back \in Seq(Places)
  <2> DEFINE q == s.in
  <2>1. q \in Seq(Places)
    BY <1>2
  <2> HIDE DEF q
  <2>2. SubSeq(q, 1, Len(q) - 1) \in Seq(Places)
    BY <2>1
  <2> QED
    BY <2>2 DEF q
<1>4. outer \in CatalogScan
  <2> HIDE DEF back
  <2>1. inner \in CatalogScan
    BY <1>3, ScanWith
  <2> HIDE DEF inner
  <2> QED
    BY <1>1, <2>1, ScanWith
<1>5. kept \in EntryType
  <2>1. s.entry.options \in Seq(OptionType)
    BY <1>2 DEF EntryType
  <2>2. Append(s.entry.options, s.option) \in Seq(OptionType)
    BY <1>2, <2>1
  <2> QED
    BY <1>2, <2>2, EntryWith
<1>6. all \in Seq(EntryType)
  <2>1. named \in EntryType
    BY <1>2, EntryWith
  <2> HIDE DEF named
  <2> QED
    BY <1>2, <2>1
<1>7. Leave(s) = CASE Inside(s) = "top" -> [s EXCEPT !.at = "done"]
                   [] Inside(s) = "option" -> [outer EXCEPT !.entry = kept]
                   [] Inside(s) = "entry" -> [outer EXCEPT !.entries = all]
                   [] OTHER -> outer
  <2>1. s.entry = outer.entry /\ s.entries = outer.entries
    BY DEF CatalogScan
  <2>2. outer = [s EXCEPT !.in = SubSeq(@, 1, Len(@) - 1), !.at = "after"]
    BY DEF CatalogScan
  <2> DEFINE out == [s EXCEPT !.in = SubSeq(@, 1, Len(@) - 1), !.at = "after"]
  <2>3. Leave(s) = CASE Inside(s) = "top" -> [s EXCEPT !.at = "done"]
                     [] Inside(s) = "option" -> [out EXCEPT !.entry.options = Append(@, s.option)]
                     [] Inside(s) = "entry" -> [out EXCEPT !.entries = Append(@, [s.entry EXCEPT !.name = s.name])]
                     [] OTHER -> out
    BY Zenon DEF Leave
  <2> HIDE DEF outer, out
  <2>4. [outer EXCEPT !.entry.options = Append(@, s.option)] = [outer EXCEPT !.entry = kept]
    BY <1>4, <2>1
  <2>5. [outer EXCEPT !.entries = Append(@, [s.entry EXCEPT !.name = s.name])] = [outer EXCEPT !.entries = all]
    BY <1>4, <2>1
  <2> QED
    BY Zenon, <2>2, <2>3, <2>4, <2>5 DEF out
<1>8. [s EXCEPT !.at = "done"] \in CatalogScan
  BY <1>1, ScanWith
<1> HIDE DEF outer, kept, all
<1>9. [outer EXCEPT !.entry = kept] \in CatalogScan /\ [outer EXCEPT !.entries = all] \in CatalogScan
  BY <1>4, <1>5, <1>6, ScanWith
<1> QED
  BY Zenon, <1>4, <1>7, <1>8, <1>9

\* What comes after a value.
LEMMA AfterIs ==
    ASSUME NEW s \in CatalogScan, NEW tok \in TokenType
    PROVE  After(s, tok) \in CatalogScan
<1>1. "value" \in Stages /\ "key" \in Stages
  BY DEF Stages
<1>2. [s EXCEPT !.at = "value"] \in CatalogScan /\ [s EXCEPT !.at = "key"] \in CatalogScan
  BY <1>1, EnterIs
<1>3. [s EXCEPT !.at = IF IsArray(s) THEN "value" ELSE "key"] \in CatalogScan
  BY <1>2
<1>4. Leave(s) \in CatalogScan /\ ScanFailed(s) \in CatalogScan
  BY LeaveIs, EnterIs
<1> QED
  BY Zenon, <1>3, <1>4 DEF After

\* A value that is passed over.
LEMMA SkipIs ==
    ASSUME NEW s \in CatalogScan, NEW tok \in TokenType
    PROVE  SkipValue(s, tok) \in CatalogScan
<1>1. {"first", "after"} \subseteq Stages /\ {"skipped object", "skipped array"} \subseteq Places
  BY DEF Stages, Places
<1>2. /\ Enter(s, "skipped object", "first") \in CatalogScan
      /\ Enter(s, "skipped array", "first") \in CatalogScan
      /\ [s EXCEPT !.at = "after"] \in CatalogScan
  BY <1>1, EnterIs
<1> QED
  BY Zenon, <1>2, AfterIs DEF SkipValue

\* A value that is stored.
LEMMA StoredIs ==
    ASSUME NEW s \in CatalogScan, NEW tok \in TokenType, NEW next \in CatalogScan
    PROVE  Stored(s, tok, next) \in CatalogScan
<1>1. "after" \in Stages
  BY DEF Stages
<1>2. [next EXCEPT !.at = "after"] \in CatalogScan /\ ScanFailed(s) \in CatalogScan
  BY <1>1, EnterIs
<1> QED
  BY Zenon, <1>2 DEF Stored

\* A value of an entry.
LEMMA EntryValueIs ==
    ASSUME NEW s \in CatalogScan, NEW tok \in TokenType
    PROVE  EntryValue(s, tok) \in CatalogScan
<1> DEFINE e == s.entry
           is == tok.v = <<"shell-builtin">>
           also == s.entry.win32s \/ tok.t = "true"
<1>1. e \in EntryType /\ tok.v \in Seq(Chars) /\ is \in BOOLEAN
  BY DEF CatalogScan, TokenType
<1>2. also \in BOOLEAN
  <2>1. s.entry.win32s \in BOOLEAN
    BY DEF CatalogScan, EntryType
  <2> QED
    BY <2>1
<1>3. /\ [s EXCEPT !.entry.builtin = tok.v = <<"shell-builtin">>] = [s EXCEPT !.entry = [e EXCEPT !.builtin = is]]
      /\ [s EXCEPT !.entry.modern = tok.v] = [s EXCEPT !.entry = [e EXCEPT !.modern = tok.v]]
      /\ [s EXCEPT !.entry.shellWin32s = tok.v] = [s EXCEPT !.entry = [e EXCEPT !.shellWin32s = tok.v]]
      /\ [s EXCEPT !.entry.win32s = @ \/ tok.t = "true"] = [s EXCEPT !.entry = [e EXCEPT !.win32s = also]]
  OBVIOUS
<1> HIDE DEF e, is, also
<1>4. /\ [e EXCEPT !.builtin = is] \in EntryType /\ [e EXCEPT !.modern = tok.v] \in EntryType
      /\ [e EXCEPT !.shellWin32s = tok.v] \in EntryType /\ [e EXCEPT !.win32s = also] \in EntryType
  BY <1>1, <1>2, EntryWith
<1>5. /\ [s EXCEPT !.entry.builtin = tok.v = <<"shell-builtin">>] \in CatalogScan
      /\ [s EXCEPT !.entry.modern = tok.v] \in CatalogScan
      /\ [s EXCEPT !.entry.shellWin32s = tok.v] \in CatalogScan
      /\ [s EXCEPT !.entry.win32s = @ \/ tok.t = "true"] \in CatalogScan
  BY <1>3, <1>4, ScanWith
<1>6. /\ Stored(s, tok, [s EXCEPT !.entry.builtin = tok.v = <<"shell-builtin">>]) \in CatalogScan
      /\ Stored(s, tok, [s EXCEPT !.entry.modern = tok.v]) \in CatalogScan
      /\ Stored(s, tok, [s EXCEPT !.entry.shellWin32s = tok.v]) \in CatalogScan
      /\ SkipValue([s EXCEPT !.entry.win32s = @ \/ tok.t = "true"], tok) \in CatalogScan
      /\ SkipValue(s, tok) \in CatalogScan
  BY <1>5, StoredIs, SkipIs
<1>7. "options" \in Places /\ "first" \in Stages
  BY DEF Places, Stages
<1>8. Enter(s, "options", "first") \in CatalogScan /\ ScanFailed(s) \in CatalogScan
  BY <1>7, EnterIs
<1> QED
  BY Zenon, <1>6, <1>8 DEF EntryValue

\* Any value.
LEMMA ScanValueIs ==
    ASSUME NEW s \in CatalogScan, NEW tok \in TokenType
    PROVE  ScanValue(s, tok) \in CatalogScan
<1> DEFINE fresh == [s EXCEPT !.entry = NoEntry]
           begun == [fresh EXCEPT !.name = CutField(s.key, NameLen)]
           option == [s EXCEPT !.option = NoOption]
           flagged == [s.option EXCEPT !.flag = CutField(tok.v, FlagLen)]
           argued == [s.option EXCEPT !.hasArg = TRUE]
<1>1. s.key \in Seq(Chars) /\ tok.v \in Seq(Chars) /\ s.option \in OptionType
  BY DEF CatalogScan, TokenType
<1>2. CutField(s.key, NameLen) \in Seq(Chars) /\ CutField(tok.v, FlagLen) \in Seq(Chars)
  BY <1>1, CutIs, CatalogAssumption
<1>3. begun \in CatalogScan /\ option \in CatalogScan
  <2>1. fresh \in CatalogScan /\ option \in CatalogScan
    BY NothingScanned, ScanWith
  <2> HIDE DEF fresh
  <2>2. begun \in CatalogScan
    BY <1>2, <2>1, ScanWith
  <2> QED
    BY <2>1, <2>2
<1>4. flagged \in OptionType /\ argued \in OptionType
  <2> DEFINE cut == CutField(tok.v, FlagLen)
  <2>1. cut \in Seq(Chars)
    BY <1>2
  <2> HIDE DEF cut
  <2>2. [s.option EXCEPT !.flag = cut] \in OptionType
    BY <1>1, <2>1 DEF OptionType
  <2>3. argued \in OptionType
    BY <1>1 DEF OptionType
  <2> QED
    BY <2>2, <2>3 DEF cut
<1>5. /\ [s EXCEPT !.entry = NoEntry, !.name = CutField(s.key, NameLen)] = begun
      /\ [s EXCEPT !.option.flag = CutField(tok.v, FlagLen)] = [s EXCEPT !.option = flagged]
      /\ [s EXCEPT !.option.hasArg = TRUE] = [s EXCEPT !.option = argued]
  BY DEF CatalogScan
<1> HIDE DEF begun, flagged, argued, fresh
<1>6. /\ [s EXCEPT !.entry = NoEntry, !.name = CutField(s.key, NameLen)] \in CatalogScan
      /\ [s EXCEPT !.option = NoOption] \in CatalogScan
      /\ [s EXCEPT !.option.flag = CutField(tok.v, FlagLen)] \in CatalogScan
      /\ [s EXCEPT !.option.hasArg = TRUE] \in CatalogScan
  BY <1>3, <1>4, <1>5, ScanWith
<1>7. {"commands", "entry", "option"} \subseteq Places /\ "first" \in Stages
  BY DEF Places, Stages
<1>8. /\ Enter(s, "commands", "first") \in CatalogScan
      /\ Enter([s EXCEPT !.entry = NoEntry, !.name = CutField(s.key, NameLen)], "entry", "first") \in CatalogScan
      /\ Enter([s EXCEPT !.option = NoOption], "option", "first") \in CatalogScan
      /\ ScanFailed(s) \in CatalogScan
  BY <1>6, <1>7, EnterIs
<1>9. /\ Stored(s, tok, [s EXCEPT !.option.flag = CutField(tok.v, FlagLen)]) \in CatalogScan
      /\ SkipValue([s EXCEPT !.option.hasArg = TRUE], tok) \in CatalogScan
      /\ SkipValue(s, tok) \in CatalogScan /\ EntryValue(s, tok) \in CatalogScan
  BY <1>6, StoredIs, SkipIs, EntryValueIs
<1> QED
  BY Zenon, <1>8, <1>9 DEF ScanValue

\* A token leads from a state of the scan to another.
LEMMA ScanTokenIs ==
    ASSUME NEW s \in CatalogScan, NEW tok \in TokenType
    PROVE  ScanToken(s, tok) \in CatalogScan
<1>1. {"first", "colon", "value"} \subseteq Stages
  BY DEF Stages
<1>2. KeyNext(s, tok) \in CatalogScan
  <2> DEFINE keyed == [s EXCEPT !.key = tok.v]
  <2>1. tok.v \in Seq(Chars)
    BY DEF TokenType
  <2>2. keyed \in CatalogScan
    BY <2>1, ScanWith
  <2>3. [s EXCEPT !.at = "colon", !.key = tok.v] = [keyed EXCEPT !.at = "colon"]
    BY DEF CatalogScan
  <2> HIDE DEF keyed
  <2>4. [s EXCEPT !.at = "colon", !.key = tok.v] \in CatalogScan /\ ScanFailed(s) \in CatalogScan
    BY <1>1, <2>2, <2>3, EnterIs
  <2> QED
    BY Zenon, <2>4 DEF KeyNext
<1>3. /\ [s EXCEPT !.at = "first"] \in CatalogScan /\ [s EXCEPT !.at = "value"] \in CatalogScan
      /\ ScanFailed(s) \in CatalogScan /\ Leave(s) \in CatalogScan
      /\ ScanValue(s, tok) \in CatalogScan /\ After(s, tok) \in CatalogScan
  BY <1>1, EnterIs, LeaveIs, ScanValueIs, AfterIs
<1>4. s.at \in Stages
  BY DEF CatalogScan
<1> DEFINE opened == IF tok.t = "{" THEN [s EXCEPT !.at = "first"] ELSE ScanFailed(s)
           begun == IF tok.t = (IF IsArray(s) THEN "]" ELSE "}") THEN Leave(s)
                    ELSE IF IsArray(s) THEN ScanValue(s, tok) ELSE KeyNext(s, tok)
           valued == IF tok.t = ":" THEN [s EXCEPT !.at = "value"] ELSE ScanFailed(s)
<1>5. opened \in CatalogScan /\ begun \in CatalogScan /\ valued \in CatalogScan
  BY Zenon, <1>2, <1>3
<1>6. ScanToken(s, tok) =
        CASE s.at \in {"done", "failed"} -> s
          [] s.at = "open" -> opened
          [] s.at = "first" -> begun
          [] s.at = "key" -> KeyNext(s, tok)
          [] s.at = "colon" -> valued
          [] s.at = "value" -> ScanValue(s, tok)
          [] s.at = "after" -> After(s, tok)
  BY Zenon DEF ScanToken
<1> DEFINE at == s.at
<1> HIDE DEF opened, begun, valued, at
<1>7. at \in {"open", "first", "key", "colon", "value", "after", "done", "failed"}
  BY <1>4 DEF Stages, at
<1>8. ScanToken(s, tok) \in {s, opened, begun, KeyNext(s, tok), valued, ScanValue(s, tok), After(s, tok)}
  <2> DEFINE k == KeyNext(s, tok)
             v == ScanValue(s, tok)
             a == After(s, tok)
             r == ScanToken(s, tok)
  <2>1. r = CASE at \in {"done", "failed"} -> s
              [] at = "open" -> opened
              [] at = "first" -> begun
              [] at = "key" -> k
              [] at = "colon" -> valued
              [] at = "value" -> v
              [] at = "after" -> a
    BY <1>6 DEF at
  <2> HIDE DEF k, v, a, r
  <2>2. r \in {s, opened, begun, k, valued, v, a}
    BY <1>7, <2>1
  <2> QED
    BY <2>2 DEF k, v, a, r
<1> QED
  BY <1>2, <1>3, <1>5, <1>8

ScanStep == [p \in CatalogScan \X TokenType |-> ScanToken(p[1], p[2])]
ScanRun(file) == FoldLeft(ScanToken, Scanner, file)

\* A file is scanned one token after the other.
LEMMA ScanSteps ==
    ASSUME NEW file \in Seq(TokenType)
    PROVE  ComesTo(CatalogScan, ScanStep, Scanner, file, ScanRun(file))
<1> DEFINE g == ScanStep
           Is(h) == h = [s \in SUBSET DOMAIN file |->
                          IF s = {} THEN Scanner ELSE ScanToken(h[s \ {Max(s)}], file[Max(s)])]
<1>0. DOMAIN file = 1..Len(file) /\ Len(file) \in Nat
      /\ \A i \in 1..Len(file) : file[i] \in TokenType
  OBVIOUS
<1>1. ScanRun(file) = (CHOOSE h : Is(h))[DOMAIN file]
  BY DEF ScanRun, FoldLeft, MapThenFoldSet
<1>2. ASSUME NEW s \in SUBSET (1..Len(file)), s # {}
      PROVE  file[Max(s)] \in TokenType /\ s \ {Max(s)} \in SUBSET (1..Len(file))
  BY <1>0, <1>2, MaxOfSome
<1>3. ASSUME NEW a \in CatalogScan, NEW b \in TokenType PROVE g[<<a, b>>] = ScanToken(a, b)
  BY <1>3 DEF ScanStep
<1>4. g \in [CatalogScan \X TokenType -> CatalogScan] /\ Scanner \in CatalogScan
  BY NothingScanned, ScanTokenIs DEF ScanStep
<1> HIDE DEF g
<1>5. \E h : Is(h)
  <2>1. PICK h \in [SUBSET (1..Len(file)) -> CatalogScan] :
          \A s \in SUBSET (1..Len(file)) : OneFold(h, g, Scanner, file, s)
    BY <1>4, RunExists
  <2>2. ASSUME NEW s \in SUBSET DOMAIN file
        PROVE  h[s] = IF s = {} THEN Scanner ELSE ScanToken(h[s \ {Max(s)}], file[Max(s)])
    BY <1>0, <1>2, <1>3, <2>1 DEF OneFold
  <2>3. Is(h)
    BY <1>0, <2>1, <2>2
  <2> QED
    BY <2>3
<1>6. PICK h : Is(h) /\ ScanRun(file) = h[DOMAIN file]
  <2> HIDE DEF Is
  <2> QED
    BY <1>1, <1>5
<1>7. ASSUME NEW s \in SUBSET (1..Len(file)), s # {}, h[s \ {Max(s)}] \in CatalogScan
      PROVE  h[s] = g[<<h[s \ {Max(s)}], file[Max(s)]>>]
  <2>1. h[s] = ScanToken(h[s \ {Max(s)}], file[Max(s)])
    BY <1>0, <1>6, <1>7
  <2> QED
    BY <1>2, <1>3, <1>7, <2>1
<1>8. h[{}] = Scanner
  <2>1. {} \in SUBSET DOMAIN file
    OBVIOUS
  <2> QED
    BY <1>6, <2>1
<1> HIDE DEF Is
<1>9. FoldsBy(CatalogScan, g, Scanner, file, h)
  BY <1>7, <1>8 DEF FoldsBy
<1>10. ComesTo(CatalogScan, g, Scanner, file, h[1..Len(file)])
  BY <1>4, <1>9, FoldHasSteps
<1> QED
  BY <1>0, <1>6, <1>10 DEF g

\* What is loaded is a list of entries.
LEMMA LoadedIs ==
    ASSUME NEW file \in Seq(TokenType)
    PROVE  CatalogLoad(file) \in Seq(EntryType)
<1>1. ScanRun(file) \in CatalogScan
  BY ScanSteps, ComesInto
<1> DEFINE s == ScanRun(file)
<1>2. s.entries \in Seq(EntryType)
  BY <1>1 DEF CatalogScan
<1>3. CatalogLoad(file) = IF Len(file) >= FileMax \/ s.at # "done" THEN NoCatalog ELSE s.entries
  BY Zenon DEF CatalogLoad, ScanRun
<1> HIDE DEF s
<1>4. NoCatalog \in Seq(EntryType)
  BY DEF NoCatalog
<1> QED
  BY Zenon, <1>2, <1>3, <1>4

-----------------------------------------------------------------------------
(* The text of a catalog file *)

\* Sequences put together are a sequence of the same.
LEMMA FlattenIs ==
    ASSUME NEW C, NEW n \in Nat, NEW seqs, seqs \in [1..n -> Seq(C)]
    PROVE  FlattenSeq(seqs) \in Seq(C)
<1> DEFINE K == Seq(C)
<1>1. seqs \in Seq(K) /\ Len(seqs) = n /\ <<>> \in K
  <2>1. <<>> \in K
    OBVIOUS
  <2> HIDE DEF K
  <2>2. seqs \in [1..n -> K]
    BY DEF K
  <2>3. seqs \in Seq(K) /\ Len(seqs) = n
    BY <2>2
  <2> QED
    BY <2>1, <2>3
<1>2. CASE n = 0
  <2>1. seqs = <<>>
    <3> HIDE DEF K
    <3> QED
      BY <1>1, <1>2
  <2>2. FlattenSeq(seqs) = <<>>
    BY <2>1 DEF FlattenSeq
  <2> QED
    BY <1>1, <2>2
<1>3. CASE n # 0
  <2>1. PICK f : Flattens(C, seqs, f) /\ FlattenSeq(seqs) = f[Len(seqs)]
    BY <1>1, <1>3, FlattenSteps
  <2>2. n \in 1..n
    BY <1>3
  <2>3. FlattenSeq(seqs) \in K
    BY <1>1, <2>1, <2>2 DEF Flattens
  <2> QED
    BY <2>3
<1> QED
  BY <1>2, <1>3

\* The parts of an object, and the values of an array, as tokens.
FileTokens == Seq(TokenType)
Member == [key : Seq(Chars), value : FileTokens]

\* A token on its own, and several texts of tokens one after the other.
LEMMA TokensAre ==
    /\ \A t \in Tags : <<Token(t)>> \in FileTokens
    /\ \A v \in Seq(Chars) : <<Text(v)>> \in FileTokens
    /\ \A x, y \in FileTokens : x \o y \in FileTokens
    /\ \A x, y, z \in FileTokens : x \o y \o z \in FileTokens
    /\ <<>> \in FileTokens
<1>1. ASSUME NEW t \in Tags PROVE <<Token(t)>> \in FileTokens
  <2>1. <<>> \in Seq(Chars)
    OBVIOUS
  <2>2. Token(t) \in TokenType
    BY <2>1 DEF Token, TokenType
  <2> QED
    BY <2>2 DEF FileTokens
<1>2. ASSUME NEW v \in Seq(Chars) PROVE <<Text(v)>> \in FileTokens
  <2>1. "string" \in Tags
    BY DEF Tags
  <2>2. Text(v) \in TokenType
    BY <2>1 DEF Text, TokenType
  <2> QED
    BY <2>2 DEF FileTokens
<1>3. ASSUME NEW x \in FileTokens, NEW y \in FileTokens PROVE x \o y \in FileTokens
  BY DEF FileTokens
<1>4. <<>> \in FileTokens
  BY DEF FileTokens
<1>5. ASSUME NEW x \in FileTokens, NEW y \in FileTokens, NEW z \in FileTokens PROVE x \o y \o z \in FileTokens
  BY <1>3
<1> QED
  BY <1>1, <1>2, <1>3, <1>4, <1>5

\* An object of any members is a text of tokens.
LEMMA BracedIs ==
    ASSUME NEW parts \in Seq(Member)
    PROVE  Braced(parts) \in FileTokens
<1> DEFINE n == Len(parts)
           Bit(i) == (IF i > 1 THEN <<Token(",")>> ELSE <<>>) \o <<Text(parts[i].key), Token(":")>> \o parts[i].value
           bits == [i \in 1..n |-> Bit(i)]
<1>1. n \in Nat /\ DOMAIN parts = 1..n /\ \A i \in 1..n : parts[i] \in Member
  OBVIOUS
<1>2. <<Token("{")>> \in FileTokens /\ <<Token("}")>> \in FileTokens /\ <<Token(",")>> \in FileTokens /\ <<Token(":")>> \in FileTokens
  BY TokensAre DEF Tags
<1>3. ASSUME NEW i \in 1..n PROVE Bit(i) \in FileTokens
  <2> DEFINE key == parts[i].key
             value == parts[i].value
             before == IF i > 1 THEN <<Token(",")>> ELSE <<>>
  <2>1. key \in Seq(Chars) /\ value \in FileTokens
    BY <1>1 DEF Member
  <2>2. before \in FileTokens
    BY <1>2, TokensAre
  <2>3. <<Text(key), Token(":")>> = <<Text(key)>> \o <<Token(":")>>
    OBVIOUS
  <2>4. <<Text(key), Token(":")>> \in FileTokens
    <3> DEFINE a == <<Text(key)>>
               b == <<Token(":")>>
               c == <<Text(key), Token(":")>>
    <3>1. a \in FileTokens /\ b \in FileTokens /\ c = a \o b
      BY <1>2, <2>1, <2>3, TokensAre
    <3> HIDE DEF a, b, c
    <3>2. c \in FileTokens
      BY <3>1, TokensAre
    <3> QED
      BY <3>2 DEF c
  <2> DEFINE middle == <<Text(key), Token(":")>>
  <2> HIDE DEF key, value, before, middle
  <2>5. before \o middle \o value \in FileTokens
    BY <2>1, <2>2, <2>4, TokensAre DEF middle
  <2> QED
    BY <2>5 DEF key, value, before, middle
<1>4. Braced(parts) = <<Token("{")>> \o FlattenSeq(bits) \o <<Token("}")>>
  BY <1>1 DEF Braced
<1> HIDE DEF Bit, n
<1>5. bits \in [1..n -> FileTokens]
  BY <1>3
<1> HIDE DEF bits
<1>6. FlattenSeq(bits) \in FileTokens
  BY <1>1, <1>5, FlattenIs DEF FileTokens
<1> DEFINE first == <<Token("{")>>
           last == <<Token("}")>>
           inner == FlattenSeq(bits)
<1>7. first \in FileTokens /\ last \in FileTokens /\ inner \in FileTokens /\ Braced(parts) = first \o inner \o last
  BY <1>2, <1>4, <1>6
<1> HIDE DEF first, last, inner
<1> QED
  BY <1>7, TokensAre

\* So is an array.
LEMMA ListedIs ==
    ASSUME NEW n \in Nat, NEW values \in [1..n -> FileTokens]
    PROVE  Listed(values) \in FileTokens
<1> DEFINE Bit(i) == (IF i > 1 THEN <<Token(",")>> ELSE <<>>) \o values[i]
           bits == [i \in 1..n |-> Bit(i)]
<1>1. <<Token("[")>> \in FileTokens /\ <<Token("]")>> \in FileTokens /\ <<Token(",")>> \in FileTokens
  BY TokensAre DEF Tags
<1>2. ASSUME NEW i \in 1..n PROVE Bit(i) \in FileTokens
  <2> DEFINE before == IF i > 1 THEN <<Token(",")>> ELSE <<>>
  <2>1. before \in FileTokens /\ values[i] \in FileTokens
    BY <1>1, TokensAre
  <2> HIDE DEF before
  <2>2. before \o values[i] \in FileTokens
    BY <2>1, TokensAre
  <2> QED
    BY <2>2 DEF before
<1>3. Listed(values) = <<Token("[")>> \o FlattenSeq(bits) \o <<Token("]")>>
  BY DEF Listed
<1> HIDE DEF Bit
<1>4. bits \in [1..n -> FileTokens]
  BY <1>2
<1> HIDE DEF bits
<1>5. FlattenSeq(bits) \in FileTokens
  BY <1>4, FlattenIs DEF FileTokens
<1> DEFINE first == <<Token("[")>>
           last == <<Token("]")>>
           inner == FlattenSeq(bits)
<1>6. first \in FileTokens /\ last \in FileTokens /\ inner \in FileTokens /\ Listed(values) = first \o inner \o last
  BY <1>1, <1>3, <1>5
<1> HIDE DEF first, last, inner
<1> QED
  BY <1>6, TokensAre

\* The named parts of a file.
LEMMA PartIs ==
    ASSUME NEW key \in Chars, NEW value \in FileTokens
    PROVE  Part(key, value) \in Member
BY DEF Part, Member

\* An option's text: its flag, and whether it takes an argument.
LEMMA OptionTextIs ==
    ASSUME NEW o \in OptionType
    PROVE  OptionText(o) \in FileTokens
<1> DEFINE flag == Part("flag", <<Text(o.flag)>>)
           arg == Part("arg", <<Text(<<"x">>)>>)
           x == <<"x">>
<1>1. {"flag", "arg", "x"} \subseteq Chars
  BY DEF Chars
<1>2. o.flag \in Seq(Chars) /\ x \in Seq(Chars)
  BY <1>1 DEF OptionType
<1>3. <<Text(o.flag)>> \in FileTokens /\ <<Text(x)>> \in FileTokens
  BY <1>2, TokensAre
<1>4. flag \in Member /\ arg \in Member
  BY <1>1, <1>3, PartIs
<1> HIDE DEF flag, arg
<1> DEFINE parts == <<flag>> \o (IF o.hasArg THEN <<arg>> ELSE <<>>)
<1>5. parts \in Seq(Member)
  BY <1>4
<1>6. OptionText(o) = Braced(parts)
  BY Zenon DEF OptionText, flag, arg
<1> HIDE DEF parts
<1> QED
  BY <1>5, <1>6, BracedIs

\* An entry's text: what it holds as a command, and what a file may hold besides.
LEMMA EntryTextIs ==
    ASSUME NEW e \in EntryType
    PROVE  EntryText(e) \in FileTokens
<1> DEFINE options == e.options
           n == Len(options)
           texts == [i \in 1..n |-> OptionText(options[i])]
           kind == Part("kind", <<Text(<<"shell-builtin">>)>>)
           modern == Part("shell_modern", <<Text(e.modern)>>)
           win32s == Part("shell_win32s", <<Text(e.shellWin32s)>>)
           place == Part("name", Listed(<<>>))
           two == << Braced(<<place>>), <<Token("null")>> >>
           positional == Part("positional", Listed(two))
           supports == Part("supports_win32s", <<Token(IF e.win32s THEN "true" ELSE "null")>>)
           opts == Part("options", Listed(texts))
<1>1. {"kind", "shell-builtin", "shell_modern", "shell_win32s", "name", "positional",
       "supports_win32s", "options"} \subseteq Chars
  BY DEF Chars
<1>2. e.modern \in Seq(Chars) /\ e.shellWin32s \in Seq(Chars) /\ options \in Seq(OptionType)
  BY DEF EntryType
<1>3. <<"shell-builtin">> \in Seq(Chars)
  BY <1>1
<1>4. kind \in Member /\ modern \in Member /\ win32s \in Member
  <2>1. /\ <<Text(<<"shell-builtin">>)>> \in FileTokens /\ <<Text(e.modern)>> \in FileTokens
        /\ <<Text(e.shellWin32s)>> \in FileTokens
    BY <1>2, <1>3, TokensAre
  <2> QED
    BY <1>1, <2>1, PartIs
<1>5. positional \in Member
  <2>1. <<>> \in [1..0 -> FileTokens]
    OBVIOUS
  <2>2. Listed(<<>>) \in FileTokens
    BY <2>1, ListedIs
  <2>3. place \in Member
    BY <1>1, <2>2, PartIs
  <2> HIDE DEF place
  <2>4. <<place>> \in Seq(Member)
    BY <2>3
  <2>5. Braced(<<place>>) \in FileTokens /\ <<Token("null")>> \in FileTokens
    BY <2>4, BracedIs, TokensAre DEF Tags
  <2> DEFINE a == Braced(<<place>>)
             b == <<Token("null")>>
  <2> HIDE DEF a, b
  <2>6. <<a, b>> \in [1..2 -> FileTokens]
    BY <2>5 DEF a, b
  <2>7. two \in [1..2 -> FileTokens]
    BY <2>6 DEF a, b
  <2> HIDE DEF two
  <2>8. Listed(two) \in FileTokens
    BY <2>7, ListedIs
  <2> QED
    BY <1>1, <2>8, PartIs
<1>6. supports \in Member
  <2> DEFINE tag == IF e.win32s THEN "true" ELSE "null"
  <2>1. tag \in Tags
    BY DEF Tags
  <2> HIDE DEF tag
  <2>2. <<Token(tag)>> \in FileTokens
    BY <2>1, TokensAre
  <2>3. Part("supports_win32s", <<Token(tag)>>) \in Member
    BY <1>1, <2>2, PartIs
  <2> QED
    BY <2>3 DEF tag
<1>7. opts \in Member
  <2>1. n \in Nat /\ \A i \in 1..n : options[i] \in OptionType
    BY <1>2
  <2>2. \A i \in 1..n : OptionText(options[i]) \in FileTokens
    BY <2>1, OptionTextIs
  <2> HIDE DEF n, options
  <2>3. texts \in [1..n -> FileTokens]
    BY <2>2
  <2> HIDE DEF texts
  <2>4. Listed(texts) \in FileTokens
    BY <2>1, <2>3, ListedIs
  <2> QED
    BY <1>1, <2>4, PartIs
<1>8. DOMAIN options = 1..n
  BY <1>2
<1> DEFINE parts == (IF e.builtin THEN <<kind, modern, win32s>> ELSE <<positional>>) \o <<supports, opts>>
<1>9. EntryText(e) = Braced(parts)
  BY Zenon, <1>8 DEF EntryText
<1> HIDE DEF kind, modern, win32s, positional, supports, opts
<1>10. <<kind, modern, win32s>> \in Seq(Member) /\ <<positional>> \in Seq(Member) /\ <<supports, opts>> \in Seq(Member)
  BY <1>4, <1>5, <1>6, <1>7
<1>11. parts \in Seq(Member)
  BY <1>10
<1> HIDE DEF parts
<1> QED
  BY <1>9, <1>11, BracedIs

\* A catalog's text: the version and the entries under their names.
LEMMA FileTextIs ==
    ASSUME NEW cat \in Seq(EntryType)
    PROVE  FileText(cat) \in FileTokens
<1> DEFINE n == Len(cat)
           Command(i) == [key |-> cat[i].name, value |-> EntryText(cat[i])]
           commands == [i \in 1..n |-> Command(i)]
           version == Part("version", <<Token("null")>>)
           all == Part("commands", Braced(commands))
<1>1. n \in Nat /\ DOMAIN cat = 1..n /\ \A i \in 1..n : cat[i] \in EntryType
  OBVIOUS
<1>2. ASSUME NEW i \in 1..n PROVE Command(i) \in Member
  <2>1. EntryText(cat[i]) \in FileTokens /\ cat[i].name \in Seq(Chars)
    BY <1>1, EntryTextIs DEF EntryType
  <2> QED
    BY <2>1 DEF Member
<1>3. commands \in Seq(Member)
  <2> HIDE DEF Command, n
  <2>1. commands \in [1..n -> Member]
    BY <1>2
  <2> HIDE DEF commands
  <2> QED
    BY <1>1, <2>1
<1>4. FileText(cat) = Braced(<<version, all>>)
  BY Zenon, <1>1 DEF FileText
<1> HIDE DEF commands
<1>5. version \in Member /\ all \in Member
  <2>1. {"version", "commands"} \subseteq Chars
    BY DEF Chars
  <2>2. <<Token("null")>> \in FileTokens /\ Braced(commands) \in FileTokens
    BY <1>3, BracedIs, TokensAre DEF Tags
  <2> QED
    BY <2>1, <2>2, PartIs
<1> HIDE DEF version, all
<1>6. <<version, all>> \in Seq(Member)
  BY <1>5
<1> QED
  BY <1>4, <1>6, BracedIs

-----------------------------------------------------------------------------
(* What is listed passes the gate *)

\* A flag that an option of the entry takes is found.
LEMMA TakenIsFine ==
    ASSUME NEW e \in EntryType, NEW tok \in Seq(Chars), tok # <<>>,
           NEW k \in 1..Len(e.options), Takes(e.options[k], tok)
    PROVE  Fine(e, tok) /\ e # NoEntry
<1> DEFINE options == e.options
<1>1. options \in Seq(OptionType)
  BY DEF EntryType
<1>2. e # NoEntry
  BY DEF NoEntry
<1>3. ~Takes(NoOption, tok)
  <2>1. NoOption.flag = <<>> /\ ~NoOption.hasArg
    BY DEF NoOption
  <2>2. <<>> \in Seq(Chars) /\ Len(<<>>) = 0
    OBVIOUS
  <2>3. Len(tok) # 0
    OBVIOUS
  <2>4. Len(Fold(<<>>)) = 0 /\ Len(Fold(tok)) = Len(tok)
    BY <2>2, FoldIs
  <2>5. Fold(<<>>) # Fold(tok)
    BY <2>3, <2>4
  <2> QED
    BY <2>1, <2>5 DEF Takes, SameText
<1>4. e.options = options /\ k \in 1..Len(options) /\ Takes(options[k], tok)
  OBVIOUS
<1> HIDE DEF options
<1>5. PICK i \in 1..Len(options) : Takes(options[i], tok) /\ FindOption(e, tok) = options[i]
  BY <1>1, <1>4, OptionIs
<1>6. FindOption(e, tok) # NoOption
  BY <1>3, <1>5
<1> QED
  BY <1>2, <1>6 DEF Fine

\* An option takes its own flag, and when it takes an argument the flag with a
\* value glued on.
LEMMA OwnFlag ==
    ASSUME NEW o \in OptionType, o.flag # <<>>
    PROVE  /\ Takes(o, o.flag)
           /\ o.hasArg => Takes(o, o.flag \o <<"v">>)
<1> DEFINE flag == o.flag
           v == <<"v">>
           tok == flag \o v
<1>1. flag \in Seq(Chars) /\ "v" \in Chars
  BY DEF OptionType, Chars
<1>2. flag # <<>>
  OBVIOUS
<1>3. o.flag = flag
  OBVIOUS
<1> HIDE DEF flag
<1>4. Len(tok) > Len(flag) /\ SubSeq(tok, 1, Len(flag)) = flag
  BY <1>1
<1> HIDE DEF tok
<1>5. SameText(flag, flag) /\ SameText(flag, SubSeq(tok, 1, Len(flag)))
  BY <1>4 DEF SameText
<1>6. Takes(o, flag) /\ (o.hasArg => Takes(o, tok))
  BY <1>2, <1>3, <1>4, <1>5 DEF Takes
<1> QED
  BY <1>6 DEF tok, flag

\* Every flag of an entry may be given, alone, with a value after it and with the
\* value glued on.
LEMMA FlagPasses ==
    ASSUME NEW e \in EntryType, NEW name \in Seq(Chars),
           NEW k \in 1..Len(e.options), IsFlagToken(e.options[k].flag)
    PROVE  LET o == e.options[k] IN
             /\ CatalogValidateArgs(e, <<name>> \o <<o.flag>>)
             /\ o.hasArg => /\ CatalogValidateArgs(e, <<name>> \o <<o.flag \o <<"v">>>>)
                            /\ CatalogValidateArgs(e, <<name>> \o <<o.flag, <<"v">>>>)
<1> DEFINE o == e.options[k]
           flag == o.flag
           v == <<"v">>
           tok == flag \o v
           K == Seq(Chars)
<1>1. o \in OptionType
  BY DEF EntryType
<1>2. flag \in K /\ v \in K /\ tok \in K /\ name \in K
  <2>1. flag \in Seq(Chars) /\ "v" \in Chars
    BY <1>1 DEF OptionType, Chars
  <2> HIDE DEF flag
  <2> QED
    BY <2>1
<1>3. flag # <<>> /\ tok # <<>>
  <2>1. flag # <<>>
    BY DEF IsFlagToken
  <2> HIDE DEF flag
  <2> QED
    BY <1>2, <2>1
<1>4. ~IsFlagToken(v)
  BY DEF IsFlagToken, FlagSign
<1>5. Takes(o, flag) /\ (o.hasArg => Takes(o, tok))
  BY <1>1, <1>3, OwnFlag
<1> HIDE DEF tok, v
<1>6. Fine(e, flag) /\ e # NoEntry /\ (o.hasArg => Fine(e, tok))
  BY <1>2, <1>3, <1>5, TakenIsFine
<1>7. Fine(e, v)
  BY <1>4 DEF Fine
<1> HIDE DEF o, flag
<1>8. ASSUME NEW a \in K, Fine(e, a) PROVE CatalogValidateArgs(e, <<name>> \o <<a>>)
  <2> DEFINE argv == <<name>> \o <<a>>
  <2> HIDE DEF K
  <2>1. argv \in Seq(K) /\ Len(argv) = 2 /\ argv[2] = a
    BY <1>2, <1>8
  <2> HIDE DEF argv
  <2>2. AllFine(e, argv, Len(argv))
    BY <1>8, <2>1 DEF AllFine
  <2>3. CatalogValidateArgs(e, argv)
    BY <1>6, <2>1, <2>2, ValidateIs
  <2> QED
    BY <2>3 DEF argv
<1>9. ASSUME NEW a \in K, NEW b \in K, Fine(e, a), Fine(e, b)
      PROVE  CatalogValidateArgs(e, <<name>> \o <<a, b>>)
  <2> DEFINE argv == <<name>> \o <<a, b>>
  <2> HIDE DEF K
  <2>1. argv \in Seq(K) /\ Len(argv) = 3 /\ argv[2] = a /\ argv[3] = b
    BY <1>2, <1>9
  <2> HIDE DEF argv
  <2>2. AllFine(e, argv, Len(argv))
    BY <1>9, <2>1 DEF AllFine
  <2>3. CatalogValidateArgs(e, argv)
    BY <1>6, <2>1, <2>2, ValidateIs
  <2> QED
    BY <2>3 DEF argv
<1> HIDE DEF K
<1>10. CatalogValidateArgs(e, <<name>> \o <<flag>>)
  BY <1>2, <1>6, <1>8
<1>11. o.hasArg => CatalogValidateArgs(e, <<name>> \o <<tok>>)
  BY <1>2, <1>6, <1>8
<1>12. CatalogValidateArgs(e, <<name>> \o <<flag, v>>)
  BY <1>2, <1>6, <1>7, <1>9
<1> QED
  BY <1>10, <1>11, <1>12 DEF o, flag, tok, v

\* A flag that begins with no flag of the entry is refused.
LEMMA FlagRefused ==
    ASSUME NEW e \in EntryType, NEW name \in Seq(Chars),
           \A k \in DOMAIN e.options : ~IsPrefix(Fold(e.options[k].flag), <<FlagSign, "q">>)
    PROVE  ~CatalogValidateArgs(e, <<name>> \o << <<FlagSign, "q">> >>)
<1> DEFINE q == <<FlagSign, "q">>
           argv == <<name>> \o <<q>>
           K == Seq(Chars)
<1>1. FlagSign \in Chars /\ "q" \in Chars
  BY DEF Chars
<1>2. q \in Seq(Chars) /\ Len(q) = 2 /\ q[1] = FlagSign /\ q[2] = "q" /\ q # <<>>
  BY <1>1
<1>3. IsFlagToken(q)
  BY <1>2 DEF IsFlagToken
<1>4. Fold(q) = q
  <2>1. FlagSign \notin DOMAIN Lower /\ "q" \notin DOMAIN Lower
    BY DEF Lower, FlagSign
  <2>2. LowerOf(q[1]) = q[1] /\ LowerOf(q[2]) = q[2]
    BY <1>2, <2>1 DEF LowerOf
  <2>3. Fold(q) \in Seq(Chars) /\ Len(Fold(q)) = 2 /\ \A i \in 1..2 : Fold(q)[i] = LowerOf(q[i])
    BY <1>2, FoldIs
  <2> DEFINE f == Fold(q)
  <2>4. f \in Seq(Chars) /\ Len(f) = 2 /\ f[1] = q[1] /\ f[2] = q[2]
    BY <2>2, <2>3
  <2> HIDE DEF f, q
  <2> QED
    BY <1>2, <2>4 DEF f
<1> HIDE DEF q
<1>5. argv \in Seq(Seq(Chars)) /\ Len(argv) = 2 /\ argv[2] = q
  <2>1. name \in K /\ q \in K
    BY <1>2
  <2> HIDE DEF K
  <2>2. argv \in Seq(K) /\ Len(argv) = 2 /\ argv[2] = q
    BY <2>1
  <2> QED
    BY <2>2 DEF K
<1> HIDE DEF argv
<1>6. ASSUME CatalogValidateArgs(e, argv) PROVE FALSE
  <2>1. AllFine(e, argv, Len(argv))
    BY <1>5, <1>6, ValidateIs
  <2>2. PICK o \in ToSet(e.options) :
          SameText(o.flag, q) \/ (o.hasArg /\ IsPrefix(Fold(o.flag), Fold(q)))
    <3>1. 2 \in 2..Len(argv)
      BY <1>5
    <3>2. IsFlagToken(argv[2])
      BY <1>3, <1>5
    <3>3. \E o \in ToSet(e.options) :
            SameText(o.flag, argv[2]) \/ (o.hasArg /\ IsPrefix(Fold(o.flag), Fold(argv[2])))
      <4> HIDE DEF K
      <4> QED
        BY <1>5, <2>1, <3>1, <3>2, FlagsAreListed
    <3> QED
      BY Zenon, <1>5, <3>3
  <2>3. PICK k \in DOMAIN e.options : o = e.options[k]
    BY DEF ToSet
  <2>4. SameText(o.flag, q) => IsPrefix(Fold(o.flag), q)
    <3>1. SubSeq(q, 1, Len(q)) = SubSeq(q, 1, Len(q)) /\ Len(q) <= Len(q)
      BY <1>2
    <3>2. IsPrefix(q, q)
      BY <3>1 DEF IsPrefix
    <3> QED
      BY <1>4, <3>2 DEF SameText
  <2>5. IsPrefix(Fold(o.flag), q)
    BY <1>4, <2>2, <2>4
  <2> QED
    BY <2>3, <2>5 DEF q
<1> QED
  BY <1>6 DEF argv, q

\* What the listing of a catalog offers the gate lets pass, whatever the room.
LEMMA ListedHolds ==
    ASSUME NEW cat \in Seq(EntryType), NEW room
    PROVE  ListedIsAllowed(cat, room)
<1> DEFINE loaded == CatalogLoad(FileText(cat))
           items == Listing(loaded, room)
           Item(i) == [name |-> loaded[i].name, builtin |-> loaded[i].builtin, flags |-> loaded[i].options]
           Allowed(name, args) == CatalogValidateArgs(CatalogLookup(loaded, name), <<name>> \o args)
<1>1. loaded \in Seq(EntryType)
  <2>1. FileText(cat) \in Seq(TokenType)
    BY FileTextIs DEF FileTokens
  <2> QED
    BY <2>1, LoadedIs
<1>2. items = [i \in DOMAIN loaded |-> Item(i)] \/ items = <<>>
  BY Zenon DEF Listing, NoListing
<1> HIDE DEF loaded, items
<1>3. ASSUME NEW i \in DOMAIN items, \A j \in 1..(i - 1) : ~SameText(items[j].name, items[i].name)
      PROVE  LET flags == items[i].flags IN
             /\ \A k \in DOMAIN flags : IsFlagToken(flags[k].flag) =>
                  /\ Allowed(items[i].name, <<flags[k].flag>>)
                  /\ flags[k].hasArg => /\ Allowed(items[i].name, <<flags[k].flag \o <<"v">>>>)
                                        /\ Allowed(items[i].name, <<flags[k].flag, <<"v">>>>)
             /\ (\A k \in DOMAIN flags : ~IsPrefix(Fold(flags[k].flag), <<FlagSign, "q">>))
                  => ~Allowed(items[i].name, << <<FlagSign, "q">> >>)
  <2> DEFINE n == Len(loaded)
  <2>1. n \in Nat /\ DOMAIN loaded = 1..n
    BY <1>1
  <2>2. items = [j \in 1..n |-> Item(j)]
    <3>1. DOMAIN <<>> = {}
      OBVIOUS
    <3> QED
      BY <1>2, <1>3, <2>1, <3>1
  <2> HIDE DEF n
  <2>3. i \in 1..n /\ \A j \in 1..n : items[j] = Item(j)
    BY <1>3, <2>2
  <2>4. loaded[i] \in EntryType
    BY <1>1, <2>1, <2>3
  <2> DEFINE e == loaded[i]
             name == e.name
             flags == e.options
  <2>5. name \in Seq(Chars) /\ flags \in Seq(OptionType)
    BY <2>4 DEF EntryType
  <2>6. items[i].name = name /\ items[i].flags = flags /\ \A j \in 1..n : items[j].name = loaded[j].name
    <3>1. \A j : Item(j).name = loaded[j].name /\ Item(j).flags = loaded[j].options
      OBVIOUS
    <3> HIDE DEF Item
    <3> QED
      BY <2>3, <3>1
  <2>7. CatalogLookup(loaded, name) = e
    <3>1. Named(e, name)
      BY DEF Named, SameText
    <3>2. \A j \in 1..(i - 1) : ~Named(loaded[j], name)
      BY <1>3, <2>1, <2>3, <2>6 DEF Named
    <3>3. PICK m \in 1..n : /\ Named(loaded[m], name) /\ CatalogLookup(loaded, name) = loaded[m]
                            /\ \A j \in 1..(m - 1) : ~Named(loaded[j], name)
      BY <1>1, <2>3, <3>1, LookupIs DEF n
    <3>4. m = i
      <4> HIDE DEF name, e
      <4>1. Named(loaded[i], name)
        BY <3>1 DEF e
      <4>2. ~(i \in 1..(m - 1)) /\ ~(m \in 1..(i - 1))
        BY <3>2, <3>3, <4>1
      <4> QED
        BY <2>1, <2>3, <4>2
    <3> QED
      BY <3>3, <3>4
  <2> HIDE DEF e, name, flags
  <2>8. ASSUME NEW k \in DOMAIN flags, IsFlagToken(flags[k].flag)
        PROVE  /\ CatalogValidateArgs(e, <<name>> \o <<flags[k].flag>>)
               /\ flags[k].hasArg => /\ CatalogValidateArgs(e, <<name>> \o <<flags[k].flag \o <<"v">>>>)
                                     /\ CatalogValidateArgs(e, <<name>> \o <<flags[k].flag, <<"v">>>>)
    <3>1. k \in 1..Len(e.options) /\ IsFlagToken(e.options[k].flag)
      BY <2>5, <2>8 DEF flags
    <3>2. e \in EntryType
      BY <2>4 DEF e
    <3> QED
      BY <2>5, <3>1, <3>2, FlagPasses DEF flags
  <2>9. ASSUME \A k \in DOMAIN flags : ~IsPrefix(Fold(flags[k].flag), <<FlagSign, "q">>)
        PROVE  ~CatalogValidateArgs(e, <<name>> \o << <<FlagSign, "q">> >>)
    <3>1. e \in EntryType
      BY <2>4 DEF e
    <3> QED
      BY <2>5, <2>9, <3>1, FlagRefused DEF flags
  <2> QED
    BY Zenon, <2>6, <2>7, <2>8, <2>9
<1> QED
  BY Zenon, <1>3 DEF ListedIsAllowed, loaded, items

-----------------------------------------------------------------------------
(* The gate, whatever the catalog and the request *)

\* A sequence over a set is one over every larger set.
LEMMA SeqWiden ==
    ASSUME NEW A, NEW B, A \subseteq B
    PROVE  Seq(A) \subseteq Seq(B)
<1>1. ASSUME NEW s \in Seq(A) PROVE s \in Seq(B)
  <2>1. Len(s) \in Nat /\ s \in [1..Len(s) -> A]
    OBVIOUS
  <2>2. s \in [1..Len(s) -> B]
    BY <2>1
  <2> QED
    BY <2>1, <2>2
<1> QED
  BY <1>1

\* The catalogs and the arguments of the runs are those of the proofs.
LEMMA CatalogWiden ==
    /\ CatalogText \subseteq Seq(Chars)
    /\ Seq(CatalogText) \subseteq Seq(Seq(Chars))
    /\ Seq(CatalogEntry) \subseteq Seq(EntryType)
<1>1. CatalogText \subseteq Seq(Chars)
  <2>1. STRING \subseteq Chars
    BY DEF Chars
  <2> QED
    BY <2>1, SeqWiden DEF CatalogText
<1>2. CatalogOption \subseteq OptionType
  BY <1>1 DEF CatalogOption, OptionType
<1>3. Seq(CatalogOption) \subseteq Seq(OptionType)
  BY <1>2, SeqWiden
<1>4. CatalogEntry \subseteq EntryType
  BY <1>1, <1>3 DEF CatalogEntry, EntryType
<1> QED
  BY <1>1, <1>4, SeqWiden

\* A request's line is a text of what its arguments are.
LEMMA LineOfIs ==
    ASSUME NEW tokens \in Seq(Seq(Chars))
    PROVE  LineOf(tokens) \in Seq(Chars)
<1> DEFINE K == Seq(Chars)
           n == Len(tokens)
           Bit(i) == (IF i > 1 THEN <<Blank>> ELSE <<>>) \o tokens[i]
           seqs == [i \in 1..n |-> Bit(i)]
<1>1. Blank \in Chars
  BY DEF Chars, ArgvChars
<1>2. n \in Nat /\ DOMAIN tokens = 1..n /\ \A i \in 1..n : tokens[i] \in K
  OBVIOUS
<1>3. \A i \in 1..n : Bit(i) \in K
  BY <1>1, <1>2
<1>4. LineOf(tokens) = FlattenSeq(seqs)
  BY Zenon, <1>2 DEF LineOf
<1>5. seqs \in [1..n -> Seq(Chars)]
  <2> HIDE DEF n, Bit
  <2> QED
    BY <1>3 DEF K
<1> HIDE DEF n, seqs
<1> QED
  BY <1>2, <1>4, <1>5, FlattenIs

\* The gate lets pass what the listing of its catalog offers and refuses a flag
\* that is not on it, for every catalog and any room for the list; and behind an
\* enforced catalog runs what was looked at and nothing else, for every request of
\* any length.
THEOREM GateHolds == InputSpec => []GateSound
<1>1. InputType => GateSound
  <2> SUFFICES ASSUME InputType PROVE GateSound
    OBVIOUS
  <2>1. ASSUME subject = "catalog", NEW room \in Room \cup {1000}
        PROVE  ListedIsAllowed(input, room)
    <3>1. \A i \in 1..Len(input) : input[i] \in CatalogEntry
      BY <2>1, PiecesOf DEF Pieces
    <3>2. input \in Seq(CatalogEntry)
      BY <3>1 DEF InputType
    <3> QED
      BY <3>2, CatalogWiden, ListedHolds
  <2>2. ASSUME subject = "exec", NEW side \in Sessions(Catalogs),
               NEW req \in Requests({input, <<>>}, {LineOf(input)}, {"decoded"})
        PROVE  RunsWhatPassed(side, req) /\ GateOnlyRefuses(side, req)
    <3>1. \A i \in 1..Len(input) : input[i] \in CatalogText
      BY <2>2, PiecesOf DEF Pieces
    <3>2. input \in Seq(CatalogText)
      BY <3>1 DEF InputType
    <3>3. input \in Seq(Seq(Chars))
      BY <3>2, CatalogWiden
    <3>4. LineOf(input) \in Seq(Chars) /\ <<>> \in Seq(Seq(Chars))
      BY <3>3, LineOfIs
    <3>5. req.argv \in {input, <<>>} /\ req.line = LineOf(input)
      BY <2>2 DEF Requests
    <3>6. req.argv \in Seq(Seq(Chars)) /\ req.line \in Seq(Chars)
      BY <3>3, <3>4, <3>5
    <3>7. side.catalog \in Seq(EntryType)
      <4>1. side.catalog \in Catalogs \cup {NoCatalog}
        BY <2>2 DEF Sessions
      <4>2. NoCatalog \in Seq(EntryType)
        BY DEF NoCatalog
      <4> QED
        BY <4>1, <4>2, CatalogWiden, CodecsAssumption
    <3> QED
      BY <2>2, <3>6, <3>7, PassedRuns, GateRefuses
  <2>3. subject = "catalog" => \A room \in Room \cup {1000} : ListedIsAllowed(input, room)
    BY <2>1
  <2>4. subject = "exec" =>
          \A side \in Sessions(Catalogs), req \in Requests({input, <<>>}, {LineOf(input)}, {"decoded"}) :
            RunsWhatPassed(side, req) /\ GateOnlyRefuses(side, req)
    BY <2>2
  <2> QED
    BY Zenon, <2>3, <2>4 DEF GateSound
<1> QED
  BY <1>1, InputTyped, PTL
===============================================================================
