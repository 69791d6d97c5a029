---------------------------- MODULE RuntimeProofs ----------------------------
(***************************************************************************)
(* Theorems about the code cache, for any number of addresses and buffers  *)
(* and any client, and about the dispatcher, for every instruction set,    *)
(* memory, cache size and embedding program: what it runs is mapped and    *)
(* complete, and, while nobody writes over translated code, it is the      *)
(* guest machine.                                                          *)
(***************************************************************************)
EXTENDS RuntimeHistory, SequenceFacts, FiniteSetTheorems

-----------------------------------------------------------------------------
(* The code cache.                                                         *)

(* An empty cache.                                                         *)
LEMMA CacheInitInv == CacheInit => CacheInv
BY DEF CacheInit, CacheInv, CacheTypeOK, OwnedOnce, EvictableBlocks

(* touch() changes only the order of lru.                                  *)
LEMMA TouchInv ==
  ASSUME CacheInv, NEW p \in Pc, Touch(p)
  PROVE  CacheInv'
<1>1. CASE Positions(p) = {}
  BY <1>1 DEF Touch, CacheInv, CacheTypeOK, OwnedOnce, EvictableBlocks
<1>2. CASE Positions(p) # {}
  <2>1. lru \in Seq(Pc) /\ Len(lru) \in Nat
    BY LenProperties DEF CacheInv, CacheTypeOK
  <2>2. PICK n \in Positions(p) : lru' = Append(RemoveAt(lru, n), p)
    BY <1>2 DEF Touch, MovedToBack
  <2>3. n \in 1..Len(lru) /\ lru[n] = p
    BY DEF Positions
  <2>4. lru' = Append(RemoveAt(lru, n), p)
    BY <2>2
  <2>5. /\ RemoveAt(lru, n) \in Seq(Pc)
        /\ Len(RemoveAt(lru, n)) = Len(lru) - 1
        /\ \A j \in 1..(Len(lru) - 1) :
             RemoveAt(lru, n)[j] = IF j < n THEN lru[j] ELSE lru[j + 1]
    BY <2>1, <2>3, RemoveAtFacts
  <2>6. /\ lru' \in Seq(Pc)
        /\ Len(lru') = Len(lru)
        /\ \A j \in 1..(Len(lru) - 1) :
             lru'[j] = IF j < n THEN lru[j] ELSE lru[j + 1]
        /\ lru'[Len(lru)] = p
    BY <2>1, <2>4, <2>5, AppendProperties
  <2>7. \A m \in 1..Len(lru) : \E j \in 1..Len(lru') : lru'[j] = lru[m]
    <3> SUFFICES ASSUME NEW m \in 1..Len(lru)
                 PROVE  \E j \in 1..Len(lru') : lru'[j] = lru[m]
      OBVIOUS
    <3>1. CASE m < n
      BY <2>1, <2>3, <2>6, <3>1
    <3>2. CASE m = n
      BY <2>1, <2>3, <2>6, <3>2
    <3>3. CASE m > n
      <4>1. m - 1 \in 1..(Len(lru) - 1) /\ ~(m - 1 < n) /\ (m - 1) + 1 = m
        BY <2>1, <2>3, <3>3
      <4> QED
        BY <2>1, <2>6, <4>1
    <3> QED
      BY <2>1, <2>3, <3>1, <3>2, <3>3
  <2>8. UNCHANGED <<blocks, used_bytes, incoming, mapped>>
    BY DEF Touch
  <2>9. CacheTypeOK'
    BY <2>6, <2>8 DEF CacheInv, CacheTypeOK
  <2>10. OwnedOnce'
    BY <2>8 DEF CacheInv, OwnedOnce
  <2>11. EvictableBlocks'
    BY <2>7, <2>8 DEF CacheInv, EvictableBlocks
  <2> QED
    BY <2>9, <2>10, <2>11 DEF CacheInv
<1> QED
  BY <1>1, <1>2

(* A new buffer joins the mapped ones with one owner, the insertion.       *)
LEMMA BeginInsertInv ==
  ASSUME CacheInv, NEW p \in Pc, NEW b \in Buffer, NEW len \in CodeLens,
         BeginInsert(p, b, len)
  PROVE  CacheInv'
<1>1. /\ incoming = NoBlock /\ b \notin mapped
      /\ incoming' = [pc |-> p, buf |-> b, code_len |-> len]
      /\ mapped' = mapped \cup {b}
      /\ UNCHANGED <<blocks, lru, used_bytes>>
  BY DEF BeginInsert
<1>2. incoming' \in Insertion /\ incoming' # NoBlock /\ incoming'.buf = b
  BY <1>1, NoBlockAssumption DEF Insertion
<1>3. CacheTypeOK'
  BY <1>1, <1>2 DEF CacheInv, CacheTypeOK
<1>4. OwnedOnce'
  BY <1>1, <1>2 DEF CacheInv, OwnedOnce
<1>5. EvictableBlocks'
  BY <1>1 DEF CacheInv, EvictableBlocks
<1> QED
  BY <1>3, <1>4, <1>5 DEF CacheInv

(* Eviction frees the buffer of the block it removes and no other.         *)
LEMMA EvictInv == CacheInv /\ Evict => CacheInv'
<1> SUFFICES ASSUME CacheInv, Evict PROVE CacheInv'
  OBVIOUS
<1> DEFINE old == Head(lru)
<1>1. /\ lru \in Seq(Pc) /\ lru # <<>> /\ incoming' = incoming
      /\ incoming # NoBlock /\ lru' = Tail(lru)
  BY DEF Evict, MustEvict, CacheInv, CacheTypeOK
<1>2. /\ Len(lru) \in Nat \ {0}
      /\ lru' \in Seq(Pc) /\ Len(lru') = Len(lru) - 1
      /\ \A j \in 1..Len(lru') : lru'[j] = lru[j + 1]
      /\ old = lru[1]
  BY <1>1, EmptySeq, HeadTailProperties
<1>3. \A m \in 1..Len(lru) :
        lru[m] # old => \E j \in 1..Len(lru') : lru'[j] = lru[m]
  <2> SUFFICES ASSUME NEW m \in 1..Len(lru), lru[m] # old
               PROVE  \E j \in 1..Len(lru') : lru'[j] = lru[m]
    OBVIOUS
  <2>1. m - 1 \in 1..Len(lru') /\ (m - 1) + 1 = m
    BY <1>2
  <2> QED
    BY <1>2, <2>1
<1> HIDE DEF old
<1>4. CASE old \in DOMAIN blocks
  <2>1. /\ DOMAIN blocks' = DOMAIN blocks \ {old}
        /\ blocks' = [p \in DOMAIN blocks' |-> blocks'[p]]
        /\ \A p \in DOMAIN blocks' : blocks'[p] = blocks[p]
        /\ mapped' = mapped \ {blocks[old].buf}
        /\ used_bytes' = SaturatingSub(used_bytes, blocks[old].code_len)
    BY <1>4 DEF Evict, Without, old
  <2>2. blocks[old].code_len \in Nat /\ used_bytes \in Nat
    BY <1>4, SizesAssumption DEF CacheInv, CacheTypeOK, CompiledBlock
  <2>3. used_bytes' \in Nat
    BY <2>1, <2>2 DEF SaturatingSub
  <2>4. CacheTypeOK'
    BY <1>1, <1>2, <2>1, <2>3 DEF CacheInv, CacheTypeOK
  <2>5. OwnedOnce'
    BY <1>1, <1>4, <2>1 DEF CacheInv, OwnedOnce
  <2>6. EvictableBlocks'
    BY <1>3, <2>1 DEF CacheInv, EvictableBlocks
  <2> QED
    BY <2>4, <2>5, <2>6 DEF CacheInv
<1>5. CASE old \notin DOMAIN blocks
  <2>1. UNCHANGED <<blocks, used_bytes, mapped>>
    BY <1>5 DEF Evict, old
  <2>2. CacheTypeOK' /\ OwnedOnce'
    BY <1>1, <1>2, <2>1 DEF CacheInv, CacheTypeOK, OwnedOnce
  <2>3. EvictableBlocks'
    BY <1>3, <1>5, <2>1 DEF CacheInv, EvictableBlocks
  <2> QED
    BY <2>2, <2>3 DEF CacheInv
<1> QED
  BY <1>4, <1>5

(* The inserted buffer passes to the map; the one it replaces is freed.    *)
LEMMA CommitInv == CacheInv /\ Commit => CacheInv'
<1> SUFFICES ASSUME CacheInv, Commit PROVE CacheInv'
  OBVIOUS
<1> DEFINE q == incoming.pc
<1>1. /\ incoming \in Insertion /\ incoming' = NoBlock
      /\ q \in Pc /\ incoming.buf \in Buffer /\ incoming.code_len \in CodeLens
      /\ incoming # NoBlock
  BY DEF Commit, CacheInv, CacheTypeOK, Insertion
<1>2. lru \in Seq(Pc) /\ Len(lru) \in Nat /\ lru' = Append(lru, q)
  BY LenProperties DEF Commit, CacheInv, CacheTypeOK
<1>3. /\ lru' \in Seq(Pc) /\ Len(lru') = Len(lru) + 1
      /\ \A j \in 1..Len(lru) : lru'[j] = lru[j]
      /\ lru'[Len(lru) + 1] = q
  BY <1>1, <1>2, AppendProperties
<1>4. /\ DOMAIN blocks' = DOMAIN blocks \cup {q}
      /\ blocks' = [p \in DOMAIN blocks' |-> blocks'[p]]
      /\ blocks'[q] = [buf |-> incoming.buf, code_len |-> incoming.code_len]
      /\ \A p \in DOMAIN blocks : p # q => blocks'[p] = blocks[p]
  BY DEF Commit
<1>5. mapped' = IF q \in DOMAIN blocks THEN mapped \ {blocks[q].buf} ELSE mapped
  BY DEF Commit, Cached
<1> HIDE DEF q
<1>6. CacheTypeOK'
  <2>1. used_bytes' \in Nat
    BY <1>1, SizesAssumption DEF Commit, CacheInv, CacheTypeOK
  <2>2. \A p \in DOMAIN blocks' : p \in Pc /\ blocks'[p] \in CompiledBlock
    BY <1>1, <1>4 DEF CacheInv, CacheTypeOK, CompiledBlock
  <2>3. mapped' \subseteq Buffer
    BY <1>5 DEF CacheInv, CacheTypeOK
  <2> QED
    BY <1>1, <1>3, <1>4, <2>1, <2>2, <2>3 DEF CacheTypeOK
<1>7. OwnedOnce'
  <2>1. /\ mapped = {blocks[p].buf : p \in DOMAIN blocks} \cup {incoming.buf}
        /\ \A p, r \in DOMAIN blocks : blocks[p].buf = blocks[r].buf => p = r
        /\ \A p \in DOMAIN blocks : blocks[p].buf # incoming.buf
    BY <1>1 DEF CacheInv, OwnedOnce
  <2>2. blocks'[q].buf = incoming.buf
    BY <1>4
  <2>3. \A p, r \in DOMAIN blocks' : blocks'[p].buf = blocks'[r].buf => p = r
    BY <1>4, <2>1, <2>2
  <2>4. mapped' = {blocks'[p].buf : p \in DOMAIN blocks'}
    BY <1>4, <1>5, <2>1, <2>2
  <2> QED
    BY <1>1, <2>3, <2>4 DEF OwnedOnce
<1>8. EvictableBlocks'
  <2> SUFFICES ASSUME NEW p \in DOMAIN blocks'
               PROVE  \E n \in 1..Len(lru') : lru'[n] = p
    BY DEF EvictableBlocks
  <2>1. CASE p = q
    BY <1>2, <1>3, <2>1
  <2>2. CASE p # q
    <3>1. PICK n \in 1..Len(lru) : lru[n] = p
      BY <1>4, <2>2 DEF CacheInv, EvictableBlocks
    <3> QED
      BY <1>2, <1>3, <3>1
  <2> QED
    BY <2>1, <2>2
<1> QED
  BY <1>6, <1>7, <1>8 DEF CacheInv

(* Every step of any client.                                               *)
LEMMA CacheNextInv == CacheInv /\ [CacheNext]_cacheVars => CacheInv'
<1> SUFFICES ASSUME CacheInv, [CacheNext]_cacheVars PROVE CacheInv'
  OBVIOUS
<1>1. CASE \E p \in Pc : Touch(p)
  BY <1>1, TouchInv
<1>2. CASE \E p \in Pc, b \in Buffer, len \in CodeLens : BeginInsert(p, b, len)
  BY <1>2, BeginInsertInv
<1>3. CASE Evict
  BY <1>3, EvictInv
<1>4. CASE Commit
  BY <1>4, CommitInv
<1>5. CASE UNCHANGED cacheVars
  BY <1>5 DEF cacheVars, CacheInv, CacheTypeOK, OwnedOnce, EvictableBlocks
<1> QED
  BY <1>1, <1>2, <1>3, <1>4, <1>5 DEF CacheNext

(* The types, ownership and reachability hold whatever the client calls.   *)
LEMMA CacheInvHolds == CacheSpec => []CacheInv
BY CacheInitInv, CacheNextInv, PTL DEF CacheSpec

(* Every variable of the cache has its type.                               *)
THEOREM CacheTypeCorrect == CacheSpec => []CacheTypeOK
<1>1. CacheInv => CacheTypeOK
  BY DEF CacheInv
<1> QED
  BY <1>1, CacheInvHolds, PTL

(* jit_free_code is called exactly once for every block that leaves the    *)
(* cache: no mapped buffer is without an owner, and no owner is without    *)
(* its buffer.                                                             *)
THEOREM BuffersOwnedOnce == CacheSpec => []OwnedOnce
<1>1. CacheInv => OwnedOnce
  BY DEF CacheInv
<1> QED
  BY <1>1, CacheInvHolds, PTL

(* No cached block is out of reach of eviction.                            *)
THEOREM BlocksStayEvictable == CacheSpec => []EvictableBlocks
<1>1. CacheInv => EvictableBlocks
  BY DEF CacheInv
<1> QED
  BY <1>1, CacheInvHolds, PTL

-----------------------------------------------------------------------------
(* The accounts: how used_bytes relates to the bytes that are cached.      *)

(* The bytes of one block.                                                 *)
LEMMA BlockBytes ==
  ASSUME NEW p, NEW len \in Nat
  PROVE  /\ IsFiniteSet({p} \X (1..len))
         /\ Cardinality({p} \X (1..len)) = len
<1>1. IsFiniteSet({p}) /\ Cardinality({p}) = 1
  BY FS_Singleton
<1>2. 1 \in Int /\ len \in Int
  OBVIOUS
<1>3. /\ IsFiniteSet(1..len)
      /\ Cardinality(1..len) = IF 1 > len THEN 0 ELSE len - 1 + 1
  BY <1>2, FS_Interval, Zenon
<1>4. Cardinality(1..len) = len
  BY <1>3
<1>5. /\ IsFiniteSet({p} \X (1..len))
      /\ Cardinality({p} \X (1..len)) = Cardinality({p}) * Cardinality(1..len)
  BY <1>1, <1>3, FS_Product, Zenon
<1> QED
  BY <1>1, <1>4, <1>5

(* Functions with code lengths over a finite set of addresses.             *)
Sized(f) == IsFiniteSet(DOMAIN f) /\ \A p \in DOMAIN f : f[p].code_len \in Nat

LEMMA CodeBytesFinite ==
  ASSUME NEW f, Sized(f)
  PROVE  IsFiniteSet(CodeBytes(f)) /\ Cardinality(CodeBytes(f)) \in Nat
<1> DEFINE part(p) == {p} \X (1..f[p].code_len)
           parts == {part(p) : p \in DOMAIN f}
           g == [p \in DOMAIN f |-> part(p)]
<1>1. IsFiniteSet(parts)
  <2>1. g \in Surjection(DOMAIN f, parts)
    BY DEF Surjection
  <2> QED
    BY <2>1, FS_Surjection, Zenon DEF Sized
<1>2. \A s \in parts : IsFiniteSet(s)
  <2> SUFFICES ASSUME NEW p \in DOMAIN f PROVE IsFiniteSet(part(p))
    OBVIOUS
  <2>1. f[p].code_len \in Nat
    BY DEF Sized
  <2> QED
    BY <2>1, BlockBytes, Zenon
<1>3. IsFiniteSet(UNION parts)
  BY <1>1, <1>2, FS_UNION
<1>4. IsFiniteSet(CodeBytes(f))
  BY <1>3 DEF CodeBytes
<1> QED
  BY <1>4, FS_CardinalityType

(* A further block adds its code length.                                   *)
LEMMA CodeBytesAdd ==
  ASSUME NEW f, NEW g, NEW q, Sized(f), q \notin DOMAIN f,
         DOMAIN g = DOMAIN f \cup {q},
         \A p \in DOMAIN f : g[p].code_len = f[p].code_len,
         g[q].code_len \in Nat
  PROVE  /\ Sized(g)
         /\ Cardinality(CodeBytes(g)) = Cardinality(CodeBytes(f)) + g[q].code_len
<1> DEFINE part == {q} \X (1..g[q].code_len)
<1>1. CodeBytes(g) = CodeBytes(f) \cup part
  BY DEF CodeBytes
<1>2. CodeBytes(f) \cap part = {}
  BY DEF CodeBytes
<1>3. IsFiniteSet(part) /\ Cardinality(part) = g[q].code_len
  BY BlockBytes
<1>4. IsFiniteSet(CodeBytes(f)) /\ Cardinality(CodeBytes(f)) \in Nat
  BY CodeBytesFinite
<1> HIDE DEF part
<1>5. Cardinality(CodeBytes(f) \cup part)
        = Cardinality(CodeBytes(f)) + Cardinality(part)
            - Cardinality(CodeBytes(f) \cap part)
  BY <1>3, <1>4, FS_Union, Zenon
<1>6. Cardinality(CodeBytes(f) \cap part) = 0
  BY <1>2, FS_EmptySet, Zenon
<1>7. Cardinality(CodeBytes(g)) = Cardinality(CodeBytes(f)) + g[q].code_len
  BY <1>1, <1>3, <1>4, <1>5, <1>6
<1>8. Sized(g)
  BY FS_AddElement DEF Sized
<1> QED
  BY <1>7, <1>8

(* A removed block takes its code length away.                             *)
LEMMA CodeBytesRemove ==
  ASSUME NEW f, NEW g, NEW q, Sized(f), q \in DOMAIN f,
         DOMAIN g = DOMAIN f \ {q},
         \A p \in DOMAIN g : g[p].code_len = f[p].code_len
  PROVE  /\ Sized(g)
         /\ Cardinality(CodeBytes(f)) = Cardinality(CodeBytes(g)) + f[q].code_len
<1>1. IsFiniteSet(DOMAIN g)
  BY FS_RemoveElement DEF Sized
<1>2. Sized(g)
  BY <1>1 DEF Sized
<1>3. q \notin DOMAIN g /\ DOMAIN f = DOMAIN g \cup {q}
  OBVIOUS
<1>4. f[q].code_len \in Nat /\ \A p \in DOMAIN g : f[p].code_len = g[p].code_len
  BY DEF Sized
<1>5. Cardinality(CodeBytes(f)) = Cardinality(CodeBytes(g)) + f[q].code_len
  <2>1. q \notin DOMAIN g
    BY <1>3
  <2>2. DOMAIN f = DOMAIN g \cup {q}
    BY <1>3
  <2>3. f[q].code_len \in Nat
    BY <1>4
  <2>4. \A p \in DOMAIN g : f[p].code_len = g[p].code_len
    BY <1>4
  <2> HIDE DEF Sized
  <2> QED
    BY ONLY <1>2, <2>1, <2>2, <2>3, <2>4, CodeBytesAdd
<1> QED
  BY <1>2, <1>5

(* used_bytes covers what is cached at every moment of insert(), and what  *)
(* is left when it returns fits.                                           *)
AccountsInv ==
  /\ CacheInv
  /\ IsFiniteSet(DOMAIN blocks)
  /\ NeverUnderCounted
  /\ WithinCapacity

(* Cached lengths are numbers, and so is their sum.                        *)
LEMMA CachedSizes ==
  ASSUME CacheInv, IsFiniteSet(DOMAIN blocks)
  PROVE  Sized(blocks) /\ TotalBytes \in Nat
<1>1. Sized(blocks)
  BY SizesAssumption DEF Sized, CacheInv, CacheTypeOK, CompiledBlock
<1> QED
  BY <1>1, CodeBytesFinite DEF TotalBytes

(* What does not touch the cached blocks keeps the accounts.               *)
LEMMA AccountsFrame ==
  ASSUME AccountsInv, CacheInv', UNCHANGED <<blocks, used_bytes>>,
         incoming' = NoBlock => incoming = NoBlock
  PROVE  AccountsInv'
BY DEF AccountsInv, NeverUnderCounted, WithinCapacity, TotalBytes

(* The bytes of the evicted block are gone.                                *)
LEMMA EvictedBytes ==
  ASSUME AccountsInv, Evict, Head(lru) \in DOMAIN blocks
  PROVE  /\ IsFiniteSet(DOMAIN blocks')
         /\ TotalBytes' \in Nat /\ blocks[Head(lru)].code_len \in Nat
         /\ TotalBytes = TotalBytes' + blocks[Head(lru)].code_len
         /\ used_bytes' = SaturatingSub(used_bytes, blocks[Head(lru)].code_len)
<1> DEFINE old == Head(lru)
<1>1. /\ DOMAIN blocks' = DOMAIN blocks \ {old}
      /\ \A p \in DOMAIN blocks' : blocks'[p] = blocks[p]
      /\ used_bytes' = SaturatingSub(used_bytes, blocks[old].code_len)
  BY DEF Evict, Without
<1>2. Sized(blocks) /\ old \in DOMAIN blocks
  BY CachedSizes DEF AccountsInv
<1>3. \A p \in DOMAIN blocks' : blocks'[p].code_len = blocks[p].code_len
  BY <1>1
<1> HIDE DEF old
<1>4. /\ Sized(blocks')
      /\ Cardinality(CodeBytes(blocks))
           = Cardinality(CodeBytes(blocks')) + blocks[old].code_len
  BY ONLY <1>1, <1>2, <1>3, CodeBytesRemove
<1>5. IsFiniteSet(DOMAIN blocks')
  BY <1>4 DEF Sized
<1>6. TotalBytes' \in Nat /\ blocks[old].code_len \in Nat
  BY <1>2, <1>4, CodeBytesFinite DEF Sized, TotalBytes
<1>7. TotalBytes = TotalBytes' + blocks[old].code_len
  BY <1>4 DEF TotalBytes
<1> QED
  BY <1>1, <1>5, <1>6, <1>7 DEF old

(* The bytes of the inserted block are there; those of a block it replaces *)
(* are not.                                                                *)
LEMMA CommittedBytes ==
  ASSUME AccountsInv, Commit
  PROVE  /\ IsFiniteSet(DOMAIN blocks')
         /\ TotalBytes' \in Nat /\ incoming.code_len \in Nat
         /\ TotalBytes' <= TotalBytes + incoming.code_len
         /\ ~Cached(incoming.pc) => TotalBytes' = TotalBytes + incoming.code_len
         /\ used_bytes' = used_bytes + incoming.code_len
<1> DEFINE q == incoming.pc
           rest == Without(blocks, q)
<1>1. incoming.code_len \in Nat
  BY SizesAssumption DEF Commit, AccountsInv, CacheInv, CacheTypeOK, Insertion
<1>2. /\ DOMAIN blocks' = DOMAIN blocks \cup {q}
      /\ blocks'[q].code_len = incoming.code_len
      /\ \A p \in DOMAIN blocks : p # q => blocks'[p] = blocks[p]
      /\ used_bytes' = used_bytes + incoming.code_len
  BY DEF Commit
<1>3. /\ DOMAIN rest = DOMAIN blocks \ {q}
      /\ \A p \in DOMAIN rest : rest[p] = blocks[p]
  BY DEF Without
<1>4. Sized(blocks) /\ TotalBytes \in Nat
  BY CachedSizes DEF AccountsInv
<1> HIDE DEF q, rest
<1>5. /\ Sized(rest) /\ Cardinality(CodeBytes(rest)) \in Nat
      /\ Cardinality(CodeBytes(rest)) <= TotalBytes
      /\ q \notin DOMAIN blocks => Cardinality(CodeBytes(rest)) = TotalBytes
  <2>1. CASE q \in DOMAIN blocks
    <3>1. \A p \in DOMAIN rest : rest[p].code_len = blocks[p].code_len
      BY <1>3
    <3>2. /\ Sized(rest)
          /\ Cardinality(CodeBytes(blocks))
               = Cardinality(CodeBytes(rest)) + blocks[q].code_len
      BY ONLY <2>1, <3>1, <1>3, <1>4, CodeBytesRemove
    <3>3. blocks[q].code_len \in Nat /\ Cardinality(CodeBytes(rest)) \in Nat
      BY <1>4, <2>1, <3>2, CodeBytesFinite DEF Sized
    <3> QED
      BY <2>1, <3>2, <3>3 DEF TotalBytes
  <2>2. CASE q \notin DOMAIN blocks
    <3>1. CodeBytes(rest) = CodeBytes(blocks) /\ Sized(rest)
      BY <1>3, <1>4, <2>2 DEF CodeBytes, Sized
    <3> QED
      BY <1>4, <3>1 DEF TotalBytes
  <2> QED
    BY <2>1, <2>2
<1>6. /\ Sized(blocks')
      /\ Cardinality(CodeBytes(blocks'))
           = Cardinality(CodeBytes(rest)) + blocks'[q].code_len
  <2>1. q \notin DOMAIN rest /\ DOMAIN blocks' = DOMAIN rest \cup {q}
    BY <1>2, <1>3
  <2>2. \A p \in DOMAIN rest : blocks'[p].code_len = rest[p].code_len
    BY <1>2, <1>3
  <2>3. blocks'[q].code_len \in Nat
    BY <1>1, <1>2
  <2> QED
    BY ONLY <1>5, <2>1, <2>2, <2>3, CodeBytesAdd
<1>7. IsFiniteSet(DOMAIN blocks')
  BY <1>6 DEF Sized
<1>8. TotalBytes' = Cardinality(CodeBytes(rest)) + incoming.code_len
  BY <1>2, <1>6 DEF TotalBytes
<1>9. ~Cached(incoming.pc) => q \notin DOMAIN blocks
  BY DEF Cached, q
<1> QED
  BY <1>1, <1>2, <1>4, <1>5, <1>7, <1>8, <1>9

(* Eviction subtracts the length of the block that goes.                   *)
LEMMA EvictAccounts ==
  ASSUME AccountsInv, CacheInv', Evict
  PROVE  AccountsInv'
<1>1. incoming # NoBlock /\ incoming' = incoming
  BY DEF Evict, MustEvict
<1>2. CASE Head(lru) \notin DOMAIN blocks
  <2>1. UNCHANGED <<blocks, used_bytes>>
    BY <1>2 DEF Evict
  <2> QED
    BY <1>1, <2>1, AccountsFrame
<1>3. CASE Head(lru) \in DOMAIN blocks
  <2>1. used_bytes \in Nat /\ used_bytes >= TotalBytes
    BY DEF AccountsInv, CacheInv, CacheTypeOK, NeverUnderCounted
  <2>2. NeverUnderCounted'
    BY <1>3, <2>1, EvictedBytes DEF NeverUnderCounted, SaturatingSub
  <2>3. IsFiniteSet(DOMAIN blocks')
    BY <1>3, EvictedBytes
  <2> QED
    BY <1>1, <2>2, <2>3 DEF AccountsInv, WithinCapacity
<1> QED
  BY <1>2, <1>3

(* The new block is counted in full; one it replaces stays counted.        *)
LEMMA CommitAccounts ==
  ASSUME AccountsInv, CacheInv', Commit
  PROVE  AccountsInv'
<1>1. /\ used_bytes \in Nat /\ used_bytes >= TotalBytes /\ TotalBytes \in Nat
      /\ incoming # NoBlock
  BY CachedSizes DEF Commit, AccountsInv, CacheInv, CacheTypeOK, NeverUnderCounted
<1>2. /\ IsFiniteSet(DOMAIN blocks')
      /\ TotalBytes' \in Nat /\ incoming.code_len \in Nat
      /\ TotalBytes' <= TotalBytes + incoming.code_len
      /\ used_bytes' = used_bytes + incoming.code_len
  BY CommittedBytes
<1>3. NeverUnderCounted'
  BY <1>1, <1>2 DEF NeverUnderCounted
<1>4. WithinCapacity'
  <2>1. CASE lru = <<>>
    <3>a. EvictableBlocks
      BY DEF AccountsInv, CacheInv
    <3>b. \A n \in 1..Len(<<>>) : FALSE
      BY EmptySeq
    <3>1. DOMAIN blocks = {}
      BY ONLY <2>1, <3>a, <3>b DEF EvictableBlocks
    <3>2. DOMAIN blocks' = {incoming.pc}
      BY <3>1 DEF Commit
    <3>3. Cardinality(DOMAIN blocks') = 1
      BY <3>2, FS_Singleton
    <3> QED
      BY <3>3 DEF WithinCapacity
  <2>2. CASE lru # <<>>
    <3>1. ~(used_bytes + incoming.code_len > MaxBytes)
      BY <1>1, <2>2 DEF Commit, MustEvict
    <3>2. TotalBytes' <= MaxBytes
      BY <1>1, <1>2, <3>1, SizesAssumption
    <3> QED
      BY <3>2 DEF WithinCapacity
  <2> QED
    BY <2>1, <2>2
<1> QED
  BY <1>2, <1>3, <1>4 DEF AccountsInv

(* The accounts after any step of any client.                              *)
LEMMA AccountsStep == AccountsInv /\ [CacheNext]_cacheVars => AccountsInv'
<1> SUFFICES ASSUME AccountsInv, [CacheNext]_cacheVars PROVE AccountsInv'
  OBVIOUS
<1>1. CacheInv'
  BY CacheNextInv DEF AccountsInv
<1>2. ASSUME NEW p \in Pc, Touch(p) PROVE AccountsInv'
  BY <1>1, <1>2, AccountsFrame DEF Touch
<1>3. ASSUME NEW p \in Pc, NEW b \in Buffer, NEW len \in CodeLens,
             BeginInsert(p, b, len)
      PROVE  AccountsInv'
  BY <1>1, <1>3, AccountsFrame DEF BeginInsert
<1>4. CASE Evict
  BY <1>1, <1>4, EvictAccounts
<1>5. CASE Commit
  BY <1>1, <1>5, CommitAccounts
<1>6. CASE UNCHANGED cacheVars
  BY <1>1, <1>6, AccountsFrame DEF cacheVars
<1> QED
  BY <1>2, <1>3, <1>4, <1>5, <1>6 DEF CacheNext

(* Nothing is cached and nothing is counted.                               *)
LEMMA AccountsInit == CacheInit => AccountsInv
<1> SUFFICES ASSUME CacheInit PROVE AccountsInv
  OBVIOUS
<1>1. DOMAIN blocks = {} /\ used_bytes = 0 /\ CodeBytes(blocks) = {}
  BY DEF CacheInit, CodeBytes
<1>2. IsFiniteSet(DOMAIN blocks) /\ Cardinality(DOMAIN blocks) = 0 /\ TotalBytes = 0
  BY <1>1, FS_EmptySet DEF TotalBytes
<1> QED
  BY <1>1, <1>2, CacheInitInv DEF AccountsInv, NeverUnderCounted, WithinCapacity

LEMMA AccountsHold == CacheSpec => []AccountsInv
BY AccountsInit, AccountsStep, PTL DEF CacheSpec

(* used_bytes never falls below the bytes that are cached, whatever is     *)
(* evicted, replaced or touched: insert() and its saturating_sub never     *)
(* underflow the account.                                                  *)
THEOREM AccountsNeverShort == CacheSpec => []NeverUnderCounted
<1>1. AccountsInv => NeverUnderCounted
  BY DEF AccountsInv
<1> QED
  BY <1>1, AccountsHold, PTL

(* Between insertions the cached bytes fit in max_bytes, or belong to one  *)
(* block, for every capacity and every sequence of calls.                  *)
THEOREM CacheFits == CacheSpec => []WithinCapacity
<1>1. AccountsInv => WithinCapacity
  BY DEF AccountsInv
<1> QED
  BY <1>1, AccountsHold, PTL

(* A block leaves the cache only from the front of lru while the limit is  *)
(* exceeded, or for a block inserted at the same address.                  *)
THEOREM EvictionOrder == CacheSpec => EvictsFromFront
<1>1. CacheInv /\ [CacheNext]_cacheVars =>
        [\A p \in DOMAIN blocks :
           \/ p \in DOMAIN blocks' /\ (blocks'[p] = blocks[p] \/ incoming.pc = p)
           \/ /\ lru[1] = p
              /\ used_bytes + incoming.code_len > MaxBytes]_cacheVars
  <2> SUFFICES ASSUME CacheInv, CacheNext, NEW p \in DOMAIN blocks
               PROVE  \/ p \in DOMAIN blocks' /\ (blocks'[p] = blocks[p] \/ incoming.pc = p)
                      \/ lru[1] = p /\ used_bytes + incoming.code_len > MaxBytes
    OBVIOUS
  <2>1. CASE (\E r \in Pc : Touch(r))
             \/ \E r \in Pc, b \in Buffer, len \in CodeLens : BeginInsert(r, b, len)
    BY <2>1 DEF Touch, BeginInsert
  <2>2. CASE Evict
    <3>1. lru \in Seq(Pc) /\ lru # <<>> /\ used_bytes + incoming.code_len > MaxBytes
      BY <2>2 DEF Evict, MustEvict, CacheInv, CacheTypeOK
    <3>2. Head(lru) = lru[1]
      BY <3>1, HeadTailProperties
    <3>3. p # Head(lru) => p \in DOMAIN blocks' /\ blocks'[p] = blocks[p]
      BY <2>2 DEF Evict, Without
    <3> QED
      BY <3>1, <3>2, <3>3
  <2>3. CASE Commit
    BY <2>3 DEF Commit
  <2> QED
    BY <2>1, <2>2, <2>3 DEF CacheNext
<1> QED
  BY <1>1, CacheInvHolds, PTL DEF CacheSpec, EvictsFromFront

-----------------------------------------------------------------------------
(* The dispatcher.                                                         *)

(* wrapping_add stays in range and may be done one instruction at a time.  *)
LEMMA PcPlusFacts ==
  ASSUME NEW p \in GuestPc, NEW n \in 0..(MaxInsns - 1)
  PROVE  /\ PcPlus(p, n) \in GuestPc
         /\ PcPlus(PcPlus(p, n), 1) = PcPlus(p, n + 1)
         /\ PcPlus(p, 0) = p
<1>1. p \in 0..(PcMod - 1) /\ PcMod \in Nat \ {0} /\ n \in 0..(PcMod - 1)
  BY MemoryAssumption, RuntimeAssumption DEF GuestPc
<1>2. /\ PcPlus(p, n) = IF p + n < PcMod THEN p + n ELSE p + n - PcMod
      /\ PcPlus(p, 0) = p
      /\ PcPlus(p, n + 1) = IF p + (n + 1) < PcMod THEN p + (n + 1)
                                                   ELSE p + (n + 1) - PcMod
  BY <1>1 DEF PcPlus
<1>3. PcPlus(PcPlus(p, n), 1) =
        IF PcPlus(p, n) + 1 < PcMod THEN PcPlus(p, n) + 1
                                    ELSE PcPlus(p, n) + 1 - PcMod
  BY DEF PcPlus
<1>4. PcPlus(p, n) \in 0..(PcMod - 1)
  BY <1>1, <1>2
<1> QED
  BY <1>1, <1>2, <1>3, <1>4 DEF GuestPc

(* A pc names a word of memory, which decodes.                             *)
LEMMA FetchType ==
  ASSUME NEW m \in [Cell -> Word], NEW p \in GuestPc
  PROVE  p % Size \in Cell /\ Fetch(m, p) \in Insn
<1>1. p \in Nat /\ Size \in Nat \ {0}
  BY MemoryAssumption DEF GuestPc
<1>2. p % Size \in Cell
  BY <1>1 DEF Cell
<1> QED
  BY <1>2, DecodeAssumption DEF Fetch

(* The effects of an instruction have their types.                         *)
LEMMA EffectTypes ==
  ASSUME NEW insn \in Insn, NEW m \in [Cell -> Word], NEW a \in Word,
         NEW p \in GuestPc
  PROVE  /\ MemAfter(insn, m, a) \in [Cell -> Word]
         /\ AccAfter(insn, m, a) \in Word
         /\ PcAfter(insn, p, a) \in GuestPc
<1>1. /\ insn.kind = "set" => insn.val \in Word
      /\ insn.kind \in {"load", "store"} => insn.cell \in Cell
      /\ insn.kind = "branch" => insn.target \in GuestPc
      /\ insn.kind \in {"set", "load", "store", "branch", "unknown"}
  BY DEF Insn
<1>2. PcPlus(p, 1) \in GuestPc
  BY MemoryAssumption DEF PcPlus, GuestPc
<1>3. MemAfter(insn, m, a) \in [Cell -> Word]
  BY <1>1 DEF MemAfter
<1>4. AccAfter(insn, m, a) \in Word
  <2>1. CASE insn.kind = "set"
    BY <1>1, <2>1 DEF AccAfter
  <2>2. CASE insn.kind = "load"
    BY <1>1, <2>2 DEF AccAfter
  <2>3. CASE insn.kind \notin {"set", "load"}
    BY <2>3 DEF AccAfter
  <2> QED
    BY <2>1, <2>2, <2>3
<1> QED
  BY <1>1, <1>2, <1>3, <1>4 DEF PcAfter

(* A complete block has a length emit_block may produce.                   *)
LEMMA BlockLength ==
  ASSUME NEW im \in Seq(Insn), IsBlock(im)
  PROVE  /\ Len(im) \in 1..MaxInsns
         /\ CodeLen(im) \in CodeLens
<1>1. Len(im) \in Nat
  BY LenProperties
<1> QED
  BY <1>1, RuntimeAssumption DEF IsBlock, StraightLine, Complete, CodeLen

-----------------------------------------------------------------------------
(* The steps of the dispatcher use the cache by its methods only.          *)
LEMMA CacheStep ==
  ASSUME RuntimeInv, Next
  PROVE  [CacheNext]_cacheVars
<1>1. CASE Emit
  <2>1. PICK b \in Buffer : BeginInsert(builder.pc, b, CodeLen(builder.insns))
    BY <1>1 DEF Emit
  <2>2. /\ builder.pc \in Pc
        /\ builder.insns \in Seq(Insn)
        /\ IsBlock(builder.insns)
    BY <1>1, RuntimeAssumption
    DEF Emit, RuntimeInv, RuntimeTypeOK, ControlInv, BlocksInv, IsBlock, Builder
  <2> QED
    BY <2>1, <2>2, BlockLength DEF CacheNext
<1>2. CASE TouchBlock
  <2>1. pc \in Pc
    BY RuntimeAssumption DEF RuntimeInv, RuntimeTypeOK
  <2> QED
    BY <1>2, <2>1 DEF TouchBlock, CacheNext
<1>3. CASE InsertEvict \/ InsertCommit
  BY <1>3 DEF InsertEvict, InsertCommit, CacheNext
<1>4. ASSUME Host \/ Leave \/ Dispatch \/ TranslateInsn \/ EmitFails
             \/ ExecuteInsn \/ Panicked
      PROVE  UNCHANGED cacheVars
  BY <1>4 DEF Host, WriteGuest, SetCpu, RunSteps, TranslateDirectly, Leave,
     Dispatch, TranslateInsn, EmitFails, ExecuteInsn, Panicked, vars
<1> QED
  BY <1>1, <1>2, <1>3, <1>4 DEF Next, System

(* So what is proved of the cache holds in the system.                     *)
LEMMA CacheInvStep ==
  ASSUME RuntimeInv, [Next]_vars
  PROVE  CacheInv'
<1>1. CacheInv
  BY DEF RuntimeInv, RuntimeTypeOK, CacheInv
<1>2. [CacheNext]_cacheVars
  BY CacheStep DEF vars, cacheVars
<1> QED
  BY <1>1, <1>2, CacheNextInv

-----------------------------------------------------------------------------
(* What RuntimeInv says beyond the cache, in one place: the rest of it     *)
(* follows from CacheInvStep.                                              *)
GuestTypes ==
  /\ mem \in [Cell -> Word]
  /\ pc \in GuestPc
  /\ acc \in Word
  /\ halted \in BOOLEAN

DispatchTypes ==
  /\ ctl \in {"host", "loop", "translate", "insert", "touch", "run", "panicked"}
  /\ steps \in Nat
  /\ builder \in Builder \cup {NoBlock}
  /\ code \in [Buffer -> Seq(Insn)]
  /\ k \in Nat

(* The invariant is its parts, before and after a step.                    *)
LEMMA Assemble ==
  /\ RuntimeInv <=>
       CacheInv /\ GuestTypes /\ DispatchTypes /\ ControlInv /\ BlocksInv
  /\ RuntimeInv' <=>
       CacheInv' /\ GuestTypes' /\ DispatchTypes' /\ ControlInv' /\ BlocksInv'
BY DEF RuntimeInv, RuntimeTypeOK, CacheInv, GuestTypes, DispatchTypes

(* A translation in progress is distinct from none.                        *)
LEMMA BuilderFacts ==
  ASSUME NEW p \in GuestPc, NEW im \in Seq(Insn)
  PROVE  /\ [pc |-> p, insns |-> im] \in Builder
         /\ [pc |-> p, insns |-> im] # NoBlock
         /\ [pc |-> p, insns |-> <<>>] \in Builder
         /\ [pc |-> p, insns |-> <<>>] # NoBlock
<1>1. <<>> \in Seq(Insn)
  BY EmptySeq
<1>2. [pc |-> p, insns |-> im] \in Builder /\ [pc |-> p, insns |-> <<>>] \in Builder
  BY <1>1 DEF Builder
<1> QED
  BY <1>2, BuilderAssumption

(* The new system: nothing is cached and no call is in progress.           *)
LEMMA InitInv == Init => RuntimeInv
<1> SUFFICES ASSUME Init PROVE RuntimeInv
  OBVIOUS
<1>1. CacheInv
  BY CacheInitInv DEF Init
<1>2. GuestTypes
  <2>1. mem \in [Cell -> Word] /\ acc \in Word /\ halted = FALSE
    BY RuntimeAssumption DEF Init
  <2>2. pc \in GuestPc
    BY MemoryAssumption DEF Init, GuestPc
  <2> QED
    BY <2>1, <2>2 DEF GuestTypes
<1>3. DispatchTypes
  BY DEF Init, DispatchTypes
<1>4. ControlInv /\ BlocksInv
  BY DEF Init, CacheInit, ControlInv, BlocksInv
<1> QED
  BY <1>1, <1>2, <1>3, <1>4, Assemble

(* Between calls the embedding program changes guest state, or calls.      *)
LEMMA HostInv ==
  ASSUME RuntimeInv, Host, CacheInv'
  PROVE  RuntimeInv'
<1>0. GuestTypes /\ DispatchTypes /\ ControlInv /\ BlocksInv
  BY Assemble
<1>1. UNCHANGED <<code, cacheVars, k>> /\ ctl = "host"
  BY DEF Host, WriteGuest, SetCpu, RunSteps, TranslateDirectly, dispatchVars
<1>2. UNCHANGED <<code, blocks, incoming, k>>
  BY <1>1 DEF cacheVars
<1>3. CASE WriteGuest
  <2>1. GuestTypes'
    BY <1>0, <1>3, RuntimeAssumption DEF WriteGuest, GuestTypes
  <2>2. UNCHANGED <<pc, dispatchVars>>
    BY <1>3 DEF WriteGuest
  <2>3. DispatchTypes' /\ ControlInv' /\ BlocksInv'
    BY <1>0, <1>1, <1>2, <2>2 DEF dispatchVars, DispatchTypes, ControlInv, BlocksInv, Cached
  <2> QED
    BY <2>1, <2>3, Assemble
<1>4. CASE SetCpu
  <2>1. GuestTypes'
    BY <1>0, <1>4, RuntimeAssumption DEF SetCpu, GuestTypes
  <2>2. UNCHANGED dispatchVars
    BY <1>4 DEF SetCpu
  <2>3. DispatchTypes' /\ ControlInv' /\ BlocksInv'
    BY <1>0, <1>1, <1>2, <2>2 DEF dispatchVars, DispatchTypes, ControlInv, BlocksInv
  <2> QED
    BY <2>1, <2>3, Assemble
<1>5. CASE RunSteps
  <2>1. UNCHANGED <<guestVars, builder>> /\ ctl' = "loop" /\ steps' \in Nat
    BY <1>5, RuntimeAssumption DEF RunSteps
  <2>2. GuestTypes' /\ DispatchTypes' /\ ControlInv' /\ BlocksInv'
    BY <1>0, <1>1, <1>2, <2>1
    DEF guestVars, GuestTypes, DispatchTypes, ControlInv, BlocksInv
  <2> QED
    BY <2>2, Assemble
<1>6. CASE TranslateDirectly
  <2>1. PICK p \in GuestPc : builder' = [pc |-> p, insns |-> <<>>]
    BY <1>6, RuntimeAssumption DEF TranslateDirectly
  <2>2. UNCHANGED <<guestVars, steps>> /\ ctl' = "translate"
    BY <1>6 DEF TranslateDirectly
  <2>3. GuestTypes' /\ DispatchTypes'
    BY <1>0, <1>1, <1>2, <2>1, <2>2 DEF guestVars, GuestTypes, DispatchTypes, Builder
  <2>4. ControlInv'
    <3>1. builder' # NoBlock
      BY <2>1, BuilderFacts, EmptySeq
    <3>2. steps' = 0 /\ k' = 0 /\ incoming' = NoBlock
      BY <1>0, <1>1, <1>2, <2>2 DEF ControlInv
    <3> QED
      BY <2>2, <3>1, <3>2 DEF ControlInv
  <2>5. StraightLine(<<>>)
    BY RuntimeAssumption DEF StraightLine
  <2>6. BlocksInv'
    BY <1>0, <1>2, <2>1, <2>2, <2>5 DEF BlocksInv
  <2> QED
    BY <2>3, <2>4, <2>6, Assemble
<1> QED
  BY <1>3, <1>4, <1>5, <1>6 DEF Host

(* The steps of run_steps that only decide where to go.                    *)
LEMMA LoopInv ==
  ASSUME RuntimeInv, Leave \/ Dispatch, CacheInv'
  PROVE  RuntimeInv'
<1>0. GuestTypes /\ DispatchTypes /\ ControlInv /\ BlocksInv
  BY Assemble
<1>1. /\ UNCHANGED <<guestVars, code, k, cacheVars>>
      /\ ctl = "loop"
  BY DEF Leave, Dispatch
<1>2. UNCHANGED <<code, blocks, incoming, k, pc, halted>>
  BY <1>1 DEF cacheVars, guestVars
<1>3. GuestTypes'
  BY <1>0, <1>1 DEF guestVars, GuestTypes
<1>4. incoming = NoBlock /\ k = 0
  BY <1>0, <1>1 DEF ControlInv
<1>5. CASE Leave
  <2>1. UNCHANGED builder /\ ctl' = "host" /\ steps' = 0
    BY <1>5 DEF Leave
  <2>2. DispatchTypes' /\ ControlInv' /\ BlocksInv'
    BY <1>0, <1>2, <1>4, <2>1 DEF DispatchTypes, ControlInv, BlocksInv
  <2> QED
    BY <1>3, <2>2, Assemble
<1>6. CASE Dispatch /\ Cached(pc)
  <2>1. UNCHANGED <<builder, steps>> /\ ctl' = "touch" /\ steps > 0 /\ ~halted
    BY <1>6 DEF Dispatch
  <2>2. Cached(pc)'
    BY <1>2, <1>6 DEF Cached
  <2>3. DispatchTypes' /\ ControlInv' /\ BlocksInv'
    BY <1>0, <1>2, <1>4, <2>1, <2>2 DEF DispatchTypes, ControlInv, BlocksInv
  <2> QED
    BY <1>3, <2>3, Assemble
<1>7. CASE Dispatch /\ ~Cached(pc)
  <2>1. /\ UNCHANGED steps /\ ctl' = "translate" /\ ~halted
        /\ builder' = [pc |-> pc, insns |-> <<>>]
    BY <1>7 DEF Dispatch
  <2>2. builder' \in Builder /\ builder' # NoBlock
    BY <1>0, <2>1, BuilderFacts, EmptySeq DEF GuestTypes
  <2>3. StraightLine(<<>>)
    BY RuntimeAssumption DEF StraightLine
  <2>4. DispatchTypes'
    BY <1>0, <1>2, <2>1, <2>2 DEF DispatchTypes
  <2>5. ControlInv'
    BY <1>0, <1>2, <1>4, <2>1, <2>2 DEF ControlInv
  <2>6. BlocksInv'
    BY <1>0, <1>2, <2>1, <2>3 DEF BlocksInv
  <2> QED
    BY <1>3, <2>4, <2>5, <2>6, Assemble
<1> QED
  BY <1>5, <1>6, <1>7

(* The translation grows by an instruction while it has no terminator.     *)
LEMMA TranslateInsnInv ==
  ASSUME RuntimeInv, TranslateInsn, CacheInv'
  PROVE  RuntimeInv'
<1> DEFINE im  == builder.insns
           new == Fetch(mem, PcPlus(builder.pc, Len(im)))
<1>0. GuestTypes /\ DispatchTypes /\ ControlInv /\ BlocksInv
  BY Assemble
<1>1. /\ UNCHANGED <<guestVars, ctl, steps, code, k, cacheVars>>
      /\ ctl = "translate" /\ ~Complete(im)
      /\ builder' = [builder EXCEPT !.insns = Append(im, new)]
  BY DEF TranslateInsn, cursor_pc
<1>2. UNCHANGED <<code, blocks, incoming, k, pc, halted, steps, ctl>>
  BY <1>1 DEF cacheVars, guestVars
<1>3. builder \in Builder /\ StraightLine(im)
  BY <1>0, <1>1 DEF DispatchTypes, ControlInv, BlocksInv
<1>4. builder.pc \in GuestPc /\ im \in Seq(Insn)
  BY <1>3 DEF Builder
<1>5. Len(im) \in 0..(MaxInsns - 1)
  BY <1>1, <1>3, <1>4, LenProperties, RuntimeAssumption DEF StraightLine, Complete
<1>6. new \in Insn
  BY <1>0, <1>4, <1>5, PcPlusFacts, FetchType DEF GuestTypes
<1> HIDE DEF new
<1>7. /\ Append(im, new) \in Seq(Insn)
      /\ Len(Append(im, new)) = Len(im) + 1
      /\ \A n \in 1..Len(im) : Append(im, new)[n] = im[n]
  BY <1>4, <1>6, AppendProperties
<1>8. builder' = [pc |-> builder.pc, insns |-> Append(im, new)]
  BY <1>1, <1>3 DEF Builder
<1>9. builder' \in Builder /\ builder' # NoBlock
  BY <1>4, <1>7, <1>8, BuilderFacts
<1>10. StraightLine(Append(im, new))
  <2>1. Len(Append(im, new)) <= MaxInsns
    BY <1>5, <1>7, RuntimeAssumption
  <2>2. \A n \in 1..Len(im) : ~IsTerminator(im[n])
    <3>1. Len(im) > 0 => ~IsTerminator(im[Len(im)])
      BY <1>1 DEF Complete
    <3>2. \A n \in 1..(Len(im) - 1) : ~IsTerminator(im[n])
      BY <1>3 DEF StraightLine
    <3> QED
      BY <1>5, <3>1, <3>2, RuntimeAssumption
  <2> QED
    BY <1>5, <1>7, <2>1, <2>2 DEF StraightLine
<1>11. GuestTypes'
  BY <1>0, <1>1 DEF guestVars, GuestTypes
<1>12. DispatchTypes'
  BY <1>0, <1>2, <1>9 DEF DispatchTypes
<1>13. ControlInv'
  BY <1>0, <1>1, <1>2, <1>8, <1>9 DEF ControlInv
<1>14. BlocksInv'
  BY <1>0, <1>1, <1>2, <1>8, <1>10 DEF BlocksInv
<1> QED
  BY <1>11, <1>12, <1>13, <1>14, Assemble

(* The new buffer is none of those a cached block runs in.                 *)
LEMMA EmitInv ==
  ASSUME RuntimeInv, Emit, CacheInv'
  PROVE  RuntimeInv'
<1>0. GuestTypes /\ DispatchTypes /\ ControlInv /\ BlocksInv /\ CacheInv
  BY Assemble
<1>1. PICK b \in Buffer :
        /\ BeginInsert(builder.pc, b, CodeLen(builder.insns))
        /\ code' = [code EXCEPT ![b] = builder.insns]
  BY DEF Emit
<1>2. /\ UNCHANGED <<guestVars, steps, k>>
      /\ ctl = "translate" /\ ctl' = "insert"
      /\ Complete(builder.insns) /\ builder' = NoBlock
  BY DEF Emit
<1>3. /\ b \notin mapped /\ UNCHANGED blocks
      /\ incoming' = [pc |-> builder.pc, buf |-> b,
                      code_len |-> CodeLen(builder.insns)]
  BY <1>1 DEF BeginInsert
<1>4. builder \in Builder /\ IsBlock(builder.insns)
  BY <1>0, <1>2 DEF DispatchTypes, ControlInv, BlocksInv, IsBlock
<1>5. builder.insns \in Seq(Insn) /\ builder.pc \in GuestPc
  BY <1>4 DEF Builder
<1>6. \A p \in DOMAIN blocks : blocks[p].buf # b
  BY <1>0, <1>3 DEF CacheInv, OwnedOnce
<1>7. code \in [Buffer -> Seq(Insn)]
  BY <1>0 DEF DispatchTypes
<1>8. /\ code' \in [Buffer -> Seq(Insn)]
      /\ code'[b] = builder.insns
      /\ \A c \in Buffer : c # b => code'[c] = code[c]
  BY <1>1, <1>5, <1>7
<1>9. \A p \in DOMAIN blocks : blocks[p].buf \in Buffer
  BY <1>0 DEF CacheInv, CacheTypeOK, CompiledBlock
<1>10. BlocksInv'
  BY <1>0, <1>2, <1>3, <1>4, <1>6, <1>8, <1>9 DEF BlocksInv
<1>11. GuestTypes'
  BY <1>0, <1>2 DEF guestVars, GuestTypes
<1>12. DispatchTypes'
  BY <1>0, <1>2, <1>8 DEF DispatchTypes
<1>13. ControlInv'
  <2>1. incoming' \in Insertion
    BY <1>3, <1>4, <1>5, BlockLength, RuntimeAssumption DEF Insertion
  <2>2. incoming' # NoBlock
    BY <2>1, NoBlockAssumption
  <2>3. k' = 0 /\ (steps' > 0 => incoming'.pc = pc' /\ ~halted')
    BY <1>0, <1>2, <1>3 DEF ControlInv, guestVars
  <2> QED
    BY <1>2, <2>2, <2>3 DEF ControlInv
<1> QED
  BY <1>10, <1>11, <1>12, <1>13, Assemble

(* The buffers that stay mapped keep their code, and blocks own only such. *)
LEMMA FreedCode ==
  ASSUME RuntimeInv, CacheInv', CodeFreed
  PROVE  /\ code' \in [Buffer -> Seq(Insn)]
         /\ \A b \in mapped' : code'[b] = code[b]
         /\ \A p \in DOMAIN blocks' : blocks'[p].buf \in mapped'
         /\ incoming' # NoBlock => incoming'.buf \in mapped'
<1>1. code \in [Buffer -> Seq(Insn)]
  BY DEF RuntimeInv, RuntimeTypeOK
<1>2. mapped' \subseteq Buffer
  BY DEF CacheInv, CacheTypeOK
<1>3. <<>> \in Seq(Insn)
  BY EmptySeq
<1>4. code' \in [Buffer -> Seq(Insn)] /\ \A b \in mapped' : code'[b] = code[b]
  BY <1>1, <1>2, <1>3 DEF CodeFreed
<1>5. /\ \A p \in DOMAIN blocks' : blocks'[p].buf \in mapped'
      /\ incoming' # NoBlock => incoming'.buf \in mapped'
  BY DEF CacheInv, OwnedOnce
<1> QED
  BY <1>4, <1>5

(* Eviction leaves the other blocks, and the one being inserted, as they   *)
(* were.                                                                   *)
LEMMA EvictedBlocks ==
  ASSUME Evict
  PROVE  /\ incoming' = incoming
         /\ \A p \in DOMAIN blocks' : p \in DOMAIN blocks /\ blocks'[p] = blocks[p]
BY DEF Evict, Without

(* Eviction inside insert() unmaps only buffers no block will run in.      *)
LEMMA InsertEvictInv ==
  ASSUME RuntimeInv, InsertEvict, CacheInv'
  PROVE  RuntimeInv'
<1>0. GuestTypes /\ DispatchTypes /\ ControlInv /\ BlocksInv
  BY Assemble
<1>1. /\ UNCHANGED <<guestVars, ctl, steps, builder, k>>
      /\ ctl = "insert" /\ Evict /\ CodeFreed
  BY DEF InsertEvict
<1>2. UNCHANGED <<ctl, steps, builder, k, pc, halted>>
  BY <1>1 DEF guestVars
<1>3. /\ incoming' = incoming /\ incoming # NoBlock
      /\ \A p \in DOMAIN blocks' : p \in DOMAIN blocks /\ blocks'[p] = blocks[p]
  BY <1>0, <1>1, EvictedBlocks DEF ControlInv
<1>4. /\ code' \in [Buffer -> Seq(Insn)]
      /\ \A p \in DOMAIN blocks' : code'[blocks'[p].buf] = code[blocks'[p].buf]
      /\ code'[incoming'.buf] = code[incoming'.buf]
  BY <1>1, <1>3, FreedCode
<1>5. GuestTypes'
  BY <1>0, <1>1 DEF guestVars, GuestTypes
<1>6. DispatchTypes'
  BY <1>0, <1>2, <1>4 DEF DispatchTypes
<1>7. ControlInv'
  BY <1>0, <1>1, <1>2, <1>3 DEF ControlInv
<1>8. BlocksInv'
  BY <1>0, <1>1, <1>2, <1>3, <1>4 DEF BlocksInv
<1> QED
  BY <1>5, <1>6, <1>7, <1>8, Assemble

(* The inserted block is found by the lookup that follows.                 *)
LEMMA CommittedBlocks ==
  ASSUME Commit
  PROVE  /\ incoming' = NoBlock
         /\ DOMAIN blocks' = DOMAIN blocks \cup {incoming.pc}
         /\ blocks'[incoming.pc].buf = incoming.buf
         /\ \A p \in DOMAIN blocks : p # incoming.pc => blocks'[p] = blocks[p]
BY DEF Commit

(* The end of insert(): the new block is in the map, under its pc.         *)
LEMMA InsertCommitInv ==
  ASSUME RuntimeInv, InsertCommit, CacheInv'
  PROVE  RuntimeInv'
<1>0. GuestTypes /\ DispatchTypes /\ ControlInv /\ BlocksInv
  BY Assemble
<1>1. /\ UNCHANGED <<guestVars, steps, builder, k>>
      /\ ctl = "insert" /\ Commit /\ CodeFreed
      /\ ctl' = IF steps = 0 THEN "host" ELSE "touch"
  BY DEF InsertCommit
<1>2. UNCHANGED <<steps, builder, k, pc, halted>>
  BY <1>1 DEF guestVars
<1>3. /\ incoming' = NoBlock
      /\ DOMAIN blocks' = DOMAIN blocks \cup {incoming.pc}
      /\ blocks'[incoming.pc].buf = incoming.buf
      /\ \A p \in DOMAIN blocks : p # incoming.pc => blocks'[p] = blocks[p]
  BY <1>1, CommittedBlocks
<1>4. /\ code' \in [Buffer -> Seq(Insn)]
      /\ \A p \in DOMAIN blocks' : code'[blocks'[p].buf] = code[blocks'[p].buf]
  BY <1>1, FreedCode
<1>5. GuestTypes'
  BY <1>0, <1>1 DEF guestVars, GuestTypes
<1>6. DispatchTypes'
  BY <1>0, <1>1, <1>2, <1>4 DEF DispatchTypes
<1>7. steps \in Nat /\ k = 0 /\ (steps > 0 => incoming.pc = pc /\ ~halted)
  BY <1>0, <1>1 DEF DispatchTypes, ControlInv
<1>8. steps > 0 => Cached(pc)'
  BY <1>2, <1>3, <1>7 DEF Cached
<1>9. ControlInv'
  BY <1>1, <1>2, <1>3, <1>7, <1>8 DEF ControlInv
<1>10. ASSUME NEW p \in DOMAIN blocks' PROVE IsBlock(code'[blocks'[p].buf])
  <2>1. CASE p = incoming.pc
    BY <1>0, <1>1, <1>3, <1>4, <2>1 DEF BlocksInv
  <2>2. CASE p # incoming.pc
    BY <1>0, <1>3, <1>4, <2>2 DEF BlocksInv
  <2> QED
    BY <2>1, <2>2
<1>11. BlocksInv'
  BY <1>1, <1>10 DEF BlocksInv
<1> QED
  BY <1>5, <1>6, <1>9, <1>11, Assemble

(* The lookup after touch() finds the block: expect() does not panic.      *)
LEMMA TouchBlockInv ==
  ASSUME RuntimeInv, TouchBlock, CacheInv'
  PROVE  RuntimeInv' /\ ctl' = "run"
<1>0. GuestTypes /\ DispatchTypes /\ ControlInv /\ BlocksInv
  BY Assemble
<1>1. /\ UNCHANGED <<guestVars, steps, builder, code, k>>
      /\ UNCHANGED <<blocks, incoming>>
      /\ ctl = "touch" /\ ctl' = IF Cached(pc) THEN "run" ELSE "panicked"
  BY DEF TouchBlock, Touch
<1>2. UNCHANGED <<pc, halted>>
  BY <1>1 DEF guestVars
<1>3. /\ steps > 0 /\ ~halted /\ Cached(pc) /\ k = 0 /\ incoming = NoBlock
      /\ ctl' = "run"
  BY <1>0, <1>1 DEF ControlInv
<1>4. code[blocks[pc].buf] \in Seq(Insn) /\ IsBlock(code[blocks[pc].buf])
  <2>1. pc \in DOMAIN blocks /\ blocks[pc].buf \in Buffer
    BY <1>3 DEF Cached, RuntimeInv, RuntimeTypeOK, CacheTypeOK, CompiledBlock
  <2> QED
    BY <1>0, <2>1 DEF DispatchTypes, BlocksInv
<1>5. 0 < Len(code[blocks[pc].buf])
  BY <1>4, BlockLength, RuntimeAssumption
<1>6. Cached(pc)' /\ k' < Len(Running')
  BY <1>1, <1>2, <1>3, <1>5 DEF Cached, Running
<1>7. GuestTypes'
  BY <1>0, <1>1 DEF guestVars, GuestTypes
<1>8. DispatchTypes'
  BY <1>0, <1>1, <1>3 DEF DispatchTypes
<1>9. ControlInv'
  BY <1>1, <1>2, <1>3, <1>6 DEF ControlInv
<1>10. BlocksInv'
  BY <1>0, <1>1, <1>3 DEF BlocksInv
<1> QED
  BY <1>3, <1>7, <1>8, <1>9, <1>10, Assemble, CacheInvStep

(* The running block: what it is, and where it is in guest memory.         *)
LEMMA RunningFacts ==
  ASSUME RuntimeInv, ctl = "run"
  PROVE  /\ pc \in DOMAIN blocks
         /\ Running \in Seq(Insn) /\ IsBlock(Running)
         /\ Len(Running) \in 1..MaxInsns
         /\ k \in 0..(Len(Running) - 1)
         /\ Running[k + 1] \in Insn
         /\ PcPlus(pc, k) \in GuestPc
         /\ PcPlus(PcPlus(pc, k), 1) = PcPlus(pc, k + 1)
         /\ incoming = NoBlock /\ steps > 0
<1>0. GuestTypes /\ DispatchTypes /\ ControlInv /\ BlocksInv /\ CacheInv
  BY Assemble
<1>1. /\ pc \in DOMAIN blocks /\ k < Len(Running) /\ incoming = NoBlock
      /\ steps > 0 /\ pc \in GuestPc /\ k \in Nat
  BY <1>0 DEF ControlInv, Cached, GuestTypes, DispatchTypes
<1>2. blocks[pc].buf \in Buffer
  BY <1>0, <1>1 DEF CacheInv, CacheTypeOK, CompiledBlock
<1>3. Running \in Seq(Insn) /\ IsBlock(Running)
  BY <1>0, <1>1, <1>2 DEF DispatchTypes, BlocksInv, Running
<1>4. Len(Running) \in 1..MaxInsns
  BY <1>3, BlockLength
<1>5. k \in 0..(Len(Running) - 1) /\ k \in 0..(MaxInsns - 1)
  BY <1>1, <1>4, RuntimeAssumption
<1>6. Running[k + 1] \in Insn
  BY <1>3, <1>4, <1>5, ElementOfSeq
<1>7. PcPlus(pc, k) \in GuestPc /\ PcPlus(PcPlus(pc, k), 1) = PcPlus(pc, k + 1)
  BY <1>1, <1>5, PcPlusFacts
<1> QED
  BY <1>1, <1>3, <1>4, <1>5, <1>6, <1>7

(* An instruction of a running block stays within the block.               *)
LEMMA ExecuteInsnInv ==
  ASSUME RuntimeInv, ExecuteInsn, CacheInv'
  PROVE  RuntimeInv'
<1> DEFINE insn == Running[k + 1]
<1>0. GuestTypes /\ DispatchTypes /\ ControlInv /\ BlocksInv
  BY Assemble
<1>1. /\ ctl = "run" /\ UNCHANGED <<halted, builder, code, cacheVars>>
      /\ mem' = MemAfter(insn, mem, acc) /\ acc' = AccAfter(insn, mem, acc)
  BY DEF ExecuteInsn
<1>2. UNCHANGED <<blocks, incoming>>
  BY <1>1 DEF cacheVars
<1>3. /\ insn \in Insn /\ k \in 0..(Len(Running) - 1) /\ Len(Running) \in Nat
      /\ PcPlus(pc, k) \in GuestPc /\ incoming = NoBlock /\ steps > 0
  BY <1>1, RunningFacts
<1> HIDE DEF insn
<1>4. mem' \in [Cell -> Word] /\ acc' \in Word
      /\ PcAfter(insn, PcPlus(pc, k), acc) \in GuestPc
  BY <1>0, <1>1, <1>3, EffectTypes DEF GuestTypes
<1>5. CASE k + 1 < Len(Running)
  <2>1. k' = k + 1 /\ UNCHANGED <<pc, ctl, steps>>
    BY <1>5 DEF ExecuteInsn
  <2>2. Running' = Running /\ (Cached(pc) <=> Cached(pc)')
    BY <1>1, <1>2, <2>1 DEF Running, Cached
  <2>3. GuestTypes'
    BY <1>0, <1>1, <1>4, <2>1 DEF GuestTypes
  <2>4. DispatchTypes'
    BY <1>0, <1>1, <2>1 DEF DispatchTypes
  <2>5. ControlInv'
    BY <1>0, <1>1, <1>2, <1>5, <2>1, <2>2 DEF ControlInv
  <2>6. BlocksInv'
    BY <1>0, <1>1, <1>2, <2>1 DEF BlocksInv
  <2> QED
    BY <2>3, <2>4, <2>5, <2>6, Assemble
<1>6. CASE ~(k + 1 < Len(Running))
  <2>1. /\ k' = 0 /\ pc' = PcAfter(insn, PcPlus(pc, k), acc)
        /\ ctl' = "loop" /\ steps' = steps - 1
    BY <1>6 DEF ExecuteInsn, insn
  <2>2. GuestTypes'
    BY <1>0, <1>1, <1>4, <2>1 DEF GuestTypes
  <2>3. DispatchTypes'
    BY <1>0, <1>1, <1>3, <2>1 DEF DispatchTypes
  <2>4. ControlInv'
    BY <1>2, <1>3, <2>1 DEF ControlInv
  <2>5. BlocksInv'
    BY <1>0, <1>1, <1>2, <2>1 DEF BlocksInv
  <2> QED
    BY <2>2, <2>3, <2>4, <2>5, Assemble
<1> QED
  BY <1>5, <1>6

(* A failed emission changes nothing but the control.                      *)
LEMMA EmitFailsInv ==
  ASSUME RuntimeInv, EmitFails, CacheInv'
  PROVE  RuntimeInv'
<1>0. GuestTypes /\ DispatchTypes /\ ControlInv /\ BlocksInv
  BY Assemble
<1>1. /\ UNCHANGED <<guestVars, steps, code, k, cacheVars>>
      /\ ctl = "translate" /\ ctl' = "panicked" /\ builder' = NoBlock
  BY DEF EmitFails
<1>2. UNCHANGED <<blocks, incoming>>
  BY <1>1 DEF cacheVars
<1>3. GuestTypes'
  BY <1>0, <1>1 DEF guestVars, GuestTypes
<1>4. DispatchTypes' /\ ControlInv' /\ BlocksInv'
  BY <1>0, <1>1, <1>2 DEF DispatchTypes, ControlInv, BlocksInv
<1> QED
  BY <1>3, <1>4, Assemble

(* A stuttering step.                                                      *)
LEMMA StutterInv ==
  ASSUME RuntimeInv, UNCHANGED vars
  PROVE  RuntimeInv'
<1>1. UNCHANGED <<mem, pc, acc, halted, ctl, steps, builder, code, k>>
  BY DEF vars, guestVars, dispatchVars
<1>2. UNCHANGED <<blocks, lru, used_bytes, incoming, mapped>>
  BY DEF vars, cacheVars
<1>3. RuntimeTypeOK'
  BY <1>1, <1>2 DEF RuntimeInv, RuntimeTypeOK, CacheTypeOK
<1>4. OwnedOnce' /\ EvictableBlocks'
  BY <1>2 DEF RuntimeInv, OwnedOnce, EvictableBlocks
<1>5. ControlInv' /\ BlocksInv'
  BY <1>1, <1>2 DEF RuntimeInv, ControlInv, BlocksInv, Cached, Running
<1> QED
  BY <1>3, <1>4, <1>5 DEF RuntimeInv

(* Every step of the system and its embedding program.                     *)
LEMMA NextInv == RuntimeInv /\ [Next]_vars => RuntimeInv'
<1> SUFFICES ASSUME RuntimeInv, [Next]_vars PROVE RuntimeInv'
  OBVIOUS
<1>1. CacheInv'
  BY CacheInvStep
<1>2. CASE Host
  BY <1>1, <1>2, HostInv
<1>3. CASE Leave \/ Dispatch
  BY <1>1, <1>3, LoopInv
<1>4. CASE TranslateInsn
  BY <1>1, <1>4, TranslateInsnInv
<1>5. CASE Emit
  BY <1>1, <1>5, EmitInv
<1>6. CASE EmitFails
  BY <1>1, <1>6, EmitFailsInv
<1>7. CASE InsertEvict
  BY <1>1, <1>7, InsertEvictInv
<1>8. CASE InsertCommit
  BY <1>1, <1>8, InsertCommitInv
<1>9. CASE TouchBlock
  BY <1>1, <1>9, TouchBlockInv
<1>10. CASE ExecuteInsn
  BY <1>1, <1>10, ExecuteInsnInv
<1>11. CASE Panicked \/ UNCHANGED vars
  BY <1>11, StutterInv DEF Panicked
<1> QED
  BY <1>2, <1>3, <1>4, <1>5, <1>6, <1>7, <1>8, <1>9, <1>10, <1>11
  DEF Next, System

(* The structure of the system holds whatever is written where.            *)
THEOREM RuntimeInvHolds == Spec => []RuntimeInv
BY InitInv, NextInv, PTL DEF Spec

(* Whatever the embedding program writes, translates or starts, run_steps  *)
(* never panics in expect() and never runs code that is not mapped or not  *)
(* complete.                                                               *)
THEOREM RunsOnlyMappedCode == Spec => []RunsMappedCode
<1>1. RuntimeInv => RunsMappedCode
  <2> SUFFICES ASSUME RuntimeInv, ctl \in {"touch", "run"}
               PROVE  /\ Cached(pc)
                      /\ blocks[pc].buf \in mapped
                      /\ Complete(Running)
    BY DEF RunsMappedCode
  <2>1. pc \in DOMAIN blocks
    BY DEF RuntimeInv, ControlInv, Cached
  <2> QED
    BY <2>1 DEF RuntimeInv, OwnedOnce, BlocksInv, IsBlock, Cached, Running
<1> QED
  BY <1>1, RuntimeInvHolds, PTL

-----------------------------------------------------------------------------
(* Coherence: steps that write no translated word keep every image.        *)
LEMMA WritesKeepImages ==
  ASSUME CurrentInv, SparesCode, UNCHANGED <<blocks, code>>,
         ctl' \notin {"insert", "translate"}
  PROVE  CurrentInv'
<1>1. ASSUME NEW p \in DOMAIN blocks,
             NEW n \in 1..Len(code[blocks[p].buf])
      PROVE  code[blocks[p].buf][n] = Fetch(mem', PcPlus(p, n - 1))
  <2>1. code[blocks[p].buf][n] = Fetch(mem, PcPlus(p, n - 1))
    BY DEF CurrentInv, IsImage
  <2>2. mem'[PcPlus(p, n - 1) % Size] = mem[PcPlus(p, n - 1) % Size]
    BY DEF SparesCode, CellOf
  <2> QED
    BY <2>1, <2>2 DEF Fetch
<1>2. \A p \in DOMAIN blocks' : IsImage(code[blocks[p].buf], p)'
  BY <1>1 DEF IsImage
<1> QED
  BY <1>2 DEF CurrentInv

(* The steps that write no memory.                                         *)
LEMMA TranslationIsCurrent ==
  ASSUME RuntimeInv, CurrentInv, TranslateInsn
  PROVE  CurrentInv'
<1> DEFINE im  == builder.insns
           new == Fetch(mem, PcPlus(builder.pc, Len(im)))
<1>1. /\ UNCHANGED <<guestVars, ctl, code, cacheVars>>
      /\ ctl = "translate" /\ ~Complete(im)
      /\ builder' = [builder EXCEPT !.insns = Append(im, new)]
  BY DEF TranslateInsn, cursor_pc
<1>2. UNCHANGED <<mem, code, blocks, incoming>>
  BY <1>1 DEF cacheVars, guestVars
<1>3. builder \in Builder
  BY <1>1 DEF RuntimeInv, RuntimeTypeOK, ControlInv
<1>4. builder.pc \in GuestPc /\ im \in Seq(Insn) /\ StraightLine(im)
  BY <1>1, <1>3 DEF Builder, RuntimeInv, BlocksInv
<1>5. Len(im) \in 0..(MaxInsns - 1)
  BY <1>1, <1>4, LenProperties, RuntimeAssumption DEF StraightLine, Complete
<1>6. new \in Insn
  <2>1. mem \in [Cell -> Word] /\ PcPlus(builder.pc, Len(im)) \in GuestPc
    BY <1>4, <1>5, PcPlusFacts DEF RuntimeInv, RuntimeTypeOK
  <2> QED
    BY <2>1, FetchType
<1>7. builder' = [pc |-> builder.pc, insns |-> Append(im, new)]
  BY <1>1, <1>3 DEF Builder
<1>8. \A n \in 1..Len(im) : im[n] = Fetch(mem, PcPlus(builder.pc, n - 1))
  BY <1>1 DEF CurrentInv, IsImage
<1>9. new = Fetch(mem, PcPlus(builder.pc, (Len(im) + 1) - 1))
  BY <1>5
<1> HIDE DEF new
<1>10. /\ Len(Append(im, new)) = Len(im) + 1
       /\ \A n \in 1..Len(im) : Append(im, new)[n] = im[n]
       /\ Append(im, new)[Len(im) + 1] = new
  BY <1>4, <1>6, AppendProperties
<1>11. ASSUME NEW n \in 1..Len(Append(im, new))
       PROVE  Append(im, new)[n] = Fetch(mem, PcPlus(builder.pc, n - 1))
  <2>1. CASE n \in 1..Len(im)
    BY <1>8, <1>10, <2>1
  <2>2. CASE n = Len(im) + 1
    BY <1>9, <1>10, <2>2
  <2> QED
    BY <1>5, <1>10, <2>1, <2>2
<1>12. IsImage(builder.insns, builder.pc)'
  BY <1>2, <1>7, <1>11 DEF IsImage
<1>13. \A p \in DOMAIN blocks' : IsImage(code[blocks[p].buf], p)'
  BY <1>2 DEF CurrentInv, IsImage
<1> QED
  BY <1>1, <1>12, <1>13 DEF CurrentInv

(* Emitted code is an image of the memory it was translated from.          *)
LEMMA EmissionIsCurrent ==
  ASSUME RuntimeInv, CurrentInv, Emit
  PROVE  CurrentInv'
<1>1. PICK b \in Buffer :
        /\ BeginInsert(builder.pc, b, CodeLen(builder.insns))
        /\ code' = [code EXCEPT ![b] = builder.insns]
  BY DEF Emit
<1>2. UNCHANGED mem /\ ctl = "translate" /\ ctl' = "insert"
  BY DEF Emit, guestVars
<1>3. /\ b \notin mapped /\ UNCHANGED blocks
      /\ incoming'.buf = b /\ incoming'.pc = builder.pc
  BY <1>1 DEF BeginInsert
<1>4. \A p \in DOMAIN blocks : blocks[p].buf # b /\ blocks[p].buf \in Buffer
  BY <1>3 DEF RuntimeInv, RuntimeTypeOK, CacheTypeOK, OwnedOnce, CompiledBlock
<1>5. code \in [Buffer -> Seq(Insn)]
  BY DEF RuntimeInv, RuntimeTypeOK
<1>6. /\ code'[b] = builder.insns
      /\ \A p \in DOMAIN blocks : code'[blocks[p].buf] = code[blocks[p].buf]
  BY <1>1, <1>4, <1>5
<1>7. IsImage(code[incoming.buf], incoming.pc)'
  BY <1>2, <1>3, <1>6 DEF CurrentInv, IsImage
<1>8. \A p \in DOMAIN blocks' : IsImage(code[blocks[p].buf], p)'
  BY <1>2, <1>3, <1>6 DEF CurrentInv, IsImage
<1> QED
  BY <1>2, <1>7, <1>8 DEF CurrentInv

(* Insertion and eviction leave only images in the cache.                  *)
LEMMA InsertionIsCurrent ==
  ASSUME RuntimeInv, CacheInv', CurrentInv, InsertEvict \/ InsertCommit
  PROVE  CurrentInv'
<1>1. UNCHANGED mem /\ ctl = "insert" /\ CodeFreed
  BY DEF InsertEvict, InsertCommit, guestVars
<1>2. /\ \A p \in DOMAIN blocks' : code'[blocks'[p].buf] = code[blocks'[p].buf]
      /\ incoming' # NoBlock => code'[incoming'.buf] = code[incoming'.buf]
  BY <1>1, FreedCode
<1>3. CASE InsertEvict
  <2>1. /\ incoming' = incoming /\ incoming # NoBlock /\ UNCHANGED ctl
        /\ \A p \in DOMAIN blocks' : p \in DOMAIN blocks /\ blocks'[p] = blocks[p]
    BY <1>1, <1>3, EvictedBlocks DEF InsertEvict, RuntimeInv, ControlInv
  <2>2. IsImage(code[incoming.buf], incoming.pc)'
    BY <1>1, <1>2, <2>1 DEF CurrentInv, IsImage
  <2>3. \A p \in DOMAIN blocks' : IsImage(code[blocks[p].buf], p)'
    BY <1>1, <1>2, <2>1 DEF CurrentInv, IsImage
  <2> QED
    BY <1>1, <2>1, <2>2, <2>3 DEF CurrentInv
<1>4. CASE InsertCommit
  <2>1. /\ DOMAIN blocks' = DOMAIN blocks \cup {incoming.pc}
        /\ blocks'[incoming.pc].buf = incoming.buf
        /\ \A p \in DOMAIN blocks : p # incoming.pc => blocks'[p] = blocks[p]
    BY <1>4, CommittedBlocks DEF InsertCommit
  <2>2. ctl' \notin {"insert", "translate"}
    BY <1>4 DEF InsertCommit
  <2>3. ASSUME NEW p \in DOMAIN blocks' PROVE IsImage(code[blocks[p].buf], p)'
    <3>1. CASE p = incoming.pc
      BY <1>1, <1>2, <2>1, <3>1 DEF CurrentInv, IsImage
    <3>2. CASE p # incoming.pc
      BY <1>1, <1>2, <2>1, <3>2 DEF CurrentInv, IsImage
    <3> QED
      BY <3>1, <3>2
  <2> QED
    BY <2>2, <2>3 DEF CurrentInv
<1> QED
  BY <1>3, <1>4

(* An empty translation is an image of anything.                           *)
LEMMA StartIsCurrent ==
  ASSUME RuntimeInv, CurrentInv, TranslateDirectly \/ Dispatch
  PROVE  CurrentInv'
<1>1. UNCHANGED <<mem, code, blocks>> /\ ctl \in {"host", "loop"}
  BY DEF TranslateDirectly, Dispatch, guestVars, cacheVars
<1>2. ctl' = "touch" \/ (ctl' = "translate" /\ builder'.insns = <<>>)
  BY DEF TranslateDirectly, Dispatch
<1>3. \A p \in DOMAIN blocks' : IsImage(code[blocks[p].buf], p)'
  BY <1>1 DEF CurrentInv, IsImage
<1>4. ctl' = "translate" => IsImage(builder.insns, builder.pc)'
  BY <1>2 DEF IsImage
<1> QED
  BY <1>2, <1>3, <1>4 DEF CurrentInv

(* Every step that spares the translated words keeps all images current.   *)
LEMMA CoherentNextInv ==
  RuntimeInv /\ CurrentInv /\ [Next /\ SparesCode]_vars => CurrentInv'
<1> SUFFICES ASSUME RuntimeInv, CurrentInv, [Next /\ SparesCode]_vars
             PROVE  CurrentInv'
  OBVIOUS
<1>1. CacheInv'
  BY CacheInvStep
<1>2. CASE TranslateDirectly \/ Dispatch
  BY <1>2, StartIsCurrent
<1>3. CASE TranslateInsn
  BY <1>3, TranslationIsCurrent
<1>4. CASE Emit
  BY <1>4, EmissionIsCurrent
<1>5. CASE InsertEvict \/ InsertCommit
  BY <1>1, <1>5, InsertionIsCurrent
<1>6. ASSUME SparesCode,
             \/ WriteGuest \/ SetCpu \/ RunSteps \/ Leave
             \/ EmitFails \/ TouchBlock \/ ExecuteInsn
      PROVE  CurrentInv'
  <2>1. UNCHANGED <<blocks, code>>
    BY <1>6 DEF WriteGuest, SetCpu, RunSteps, Leave, EmitFails, TouchBlock,
       Touch, ExecuteInsn, dispatchVars, cacheVars
  <2>2. ctl' \notin {"insert", "translate"}
    BY <1>6 DEF WriteGuest, SetCpu, RunSteps, Leave, EmitFails, TouchBlock,
       ExecuteInsn, dispatchVars
  <2> QED
    BY <1>6, <2>1, <2>2, WritesKeepImages
<1>7. CASE Panicked \/ UNCHANGED vars
  <2>1. UNCHANGED <<mem, code, builder, ctl, blocks, incoming>>
    BY <1>7 DEF Panicked, vars, guestVars, dispatchVars, cacheVars
  <2> QED
    BY <2>1 DEF CurrentInv, IsImage
<1> QED
  BY <1>2, <1>3, <1>4, <1>5, <1>6, <1>7 DEF Next, System, Host

-----------------------------------------------------------------------------
(* Refinement: what each step is to the guest machine.                     *)

(* An instruction of the block is the instruction the machine fetches.     *)
LEMMA ExecuteIsStep ==
  ASSUME RuntimeInv, CurrentInv, ExecuteInsn
  PROVE  Machine!Step
<1> DEFINE insn == Running[k + 1]
<1>1. /\ ctl = "run"
      /\ mem' = MemAfter(insn, mem, acc) /\ acc' = AccAfter(insn, mem, acc)
  BY DEF ExecuteInsn
<1>2. guestPc = PcPlus(pc, k)
  BY <1>1 DEF guestPc
<1>3. /\ pc \in DOMAIN blocks /\ IsBlock(Running)
      /\ Len(Running) \in Nat /\ k \in 0..(Len(Running) - 1)
      /\ PcPlus(PcPlus(pc, k), 1) = PcPlus(pc, k + 1)
  BY <1>1, RunningFacts
<1>4. insn = Fetch(mem, guestPc)
  <2>1. k + 1 \in 1..Len(Running) /\ (k + 1) - 1 = k
    BY <1>3
  <2>2. \A n \in 1..Len(Running) : Running[n] = Fetch(mem, PcPlus(pc, n - 1))
    BY <1>3 DEF CurrentInv, IsImage, Running
  <2>3. insn = Fetch(mem, PcPlus(pc, (k + 1) - 1))
    BY <2>1, <2>2
  <2> QED
    BY <1>2, <2>1, <2>3
<1>5. guestPc' = PcAfter(insn, guestPc, acc)
  <2>1. CASE k + 1 < Len(Running)
    <3>1. k' = k + 1 /\ UNCHANGED <<pc, ctl>>
      BY <2>1 DEF ExecuteInsn
    <3>2. k + 1 \in 1..(Len(Running) - 1)
      BY <1>3, <2>1
    <3>3. ~IsTerminator(insn)
      BY <1>3, <3>2 DEF IsBlock, StraightLine
    <3>4. PcAfter(insn, guestPc, acc) = PcPlus(guestPc, 1)
      BY <3>3 DEF PcAfter, IsTerminator
    <3>5. guestPc' = PcPlus(pc, k + 1)
      BY <1>1, <3>1 DEF guestPc
    <3> QED
      BY <1>2, <1>3, <3>4, <3>5
  <2>2. CASE ~(k + 1 < Len(Running))
    <3>1. pc' = PcAfter(insn, PcPlus(pc, k), acc) /\ ctl' = "loop"
      BY <2>2 DEF ExecuteInsn
    <3> QED
      BY <1>2, <3>1 DEF guestPc
  <2> QED
    BY <2>1, <2>2
<1>6. ~halted /\ ctl' # "host" /\ UNCHANGED halted
  BY <1>1, <1>3 DEF ExecuteInsn, RuntimeInv, ControlInv
<1> QED
  BY <1>1, <1>4, <1>5, <1>6 DEF Machine!Step, Fetch, Machine!Fetch, MemAfter,
     Machine!MemAfter, AccAfter, Machine!AccAfter, PcAfter, Machine!PcAfter,
     PcPlus, Machine!PcPlus

(* The embedding program between calls.                                    *)
LEMMA HostIsMachine ==
  ASSUME RuntimeInv, Host
  PROVE  [Machine!MachineNext]_(Machine!machineVars)
<1>1. ctl = "host" /\ ctl' # "run" /\ guestPc = pc /\ guestPc' = pc'
  BY DEF Host, WriteGuest, SetCpu, RunSteps, TranslateDirectly, dispatchVars, guestPc
<1>2. CASE WriteGuest
  <2>1. Machine!Write
    BY <1>1, <1>2, RuntimeAssumption
    DEF WriteGuest, dispatchVars, Machine!Write, Cell, Machine!Cell
  <2> QED
    BY <2>1 DEF Machine!MachineNext
<1>3. CASE SetCpu
  <2>1. pc' \in GuestPc /\ halted' \in BOOLEAN /\ UNCHANGED <<mem, acc, ctl>>
    BY <1>3, RuntimeAssumption DEF SetCpu, dispatchVars
  <2>2. Machine!SetCpu
    BY <1>1, <2>1 DEF Machine!SetCpu, GuestPc, Machine!GuestPc
  <2> QED
    BY <2>2 DEF Machine!MachineNext
<1>4. CASE RunSteps \/ TranslateDirectly
  <2>1. UNCHANGED <<mem, pc, acc, halted>> /\ ctl' # "host"
    BY <1>4 DEF RunSteps, TranslateDirectly, guestVars
  <2> QED
    BY <1>1, <2>1 DEF Machine!Call, Machine!MachineNext
<1> QED
  BY <1>2, <1>3, <1>4 DEF Host

(* The head and tail of run_steps, lookup, translation, insertion and      *)
(* eviction are invisible, but for the return to the embedding program.    *)
LEMMA DispatchIsReturn ==
  ASSUME RuntimeInv,
         \/ Leave \/ Dispatch \/ TranslateInsn \/ Emit \/ EmitFails
         \/ InsertEvict \/ InsertCommit \/ TouchBlock
  PROVE  /\ UNCHANGED <<mem, guestPc, acc, halted>>
         /\ ctl # "host"
<1>1. UNCHANGED <<mem, pc, acc, halted>> /\ ctl # "host"
  BY DEF Leave, Dispatch, TranslateInsn, Emit, EmitFails, InsertEvict,
     InsertCommit, TouchBlock, guestVars
<1>2. CASE TouchBlock
  <2>1. ctl = "touch" /\ k = 0 /\ UNCHANGED k /\ pc \in GuestPc
    BY <1>2 DEF TouchBlock, RuntimeInv, RuntimeTypeOK, ControlInv
  <2>2. PcPlus(pc, 0) = pc
    BY <2>1, PcPlusFacts, RuntimeAssumption
  <2> QED
    BY <1>1, <2>1, <2>2 DEF guestPc
<1>3. ASSUME Leave \/ Dispatch \/ TranslateInsn \/ Emit \/ EmitFails
             \/ InsertEvict \/ InsertCommit
      PROVE  ctl # "run" /\ ctl' # "run"
  BY <1>3 DEF Leave, Dispatch, TranslateInsn, Emit, EmitFails, InsertEvict,
     InsertCommit
<1> QED
  BY <1>1, <1>2, <1>3 DEF guestPc

(* Every step is a step of the machine or invisible to it.                 *)
LEMMA NextIsMachine ==
  ASSUME RuntimeInv, CurrentInv, [Next]_vars
  PROVE  [Machine!MachineNext]_(Machine!machineVars)
<1>1. CASE Host
  BY <1>1, HostIsMachine
<1>2. CASE ExecuteInsn
  BY <1>2, ExecuteIsStep DEF Machine!MachineNext
<1>3. CASE \/ Leave \/ Dispatch \/ TranslateInsn \/ Emit \/ EmitFails
           \/ InsertEvict \/ InsertCommit \/ TouchBlock
  <2>1. UNCHANGED <<mem, guestPc, acc, halted>> /\ ctl # "host"
    BY <1>3, DispatchIsReturn
  <2>2. CASE ctl' = "host"
    BY <2>1, <2>2 DEF Machine!Return, Machine!MachineNext
  <2>3. CASE ctl' # "host"
    BY <2>1, <2>3 DEF Machine!machineVars
  <2> QED
    BY <2>2, <2>3
<1>4. CASE Panicked \/ UNCHANGED vars
  BY <1>4 DEF Panicked, vars, guestVars, dispatchVars, guestPc, Machine!machineVars
<1> QED
  BY <1>1, <1>2, <1>3, <1>4 DEF Next, System

LEMMA CoherentInit == Init => RuntimeInv /\ CurrentInv
<1> SUFFICES ASSUME Init
             PROVE  RuntimeInv /\ CurrentInv
  OBVIOUS
<1>1. RuntimeInv
  BY InitInv
<1>2. CurrentInv
  BY DEF Init, CacheInit, CurrentInv
<1> QED
  BY <1>1, <1>2

(* As long as translated words are spared, every block, be it cached,      *)
(* translated just now or about to be inserted, is an image of the words   *)
(* that are in memory.                                                     *)
THEOREM ImagesStayCurrent == CoherentSpec => []CurrentInv
<1>1. RuntimeInv /\ CurrentInv /\ [Next /\ SparesCode]_vars
      => RuntimeInv' /\ CurrentInv'
  BY NextInv, CoherentNextInv
<1> QED
  BY CoherentInit, <1>1, PTL DEF CoherentSpec

(* The JIT is the guest machine: as long as no write, of the guest or of   *)
(* the embedding program, hits a word that a cached block was translated   *)
(* from, every run of the system is a run of the machine that executes its *)
(* memory one instruction at a time, whatever is evicted, translated twice *)
(* or cached under two names.                                              *)
THEOREM JitImplementsMachine == CoherentSpec => ImplementsMachine
<1>1. Init => RuntimeInv /\ CurrentInv /\ Machine!MachineInit
  <2> SUFFICES ASSUME Init
               PROVE  RuntimeInv /\ CurrentInv /\ Machine!MachineInit
    OBVIOUS
  <2>1. RuntimeInv
    BY CoherentInit
  <2>2. CurrentInv
    BY CoherentInit
  <2>3. /\ mem \in [Cell -> Word] /\ guestPc \in GuestPc /\ acc \in Word
        /\ halted = FALSE /\ ctl = "host"
    BY <2>1 DEF Init, guestPc, RuntimeInv, RuntimeTypeOK
  <2> QED
    BY <2>1, <2>2, <2>3 DEF Machine!MachineInit, Cell, Machine!Cell,
       GuestPc, Machine!GuestPc
<1>2. /\ RuntimeInv /\ CurrentInv /\ [Next /\ SparesCode]_vars
      => RuntimeInv' /\ CurrentInv'
  BY NextInv, CoherentNextInv
<1>3. /\ RuntimeInv /\ CurrentInv /\ [Next /\ SparesCode]_vars
      => [Machine!MachineNext]_(Machine!machineVars)
  BY NextIsMachine
<1> QED
  BY <1>1, <1>2, <1>3, PTL DEF CoherentSpec, ImplementsMachine, Machine!MachineSpec

-----------------------------------------------------------------------------
(* The accounts of the cache when only run_steps translates: the embedding *)
(* program passes no address to translate_block_at.                        *)

(* A block is translated and inserted only while its address is free.      *)
ExactInv ==
  /\ RuntimeInv
  /\ AccountsInv
  /\ ExactAccounts
  /\ ctl = "translate" => steps > 0 /\ ~Cached(builder.pc)
  /\ ctl = "insert" => steps > 0 /\ ~Cached(incoming.pc)

(* The order of lru is only rearranged by touch().                         *)
LEMMA TouchedOrder ==
  ASSUME RuntimeInv, ExactAccounts, NEW p \in Pc, Touch(p), Cached(p)
  PROVE  /\ lru' \in Seq(Pc) /\ Len(lru') = Len(lru)
         /\ \E n \in 1..Len(lru) :
              /\ lru[n] = p
              /\ \A j \in 1..Len(lru) :
                   lru'[j] = lru[IF j = Len(lru) THEN n
                                 ELSE IF j < n THEN j ELSE j + 1]
<1>1. lru \in Seq(Pc)
  BY DEF RuntimeInv, RuntimeTypeOK, CacheTypeOK
<1>2. p \in {lru[n] : n \in 1..Len(lru)}
  BY DEF ExactAccounts, Cached
<1>3. Positions(p) # {}
  BY <1>2 DEF Positions
<1>4. PICK n \in Positions(p) : lru' = MovedToBack(n, p)
  BY <1>3 DEF Touch
<1>5. n \in 1..Len(lru) /\ lru[n] = p /\ lru' = Append(RemoveAt(lru, n), lru[n])
  BY <1>4 DEF Positions, MovedToBack
<1> QED
  BY <1>1, <1>5, MoveToBackFacts

(* touch() permutes lru.                                                   *)
LEMMA TouchExact ==
  ASSUME RuntimeInv, ExactAccounts, NEW p \in Pc, Touch(p), Cached(p)
  PROVE  ExactAccounts'
<1>1. /\ lru' \in Seq(Pc) /\ Len(lru') = Len(lru) /\ Len(lru) \in Nat
      /\ UNCHANGED <<blocks, used_bytes>>
  BY TouchedOrder, LenProperties DEF Touch, RuntimeInv, RuntimeTypeOK, CacheTypeOK
<1>2. PICK n \in 1..Len(lru) :
        \A j \in 1..Len(lru) :
          lru'[j] = lru[IF j = Len(lru) THEN n ELSE IF j < n THEN j ELSE j + 1]
  BY TouchedOrder
<1> DEFINE from(j) == IF j = Len(lru) THEN n ELSE IF j < n THEN j ELSE j + 1
<1>3. \A j \in 1..Len(lru) : lru'[j] = lru[from(j)] /\ from(j) \in 1..Len(lru)
  BY <1>1, <1>2
<1>4. \A i, j \in 1..Len(lru) : from(i) = from(j) => i = j
  BY <1>1
<1>5. \A m \in 1..Len(lru) : \E j \in 1..Len(lru) : from(j) = m
  <2> SUFFICES ASSUME NEW m \in 1..Len(lru)
               PROVE  \E j \in 1..Len(lru) : from(j) = m
    OBVIOUS
  <2>1. CASE m = n
    <3>1. from(Len(lru)) = m
      BY <2>1
    <3> QED
      BY <1>1, <3>1
  <2>2. CASE m < n
    <3>1. m # Len(lru) /\ from(m) = m
      BY <1>1, <2>2
    <3> QED
      BY <3>1
  <2>3. CASE m > n
    <3>1. m - 1 \in 1..Len(lru) /\ from(m - 1) = m
      BY <1>1, <2>3
    <3> QED
      BY <3>1
  <2> QED
    BY <1>1, <2>1, <2>2, <2>3
<1> HIDE DEF from
<1>6. \A i, j \in 1..Len(lru) : lru[i] = lru[j] => i = j
  BY DEF ExactAccounts
<1>7. ASSUME NEW i \in 1..Len(lru'), NEW j \in 1..Len(lru'), lru'[i] = lru'[j]
      PROVE  i = j
  <2>1. lru[from(i)] = lru[from(j)] /\ i \in 1..Len(lru) /\ j \in 1..Len(lru)
    BY <1>1, <1>3, <1>7
  <2>2. from(i) = from(j)
    BY <1>3, <1>6, <2>1
  <2> QED
    BY <1>4, <2>1, <2>2
<1>8. {lru'[j] : j \in 1..Len(lru')} = {lru[j] : j \in 1..Len(lru)}
  <2>1. ASSUME NEW j \in 1..Len(lru)
        PROVE  lru'[j] \in {lru[m] : m \in 1..Len(lru)}
    BY <1>3, <2>1
  <2>2. ASSUME NEW m \in 1..Len(lru)
        PROVE  lru[m] \in {lru'[j] : j \in 1..Len(lru)}
    <3>1. PICK j \in 1..Len(lru) : from(j) = m
      BY <1>5
    <3>2. lru'[j] = lru[m]
      BY <1>3, <3>1
    <3> QED
      BY <3>2
  <2> QED
    BY <1>1, <2>1, <2>2
<1> QED
  BY <1>1, <1>7, <1>8 DEF ExactAccounts, TotalBytes

(* Eviction takes one address from the front of lru and its block and its  *)
(* bytes from the cache.                                                   *)
LEMMA EvictExact ==
  ASSUME RuntimeInv, AccountsInv, ExactAccounts, Evict
  PROVE  ExactAccounts'
<1>1. lru \in Seq(Pc) /\ lru # <<>> /\ lru' = Tail(lru) /\ used_bytes \in Nat
  BY DEF Evict, MustEvict, RuntimeInv, RuntimeTypeOK, CacheTypeOK
<1>2. /\ Len(lru) \in Nat \ {0} /\ Len(lru') = Len(lru) - 1
      /\ \A j \in 1..Len(lru') : lru'[j] = lru[j + 1]
      /\ Head(lru) = lru[1]
  BY <1>1, EmptySeq, HeadTailProperties
<1>3. /\ \A m, n \in 1..Len(lru) : lru[m] = lru[n] => m = n
      /\ {lru[n] : n \in 1..Len(lru)} = DOMAIN blocks
      /\ used_bytes = TotalBytes
  BY DEF ExactAccounts
<1>4. Head(lru) \in DOMAIN blocks
  BY <1>2, <1>3
<1>5. DOMAIN blocks' = DOMAIN blocks \ {Head(lru)}
  BY <1>4 DEF Evict, Without
<1>6. used_bytes' = TotalBytes'
  BY <1>1, <1>3, <1>4, EvictedBytes DEF SaturatingSub
<1>7. \A m, n \in 1..Len(lru') : lru'[m] = lru'[n] => m = n
  BY <1>2, <1>3
<1>8. {lru'[n] : n \in 1..Len(lru')} = DOMAIN blocks'
  <2>1. ASSUME NEW p \in DOMAIN blocks' PROVE p \in {lru'[n] : n \in 1..Len(lru')}
    <3>1. PICK n \in 1..Len(lru) : lru[n] = p
      BY <1>3, <1>5, <2>1
    <3>2. n - 1 \in 1..Len(lru') /\ (n - 1) + 1 = n
      BY <1>2, <1>5, <2>1, <3>1
    <3> QED
      BY <1>2, <3>1, <3>2
  <2>2. ASSUME NEW n \in 1..Len(lru') PROVE lru'[n] \in DOMAIN blocks'
    <3>1. n + 1 \in 1..Len(lru) /\ n + 1 # 1 /\ 1 \in 1..Len(lru)
      BY <1>2
    <3> QED
      BY <1>2, <1>3, <1>5, <3>1
  <2> QED
    BY <2>1, <2>2
<1> QED
  BY <1>6, <1>7, <1>8 DEF ExactAccounts

(* An insertion at a free address adds it to the back of lru.              *)
LEMMA CommitExact ==
  ASSUME RuntimeInv, AccountsInv, ExactAccounts, Commit, ~Cached(incoming.pc)
  PROVE  ExactAccounts'
<1>1. /\ lru \in Seq(Pc) /\ Len(lru) \in Nat /\ lru' = Append(lru, incoming.pc)
      /\ incoming.pc \in Pc
  BY LenProperties
  DEF Commit, RuntimeInv, RuntimeTypeOK, CacheTypeOK, Insertion
<1>2. /\ Len(lru') = Len(lru) + 1
      /\ \A j \in 1..Len(lru) : lru'[j] = lru[j]
      /\ lru'[Len(lru) + 1] = incoming.pc
  BY <1>1, AppendProperties
<1>3. /\ \A m, n \in 1..Len(lru) : lru[m] = lru[n] => m = n
      /\ {lru[n] : n \in 1..Len(lru)} = DOMAIN blocks
      /\ used_bytes = TotalBytes
  BY DEF ExactAccounts
<1>4. DOMAIN blocks' = DOMAIN blocks \cup {incoming.pc}
  BY DEF Commit
<1>5. used_bytes' = TotalBytes'
  BY <1>3, CommittedBytes
<1>6. \A j \in 1..Len(lru) : lru[j] # incoming.pc
  BY <1>3 DEF Cached
<1>7. \A m, n \in 1..Len(lru') : lru'[m] = lru'[n] => m = n
  BY <1>1, <1>2, <1>3, <1>6
<1>8. {lru'[n] : n \in 1..Len(lru')} = DOMAIN blocks'
  <2>1. 1..Len(lru') = 1..Len(lru) \cup {Len(lru) + 1}
    BY <1>1, <1>2
  <2> QED
    BY <1>2, <1>3, <1>4, <2>1
<1> QED
  BY <1>5, <1>7, <1>8 DEF ExactAccounts

(* With nothing translated directly, translations and insertions are those *)
(* of run_steps, which looks before it translates.                         *)
LEMMA ExactStep ==
  ASSUME HostTranslatable = {}, ExactInv, [Next]_vars
  PROVE  ExactInv'
<1>1. RuntimeInv /\ RuntimeInv' /\ AccountsInv /\ ExactAccounts
  BY NextInv DEF ExactInv
<1>2. AccountsInv'
  <2>1. [CacheNext]_cacheVars
    BY <1>1, CacheStep DEF vars, cacheVars
  <2> QED
    BY <1>1, <2>1, AccountsStep
<1>3. CASE WriteGuest \/ SetCpu \/ RunSteps \/ Leave \/ EmitFails
           \/ ExecuteInsn \/ Panicked \/ UNCHANGED vars
  <2>1. UNCHANGED <<blocks, lru, used_bytes, incoming>>
    BY <1>3 DEF WriteGuest, SetCpu, RunSteps, Leave, EmitFails, ExecuteInsn,
       Panicked, vars, cacheVars
  <2>2. /\ ctl' \notin {"translate", "insert"} \/ UNCHANGED <<ctl, steps, builder>>
    BY <1>3 DEF WriteGuest, SetCpu, RunSteps, Leave, EmitFails, ExecuteInsn,
       Panicked, vars, dispatchVars
  <2>3. ExactAccounts'
    BY <1>1, <2>1 DEF ExactAccounts, TotalBytes
  <2> QED
    BY <1>1, <1>2, <2>1, <2>2, <2>3 DEF ExactInv, Cached
<1>4. CASE TranslateDirectly
  BY <1>4 DEF TranslateDirectly
<1>5. CASE Dispatch
  <2>1. UNCHANGED <<blocks, lru, used_bytes, incoming, steps>> /\ steps > 0
    BY <1>5 DEF Dispatch, cacheVars
  <2>2. \/ ctl' = "touch"
        \/ ctl' = "translate" /\ ~Cached(pc) /\ builder' = [pc |-> pc, insns |-> <<>>]
    BY <1>5 DEF Dispatch
  <2>3. ExactAccounts'
    BY <1>1, <2>1 DEF ExactAccounts, TotalBytes
  <2>4. ctl' = "translate" => steps' > 0 /\ ~Cached(builder.pc)'
    BY <2>1, <2>2 DEF Cached
  <2> QED
    BY <1>1, <1>2, <2>2, <2>3, <2>4 DEF ExactInv
<1>6. CASE TranslateInsn
  <2>1. UNCHANGED <<blocks, lru, used_bytes, steps, ctl>> /\ ctl = "translate"
    BY <1>6 DEF TranslateInsn, cacheVars
  <2>2. builder'.pc = builder.pc
    <3>1. builder \in Builder
      BY <1>1, <2>1 DEF RuntimeInv, RuntimeTypeOK, ControlInv
    <3> QED
      BY <1>6, <3>1 DEF TranslateInsn, Builder
  <2>3. ExactAccounts'
    BY <1>1, <2>1 DEF ExactAccounts, TotalBytes
  <2> QED
    BY <1>1, <1>2, <2>1, <2>2, <2>3 DEF ExactInv, Cached
<1>7. CASE Emit
  <2>1. UNCHANGED <<blocks, lru, used_bytes, steps>> /\ incoming'.pc = builder.pc
    BY <1>7 DEF Emit, BeginInsert
  <2>2. ctl = "translate" /\ ctl' = "insert"
    BY <1>7 DEF Emit
  <2>3. ExactAccounts'
    BY <1>1, <2>1 DEF ExactAccounts, TotalBytes
  <2> QED
    BY <1>1, <1>2, <2>1, <2>2, <2>3 DEF ExactInv, Cached
<1>8. CASE InsertEvict
  <2>1. /\ UNCHANGED <<incoming, steps, ctl>> /\ ctl = "insert" /\ Evict
        /\ \A p \in DOMAIN blocks' : p \in DOMAIN blocks
    BY <1>8, EvictedBlocks DEF InsertEvict
  <2>2. ExactAccounts'
    BY <1>1, <2>1, EvictExact
  <2> QED
    BY <1>1, <1>2, <2>1, <2>2 DEF ExactInv, Cached
<1>9. CASE InsertCommit
  <2>1. ctl = "insert" /\ Commit /\ ctl' \notin {"insert", "translate"}
    BY <1>9 DEF InsertCommit
  <2>2. ExactAccounts'
    BY <1>1, <2>1, CommitExact DEF ExactInv
  <2> QED
    BY <1>1, <1>2, <2>1, <2>2 DEF ExactInv
<1>10. CASE TouchBlock
  <2>1. /\ Touch(pc) /\ ctl' \in {"run", "panicked"} /\ ctl = "touch"
    BY <1>10 DEF TouchBlock
  <2>2. Cached(pc) /\ pc \in Pc
    BY <1>1, <2>1, RuntimeAssumption DEF RuntimeInv, RuntimeTypeOK, ControlInv
  <2>3. ExactAccounts'
    BY <1>1, <2>1, <2>2, TouchExact
  <2> QED
    BY <1>1, <1>2, <2>1, <2>3 DEF ExactInv
<1> QED
  BY <1>3, <1>4, <1>5, <1>6, <1>7, <1>8, <1>9, <1>10 DEF Next, System, Host

LEMMA ExactInit == Init => ExactInv
<1> SUFFICES ASSUME Init PROVE ExactInv
  OBVIOUS
<1>1. RuntimeInv /\ AccountsInv /\ ctl = "host"
  BY InitInv, AccountsInit DEF Init
<1>2. used_bytes = 0 /\ lru = <<>> /\ DOMAIN blocks = {}
  BY DEF Init, CacheInit
<1>3. TotalBytes = 0
  <2>1. CodeBytes(blocks) = {}
    BY <1>2 DEF CodeBytes
  <2> QED
    BY <2>1, FS_EmptySet DEF TotalBytes
<1> QED
  BY <1>1, <1>2, <1>3 DEF ExactInv, ExactAccounts

(* When only run_steps translates, used_bytes is exactly what is cached,   *)
(* and lru holds each cached address once and no other: the cache forgets  *)
(* nothing, counts nothing twice and keeps no ghost of an evicted block.   *)
THEOREM AccountsAreExact ==
  ASSUME HostTranslatable = {}
  PROVE  Spec => []ExactAccounts
<1>1. ExactInv /\ [Next]_vars => ExactInv'
  BY ExactStep
<1>2. ExactInv => ExactAccounts
  BY DEF ExactInv
<1> QED
  BY ExactInit, <1>1, <1>2, PTL DEF Spec

-----------------------------------------------------------------------------
(* The order of eviction: lru is the order in which blocks last ran.       *)

(* The cached blocks but the one about to run are in the order of their    *)
(* last runs.                                                              *)
InOrder ==
  \A m, n \in 1..Len(lru) :
    lru[m] # pc /\ lru[n] # pc =>
      (m <= n <=> <<lru[m], lru[n]>> \in ranBefore)

OrderInv ==
  /\ ExactInv
  /\ ctl = "touch" => InOrder
  /\ ctl # "touch" => EvictsLeastRecentlyRun

(* Evicting from the front leaves the order of the rest.                   *)
LEMMA EvictOrder ==
  ASSUME RuntimeInv, Evict, ctl # "touch", ctl' # "touch",
         EvictsLeastRecentlyRun, UNCHANGED ranBefore
  PROVE  EvictsLeastRecentlyRun'
<1>1. lru \in Seq(Pc) /\ lru # <<>> /\ lru' = Tail(lru)
  BY DEF Evict, MustEvict, RuntimeInv, RuntimeTypeOK, CacheTypeOK
<1>2. /\ Len(lru) \in Nat \ {0} /\ Len(lru') = Len(lru) - 1
      /\ \A j \in 1..Len(lru') : lru'[j] = lru[j + 1]
  BY <1>1, EmptySeq, HeadTailProperties
<1> SUFFICES ASSUME NEW m \in 1..Len(lru'), NEW n \in 1..Len(lru')
             PROVE  m <= n <=> <<lru'[m], lru'[n]>> \in ranBefore
  BY DEF EvictsLeastRecentlyRun
<1>3. m + 1 \in 1..Len(lru) /\ n + 1 \in 1..Len(lru) /\ (m <= n <=> m + 1 <= n + 1)
  BY <1>2
<1> QED
  BY <1>2, <1>3 DEF EvictsLeastRecentlyRun

(* A new block waits at the back for its run.                              *)
LEMMA CommitOrder ==
  ASSUME RuntimeInv, Commit, ctl # "touch", incoming.pc = pc, UNCHANGED pc,
         EvictsLeastRecentlyRun, UNCHANGED ranBefore
  PROVE  InOrder'
<1>1. /\ lru \in Seq(Pc) /\ Len(lru) \in Nat /\ lru' = Append(lru, pc)
      /\ pc \in Pc
  BY LenProperties
  DEF Commit, RuntimeInv, RuntimeTypeOK, CacheTypeOK, Insertion
<1>2. /\ Len(lru') = Len(lru) + 1
      /\ \A j \in 1..Len(lru) : lru'[j] = lru[j]
      /\ lru'[Len(lru) + 1] = pc
  BY <1>1, AppendProperties
<1> SUFFICES ASSUME NEW m \in 1..Len(lru'), NEW n \in 1..Len(lru'),
                    lru'[m] # pc, lru'[n] # pc
             PROVE  m <= n <=> <<lru'[m], lru'[n]>> \in ranBefore
  BY DEF InOrder
<1>3. m \in 1..Len(lru) /\ n \in 1..Len(lru)
  BY <1>1, <1>2
<1> QED
  BY <1>2, <1>3 DEF EvictsLeastRecentlyRun

(* touch() takes the block to the back as it runs, after all others.       *)
LEMMA TouchOrder ==
  ASSUME RuntimeInv, ExactAccounts, InOrder, RunBlock, Cached(pc), pc \in Pc
  PROVE  EvictsLeastRecentlyRun'
<1>1. /\ Touch(pc)
      /\ ranBefore' = {r \in ranBefore : pc \notin {r[1], r[2]}}
                        \cup (HasRun \cup {pc}) \X {pc}
  BY DEF RunBlock, TouchBlock
<1>2. /\ lru \in Seq(Pc) /\ Len(lru) \in Nat /\ Len(lru') = Len(lru)
      /\ \A j \in 1..Len(lru) : lru[j] \in Pc
  BY <1>1, TouchedOrder, LenProperties, ElementOfSeq
  DEF RuntimeInv, RuntimeTypeOK, CacheTypeOK
<1>3. PICK i \in 1..Len(lru) :
        /\ lru[i] = pc
        /\ \A j \in 1..Len(lru) :
             lru'[j] = lru[IF j = Len(lru) THEN i ELSE IF j < i THEN j ELSE j + 1]
  BY <1>1, TouchedOrder
<1> DEFINE last == Len(lru)
           from(j) == IF j < i THEN j ELSE j + 1
<1>4. lru'[last] = pc
  BY <1>2, <1>3
<1>5. ASSUME NEW j \in 1..(last - 1)
      PROVE  /\ from(j) \in 1..last /\ lru'[j] = lru[from(j)]
             /\ lru'[j] # pc /\ lru'[j] \in Pc
  <2>1. from(j) \in 1..last /\ from(j) # i
    BY <1>2
  <2>2. lru'[j] = lru[from(j)]
    BY <1>2, <1>3
  <2>3. lru[from(j)] # lru[i]
    BY <2>1 DEF ExactAccounts
  <2> QED
    BY <1>2, <1>3, <2>1, <2>2, <2>3
<1>6. ASSUME NEW m \in 1..(last - 1), NEW n \in 1..(last - 1)
      PROVE  m <= n <=> <<lru'[m], lru'[n]>> \in ranBefore
  <2>1. m <= n <=> from(m) <= from(n)
    BY <1>2
  <2>2. /\ from(m) \in 1..last /\ lru'[m] = lru[from(m)] /\ lru'[m] # pc
        /\ from(n) \in 1..last /\ lru'[n] = lru[from(n)] /\ lru'[n] # pc
    BY <1>5
  <2> HIDE DEF from
  <2>3. from(m) <= from(n) <=> <<lru[from(m)], lru[from(n)]>> \in ranBefore
    BY <2>2 DEF InOrder
  <2> QED
    BY <2>1, <2>2, <2>3
<1> HIDE DEF from
<1> SUFFICES ASSUME NEW m \in 1..Len(lru'), NEW n \in 1..Len(lru')
             PROVE  m <= n <=> <<lru'[m], lru'[n]>> \in ranBefore'
  BY DEF EvictsLeastRecentlyRun
<1>7. CASE m < last /\ n < last
  <2>1. m \in 1..(last - 1) /\ n \in 1..(last - 1)
    BY <1>2, <1>7
  <2>2. lru'[m] # pc /\ lru'[n] # pc
    BY <1>5, <2>1
  <2>3. <<lru'[m], lru'[n]>> \in ranBefore' <=> <<lru'[m], lru'[n]>> \in ranBefore
    BY <1>1, <2>2
  <2> QED
    BY <1>6, <2>1, <2>3
<1>8. CASE n = last
  <2>1. CASE m = last
    BY <1>1, <1>2, <1>4, <1>8, <2>1
  <2>2. CASE m < last
    <3>1. m \in 1..(last - 1)
      BY <1>2, <2>2
    <3>2. <<lru'[m], lru'[m]>> \in ranBefore
      BY <1>6, <3>1
    <3>3. lru'[m] \in HasRun
      BY <1>5, <3>1, <3>2 DEF HasRun
    <3> QED
      BY <1>1, <1>2, <1>4, <1>8, <3>1, <3>3
  <2> QED
    BY <1>2, <2>1, <2>2
<1>9. CASE m = last /\ n < last
  <2>1. n \in 1..(last - 1)
    BY <1>2, <1>9
  <2>2. lru'[m] = pc /\ lru'[n] # pc
    BY <1>4, <1>5, <1>9, <2>1
  <2>3. <<lru'[m], lru'[n]>> \notin ranBefore'
    BY <1>1, <2>2
  <2> QED
    BY <1>2, <1>9, <2>3
<1> QED
  BY <1>2, <1>7, <1>8, <1>9

(* Every step of the system with its history.                              *)
LEMMA OrderStep ==
  ASSUME HostTranslatable = {}, OrderInv, [RunBlock \/ OtherStep]_hVars
  PROVE  OrderInv'
<1>1. [Next]_vars
  BY DEF RunBlock, OtherStep, hVars, Next, System
<1>2. RuntimeInv /\ ExactAccounts /\ ExactInv /\ ExactInv'
  BY <1>1, ExactStep DEF OrderInv, ExactInv
<1>3. CASE RunBlock
  <2>1. /\ ctl = "touch" /\ Cached(pc) /\ pc \in Pc
    BY <1>2, <1>3, RuntimeAssumption
    DEF RunBlock, TouchBlock, RuntimeInv, RuntimeTypeOK, ControlInv
  <2>2. ctl' # "touch"
    BY <1>3 DEF RunBlock, TouchBlock
  <2>3. EvictsLeastRecentlyRun'
    BY <1>2, <1>3, <2>1, TouchOrder DEF OrderInv
  <2> QED
    BY <1>2, <2>2, <2>3 DEF OrderInv
<1>4. CASE InsertEvict /\ UNCHANGED ranBefore
  <2>1. ctl = "insert" /\ ctl' = "insert" /\ Evict
    BY <1>4 DEF InsertEvict
  <2> QED
    BY <1>2, <1>4, <2>1, EvictOrder DEF OrderInv
<1>5. CASE InsertCommit /\ UNCHANGED ranBefore
  <2>1. /\ ctl = "insert" /\ Commit /\ UNCHANGED pc
        /\ ctl' = IF steps = 0 THEN "host" ELSE "touch"
    BY <1>5 DEF InsertCommit, guestVars
  <2>2. steps > 0 /\ incoming.pc = pc
    BY <1>2, <2>1 DEF ExactInv, RuntimeInv, ControlInv
  <2>3. ctl' = "touch"
    BY <1>2, <2>1, <2>2 DEF RuntimeInv, RuntimeTypeOK
  <2>4. InOrder'
    BY <1>2, <1>5, <2>1, <2>2, CommitOrder DEF OrderInv
  <2> QED
    BY <1>2, <2>3, <2>4 DEF OrderInv
<1>6. CASE Dispatch /\ UNCHANGED ranBefore
  <2>1. UNCHANGED <<lru, pc>> /\ ctl = "loop"
    BY <1>6 DEF Dispatch, guestVars, cacheVars
  <2>2. InOrder' /\ EvictsLeastRecentlyRun'
    BY <1>6, <2>1 DEF OrderInv, InOrder, EvictsLeastRecentlyRun
  <2> QED
    BY <1>2, <2>2 DEF OrderInv
<1>7. CASE /\ \/ Host \/ Leave \/ TranslateInsn \/ Emit \/ EmitFails
              \/ ExecuteInsn \/ Panicked
           /\ UNCHANGED ranBefore
  <2>1. UNCHANGED lru /\ ctl # "touch" /\ ctl' # "touch"
    BY <1>7 DEF Host, WriteGuest, SetCpu, RunSteps, TranslateDirectly, Leave,
       TranslateInsn, Emit, BeginInsert, EmitFails, ExecuteInsn, Panicked,
       vars, dispatchVars, cacheVars
  <2>2. EvictsLeastRecentlyRun'
    BY <1>7, <2>1 DEF OrderInv, EvictsLeastRecentlyRun
  <2> QED
    BY <1>2, <2>1, <2>2 DEF OrderInv
<1>8. CASE UNCHANGED hVars
  <2>1. UNCHANGED <<lru, pc, ctl, ranBefore>>
    BY <1>8 DEF hVars, vars, guestVars, dispatchVars, cacheVars
  <2> QED
    BY <1>2, <2>1 DEF OrderInv, InOrder, EvictsLeastRecentlyRun
<1> QED
  BY <1>3, <1>4, <1>5, <1>6, <1>7, <1>8 DEF OtherStep

LEMMA OrderInit == HInit => OrderInv
<1> SUFFICES ASSUME HInit PROVE OrderInv
  OBVIOUS
<1>1. ExactInv /\ ctl = "host" /\ lru = <<>>
  BY ExactInit DEF HInit, Init, CacheInit
<1> QED
  BY <1>1 DEF OrderInv, EvictsLeastRecentlyRun

(* When only run_steps translates, the order of lru is the order in which  *)
(* the cached blocks last ran, so that the block insert() evicts is the    *)
(* one that has not run for longest, whatever the guest and the capacity.  *)
THEOREM LeastRecentlyRunGoesFirst ==
  ASSUME HostTranslatable = {}
  PROVE  HSpec => []EvictsLeastRecentlyRun
<1>1. OrderInv /\ [RunBlock \/ OtherStep]_hVars => OrderInv'
  BY OrderStep
<1>2. OrderInv => EvictsLeastRecentlyRun
  BY DEF OrderInv, EvictsLeastRecentlyRun
<1> QED
  BY OrderInit, <1>1, <1>2, PTL DEF HSpec
=============================================================================
