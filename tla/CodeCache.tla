------------------------------ MODULE CodeCache ------------------------------
(***************************************************************************)
(* The cache of compiled blocks, src/core/cache.rs, with the code buffers  *)
(* its entries own: a CompiledBlock (src/core/jit_ffi.rs) holds memory     *)
(* mapped by jit_emit_block and unmaps it when it is dropped.              *)
(*                                                                         *)
(* The client is any caller of the public methods: it may touch a block    *)
(* that is absent and insert a block for a guest address that is already   *)
(* cached, as a second GuestSystem::translate_block_at of the same address *)
(* does.                                                                   *)
(***************************************************************************)
EXTENDS Naturals, Sequences, FiniteSets, SequencesExt

CONSTANTS
  Pc,         \* guest addresses of blocks
  Buffer,     \* mapped code buffers
  CodeLens,   \* the code lengths a block may have
  MaxBytes,   \* max_bytes
  UsedBound,  \* bound of used_bytes, which repeated insertions grow
  NoBlock     \* no insertion, or translation, in progress

ASSUME SizesAssumption ==
  /\ CodeLens \subseteq Nat \ {0}
  /\ MaxBytes \in Nat
  /\ UsedBound \in Nat

VARIABLES
  blocks,      \* HashMap pc -> CompiledBlock
  lru,         \* VecDeque of pcs, least recently used first
  used_bytes,
  incoming,    \* the block insert() was called with, and its pc
  mapped       \* buffers mapped and not yet freed

cacheVars == <<blocks, lru, used_bytes, incoming, mapped>>

CompiledBlock == [buf : Buffer, code_len : CodeLens]
Insertion == [pc : Pc, buf : Buffer, code_len : CodeLens]

ASSUME NoBlockAssumption == NoBlock \notin Insertion

(* Faulty, for the mutation runs: the entry stays; only its value goes.    *)
KeepEntry(f, p) == f
BlankEntry(f, p) == [f EXCEPT ![p] = NoBlock]

(* Without the entry of p.                                                 *)
Without(f, p) == [x \in DOMAIN f \ {p} |-> f[x]]

Positions(p) == {n \in 1..Len(lru) : lru[n] = p}

(* Faulty: the entry stays in place; the entry is lost.                    *)
Unmoved(n, p) == lru
Dropped(n, p) == RemoveAt(lru, n)

(* Entry n of lru, p, becomes the most recently used.                      *)
MovedToBack(n, p) == Append(RemoveAt(lru, n), p)

(* Faulty: nothing is subtracted.                                          *)
NotSub(a, b) == a

SaturatingSub(a, b) == IF b <= a THEN a - b ELSE 0

CacheInit ==
  /\ blocks = [p \in {} |-> NoBlock]
  /\ lru = <<>>
  /\ used_bytes = 0
  /\ incoming = NoBlock
  /\ mapped = {}

(* lookup: no state changes.                                               *)
Cached(p) == p \in DOMAIN blocks

(* touch: the first occurrence of p moves to the back, if there is one.    *)
Touch(p) ==
  /\ incoming = NoBlock
  /\ \/ Positions(p) = {} /\ UNCHANGED lru
     \/ \E n \in Positions(p) :
          /\ \A j \in Positions(p) : n <= j
          /\ lru' = MovedToBack(n, p)
  /\ UNCHANGED <<blocks, used_bytes, incoming, mapped>>

(* The caller has a freshly mapped block and passes it to insert().        *)
BeginInsert(p, b, len) ==
  /\ incoming = NoBlock
  /\ b \notin mapped
  /\ used_bytes + len <= UsedBound
  /\ incoming' = [pc |-> p, buf |-> b, code_len |-> len]
  /\ mapped' = mapped \cup {b}
  /\ UNCHANGED <<blocks, lru, used_bytes>>

(* Faulty: the size of the new block is not counted; everything goes.      *)
MustEvictOverfull == incoming # NoBlock /\ used_bytes > MaxBytes /\ lru # <<>>
MustEvictAlways == incoming # NoBlock /\ lru # <<>>

(* The condition of the loop of insert().                                  *)
MustEvict ==
  /\ incoming # NoBlock
  /\ used_bytes + incoming.code_len > MaxBytes
  /\ lru # <<>>

(* Faulty: front() for pop_front().                                        *)
EvictNothing == MustEvict /\ UNCHANGED cacheVars

(* One iteration of the loop of insert(): the front of lru goes, and with  *)
(* it the block, whose drop frees its buffer, if it is still cached.       *)
Evict ==
  /\ MustEvict
  /\ lru' = Tail(lru)
  /\ LET old == Head(lru)
     IN  IF old \in DOMAIN blocks
           THEN /\ blocks' = Without(blocks, old)
                /\ used_bytes' = SaturatingSub(used_bytes, blocks[old].code_len)
                /\ mapped' = mapped \ {blocks[old].buf}
           ELSE UNCHANGED <<blocks, used_bytes, mapped>>
  /\ UNCHANGED incoming

(* The rest of insert(): a block already cached for this pc is dropped by  *)
(* the HashMap.                                                            *)
Commit ==
  /\ incoming # NoBlock
  /\ ~MustEvict
  /\ used_bytes' = used_bytes + incoming.code_len
  /\ lru' = Append(lru, incoming.pc)
  /\ blocks' = [p \in DOMAIN blocks \cup {incoming.pc} |->
                  IF p = incoming.pc
                    THEN [buf |-> incoming.buf, code_len |-> incoming.code_len]
                    ELSE blocks[p]]
  /\ mapped' = IF Cached(incoming.pc)
                 THEN mapped \ {blocks[incoming.pc].buf}
                 ELSE mapped
  /\ incoming' = NoBlock

CacheNext ==
  \/ \E p \in Pc : Touch(p)
  \/ \E p \in Pc, b \in Buffer, len \in CodeLens : BeginInsert(p, b, len)
  \/ Evict
  \/ Commit

CacheSpec == CacheInit /\ [][CacheNext]_cacheVars /\ WF_cacheVars(Evict \/ Commit)

-----------------------------------------------------------------------------
(* The bytes of machine code of the blocks f, each named by its block and  *)
(* its place in the code, and how many are cached.                         *)
CodeBytes(f) == UNION {{p} \X (1..f[p].code_len) : p \in DOMAIN f}
TotalBytes == Cardinality(CodeBytes(blocks))

CacheTypeOK ==
  /\ blocks = [p \in DOMAIN blocks |-> blocks[p]]
  /\ DOMAIN blocks \subseteq Pc
  /\ \A p \in DOMAIN blocks : blocks[p] \in CompiledBlock
  /\ lru \in Seq(Pc)
  /\ used_bytes \in Nat
  /\ incoming \in Insertion \cup {NoBlock}
  /\ mapped \subseteq Buffer

(* Every mapped buffer has exactly one owner, a cached block or the one    *)
(* being inserted: eviction and replacement neither leak a buffer nor free *)
(* one that a block still points to.                                       *)
OwnedOnce ==
  /\ mapped = {blocks[p].buf : p \in DOMAIN blocks}
                \cup (IF incoming = NoBlock THEN {} ELSE {incoming.buf})
  /\ \A p, q \in DOMAIN blocks : blocks[p].buf = blocks[q].buf => p = q
  /\ incoming # NoBlock => \A p \in DOMAIN blocks : blocks[p].buf # incoming.buf

(* Every cached block can be reached by eviction, even after its pc was    *)
(* inserted twice and one of its two lru entries evicted the newer block.  *)
EvictableBlocks == \A p \in DOMAIN blocks : \E n \in 1..Len(lru) : lru[n] = p

(* used_bytes never falls below what is cached, so its saturating_sub      *)
(* never saturates and the limit is never exceeded unnoticed.              *)
NeverUnderCounted == used_bytes >= TotalBytes

(* Once an insertion is over, what is cached fits in max_bytes, unless it  *)
(* is one block that alone does not.                                       *)
WithinCapacity ==
  incoming = NoBlock => TotalBytes <= MaxBytes \/ Cardinality(DOMAIN blocks) <= 1

(* Blocks go only from the front of lru and only while the limit is        *)
(* exceeded, or by being replaced by a block for the same pc.              *)
EvictsFromFront ==
  [][\A p \in DOMAIN blocks :
       \/ p \in DOMAIN blocks' /\ (blocks'[p] = blocks[p] \/ incoming.pc = p)
       \/ /\ lru[1] = p
          /\ used_bytes + incoming.code_len > MaxBytes]_cacheVars

(* insert() returns: the loop runs out of blocks or of excess.             *)
InsertReturns == (incoming # NoBlock) ~> (incoming = NoBlock)

(* Ownership and reachability of the cached blocks are inductive together  *)
(* with the types.                                                         *)
CacheInv == CacheTypeOK /\ OwnedOnce /\ EvictableBlocks
=============================================================================
