--------------------------- MODULE ChainRefProofs ---------------------------
(***************************************************************************)
(* Proofs about ChainRef, for every number of readers, every set of blocks *)
(* and every size of the cache: a query answers as if it had looked at the *)
(* chain once, between two appends.                                        *)
(***************************************************************************)
EXTENDS ChainRef, SequenceTheorems, NaturalsInduction, WellFoundedInduction, TLAPS

-----------------------------------------------------------------------------
(***************************************************************************)
(* The cache.                                                              *)
(***************************************************************************)

\* A nonempty set of natural numbers has a least element, which Min returns.
LEMMA MinOfNaturals ==
    ASSUME NEW S \in SUBSET Nat, S # {}
    PROVE  Min(S) \in S
<1>1. PICK m \in S : \A y \in S : <<y, m>> \notin OpToRel(<, Nat)
    BY NatLessThanWellFounded, WFMin
<1>2. \A y \in Nat : y < m => <<y, m>> \in OpToRel(<, Nat)
    BY Zenon DEF OpToRel
<1>3. \A y \in S : ~(y < m)
    BY <1>1, <1>2, Zenon
<1>4. \A y \in S : m <= y
    BY <1>3
<1> QED
    BY <1>4 DEF Min

\* Taking an entry out of the cache leaves entries of the cache.
LEMMA RemoveFirstRange ==
    ASSUME NEW S, NEW s \in Seq(S), NEW e
    PROVE  RemoveFirst(s, e) \in Seq(S) /\ Range(RemoveFirst(s, e)) \subseteq Range(s)
<1> DEFINE I == {i \in 1 .. Len(s) : s[i] = e}
<1>1. CASE I = {}
    BY <1>1 DEF RemoveFirst
<1>2. CASE I # {}
    <2>1. PICK k : k = Min(I)
        OBVIOUS
    <2>2. k \in 1 .. Len(s)
        <3>1. I \in SUBSET Nat
            OBVIOUS
        <3>2. k \in I
            BY <1>2, <2>1, <3>1, MinOfNaturals
        <3> QED
            BY <3>2
    <2>3. RemoveFirst(s, e) = SubSeq(s, 1, k - 1) \o SubSeq(s, k + 1, Len(s))
        BY <1>2, <2>1 DEF RemoveFirst, SelectInSeq, RemoveAt
    <2>4. SubSeq(s, 1, k - 1) \in Seq(S) /\ SubSeq(s, k + 1, Len(s)) \in Seq(S)
        BY <2>2
    <2>5. Range(SubSeq(s, 1, k - 1)) \subseteq Range(s)
        BY <2>2 DEF Range
    <2>6. Range(SubSeq(s, k + 1, Len(s))) \subseteq Range(s)
        BY <2>2 DEF Range
    <2>7. PICK a, b \in Seq(S) : /\ RemoveFirst(s, e) = a \o b
                                 /\ Range(a) \subseteq Range(s) /\ Range(b) \subseteq Range(s)
        BY <2>3, <2>4, <2>5, <2>6, Zenon
    <2>8. Range(a \o b) = Range(a) \cup Range(b)
        BY RangeConcatenation, SMT
    <2> QED
        BY <2>7, <2>8
<1> QED
    BY <1>1, <1>2

\* LruCache::get moves an entry and adds none.
LEMMA UsedRange ==
    ASSUME NEW h \in Block, cache \in Seq(Block)
    PROVE  Used(h) \in Seq(Block) /\ Range(Used(h)) \subseteq Range(cache) \cup {h}
<1>1. PICK rest \in Seq(Block) : rest = RemoveFirst(cache, h) /\ Range(rest) \subseteq Range(cache)
    BY RemoveFirstRange
<1>2. Used(h) = <<h>> \o rest
    BY <1>1 DEF Used
<1>3. <<h>> \in Seq(Block) /\ Range(<<h>>) \subseteq {h}
    BY DEF Range
<1>4. PICK first \in Seq(Block) : first = <<h>> /\ Range(first) \subseteq {h}
    BY <1>3, Zenon
<1>5. Range(first \o rest) = Range(first) \cup Range(rest)
    BY RangeConcatenation, SMT
<1>6. first \o rest \in Seq(Block)
    OBVIOUS
<1> QED
    BY <1>1, <1>2, <1>4, <1>5, <1>6, Zenon

\* LruCache::put only drops entries.
LEMMA EvictRange ==
    ASSUME NEW s \in Seq(Block)
    PROVE  Evict(s) \in Seq(Block) /\ Range(Evict(s)) \subseteq Range(s)
<1>1. PICK n \in 0 .. Len(s) : Evict(s) = SubSeq(s, 1, n)
    BY CacheAssumption DEF Evict
<1> QED
    BY <1>1 DEF Range

-----------------------------------------------------------------------------
(***************************************************************************)
(* The queries.                                                            *)
(***************************************************************************)

\* What a query knows, section by section: the argument is a block until the
\* caller has the answer; after the read, the block was committed; a block that
\* was stored all along is stored now; a query that ends has found it.
QueryOK(r) ==
    /\ at[r] # "idle" => hash[r] \in Block
    /\ at[r] \in {"idle", "cache", "chain"} => result[r] = NoBlock
    /\ at[r] = "put" => result[r] = hash[r] /\ hash[r] \in committed
    /\ at[r] = "done" /\ result[r] # NoBlock => result[r] = hash[r] /\ hash[r] \in committed
    /\ at[r] = "done" /\ steady[r] => result[r] = hash[r]
    /\ steady[r] => hash[r] \in blocks

\* The inductive invariant.
RefInv ==
    /\ writing \in BOOLEAN
    /\ blocks \subseteq Block
    /\ ~writing => blocks \subseteq committed
    /\ cache \in Seq(Block) /\ Range(cache) \subseteq committed
    /\ at \in [Reader -> {"idle", "cache", "chain", "put", "done"}]
    /\ hash \in [Reader -> Block \cup {NoBlock}]
    /\ result \in [Reader -> Block \cup {NoBlock}]
    /\ steady \in [Reader -> BOOLEAN]
    /\ \A r \in Reader : QueryOK(r)

\* A reader's step leaves the other readers' queries alone.
LEMMA OthersKeep ==
    ASSUME RefInv, NEW r \in Reader, UNCHANGED chain,
           at' = [at EXCEPT ![r] = at'[r]], hash' = [hash EXCEPT ![r] = hash'[r]],
           result' = [result EXCEPT ![r] = result'[r]], steady' = [steady EXCEPT ![r] = steady'[r]]
    PROVE  \A q \in Reader \ {r} : QueryOK(q)'
<1> SUFFICES ASSUME NEW q \in Reader \ {r} PROVE QueryOK(q)'
    OBVIOUS
<1>1. at'[q] = at[q] /\ hash'[q] = hash[q] /\ result'[q] = result[q] /\ steady'[q] = steady[q]
    BY DEF RefInv
<1>2. committed' = committed /\ blocks' = blocks
    BY DEF chain
<1>3. QueryOK(q)
    BY DEF RefInv
<1> QED
    BY <1>1, <1>2, <1>3, Zenon DEF QueryOK

\* A query that begins keeps the invariant.
LEMMA QueryKeeps == ASSUME RefInv, NEW r \in Reader, NEW h \in Block, Query(r, h) PROVE RefInv'
<1>1. \A q \in Reader \ {r} : QueryOK(q)'
    <2>1. /\ at' = [at EXCEPT ![r] = at'[r]] /\ hash' = [hash EXCEPT ![r] = hash'[r]]
          /\ result' = [result EXCEPT ![r] = result'[r]] /\ steady' = [steady EXCEPT ![r] = steady'[r]]
        BY DEF Query, RefInv
    <2> QED
        BY <2>1, OthersKeep DEF Query
<1>2. QueryOK(r)'
    BY DEF Query, RefInv, QueryOK, chain
<1> QED
    BY <1>1, <1>2 DEF Query, RefInv, chain

\* The look into block_cache keeps the invariant.
LEMMA LookKeeps == ASSUME RefInv, NEW r \in Reader, LookInCache(r) PROVE RefInv'
<1>1. \A q \in Reader \ {r} : QueryOK(q)'
    <2>1. /\ at' = [at EXCEPT ![r] = at'[r]] /\ hash' = [hash EXCEPT ![r] = hash'[r]]
          /\ result' = [result EXCEPT ![r] = result'[r]] /\ steady' = [steady EXCEPT ![r] = steady'[r]]
        BY DEF LookInCache, RefInv
    <2> QED
        BY <2>1, OthersKeep DEF LookInCache
<1>2. QueryOK(r) /\ hash[r] \in Block
    BY DEF RefInv, QueryOK, LookInCache
<1>3. QueryOK(r)'
    BY <1>2 DEF LookInCache, RefInv, QueryOK, chain, Cached
<1>4. cache' \in Seq(Block) /\ Range(cache') \subseteq committed
    <2>1. CASE Cached(hash[r])
        BY <1>2, <2>1, UsedRange DEF LookInCache, RefInv, Cached
    <2>2. CASE ~Cached(hash[r])
        BY <2>2 DEF LookInCache, RefInv
    <2> QED
        BY <2>1, <2>2
<1>5. at' \in [Reader -> {"idle", "cache", "chain", "put", "done"}] /\ result' \in [Reader -> Block \cup {NoBlock}]
    BY <1>2 DEF LookInCache, RefInv
<1> QED
    BY <1>1, <1>3, <1>4, <1>5 DEF LookInCache, RefInv, chain

\* The read of the chain under its lock keeps the invariant.
LEMMA ReadKeeps == ASSUME RefInv, NEW r \in Reader, ReadChain(r) PROVE RefInv'
<1>1. \A q \in Reader \ {r} : QueryOK(q)'
    <2>1. /\ at' = [at EXCEPT ![r] = at'[r]] /\ hash' = [hash EXCEPT ![r] = hash'[r]]
          /\ result' = [result EXCEPT ![r] = result'[r]] /\ steady' = [steady EXCEPT ![r] = steady'[r]]
        BY DEF ReadChain, RefInv
    <2> QED
        BY <2>1, OthersKeep DEF ReadChain
<1>2. QueryOK(r) /\ hash[r] \in Block
    BY DEF RefInv, QueryOK, ReadChain
<1>3. QueryOK(r)'
    BY <1>2 DEF ReadChain, RefInv, QueryOK, chain, CanRead
<1>4. at' \in [Reader -> {"idle", "cache", "chain", "put", "done"}] /\ result' \in [Reader -> Block \cup {NoBlock}]
    BY <1>2 DEF ReadChain, RefInv
<1> QED
    BY <1>1, <1>3, <1>4 DEF ReadChain, RefInv, chain

\* The insertion into block_cache keeps the invariant.
LEMMA PutKeeps == ASSUME RefInv, NEW r \in Reader, PutInCache(r) PROVE RefInv'
<1>1. \A q \in Reader \ {r} : QueryOK(q)'
    <2>1. /\ at' = [at EXCEPT ![r] = at'[r]] /\ hash' = [hash EXCEPT ![r] = hash'[r]]
          /\ result' = [result EXCEPT ![r] = result'[r]] /\ steady' = [steady EXCEPT ![r] = steady'[r]]
        BY DEF PutInCache, RefInv
    <2> QED
        BY <2>1, OthersKeep DEF PutInCache
<1>2. QueryOK(r) /\ hash[r] \in Block
    BY DEF RefInv, QueryOK, PutInCache
<1>3. QueryOK(r)'
    BY <1>2 DEF PutInCache, RefInv, QueryOK, chain
<1>4. cache' \in Seq(Block) /\ Range(cache') \subseteq committed
    <2>1. PICK u \in Seq(Block) : u = Used(hash[r]) /\ Range(u) \subseteq Range(cache) \cup {hash[r]}
        BY <1>2, UsedRange DEF RefInv
    <2>2. Evict(u) \in Seq(Block) /\ Range(Evict(u)) \subseteq Range(u)
        BY EvictRange
    <2>3. Range(u) \subseteq committed
        BY <1>2, <2>1 DEF RefInv, QueryOK, PutInCache
    <2>4. cache' = u \/ cache' = Evict(u)
        BY <2>1 DEF PutInCache
    <2> QED
        BY <2>1, <2>2, <2>3, <2>4
<1>5. at' \in [Reader -> {"idle", "cache", "chain", "put", "done"}]
    BY DEF PutInCache, RefInv
<1> QED
    BY <1>1, <1>3, <1>4, <1>5 DEF PutInCache, RefInv, chain

\* The answer keeps the invariant.
LEMMA ReturnKeeps == ASSUME RefInv, NEW r \in Reader, Return(r) PROVE RefInv'
<1>1. \A q \in Reader \ {r} : QueryOK(q)'
    <2>1. /\ at' = [at EXCEPT ![r] = at'[r]] /\ hash' = [hash EXCEPT ![r] = hash'[r]]
          /\ result' = [result EXCEPT ![r] = result'[r]] /\ steady' = [steady EXCEPT ![r] = steady'[r]]
        BY DEF Return, RefInv
    <2> QED
        BY <2>1, OthersKeep DEF Return
<1>2. QueryOK(r)'
    BY DEF Return, RefInv, QueryOK
<1> QED
    BY <1>1, <1>2 DEF Return, RefInv, chain

\* The writer changes the stored blocks only under the lock, and gives it back
\* only after it committed them.
LEMMA WriterKeeps == ASSUME RefInv, Lock \/ Change \/ Unlock PROVE RefInv'
<1>1. CASE Lock
    BY <1>1, Zenon DEF Lock, RefInv, QueryOK
<1>2. CASE Unlock
    <2>1. \A r \in Reader : QueryOK(r)'
        BY <1>2 DEF Unlock, RefInv, QueryOK
    <2> QED
        BY <1>2, <2>1 DEF Unlock, RefInv
<1>3. CASE Change
    <2>1. blocks' \subseteq Block
        BY <1>3 DEF Change, Next, Push, Pop, RefInv
    <2>2. steady' \in [Reader -> BOOLEAN]
        BY <1>3 DEF Change, Watch, RefInv
    <2>3. \A r \in Reader : steady'[r] => steady[r] /\ hash[r] \in blocks'
        BY <1>3 DEF Change, Watch
    <2>4. \A r \in Reader : QueryOK(r)'
        BY <1>3, <2>3 DEF Change, RefInv, QueryOK
    <2> QED
        BY <1>3, <2>1, <2>2, <2>4 DEF Change, RefInv
<1> QED
    BY <1>1, <1>2, <1>3

\* Every step keeps the invariant.
LEMMA RefStep == RefInv /\ [RefNext]_vars => RefInv'
<1> SUFFICES ASSUME RefInv, [RefNext]_vars PROVE RefInv'
    OBVIOUS
<1>1. CASE Lock \/ Change \/ Unlock
    BY <1>1, WriterKeeps
<1>2. ASSUME NEW r \in Reader, ReaderStep(r) PROVE RefInv'
    BY <1>2, LookKeeps, ReadKeeps, PutKeeps, ReturnKeeps DEF ReaderStep
<1>3. ASSUME NEW r \in Reader, NEW h \in Block, Query(r, h) PROVE RefInv'
    BY <1>3, QueryKeeps
<1>4. CASE UNCHANGED vars
    BY <1>4, Zenon DEF vars, chain, RefInv, QueryOK
<1> QED
    BY <1>1, <1>2, <1>3, <1>4, Zenon DEF RefNext

\* ChainRef::query answers as if it had looked at the chain once, between two
\* appends: with a block that was stored while no append ran, and with None only
\* if the block was missing at some time during the query.
THEOREM QueriesCommitted == RefSpec => []AnswersCommitted
<1>1. RefInit => RefInv
    <2> SUFFICES ASSUME RefInit PROVE RefInv
        OBVIOUS
    <2>1. cache \in Seq(Block) /\ Range(cache) = {}
        BY DEF RefInit, Range
    <2> QED
        BY <2>1 DEF RefInit, Init, RefInv, QueryOK
<1>2. RefInv => AnswersCommitted
    <2> SUFFICES ASSUME RefInv, NEW r \in Reader
                 PROVE  /\ result[r] # NoBlock => result[r] = hash[r] /\ result[r] \in committed
                        /\ at[r] = "done" /\ steady[r] => result[r] = hash[r]
        BY DEF AnswersCommitted, ReadsCommitted, NoFalseMiss, RefInv
    <2>1. QueryOK(r) /\ at[r] \in {"idle", "cache", "chain", "put", "done"}
        BY DEF RefInv
    <2> QED
        BY <2>1 DEF QueryOK
<1> QED
    BY <1>1, <1>2, RefStep, PTL DEF RefSpec
=============================================================================
