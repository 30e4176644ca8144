------------------------------ MODULE ChainRef ------------------------------
(***************************************************************************)
(* ChainRef of src/chain/src/chain.rs: threads that query blocks through   *)
(* an LRU cache while one thread changes the chain under the write lock.   *)
(* query takes three locks one after the other (cache, chain, cache) and   *)
(* holds none of them in between, so the chain and the cache may change    *)
(* between its sections.  The chain is the stack of blocks of Ledger.      *)
(***************************************************************************)
EXTENDS Ledger, Integers, Sequences, SequencesExt

CONSTANTS
    Reader,     \* threads that call query
    NoBlock,    \* Option::None
    CacheSize   \* BLOCK_CACHE_SIZE

ASSUME CacheAssumption == CacheSize \in Nat \ {0}

VARIABLES
    writing,    \* the write lock of the chain is held
    cache,      \* block_cache, the most recently used block first
    at,         \* where each reader stands in query
    hash,       \* the argument of query
    result,     \* chain_result, then the value returned
    \* History, which no step reads:
    committed,  \* the blocks that were ever stored while the lock was free
    steady      \* the queried block was stored ever since the query began

chain == <<blocks, top, writing, committed>>
vars == <<chain, cache, at, hash, result, steady>>

RefInit ==
    /\ Init /\ writing = FALSE /\ committed = {}
    /\ cache = <<>>
    /\ at = [r \in Reader |-> "idle"]
    /\ hash = [r \in Reader |-> NoBlock]
    /\ result = [r \in Reader |-> NoBlock]
    /\ steady = [r \in Reader |-> FALSE]

\* LruCache (external): get moves the entry to the front; put adds it at the
\* front and evicts the last one of a full cache.
Cached(h) == h \in Range(cache)
Used(h) == <<h>> \o RemoveFirst(cache, h)
Evict(s) == SubSeq(s, 1, IF Len(s) > CacheSize THEN CacheSize ELSE Len(s))

-----------------------------------------------------------------------------
(***************************************************************************)
(* The writer: append_block under chain.write().                           *)
(***************************************************************************)
Watch == steady' = [r \in Reader |-> steady[r] /\ hash[r] \in blocks']

Lock ==
    /\ ~writing /\ writing' = TRUE
    /\ UNCHANGED <<blocks, top, committed, cache, at, hash, result, steady>>

Change ==
    /\ writing /\ Next /\ Watch
    /\ UNCHANGED <<writing, committed, cache, at, hash, result>>

Unlock ==
    /\ writing /\ writing' = FALSE
    /\ committed' = committed \cup blocks
    /\ UNCHANGED <<blocks, top, cache, at, hash, result, steady>>

-----------------------------------------------------------------------------
(***************************************************************************)
(* query, one action per section.                                          *)
(***************************************************************************)
Query(r, h) ==
    /\ at[r] = "idle"
    /\ at' = [at EXCEPT ![r] = "cache"]
    /\ hash' = [hash EXCEPT ![r] = h]
    /\ result' = [result EXCEPT ![r] = NoBlock]
    /\ steady' = [steady EXCEPT ![r] = h \in blocks]
    /\ UNCHANGED <<chain, cache>>

LookInCache(r) ==
    /\ at[r] = "cache"
    /\ IF Cached(hash[r])
       THEN /\ cache' = Used(hash[r])
            /\ result' = [result EXCEPT ![r] = hash[r]]
            /\ at' = [at EXCEPT ![r] = "done"]
       ELSE /\ at' = [at EXCEPT ![r] = "chain"]
            /\ UNCHANGED <<cache, result>>
    /\ UNCHANGED <<chain, hash, steady>>

\* chain.read() waits for the writer; Chain::query reads the db.
\* Mutant: the lock is not taken.
CanReadAlways == TRUE
CanRead == ~writing

ReadChain(r) ==
    /\ at[r] = "chain" /\ CanRead
    /\ IF hash[r] \in blocks
       THEN /\ result' = [result EXCEPT ![r] = hash[r]]
            /\ at' = [at EXCEPT ![r] = "put"]
       ELSE /\ at' = [at EXCEPT ![r] = "done"]
            /\ UNCHANGED result
    /\ UNCHANGED <<chain, cache, hash, steady>>

\* Mutant of PutInCache: it waits until the block is not cached.
PutInCacheIfAbsent(r) ==
    /\ at[r] = "put" /\ ~Cached(hash[r])
    /\ cache' = Evict(Used(hash[r]))
    /\ at' = [at EXCEPT ![r] = "done"]
    /\ UNCHANGED <<chain, hash, result, steady>>

\* The cache.get of the check also moves the entry to the front.
PutInCache(r) ==
    /\ at[r] = "put"
    /\ cache' = IF Cached(hash[r]) THEN Used(hash[r]) ELSE Evict(Used(hash[r]))
    /\ at' = [at EXCEPT ![r] = "done"]
    /\ UNCHANGED <<chain, hash, result, steady>>

\* The caller takes the result.
Return(r) ==
    /\ at[r] = "done"
    /\ at' = [at EXCEPT ![r] = "idle"]
    /\ hash' = [hash EXCEPT ![r] = NoBlock]
    /\ result' = [result EXCEPT ![r] = NoBlock]
    /\ steady' = [steady EXCEPT ![r] = FALSE]
    /\ UNCHANGED <<chain, cache>>

ReaderStep(r) == LookInCache(r) \/ ReadChain(r) \/ PutInCache(r) \/ Return(r)

RefNext ==
    \/ Lock \/ Change \/ Unlock
    \/ \E r \in Reader : ReaderStep(r) \/ \E h \in Block : Query(r, h)

RefSpec == RefInit /\ [][RefNext]_vars

\* append_block returns, so the writer unlocks; parking_lot's RwLock does not
\* let writers overtake a waiting reader for ever, so a reader that finds the
\* lock free again and again gets it.
FairRefSpec ==
    /\ RefSpec
    /\ WF_vars(Unlock)
    /\ \A r \in Reader : SF_vars(ReadChain(r))
                         /\ WF_vars(LookInCache(r) \/ PutInCache(r) \/ Return(r))

-----------------------------------------------------------------------------

\* A query answers with the block it was asked for, and only with a block that
\* was canonical when no append was running: a block that a switch wrote or
\* removed half-way through is never seen, not through the cache either.
ReadsCommitted ==
    /\ \A r \in Reader : result[r] # NoBlock => result[r] = hash[r] /\ result[r] \in committed
    /\ Range(cache) \subseteq committed

\* A query answers None only if the block was missing at some time during the
\* query: neither the cache nor the gaps between the locks hide a block.
NoFalseMiss == \A r \in Reader : at[r] = "done" /\ steady[r] => result[r] = hash[r]

\* ChainRef::query answers as if it had looked at the chain once, between two
\* appends, although it takes three locks one after another.
AnswersCommitted == ReadsCommitted /\ NoFalseMiss

\* Every query returns, whatever the writer does.
QueryReturns == \A r \in Reader : at[r] # "idle" ~> at[r] = "idle"
=============================================================================
