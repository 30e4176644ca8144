------------------------------- MODULE Orphans ------------------------------
(***************************************************************************)
(* The in-memory maps of the generic chain of src/chain/src/chain.rs: the  *)
(* orphan pool, the maps that say which orphans hang on the canonical      *)
(* chain and which on a block that is still missing, and the helpers that  *)
(* append_block, attempt_switch and rewind change them with.  Chain runs   *)
(* the helpers between its writes to the database.                         *)
(***************************************************************************)
EXTENDS Integers, FiniteSets, FiniteSetsExt

CONSTANTS
    Block,       \* the blocks that may ever be received, named by their hash
    Genesis,     \* B::genesis(); it is never stored in the db
    NoBlock,     \* Option::None where a block is expected
    Parent,      \* parent_hash of every block
    Height       \* the height field of every block and of Genesis

ASSUME GenesisAssumption ==
    /\ Genesis \notin Block
    /\ NoBlock \notin Block \cup {Genesis}

ASSUME ParentAssumption == Parent \in [Block -> Block \cup {Genesis, NoBlock}]

ASSUME HeightAssumption ==
    /\ Height \in [Block \cup {Genesis} -> Nat]
    /\ Height[Genesis] = 0

ASSUME FiniteAssumption == IsFiniteSet(Block)

\* Up[n][b] is the block reached from b by following parent_hash n times.
\* Ancestor is the same function tabulated.
Distance == 1 .. Cardinality(Block)
Up[n \in {0} \cup Distance] ==
    [b \in Block \cup {Genesis, NoBlock} |->
        IF n = 0 THEN b
        ELSE LET a == Up[n - 1][b] IN IF a \in Block THEN Parent[a] ELSE NoBlock]
Ancestor == [n \in {0} \cup Distance |-> [b \in Block \cup {Genesis, NoBlock} |-> Up[n][b]]]

\* parent_hash is a hash of the parent's contents, so following it never
\* comes back to the same block.
ASSUME AcyclicAssumption == \A b \in Block : \A n \in Distance : Ancestor[n][b] # b

\* A height field may be wrong, but no block has the height of its parent (the
\* order in which process_orphans visits one height would matter).
ASSUME SiblingsAssumption ==
    \A b \in Block : Parent[b] # NoBlock => Height[b] # Height[Parent[b]]

OrphanType ==
    {"BelongsToDisconnected", "BelongsToValidChain", "ValidChainTip", "DisconnectedTip"}

NoHeight == -1   \* Option::None for max_orphan_height

\* Partial maps: HashMap with keys in K and values in V.
IsMap(f, K, V) == DOMAIN f \subseteq K /\ f \in [DOMAIN f -> V]

EmptyMap == [b \in {} |-> b]
Override(f, g) ==   \* f where it is defined, g elsewhere
    [x \in DOMAIN f \cup DOMAIN g |-> IF x \in DOMAIN f THEN f[x] ELSE g[x]]
Put(f, k, v) == Override([x \in {k} |-> v], f)
Drop(f, K) == Restrict(f, DOMAIN f \ K)
Mark(S, v) == [x \in S |-> v]

\* heights_mapping maps a height to a map from the orphans of that height to
\* their inverse heights.  A block is only ever filed under its own height, so
\* the two levels are kept apart: `heights` is the set of keys (a key stays
\* when its last orphan leaves), `inverse` the inner maps together.
\* disconnected_heads_heights stores a tip with its height; the height is the
\* tip's and is left out.
IsMemory(m) ==
    /\ m.orphan_pool \subseteq Block
    /\ m.max_orphan_height \in Nat \cup {NoHeight}
    /\ m.heights \subseteq Nat
    /\ IsMap(m.inverse, Block, Nat)
    /\ IsMap(m.validations_mapping, Block, OrphanType)
    /\ IsMap(m.disconnected_heads_mapping, Block, SUBSET Block)
    /\ IsMap(m.disconnected_heads_heights, Block, Block)
    /\ IsMap(m.disconnected_tips_mapping, Block, Block)
    /\ m.valid_tips \subseteq Block

EmptyMemory ==
    [orphan_pool |-> {}, max_orphan_height |-> NoHeight, heights |-> {}, inverse |-> EmptyMap,
     validations_mapping |-> EmptyMap, disconnected_heads_mapping |-> EmptyMap,
     disconnected_heads_heights |-> EmptyMap, disconnected_tips_mapping |-> EmptyMap,
     valid_tips |-> {}]

-----------------------------------------------------------------------------
(***************************************************************************)
(* Helpers on the in-memory maps.  Each takes the maps m and returns the   *)
(* updated maps; its ...Ok companion says that none of the helper's        *)
(* unwraps and asserts fails on m.                                         *)
(***************************************************************************)

update_max_orphan_height(m, h) ==
    [m EXCEPT !.max_orphan_height = IF h > @ THEN h ELSE @]

\* The distances at which the parents of b are found in the pool, up to the
\* first parent that is not.
PoolDistances(m, b) ==
    {n \in Distance : \A k \in 1 .. n : Ancestor[k][b] \in m.orphan_pool}
PoolAncestors(m, b) == {Ancestor[n][b] : n \in PoolDistances(m, b)}

\* Mutant of write_orphan: the tip of a valid chain is not put in valid_tips.
write_orphanNoTip(m, b, type, inverse) ==
    LET filed == [m EXCEPT !.orphan_pool = @ \cup {b},
                           !.heights = @ \cup {Height[b]},
                           !.inverse = IF b \in DOMAIN @ THEN @ ELSE Put(@, b, inverse),
                           !.validations_mapping = Put(@, b, type)]
    IN update_max_orphan_height(filed, Height[b])

write_orphan(m, b, type, inverse) ==
    LET filed == [m EXCEPT !.orphan_pool = @ \cup {b},
                           !.heights = @ \cup {Height[b]},
                           !.inverse = IF b \in DOMAIN @ THEN @ ELSE Put(@, b, inverse),
                           !.validations_mapping = Put(@, b, type),
                           !.valid_tips = IF type = "ValidChainTip" THEN @ \cup {b} ELSE @]
    IN update_max_orphan_height(filed, Height[b])

\* The loop of recurse_inverse: walking up from every block of T, an ancestor
\* in the pool gets at least the inverse height start + its distance.
RaiseInverseOk(m, T) == UNION {PoolAncestors(m, t) : t \in T} \subseteq DOMAIN m.inverse
\* Mutant of RaiseInverse: only the parent of a tip is raised, the walk ends there.
RaiseInverseOfParent(m, T, start) ==
    LET raised == {Parent[t] : t \in T} \cap DOMAIN m.inverse
    IN [m EXCEPT !.inverse = Override([x \in raised |-> Max({@[x], start + 1})], @)]
RaiseInverse(m, T, start) ==
    LET reached(x) ==
            {start + n : n \in {n \in Distance :
                                   \E t \in T : n \in PoolDistances(m, t) /\ Ancestor[n][t] = x}}
    IN [m EXCEPT !.inverse = [x \in DOMAIN @ |-> Max({@[x]} \cup reached(x))]]

recurse_inverse(m, b, start, make_valid) ==
    [RaiseInverse(m, {b}, start) EXCEPT
        !.validations_mapping =
            IF make_valid
            THEN Put(Override(Mark(PoolAncestors(m, b), "BelongsToValidChain"), @),
                     b, "ValidChainTip")
            ELSE @]

\* make_valid_tips walks up from every tip of the head until it leaves the
\* pool or meets a block that already belongs to a valid chain.
WalkUntilValid(m, t) ==
    LET D == PoolDistances(m, t)
    IN {Ancestor[n][t] : n \in {n \in D :
            \A k \in 1 .. n : m.validations_mapping[Ancestor[k][t]] # "BelongsToValidChain"}}

make_valid_tipsOk(m, head) ==
    /\ head \in DOMAIN m.disconnected_heads_mapping
    /\ \A t \in m.disconnected_heads_mapping[head] :
          /\ t \in m.orphan_pool
          /\ {t} \cup PoolAncestors(m, t) \subseteq DOMAIN m.validations_mapping

make_valid_tips(m, head) ==
    LET tips == m.disconnected_heads_mapping[head]
        parents == UNION {WalkUntilValid(m, t) : t \in tips}
    IN [m EXCEPT
          !.disconnected_heads_mapping = Drop(@, {head}),
          !.disconnected_heads_heights = Drop(@, {head}),
          !.disconnected_tips_mapping = Drop(@, tips),
          !.validations_mapping = Override(Mark(parents, "BelongsToValidChain"),
                                           Override(Mark(tips, "ValidChainTip"), @)),
          !.valid_tips = @ \cup tips]

\* attempt_attach: the disconnected chains whose head follows the disconnected
\* tip b are merged into b's chain.
HeadsToAttach(m, b) ==
    {h \in DOMAIN m.disconnected_heads_mapping \ {m.disconnected_tips_mapping[b], b} :
        Parent[h] = b}
TipsToAttach(m, b) == UNION {m.disconnected_heads_mapping[h] : h \in HeadsToAttach(m, b)}

attempt_attachOk(m, b) ==
    /\ b \in DOMAIN m.disconnected_tips_mapping
    /\ DOMAIN m.disconnected_heads_mapping \ {m.disconnected_tips_mapping[b], b}
          \subseteq m.orphan_pool
    /\ HeadsToAttach(m, b) \subseteq DOMAIN m.disconnected_heads_heights
    /\ TipsToAttach(m, b) \subseteq m.orphan_pool
    /\ TipsToAttach(m, b) # {} =>
          m.disconnected_tips_mapping[b] \in DOMAIN m.disconnected_heads_heights
    /\ RaiseInverseOk(m, TipsToAttach(m, b))

\* The tip that replaces the one in disconnected_heads_heights (NoBlock if none
\* does): the tips come out of a HashSet, and among several of the greatest
\* height the first one stays.
\* Mutant: the recorded tip is never replaced.
LargestAttachedNone(m, b) == {NoBlock}
LargestAttached(m, b) ==
    LET old == m.disconnected_heads_heights[m.disconnected_tips_mapping[b]]
        higher == {t \in TipsToAttach(m, b) : Height[t] > Height[old]}
    IN IF higher = {} THEN {NoBlock}
       ELSE {t \in higher : \A u \in higher : Height[u] <= Height[t]}

\* The tips that stay tips of the head: the head itself is no tip any more.
OwnTips(m, head) ==
    IF head \in DOMAIN m.disconnected_heads_mapping
    THEN m.disconnected_heads_mapping[head] \ {head} ELSE {}

attempt_attach(m, b, largest) ==
    LET head == m.disconnected_tips_mapping[b]
        attached == HeadsToAttach(m, b)
        tips == TipsToAttach(m, b)
        merged == [m EXCEPT
            !.disconnected_heads_mapping = Put(Drop(@, attached), head, OwnTips(m, head) \cup tips),
            !.disconnected_heads_heights =
                IF largest = NoBlock THEN Drop(@, attached)
                ELSE Put(Drop(@, attached), head, largest),
            !.disconnected_tips_mapping = Override(Mark(tips, head), Drop(@, {head}))]
    IN IF attached = {} THEN m ELSE RaiseInverse(merged, tips, 0)

\* attempt_attach_valid: the head that follows the valid tip b and whose chain
\* is the highest (NoBlock if no head follows b).
HeadsFollowing(m, b) == {h \in DOMAIN m.disconnected_heads_heights : Parent[h] = b}
BestHeads(m, b) ==
    LET top(h) == Height[m.disconnected_heads_heights[h]]
    IN IF HeadsFollowing(m, b) = {} THEN {NoBlock}
       ELSE {h \in HeadsFollowing(m, b) : \A g \in HeadsFollowing(m, b) : top(g) <= top(h)}

NewTip(m, b, head) == IF head = NoBlock THEN b ELSE m.disconnected_heads_heights[head]

attempt_attach_validOk(m, b, head) ==
    /\ b \in m.valid_tips
    /\ \A h \in DOMAIN m.disconnected_heads_heights :
          /\ h \in DOMAIN m.disconnected_heads_mapping
          /\ m.disconnected_heads_heights[h] \in m.disconnected_heads_mapping[h]
          /\ h \in m.orphan_pool
    /\ head # NoBlock =>
          /\ make_valid_tipsOk(m, head)
          /\ NewTip(m, b, head) \in m.orphan_pool
          /\ Height[NewTip(m, b, head)] >= Height[b]
    /\ RaiseInverseOk(m, {NewTip(m, b, head)})

attempt_attach_valid(m, b, head) ==
    recurse_inverse(IF head = NoBlock THEN m ELSE make_valid_tips(m, head),
                    NewTip(m, b, head), 0, TRUE)

\* The in-memory part of write_block.
WrittenTips(m, b) ==
    IF b \in DOMAIN m.disconnected_heads_mapping
    THEN m.disconnected_heads_mapping[b] \ {b} ELSE {}

write_blockOk(m, b) ==
    LET out == [m EXCEPT !.orphan_pool = @ \ {b}]
    IN \A t \in WrittenTips(m, b) :
          /\ t \in out.orphan_pool
          /\ {t} \cup PoolAncestors(out, t) \subseteq DOMAIN m.validations_mapping

\* When the block was at the greatest orphan height, the next lower key of
\* heights_mapping becomes the greatest orphan height.
MaxAfterWrite(m, b) ==
    LET lower == {h \in m.heights : 0 < h /\ h < m.max_orphan_height}
    IN IF m.max_orphan_height # Height[b] THEN m.max_orphan_height
       ELSE IF lower = {} THEN NoHeight ELSE Max(lower)

\* The block leaves the pool and heights_mapping.
RemoveOrphan(m, b) == [m EXCEPT !.orphan_pool = @ \ {b}, !.inverse = Drop(@, {b})]

MemoryAfterWrite(m, b) ==
    LET out == RemoveOrphan(m, b)
        tips == WrittenTips(m, b)
        parents == UNION {PoolAncestors(out, t) : t \in tips}
    IN [out EXCEPT
          !.max_orphan_height = MaxAfterWrite(m, b),
          !.disconnected_heads_mapping = Drop(@, {b}),
          !.disconnected_heads_heights = Drop(@, {b}),
          !.disconnected_tips_mapping = Drop(@, {b} \cup tips),
          !.validations_mapping = Override(Mark(parents, "BelongsToValidChain"),
                                           Override(Mark(tips, "ValidChainTip"), @)),
          !.valid_tips = (@ \ {b}) \cup tips]

\* rewind: the block leaves the db and becomes an orphan: the old tip (inverse
\* height 0) as the tip of a valid chain, the blocks below it as members of that
\* chain.
\* Mutant: only the old tip is put in the pool.
UnwoundTipOnly(m, b, inverse) ==
    [m EXCEPT !.orphan_pool = IF inverse = 0 THEN @ \cup {b} ELSE @,
              !.heights = @ \cup {Height[b]}, !.inverse = Put(@, b, inverse)]
Unwound(m, b, inverse) ==
    update_max_orphan_height(
        [m EXCEPT !.orphan_pool = @ \cup {b},
                  !.heights = @ \cup {Height[b]},
                  !.inverse = Put(@, b, inverse),
                  !.validations_mapping =
                      Put(@, b, IF inverse = 0 THEN "ValidChainTip" ELSE "BelongsToValidChain"),
                  !.valid_tips = IF inverse = 0 THEN @ \cup {b} ELSE @],
        Height[b])

\* The parent is inside a disconnected chain, whose head is looked for among the
\* parents.
HeadDistances(m, b) ==
    {n \in Distance :
        /\ Ancestor[n][b] \in DOMAIN m.disconnected_heads_mapping
        /\ \A k \in 1 .. n - 1 :
              Ancestor[k][b] \in m.orphan_pool \ DOMAIN m.disconnected_heads_mapping}

-----------------------------------------------------------------------------
\* The height field of a block is its parent's plus one.  append_block checks
\* it only for a block whose parent is already known.
WellFormedHeights ==
    \A b \in Block : Parent[b] \in Block \cup {Genesis} => Height[b] = Height[Parent[b]] + 1
=============================================================================
