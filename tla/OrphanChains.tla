---------------------------- MODULE OrphanChains ----------------------------
(***************************************************************************)
(* The predicates in which the proofs about the in-memory maps are stated: *)
(* the types of the maps, what they say of the chains that the orphans     *)
(* form, and what each helper makes of them.                               *)
(***************************************************************************)
EXTENDS Orphans

\* Partial maps as a set.
Maps(K, V) == UNION {[D -> V] : D \in SUBSET K}

\* The in-memory maps as a set of records.
Memory ==
    [orphan_pool : SUBSET Block,
     max_orphan_height : Nat \cup {NoHeight},
     heights : SUBSET Nat,
     inverse : Maps(Block, Nat),
     validations_mapping : Maps(Block, OrphanType),
     disconnected_heads_mapping : Maps(Block, SUBSET Block),
     disconnected_heads_heights : Maps(Block, Block),
     disconnected_tips_mapping : Maps(Block, Block),
     valid_tips : SUBSET Block]

-----------------------------------------------------------------------------
(***************************************************************************)
(* The links.  The maps m and the stored blocks D are seen through two     *)
(* more: home[o], the head of the disconnected chain that the orphan o     *)
(* hangs on (the nearest head among o and its ancestors in the pool, or    *)
(* NoBlock), and inner, the orphans below which a tip of their head hangs. *)
(***************************************************************************)

\* The heads of the disconnected chains, and the tips of one.
Heads(m) == DOMAIN m.disconnected_heads_mapping
Tips(m, h) == m.disconnected_heads_mapping[h]

\* The orphan o is marked as part of a valid chain.
IsValid(m, o) == m.validations_mapping[o] \in {"ValidChainTip", "BelongsToValidChain"}

\* home leads every orphan to its head.
Homes(m, home) ==
    /\ home \in [Block -> Block \cup {NoBlock}]
    /\ \A o \in m.orphan_pool :
          /\ o \in Heads(m) => home[o] = o
          /\ o \notin Heads(m) /\ Parent[o] \in m.orphan_pool => home[o] = home[Parent[o]]
          /\ o \notin Heads(m) /\ Parent[o] \notin m.orphan_pool => home[o] = NoBlock
          /\ home[o] \in Heads(m) \cup {NoBlock}
          /\ home[o] \in Heads(m) => Height[home[o]] <= Height[o]

\* Heads are orphans.  An orphan without a known parent is a head; a head whose
\* parent is an orphan hangs on a valid chain.
HeadsLinked(m, D) ==
    /\ Heads(m) = DOMAIN m.disconnected_heads_heights
    /\ Heads(m) \subseteq m.orphan_pool
    /\ m.orphan_pool \subseteq DOMAIN m.validations_mapping
    /\ \A h \in Heads(m) : Parent[h] \in m.orphan_pool => IsValid(m, Parent[h])
    /\ \A o \in m.orphan_pool : Parent[o] \notin m.orphan_pool \cup D => o \in Heads(m)

\* The tips of a head hang on it and know it; one of the highest is recorded.
TipsLinked(m, home) ==
    \A h \in Heads(m) :
        /\ m.disconnected_heads_heights[h] \in Tips(m, h)
        /\ \A t \in Tips(m, h) :
              /\ t \in m.orphan_pool /\ home[t] = h
              /\ t \in DOMAIN m.disconnected_tips_mapping /\ m.disconnected_tips_mapping[t] = h
              /\ Height[t] <= Height[m.disconnected_heads_heights[h]]
              /\ m.validations_mapping[t] # "BelongsToDisconnected"

\* From every tip to its head the way leads through inner, where no tip is.
InnerLinked(m, inner) ==
    /\ inner \subseteq m.orphan_pool
    /\ \A x \in inner : x \notin Heads(m) => Parent[x] \in inner
    /\ \A h \in Heads(m) : \A t \in Tips(m, h) : t \notin inner /\ (t # h => Parent[t] \in inner)

\* An orphan that is not marked valid hangs on a head: a disconnected tip is one
\* of the head's tips and nothing follows it, any other is followed by an orphan.
DisconnectedLinked(m, home, inner) ==
    \A o \in m.orphan_pool :
        ~IsValid(m, o) =>
            /\ home[o] \in Heads(m)
            /\ m.validations_mapping[o] = "DisconnectedTip" =>
                  o \in Tips(m, home[o]) /\ \A c \in m.orphan_pool : Parent[c] # o
            /\ m.validations_mapping[o] # "DisconnectedTip" =>
                  o \in inner /\ \E c \in m.orphan_pool : Parent[c] = o

\* An orphan marked valid follows a stored block or an orphan marked valid.
ValidLinked(m, D) ==
    \A o \in m.orphan_pool :
        IsValid(m, o) => \/ Parent[o] \in D
                         \/ Parent[o] \in m.orphan_pool /\ IsValid(m, Parent[o])

\* valid_tips has the orphans marked ValidChainTip, and only valid ones.
ValidTipsLinked(m) ==
    /\ \A t \in m.valid_tips : t \in m.orphan_pool /\ IsValid(m, t)
    /\ \A o \in m.orphan_pool :
          m.validations_mapping[o] = "ValidChainTip" => o \in m.valid_tips

\* The maps agree.
Links(m, D, home, inner) ==
    /\ m.orphan_pool \cap D = {}
    /\ Homes(m, home) /\ HeadsLinked(m, D) /\ TipsLinked(m, home) /\ InnerLinked(m, inner)
    /\ DisconnectedLinked(m, home, inner) /\ ValidLinked(m, D) /\ ValidTipsLinked(m)

\* The maps n have the new orphan b on a valid chain; the chain of the head g, if
\* there is one that follows b, has become valid with it.
GrowsValid(m, n, home, b, g) ==
    /\ n.orphan_pool = m.orphan_pool \cup {b}
    /\ Heads(n) = Heads(m) \ {g}
    /\ DOMAIN n.disconnected_heads_heights = DOMAIN m.disconnected_heads_heights \ {g}
    /\ \A h \in Heads(n) :
          /\ Tips(n, h) = Tips(m, h)
          /\ n.disconnected_heads_heights[h] = m.disconnected_heads_heights[h]
          /\ \A t \in Tips(m, h) : /\ t \in DOMAIN n.disconnected_tips_mapping
                                   /\ n.disconnected_tips_mapping[t] = h
    /\ n.orphan_pool \subseteq DOMAIN n.validations_mapping
    /\ IsValid(n, b)
    /\ \A x \in m.orphan_pool : g \in Heads(m) /\ home[x] = g => IsValid(n, x)
    /\ \A x \in m.orphan_pool :
          \/ g \in Heads(m) /\ home[x] = g
          \/ n.validations_mapping[x] = m.validations_mapping[x]
          \/ IsValid(m, x) /\ IsValid(n, x)
    /\ ValidTipsLinked(n)

\* The maps n are without the orphan b, which is stored; if b was a head, its chain
\* has become valid.
Leaves(m, n, home, b) ==
    /\ n.orphan_pool = m.orphan_pool \ {b}
    /\ Heads(n) = Heads(m) \ {b}
    /\ DOMAIN n.disconnected_heads_heights = DOMAIN m.disconnected_heads_heights \ {b}
    /\ \A h \in Heads(n) :
          /\ Tips(n, h) = Tips(m, h)
          /\ n.disconnected_heads_heights[h] = m.disconnected_heads_heights[h]
          /\ \A t \in Tips(m, h) : /\ t \in DOMAIN n.disconnected_tips_mapping
                                   /\ n.disconnected_tips_mapping[t] = h
    /\ n.orphan_pool \subseteq DOMAIN n.validations_mapping
    /\ \A x \in n.orphan_pool : b \in Heads(m) /\ home[x] = b => IsValid(n, x)
    /\ \A x \in n.orphan_pool :
          (b \in Heads(m) /\ home[x] = b) \/ n.validations_mapping[x] = m.validations_mapping[x]
    /\ ValidTipsLinked(n)

\* The heads that follow b, and the tips of the head hd once b hangs on it: the
\* parent of b is a tip no more, and b is one unless heads that follow it bring
\* their own tips.
Following(m, b) == {h \in Heads(m) : Parent[h] = b}
HungTips(m, b, hd) ==
    ((IF hd \in Heads(m) THEN Tips(m, hd) ELSE {}) \ {Parent[b]})
        \cup IF Following(m, b) = {} THEN {b} ELSE UNION {Tips(m, h) : h \in Following(m, b)}

\* The maps n have the new orphan b on the disconnected chain of the head hd, and
\* with it the chains of the heads that follow b ...
Hooked(m, n, b, hd) ==
    /\ n.orphan_pool = m.orphan_pool \cup {b}
    /\ Heads(n) = (Heads(m) \cup {hd}) \ Following(m, b)
    /\ DOMAIN n.disconnected_heads_heights = Heads(n)
    /\ \A h \in Heads(n) \ {hd} :
          /\ Tips(n, h) = Tips(m, h)
          /\ n.disconnected_heads_heights[h] = m.disconnected_heads_heights[h]
          /\ \A t \in Tips(m, h) : /\ t \in DOMAIN n.disconnected_tips_mapping
                                   /\ n.disconnected_tips_mapping[t] = h
    /\ n.disconnected_heads_heights[hd] \in HungTips(m, b, hd)
    /\ \A t \in HungTips(m, b, hd) :
          /\ t \in DOMAIN n.disconnected_tips_mapping /\ n.disconnected_tips_mapping[t] = hd
          /\ Height[t] <= Height[n.disconnected_heads_heights[hd]]

\* ... and the marks are as append_block leaves them.
Hangs(m, n, b, hd) ==
    /\ Hooked(m, n, b, hd)
    /\ Tips(n, hd) = HungTips(m, b, hd)
    /\ n.orphan_pool \subseteq DOMAIN n.validations_mapping
    /\ n.validations_mapping[b] = IF Following(m, b) = {} THEN "DisconnectedTip" ELSE "BelongsToDisconnected"
    /\ Parent[b] \in m.orphan_pool => n.validations_mapping[Parent[b]] = "BelongsToDisconnected"
    /\ \A x \in m.orphan_pool \ {Parent[b]} : n.validations_mapping[x] = m.validations_mapping[x]
    /\ n.valid_tips = m.valid_tips

\* The head that b hangs on: that of its parent, an orphan that is not valid, or b.
HangsOn(m, D, home, b, hd) ==
    \/ /\ Parent[b] \in m.orphan_pool /\ ~IsValid(m, Parent[b])
       /\ hd = home[Parent[b]]
    \/ /\ Parent[b] \notin m.orphan_pool \cup D
       /\ hd = b

\* The maps n have the disconnected chains of m.
SameChains(m, n) ==
    /\ n.disconnected_heads_mapping = m.disconnected_heads_mapping
    /\ n.disconnected_heads_heights = m.disconnected_heads_heights
    /\ n.disconnected_tips_mapping = m.disconnected_tips_mapping

\* The maps n are the maps m with the orphan b written as one of the given type.
WritesOrphan(m, n, b, type) ==
    /\ n.orphan_pool = m.orphan_pool \cup {b}
    /\ SameChains(m, n)
    /\ n.validations_mapping = Put(m.validations_mapping, b, type)
    /\ n.valid_tips = IF type = "ValidChainTip" THEN m.valid_tips \cup {b} ELSE m.valid_tips
    /\ n.max_orphan_height = IF Height[b] > m.max_orphan_height THEN Height[b] ELSE m.max_orphan_height
    /\ DOMAIN n.inverse = DOMAIN m.inverse \cup {b}

\* The maps n are the maps m but for inverse heights and, of the marks, those of
\* val.
OnlyMarks(m, n, val) ==
    /\ n.orphan_pool = m.orphan_pool /\ SameChains(m, n)
    /\ n.validations_mapping = val
    /\ n.valid_tips = m.valid_tips /\ n.max_orphan_height = m.max_orphan_height
    /\ DOMAIN n.inverse = DOMAIN m.inverse

MarkedValid(m, b) ==
    Put(Override(Mark(PoolAncestors(m, b), "BelongsToValidChain"), m.validations_mapping), b, "ValidChainTip")

\* The maps n are the maps m with the chain of the head marked valid.
TipWalks(m, head) == UNION {WalkUntilValid(m, t) : t \in Tips(m, head)}
MakesValid(m, n, head) ==
    /\ n.orphan_pool = m.orphan_pool
    /\ n.disconnected_heads_mapping = Drop(m.disconnected_heads_mapping, {head})
    /\ n.disconnected_heads_heights = Drop(m.disconnected_heads_heights, {head})
    /\ n.disconnected_tips_mapping = Drop(m.disconnected_tips_mapping, Tips(m, head))
    /\ n.validations_mapping = Override(Mark(TipWalks(m, head), "BelongsToValidChain"),
                                        Override(Mark(Tips(m, head), "ValidChainTip"), m.validations_mapping))
    /\ n.valid_tips = m.valid_tips \cup Tips(m, head)
    /\ n.max_orphan_height = m.max_orphan_height /\ n.inverse = m.inverse

\* The maps n are the maps m with the block b, taken out of the store, as an orphan.
Unwinds(m, n, b, inverse) ==
    /\ n.orphan_pool = m.orphan_pool \cup {b} /\ SameChains(m, n)
    /\ n.validations_mapping =
           Put(m.validations_mapping, b, IF inverse = 0 THEN "ValidChainTip" ELSE "BelongsToValidChain")
    /\ n.valid_tips = IF inverse = 0 THEN m.valid_tips \cup {b} ELSE m.valid_tips
    /\ n.max_orphan_height =
           IF Height[b] > m.max_orphan_height THEN Height[b] ELSE m.max_orphan_height

-----------------------------------------------------------------------------
(***************************************************************************)
(* The branches of append_block that put b on a disconnected chain.        *)
(***************************************************************************)

\* Before attempt_attach, the maps n have b as a tip of the head hd.
Placed(m, n, b, hd) ==
    /\ n.orphan_pool = m.orphan_pool \cup {b}
    /\ DOMAIN n.inverse = n.orphan_pool
    /\ Heads(n) = Heads(m) \cup {hd} /\ DOMAIN n.disconnected_heads_heights = Heads(n)
    /\ \A h \in Heads(m) \ {hd} :
          /\ Tips(n, h) = Tips(m, h)
          /\ n.disconnected_heads_heights[h] = m.disconnected_heads_heights[h]
    /\ Tips(n, hd) = ((IF hd \in Heads(m) THEN Tips(m, hd) ELSE {}) \ {Parent[b]}) \cup {b}
    /\ n.disconnected_heads_heights[hd] \in Tips(n, hd)
    /\ \A t \in Tips(n, hd) : Height[t] <= Height[n.disconnected_heads_heights[hd]]
    /\ b \in DOMAIN n.disconnected_tips_mapping /\ n.disconnected_tips_mapping[b] = hd
    /\ \A h \in Heads(m) : \A t \in Tips(m, h) \ {Parent[b]} :
          t \in DOMAIN n.disconnected_tips_mapping /\ n.disconnected_tips_mapping[t] = h
    /\ m.orphan_pool \subseteq DOMAIN n.validations_mapping
    /\ Parent[b] \in m.orphan_pool => n.validations_mapping[Parent[b]] = "BelongsToDisconnected"
    /\ \A x \in m.orphan_pool \ {Parent[b]} : n.validations_mapping[x] = m.validations_mapping[x]
    /\ n.valid_tips = m.valid_tips

\* attempt_attach made the maps a of the maps n.
Attaches(m, n, a, b, hd) ==
    /\ a \in Memory /\ Hooked(m, a, b, hd)
    /\ Following(m, b) = {} => a = n /\ Tips(a, hd) = HungTips(m, b, hd)
    /\ Following(m, b) # {} => b \notin HungTips(m, b, hd)
                               /\ Tips(a, hd) = HungTips(m, b, hd) \cup ({b} \ {hd})
    /\ a.validations_mapping = n.validations_mapping /\ a.valid_tips = n.valid_tips
    /\ a.max_orphan_height = n.max_orphan_height

-----------------------------------------------------------------------------
(***************************************************************************)
(* The branches of append_block that put b on a valid chain.               *)
(***************************************************************************)

\* Before attempt_attach_valid, the maps n have b in valid_tips, and perhaps in the
\* pool; a valid orphan may have been marked as one that is no tip.
Ready(m, n, b) ==
    /\ n.orphan_pool = m.orphan_pool \/ n.orphan_pool = m.orphan_pool \cup {b}
    /\ DOMAIN n.inverse = n.orphan_pool
    /\ SameChains(m, n)
    /\ n.orphan_pool \subseteq DOMAIN n.validations_mapping
    /\ b \in n.orphan_pool => n.validations_mapping[b] = "ValidChainTip"
    /\ \A x \in m.orphan_pool :
          \/ n.validations_mapping[x] = m.validations_mapping[x]
          \/ IsValid(m, x) /\ n.validations_mapping[x] = "BelongsToValidChain"
    /\ n.valid_tips = m.valid_tips \cup {b}

\* The block b follows a stored block or a valid orphan.
OnValid(m, D, b) == Parent[b] \in D \/ (Parent[b] \in m.orphan_pool /\ IsValid(m, Parent[b]))

\* The orphan x hangs on the head that is attached.
Joining(m, home, head, x) == head \in Heads(m) /\ home[x] = head
\* The maps q have the chain of the head marked valid, of the maps n.
Joined(m, n, q, home, b, head) ==
    /\ q.orphan_pool = n.orphan_pool /\ DOMAIN q.inverse = DOMAIN n.inverse
    /\ Heads(q) = Heads(m) \ {head}
    /\ DOMAIN q.disconnected_heads_heights = Heads(m) \ {head}
    /\ \A h \in Heads(q) :
          /\ Tips(q, h) = Tips(m, h)
          /\ q.disconnected_heads_heights[h] = m.disconnected_heads_heights[h]
          /\ \A t \in Tips(m, h) : /\ t \in DOMAIN q.disconnected_tips_mapping
                                   /\ q.disconnected_tips_mapping[t] = h
    /\ q.valid_tips = n.valid_tips \cup (IF head \in Heads(m) THEN Tips(m, head) ELSE {})
    /\ q.orphan_pool \subseteq DOMAIN q.validations_mapping
    /\ \A x \in m.orphan_pool :
          Joining(m, home, head, x) =>
              IsValid(q, x) /\ (q.validations_mapping[x] = "ValidChainTip" => x \in Tips(m, head))
    /\ \A x \in q.orphan_pool :
          x = b \/ ~Joining(m, home, head, x) =>
              \/ q.validations_mapping[x] = n.validations_mapping[x]
              \/ (x = b \/ IsValid(m, x)) /\ q.validations_mapping[x] = "BelongsToValidChain"

\* recurse_inverse marks that walk.
Attaching(m, D, home, inner, b, n, head) ==
    /\ Links(m, D, home, inner) /\ b \notin m.orphan_pool \cup D /\ OnValid(m, D, b) /\ Ready(m, n, b)
    /\ head \in Heads(m) => Parent[head] = b
MayBeTip(m, b, head, t) == t = b \/ (head \in Heads(m) /\ t \in Tips(m, head))

-----------------------------------------------------------------------------
(***************************************************************************)
(* Writing a block, and taking one back.                                   *)
(***************************************************************************)

\* The maps n are the maps m after b was written: its tips are valid tips now, and
\* the blocks above them, up to the stored chain, belong to valid chains.
Writes(m, n, b, tips, parents) ==
    /\ n.orphan_pool = m.orphan_pool \ {b}
    /\ n.disconnected_heads_mapping = Drop(m.disconnected_heads_mapping, {b})
    /\ n.disconnected_heads_heights = Drop(m.disconnected_heads_heights, {b})
    /\ n.disconnected_tips_mapping = Drop(m.disconnected_tips_mapping, {b} \cup tips)
    /\ DOMAIN n.validations_mapping = DOMAIN m.validations_mapping \cup tips \cup parents
    /\ \A x \in parents : n.validations_mapping[x] = "BelongsToValidChain"
    /\ \A x \in tips \ parents : n.validations_mapping[x] = "ValidChainTip"
    /\ \A x \in DOMAIN m.validations_mapping \ (tips \cup parents) :
          n.validations_mapping[x] = m.validations_mapping[x]
    /\ n.valid_tips = (m.valid_tips \ {b}) \cup tips
    /\ n.max_orphan_height = MaxAfterWrite(m, b)

WrittenParents(m, b) == UNION {PoolAncestors(RemoveOrphan(m, b), t) : t \in WrittenTips(m, b)}

\* The maps n are the maps m with the heirs marked as valid tips in the place of
\* the replaced ones.
Marks(m, n, heirs, replaced) ==
    /\ n.orphan_pool = m.orphan_pool /\ SameChains(m, n)
    /\ n.max_orphan_height = m.max_orphan_height
    /\ DOMAIN m.validations_mapping \subseteq DOMAIN n.validations_mapping
    /\ \A x \in heirs : n.validations_mapping[x] = "ValidChainTip"
    /\ \A x \in replaced \ heirs : n.validations_mapping[x] = "BelongsToValidChain"
    /\ \A x \in DOMAIN m.validations_mapping \ (heirs \cup replaced) :
          n.validations_mapping[x] = m.validations_mapping[x]
    /\ n.valid_tips = (m.valid_tips \ replaced) \cup heirs

\* They may be: an heir follows a stored block or a valid orphan, and what it
\* replaces is a valid orphan.
MayMark(m, D, heirs, replaced) ==
    /\ heirs \subseteq m.orphan_pool /\ replaced \subseteq m.orphan_pool
    /\ \A x \in replaced : IsValid(m, x)
    /\ \A x \in heirs : OnValid(m, D, x)

-----------------------------------------------------------------------------
(***************************************************************************)
(* The files of the orphan pool.                                           *)
(***************************************************************************)

\* The fields that say which blocks are filed.
Shaped(m) == {"orphan_pool", "heights", "inverse"} \subseteq DOMAIN m

\* heights_mapping files the orphans in the pool, each under its height.
Filed(m) ==
    /\ DOMAIN m.inverse = m.orphan_pool
    /\ \A o \in m.orphan_pool : Height[o] \in m.heights

\* The maps n file the same blocks as the maps m.
SameFiles(m, n) ==
    /\ DOMAIN n = DOMAIN m
    /\ n.orphan_pool = m.orphan_pool /\ n.heights = m.heights
    /\ DOMAIN n.inverse = DOMAIN m.inverse

\* The maps n file what m files, and b.
FilesToo(m, n, b) ==
    /\ DOMAIN n = DOMAIN m
    /\ n.orphan_pool = m.orphan_pool \cup {b}
    /\ n.heights = m.heights \cup {Height[b]}
    /\ DOMAIN n.inverse = DOMAIN m.inverse \cup {b}

=============================================================================
