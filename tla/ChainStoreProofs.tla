-------------------------- MODULE ChainStoreProofs --------------------------
(***************************************************************************)
(* Proofs about the steps of Chain, for every set of blocks, every tree of *)
(* parents and all limits: types; the db is a stack of blocks, whatever    *)
(* happens in the orphan pool, and usable after a crash; the pool is       *)
(* filed, forgets nothing and stays within its limit; a switch gains       *)
(* height.  First come the branches of append_block that put a block on a  *)
(* disconnected chain.                                                     *)
(***************************************************************************)
EXTENDS ChainInvariants, OrphanChainsProofs

\* A leaf is proved by Zenon unless it says otherwise.
USE Zenon

-----------------------------------------------------------------------------
(***************************************************************************)
(* A block with an unknown or a disconnected parent: the branches of       *)
(* append_block that put it on a disconnected chain end without a panic    *)
(* and change the links of the orphans in one way.                         *)
(***************************************************************************)

\* How append_block ends in these branches, with no switch and no panic.
MaxWith(b) == IF Height[b] > mem.max_orphan_height THEN Height[b] ELSE mem.max_orphan_height
\* append_block has put b on a disconnected chain, under the head hd.
Hung(D, home, b) ==
    \E n \in Memory : \E hd \in Block :
        /\ Settle(n) /\ n.max_orphan_height = MaxWith(b)
        /\ HangsOn(mem, D, home, b, hd) /\ Hangs(mem, n, b, hd)

\* attempt_attach after the block was put on a disconnected chain: the chains whose
\* head follows the block hang on it.
LEMMA AttachHangs ==
    ASSUME WellFormedHeights, TypeInv, NEW D, NEW home, NEW inner, Links(mem, D, home, inner),
           NEW b \in Block, b \notin mem.orphan_pool \cup D, NEW hd \in Block, HangsOn(mem, D, home, b, hd),
           NEW n \in Memory, Placed(mem, n, b, hd), n.max_orphan_height = MaxWith(b),
           b \in DOMAIN n.validations_mapping, n.validations_mapping[b] = "DisconnectedTip",
           AttachToDisconnected(n, b, hd)
    PROVE  Hung(D, home, b)
<1>0. mem \in Memory /\ b # Parent[b]
    BY ParentDiffers DEF TypeInv
<1>1. /\ attempt_attachOk(n, b) /\ RaiseInverseOk(n, {b})
      /\ HeadsToAttach(n, b) = Following(mem, b) /\ hd \notin Following(mem, b)
      /\ \A largest \in LargestAttached(n, b) : Attaches(mem, n, attempt_attach(n, b, largest), b, hd)
    BY <1>0, AttachHooks, ZenonT(30)
<1>2. PICK largest \in LargestAttached(n, b) :
          LET a == attempt_attach(n, b, largest)
          IN Settle(IF HeadsToAttach(n, b) = {} THEN recurse_inverse(a, b, 0, FALSE)
                    ELSE [a EXCEPT !.validations_mapping[b] = "BelongsToDisconnected",
                                   !.disconnected_heads_mapping[hd] = @ \ {b},
                                   !.disconnected_tips_mapping = Drop(@, {b})])
    BY <1>1 DEF AttachToDisconnected
<1>3. PICK a \in Memory :
          /\ a = attempt_attach(n, b, largest) /\ Hooked(mem, a, b, hd)
          /\ Following(mem, b) = {} => a = n /\ Tips(a, hd) = HungTips(mem, b, hd)
          /\ Following(mem, b) # {} => b \notin HungTips(mem, b, hd)
                                     /\ Tips(a, hd) = HungTips(mem, b, hd) \cup ({b} \ {hd})
          /\ a.validations_mapping = n.validations_mapping /\ a.valid_tips = n.valid_tips
          /\ a.max_orphan_height = n.max_orphan_height
    BY <1>1 DEF Attaches
<1>4. CASE Following(mem, b) = {}
    <2>1. PICK r \in Memory : r = recurse_inverse(a, b, 0, FALSE)
        BY RecurseInverseType
    <2>2. Settle(r)
        BY <1>1, <1>2, <1>3, <1>4, <2>1
    <2>3. /\ r.orphan_pool = a.orphan_pool /\ SameChains(a, r)
          /\ r.validations_mapping = a.validations_mapping
          /\ r.valid_tips = a.valid_tips /\ r.max_orphan_height = a.max_orphan_height
        <3>1. 0 \in Nat
            OBVIOUS
        <3>2. OnlyMarks(a, r, a.validations_mapping)
            BY <2>1, <3>1, RecurseInverseAt
        <3> QED
            BY <3>2 DEF OnlyMarks
    <2>4. Hooked(mem, r, b, hd) /\ Tips(r, hd) = HungTips(mem, b, hd)
        <3>1. Hooked(mem, a, b, hd) /\ Tips(a, hd) = HungTips(mem, b, hd)
            BY <1>3, <1>4
        <3>2. r.orphan_pool = a.orphan_pool /\ SameChains(a, r)
            BY <2>3
        <3>3. Hooked(mem, r, b, hd) /\ Tips(r, hd) = Tips(a, hd)
            BY <3>1, <3>2, HookedSame, SMTT(30)
        <3> QED
            BY <3>1, <3>3
    <2>5. Hangs(mem, r, b, hd)
        BY <1>3, <1>4, <2>3, <2>4, SMTT(30) DEF Hangs, Placed
    <2> QED
        BY <1>3, <2>2, <2>3, <2>5 DEF Hung
<1>5. CASE Following(mem, b) # {}
    <2> DEFINE val == [a.validations_mapping EXCEPT ![b] = "BelongsToDisconnected"]
               hm == [a.disconnected_heads_mapping EXCEPT ![hd] = @ \ {b}]
               tm == Drop(a.disconnected_tips_mapping, {b})
               r == [a EXCEPT !.validations_mapping = val, !.disconnected_heads_mapping = hm,
                              !.disconnected_tips_mapping = tm]
    <2>1. Settle(r)
        BY <1>1, <1>2, <1>3, <1>5
    <2>2. hd \in Heads(a)
        BY <1>1, <1>3 DEF Hooked
    <2>3. /\ DOMAIN hm = Heads(a) /\ hm[hd] = Tips(a, hd) \ {b} /\ \A h \in Heads(a) \ {hd} : hm[h] = Tips(a, h)
        BY <2>2 DEF Heads, Tips
    <2>4. /\ DOMAIN val = DOMAIN a.validations_mapping /\ val[b] = "BelongsToDisconnected"
          /\ \A x \in DOMAIN a.validations_mapping \ {b} : val[x] = a.validations_mapping[x]
        BY <1>3
    <2>5. /\ DOMAIN tm = DOMAIN a.disconnected_tips_mapping \ {b}
          /\ \A t \in DOMAIN a.disconnected_tips_mapping \ {b} : tm[t] = a.disconnected_tips_mapping[t]
        BY DropAt
    <2>6. r \in Memory
        <3>1. val \in Maps(Block, OrphanType)
            BY MapExcept DEF Memory, OrphanType
        <3>2. hm \in Maps(Block, SUBSET Block)
            <4>1. a.disconnected_heads_mapping[hd] \ {b} \in SUBSET Block
                BY <2>2, MapValue, SMTT(30) DEF Memory, Heads
            <4> QED
                BY <4>1, MapExcept DEF Memory
        <3>3. tm \in Maps(Block, Block)
            BY MapDrop DEF Memory
        <3> HIDE DEF val, hm, tm
        <3> QED BY <3>1, <3>2, <3>3 DEF Memory
    <2> HIDE DEF val, hm, tm
    <2>7. /\ r.orphan_pool = a.orphan_pool /\ r.disconnected_heads_mapping = hm
          /\ r.disconnected_heads_heights = a.disconnected_heads_heights
          /\ r.disconnected_tips_mapping = tm /\ r.validations_mapping = val
          /\ r.valid_tips = a.valid_tips /\ r.max_orphan_height = a.max_orphan_height
        BY DEF Memory
    <2> HIDE DEF r
    <2>8. Tips(r, hd) = HungTips(mem, b, hd) /\ Heads(r) = Heads(a)
          /\ \A h \in Heads(a) \ {hd} : Tips(r, h) = Tips(a, h)
        BY <1>3, <1>5, <2>3, <2>7 DEF Heads, Tips
    <2>9. Hooked(mem, r, b, hd)
        <3>1. \A h \in Heads(mem) : b \notin Tips(mem, h)
            BY DEF Links, TipsLinked
        <3>2. b \notin HungTips(mem, b, hd)
            BY <1>3, <1>5
        <3>3. \A h \in Heads(r) \ {hd} : h \in Heads(mem)
            BY <1>3, <2>8 DEF Hooked
        <3>4. \A h \in Heads(r) \ {hd} : \A t \in Tips(mem, h) :
                  t \in DOMAIN r.disconnected_tips_mapping /\ r.disconnected_tips_mapping[t] = h
            BY <1>3, <2>5, <2>7, <2>8, <3>1, <3>3, SMTT(90) DEF Hooked
        <3>5. \A t \in HungTips(mem, b, hd) :
                  t \in DOMAIN r.disconnected_tips_mapping /\ r.disconnected_tips_mapping[t] = hd
            BY <1>3, <2>5, <2>7, <3>2, SMTT(30) DEF Hooked
        <3> QED
            BY <1>3, <2>7, <2>8, <3>3, <3>4, <3>5, SMTT(30) DEF Hooked
    <2>10. Hangs(mem, r, b, hd)
        <3>1. \A x \in mem.orphan_pool : x \in DOMAIN a.validations_mapping \ {b}
            BY <1>3 DEF Placed
        <3>2. r.orphan_pool = mem.orphan_pool \cup {b}
            BY <2>9 DEF Hooked
        <3> QED
            BY <1>3, <1>5, <2>4, <2>7, <2>8, <2>9, <3>1, <3>2, SMTT(90) DEF Hangs, Placed
    <2> QED
        BY <1>3, <2>1, <2>6, <2>7, <2>10 DEF Hung
<1> QED
    BY <1>4, <1>5

\* The parent is a disconnected tip.
LEMMA OnTipHangs ==
    ASSUME WellFormedHeights, TypeInv, Filed(mem), NEW D, NEW home, NEW inner, Links(mem, D, home, inner),
           NEW b \in Block, b \notin mem.orphan_pool \cup D, AppendOnDisconnectedTip(b)
    PROVE  Hung(D, home, b)
<1> DEFINE p == Parent[b]
           head == mem.disconnected_tips_mapping[p]
           top == mem.disconnected_heads_heights[head]
           val == [mem.validations_mapping EXCEPT ![p] = "BelongsToDisconnected"]
           hm == [mem.disconnected_heads_mapping EXCEPT ![head] = (@ \ {p}) \cup {b}]
           tm == Drop(mem.disconnected_tips_mapping, {p})
           hh == [mem.disconnected_heads_heights EXCEPT
                     ![head] = IF Height[b] > Height[top] THEN b ELSE top]
           m1 == [mem EXCEPT !.validations_mapping = val, !.disconnected_heads_mapping = hm,
                             !.disconnected_tips_mapping = tm, !.disconnected_heads_heights = hh]
           m2 == write_orphan(m1, b, "DisconnectedTip", 0)
           m3 == [m2 EXCEPT !.disconnected_tips_mapping = Put(@, b, head)]
<1>1. /\ mem \in Memory /\ p # b /\ p \in mem.orphan_pool /\ mem.orphan_pool \subseteq Block
      /\ mem.validations_mapping[p] = "DisconnectedTip" /\ ~IsValid(mem, p)
    BY ParentDiffers DEF TypeInv, Memory, AppendOnDisconnectedTip, OnOrphan, IsValid
<1>2. PICK hd \in Block : hd = home[p] /\ hd \in Heads(mem) /\ p \in Tips(mem, hd)
    <2>1. Heads(mem) \subseteq Block
        BY <1>1, MapValue, SMTT(30) DEF Memory, Heads
    <2> QED
        BY <1>1, <2>1 DEF Links, DisconnectedLinked
<1>3. p \in DOMAIN mem.disconnected_tips_mapping /\ head = hd /\ hd \in DOMAIN mem.disconnected_heads_heights
    BY <1>2 DEF Links, TipsLinked, HeadsLinked
<1>4. AttachToDisconnected(m3, b, head)
    BY <1>2, <1>3 DEF AppendOnDisconnectedTip, Heads
<1>5. HangsOn(mem, D, home, b, hd)
    BY <1>1, <1>2 DEF HangsOn
<1>6. PICK u \in Block : u = top /\ u \in Tips(mem, hd) /\ \A t \in Tips(mem, hd) : Height[t] <= Height[u] /\ t \in Block
    BY <1>1, <1>2, <1>3 DEF Links, TipsLinked
<1>7. Height[b] = Height[p] + 1 /\ Height[p] \in Nat /\ Height[u] \in Nat /\ \A t \in Tips(mem, hd) : Height[t] \in Nat
    BY <1>1, <1>6, HeightAssumption DEF WellFormedHeights
<1>8. /\ DOMAIN val = DOMAIN mem.validations_mapping /\ val[p] = "BelongsToDisconnected"
      /\ \A x \in DOMAIN mem.validations_mapping \ {p} : val[x] = mem.validations_mapping[x]
      /\ mem.orphan_pool \subseteq DOMAIN mem.validations_mapping
    BY <1>1 DEF Links, HeadsLinked
<1>9. /\ DOMAIN hm = Heads(mem) /\ hm[hd] = (Tips(mem, hd) \ {p}) \cup {b}
      /\ \A h \in Heads(mem) \ {hd} : hm[h] = Tips(mem, h)
    BY <1>2, <1>3 DEF Heads, Tips
<1>10. /\ DOMAIN hh = Heads(mem) /\ hh[hd] = IF Height[b] > Height[u] THEN b ELSE u
       /\ \A h \in Heads(mem) \ {hd} : hh[h] = mem.disconnected_heads_heights[h]
    BY <1>2, <1>3, <1>6 DEF Links, HeadsLinked
<1>11. /\ DOMAIN tm = DOMAIN mem.disconnected_tips_mapping \ {p}
       /\ \A t \in DOMAIN mem.disconnected_tips_mapping \ {p} : tm[t] = mem.disconnected_tips_mapping[t]
    BY DropAt
<1>12. m1 \in Memory
    <2>1. val \in Maps(Block, OrphanType)
        BY <1>1, MapExcept DEF Memory, OrphanType
    <2>2. hm \in Maps(Block, SUBSET Block)
        <3>1. mem.disconnected_heads_mapping \in Maps(Block, SUBSET Block)
            BY <1>1 DEF Memory
        <3>2. (mem.disconnected_heads_mapping[head] \ {p}) \cup {b} \in SUBSET Block
            BY <1>2, <1>3, <1>6 DEF Tips
        <3> HIDE DEF p, head
        <3> QED BY <3>1, <3>2, MapExcept
    <2>3. tm \in Maps(Block, Block)
        BY <1>1, MapDrop DEF Memory
    <2>4. hh \in Maps(Block, Block)
        <3>1. (IF Height[b] > Height[top] THEN b ELSE top) \in Block
            BY <1>6
        <3>2. PICK v \in Block : v = IF Height[b] > Height[top] THEN b ELSE top
            BY <3>1
        <3>3. hh = [mem.disconnected_heads_heights EXCEPT ![head] = v]
            BY <3>2
        <3> HIDE DEF hh, head
        <3> QED BY <1>1, <3>3, MapExcept DEF Memory
    <2> HIDE DEF val, hm, tm, hh
    <2> QED BY <1>1, <2>1, <2>2, <2>3, <2>4 DEF Memory
<1> HIDE DEF val, hm, tm, hh
<1>13. /\ m1.orphan_pool = mem.orphan_pool /\ m1.disconnected_heads_mapping = hm
       /\ m1.disconnected_heads_heights = hh /\ m1.disconnected_tips_mapping = tm
       /\ m1.validations_mapping = val /\ m1.valid_tips = mem.valid_tips
       /\ m1.max_orphan_height = mem.max_orphan_height /\ m1.inverse = mem.inverse
    BY <1>1 DEF Memory
<1> HIDE DEF m1
<1>14. m2 \in Memory
    BY <1>12, WriteOrphanType DEF OrphanType
<1>15. /\ m2.orphan_pool = mem.orphan_pool \cup {b} /\ m2.disconnected_heads_mapping = hm
       /\ m2.disconnected_heads_heights = hh /\ m2.disconnected_tips_mapping = tm
       /\ m2.validations_mapping = Put(val, b, "DisconnectedTip") /\ m2.valid_tips = mem.valid_tips
       /\ m2.max_orphan_height = MaxWith(b) /\ DOMAIN m2.inverse = DOMAIN mem.inverse \cup {b}
    <2>1. WritesOrphan(m1, m2, b, "DisconnectedTip")
        BY <1>12, WriteOrphanAt
    <2> HIDE DEF m2
    <2> QED
        BY <1>13, <2>1 DEF WritesOrphan, SameChains, MaxWith
<1> HIDE DEF m2
<1>16. PICK n \in Memory :
          /\ n = m3 /\ n.orphan_pool = mem.orphan_pool \cup {b} /\ n.disconnected_heads_mapping = hm
          /\ n.disconnected_heads_heights = hh /\ n.disconnected_tips_mapping = Put(tm, b, hd)
          /\ n.validations_mapping = Put(val, b, "DisconnectedTip") /\ n.valid_tips = mem.valid_tips
          /\ n.max_orphan_height = MaxWith(b) /\ DOMAIN n.inverse = DOMAIN mem.inverse \cup {b}
    <2>1. Put(m2.disconnected_tips_mapping, b, head) \in Maps(Block, Block)
        BY <1>3, <1>14, MapPut DEF Memory
    <2>2. m3 \in Memory
        <3> HIDE DEF head
        <3> QED
            BY <1>14, <2>1 DEF Memory
    <2>3. /\ m3.orphan_pool = m2.orphan_pool /\ m3.disconnected_heads_mapping = m2.disconnected_heads_mapping
          /\ m3.disconnected_heads_heights = m2.disconnected_heads_heights
          /\ m3.disconnected_tips_mapping = Put(m2.disconnected_tips_mapping, b, head)
          /\ m3.validations_mapping = m2.validations_mapping /\ m3.valid_tips = m2.valid_tips
          /\ m3.max_orphan_height = m2.max_orphan_height /\ m3.inverse = m2.inverse
        BY <1>14 DEF Memory
    <2> HIDE DEF m3, head
    <2> QED
        BY <1>3, <1>15, <2>2, <2>3
<1> HIDE DEF m3, head
<1>17. /\ DOMAIN n.validations_mapping = DOMAIN mem.validations_mapping \cup {b}
       /\ n.validations_mapping[b] = "DisconnectedTip" /\ n.validations_mapping[p] = "BelongsToDisconnected"
       /\ \A x \in mem.orphan_pool \ {p} : n.validations_mapping[x] = mem.validations_mapping[x]
    BY <1>1, <1>8, <1>16, SMTT(30) DEF Put, Override
<1>18. /\ b \in DOMAIN n.disconnected_tips_mapping /\ n.disconnected_tips_mapping[b] = hd
       /\ \A t \in DOMAIN mem.disconnected_tips_mapping \ {p, b} :
             /\ t \in DOMAIN n.disconnected_tips_mapping
             /\ n.disconnected_tips_mapping[t] = mem.disconnected_tips_mapping[t]
    BY <1>11, <1>16 DEF Put, Override
<1>19. /\ Heads(n) = Heads(mem) /\ Tips(n, hd) = (Tips(mem, hd) \ {p}) \cup {b}
       /\ \A h \in Heads(mem) \ {hd} : Tips(n, h) = Tips(mem, h)
    BY <1>9, <1>16 DEF Heads, Tips
<1>20. /\ n.disconnected_heads_heights[hd] \in Tips(n, hd)
       /\ \A t \in Tips(n, hd) : Height[t] <= Height[n.disconnected_heads_heights[hd]]
    BY <1>1, <1>6, <1>7, <1>10, <1>16, <1>19, SMTT(30)
<1>21. \A h \in Heads(mem) : \A t \in Tips(mem, h) \ {p} :
          t \in DOMAIN n.disconnected_tips_mapping /\ n.disconnected_tips_mapping[t] = h
    <2>1. \A h \in Heads(mem) : \A t \in Tips(mem, h) :
              t \in DOMAIN mem.disconnected_tips_mapping /\ mem.disconnected_tips_mapping[t] = h /\ t # b
        BY SMTT(30) DEF Links, TipsLinked
    <2> QED
        BY <1>18, <2>1
<1>22. Placed(mem, n, b, hd)
    <2>1. Heads(mem) \cup {hd} = Heads(mem) /\ (IF hd \in Heads(mem) THEN Tips(mem, hd) ELSE {}) = Tips(mem, hd)
        BY <1>2
    <2>2. DOMAIN n.inverse = n.orphan_pool
        BY <1>16 DEF Filed
    <2> QED
        BY <1>8, <1>10, <1>16, <1>17, <1>18, <1>19, <1>20, <1>21, <2>1, <2>2 DEF Placed
<1>23. AttachToDisconnected(n, b, hd)
    BY <1>3, <1>4, <1>16
<1> QED
    BY <1>5, <1>16, <1>17, <1>22, <1>23, AttachHangs

\* The parent is inside a disconnected chain.
LEMMA OnBranchHangs ==
    ASSUME WellFormedHeights, TypeInv, Filed(mem), NEW D, NEW home, NEW inner, Links(mem, D, home, inner),
           NEW b \in Block, b \notin mem.orphan_pool \cup D, AppendOnDisconnectedBranch(b)
    PROVE  Hung(D, home, b)
<1> DEFINE p == Parent[b]
           m1 == write_orphan(mem, b, "DisconnectedTip", 0)
<1>1. /\ mem \in Memory /\ p # b /\ p \in mem.orphan_pool /\ mem.orphan_pool \subseteq Block
      /\ mem.validations_mapping[p] = "BelongsToDisconnected" /\ ~IsValid(mem, p)
    BY ParentDiffers DEF TypeInv, Memory, AppendOnDisconnectedBranch, OnOrphan, IsValid
<1>2. PICK hd \in Block : hd = home[p] /\ hd \in Heads(mem)
    <2>1. Heads(mem) \subseteq Block
        BY <1>1, MapValue, SMTT(30) DEF Memory, Heads
    <2> QED
        BY <1>1, <2>1 DEF Links, DisconnectedLinked
<1>3. HeadDistances(mem, b) # {} /\ \A n \in HeadDistances(mem, b) : Ancestor[n][b] = hd
    BY <1>1, <1>2, HeadFound, SMTT(30) DEF Links, HeadsLinked
<1> DEFINE hm == [m1.disconnected_heads_mapping EXCEPT ![hd] = @ \cup {b}]
           tm == Put(m1.disconnected_tips_mapping, b, hd)
           m2 == [m1 EXCEPT !.disconnected_heads_mapping = hm, !.disconnected_tips_mapping = tm]
<1>4. AttachToDisconnected(m2, b, hd)
    BY <1>3 DEF AppendOnDisconnectedBranch
<1>5. HangsOn(mem, D, home, b, hd)
    BY <1>1, <1>2 DEF HangsOn
<1>6. PICK u \in Block : /\ u = mem.disconnected_heads_heights[hd] /\ u \in Tips(mem, hd)
                         /\ \A t \in Tips(mem, hd) : Height[t] <= Height[u] /\ t \in Block
    BY <1>1, <1>2, SMTT(30) DEF Links, TipsLinked
<1>7. Height[b] <= Height[u]
    <2>1. PICK t \in Tips(mem, hd) : Height[p] < Height[t]
        BY <1>1, <1>2, HigherTip, SMTT(30)
    <2>2. Height[b] = Height[p] + 1 /\ Height[p] \in Nat /\ Height[u] \in Nat /\ Height[t] \in Nat /\ Height[t] <= Height[u]
        BY <1>1, <1>6, HeightAssumption DEF WellFormedHeights
    <2> QED
        BY <2>1, <2>2, SMTT(30)
<1>8. \A h \in Heads(mem) : p \notin Tips(mem, h)
    BY <1>1 DEF Links, TipsLinked
<1>9. m1 \in Memory /\ WritesOrphan(mem, m1, b, "DisconnectedTip")
    <2>1. m1 \in Memory
        BY <1>1, WriteOrphanType DEF OrphanType
    <2> QED
        BY <1>1, <2>1, WriteOrphanAt
<1> HIDE DEF m1
<1>10. /\ m1.orphan_pool = mem.orphan_pool \cup {b} /\ SameChains(mem, m1)
       /\ m1.validations_mapping = Put(mem.validations_mapping, b, "DisconnectedTip")
       /\ m1.valid_tips = mem.valid_tips
       /\ m1.max_orphan_height = MaxWith(b) /\ DOMAIN m1.inverse = DOMAIN mem.inverse \cup {b}
    BY <1>9 DEF WritesOrphan, MaxWith
<1>11. /\ DOMAIN hm = Heads(mem) /\ hm[hd] = Tips(mem, hd) \cup {b}
       /\ \A h \in Heads(mem) \ {hd} : hm[h] = Tips(mem, h)
    BY <1>2, <1>10 DEF Heads, Tips, SameChains
<1>12. PICK n \in Memory :
          /\ n = m2 /\ n.orphan_pool = mem.orphan_pool \cup {b} /\ n.disconnected_heads_mapping = hm
          /\ n.disconnected_heads_heights = mem.disconnected_heads_heights
          /\ n.disconnected_tips_mapping = Put(mem.disconnected_tips_mapping, b, hd)
          /\ n.validations_mapping = Put(mem.validations_mapping, b, "DisconnectedTip")
          /\ n.valid_tips = mem.valid_tips
          /\ n.max_orphan_height = MaxWith(b) /\ DOMAIN n.inverse = DOMAIN mem.inverse \cup {b}
    <2>1. hm \in Maps(Block, SUBSET Block)
        <3>1. m1.disconnected_heads_mapping[hd] \cup {b} \in SUBSET Block
            BY <1>2, <1>6, <1>10 DEF SameChains, Tips
        <3> QED
            BY <1>9, <3>1, MapExcept DEF Memory
    <2>2. tm \in Maps(Block, Block)
        BY <1>9, MapPut DEF Memory
    <2>3. tm = Put(mem.disconnected_tips_mapping, b, hd)
        BY <1>10 DEF SameChains
    <2> HIDE DEF hm, tm
    <2>4. m2 \in Memory
        BY <1>9, <2>1, <2>2 DEF Memory
    <2>5. /\ m2.orphan_pool = m1.orphan_pool /\ m2.disconnected_heads_mapping = hm
          /\ m2.disconnected_heads_heights = m1.disconnected_heads_heights /\ m2.disconnected_tips_mapping = tm
          /\ m2.validations_mapping = m1.validations_mapping /\ m2.valid_tips = m1.valid_tips
          /\ m2.max_orphan_height = m1.max_orphan_height /\ m2.inverse = m1.inverse
        BY <1>9 DEF Memory
    <2> HIDE DEF m2
    <2> QED
        BY <1>10, <2>3, <2>4, <2>5 DEF SameChains
<1> HIDE DEF m2, hm, tm
<1>13. mem.orphan_pool \subseteq DOMAIN mem.validations_mapping
    BY DEF Links, HeadsLinked
<1>14. /\ DOMAIN n.validations_mapping = DOMAIN mem.validations_mapping \cup {b}
       /\ n.validations_mapping[b] = "DisconnectedTip"
       /\ \A x \in mem.orphan_pool : n.validations_mapping[x] = mem.validations_mapping[x]
    BY <1>12, <1>13 DEF Put, Override
<1>15. /\ b \in DOMAIN n.disconnected_tips_mapping /\ n.disconnected_tips_mapping[b] = hd
       /\ \A t \in DOMAIN mem.disconnected_tips_mapping \ {b} :
             /\ t \in DOMAIN n.disconnected_tips_mapping
             /\ n.disconnected_tips_mapping[t] = mem.disconnected_tips_mapping[t]
    BY <1>12 DEF Put, Override
<1>16. /\ Heads(n) = Heads(mem) /\ Tips(n, hd) = (Tips(mem, hd) \ {p}) \cup {b}
       /\ \A h \in Heads(mem) \ {hd} : Tips(n, h) = Tips(mem, h)
    BY <1>2, <1>8, <1>11, <1>12, SMTT(30) DEF Heads, Tips
<1>17. /\ n.disconnected_heads_heights[hd] \in Tips(n, hd)
       /\ \A t \in Tips(n, hd) : Height[t] <= Height[n.disconnected_heads_heights[hd]]
    BY <1>2, <1>6, <1>7, <1>8, <1>12, <1>16
<1>18. \A h \in Heads(mem) : \A t \in Tips(mem, h) \ {p} :
          t \in DOMAIN n.disconnected_tips_mapping /\ n.disconnected_tips_mapping[t] = h
    <2>1. \A h \in Heads(mem) : \A t \in Tips(mem, h) :
              t \in DOMAIN mem.disconnected_tips_mapping /\ mem.disconnected_tips_mapping[t] = h /\ t # b
        BY SMTT(30) DEF Links, TipsLinked
    <2> QED
        BY <1>15, <2>1
<1>19. Placed(mem, n, b, hd)
    <2>1. Heads(mem) \cup {hd} = Heads(mem) /\ (IF hd \in Heads(mem) THEN Tips(mem, hd) ELSE {}) = Tips(mem, hd)
        BY <1>2
    <2>2. DOMAIN n.inverse = n.orphan_pool /\ DOMAIN n.disconnected_heads_heights = Heads(n)
        BY <1>12, <1>16 DEF Filed, Links, HeadsLinked
    <2> QED
        BY <1>1, <1>12, <1>13, <1>14, <1>15, <1>16, <1>17, <1>18, <2>1, <2>2 DEF Placed
<1> QED
    BY <1>4, <1>5, <1>12, <1>14, <1>19, AttachHangs

\* The parent is unknown.
LEMMA HeadHangs ==
    ASSUME WellFormedHeights, TypeInv, Filed(mem), NEW D, NEW home, NEW inner, Links(mem, D, home, inner),
           D \subseteq db, NEW b \in Block, b \notin mem.orphan_pool \cup D, AppendDisconnectedHead(b)
    PROVE  Hung(D, home, b)
<1> DEFINE p == Parent[b]
           hm == Put(mem.disconnected_heads_mapping, b, {b})
           tm == Put(mem.disconnected_tips_mapping, b, b)
           hh == Put(mem.disconnected_heads_heights, b, b)
           inv == Put(mem.inverse, b, 0)
           m1 == [mem EXCEPT !.disconnected_heads_mapping = hm, !.disconnected_tips_mapping = tm,
                             !.disconnected_heads_heights = hh, !.heights = @ \cup {Height[b]},
                             !.inverse = inv, !.orphan_pool = @ \cup {b}]
<1>1. /\ mem \in Memory /\ p # b /\ p \notin mem.orphan_pool \cup D /\ mem.orphan_pool \subseteq Block
      /\ Heads(mem) \subseteq mem.orphan_pool /\ DOMAIN mem.disconnected_heads_heights = Heads(mem)
      /\ mem.orphan_pool \subseteq DOMAIN mem.validations_mapping
      /\ mem.valid_tips \subseteq mem.orphan_pool
    BY ParentDiffers DEF TypeInv, Memory, AppendDisconnectedHead, Links, HeadsLinked, ValidTipsLinked
<1>2. HangsOn(mem, D, home, b, b)
    BY <1>1 DEF HangsOn
<1>3. IF ~attempt_attachOk(m1, b) \/ ~(mem.valid_tips \subseteq mem.orphan_pool) THEN Panic
      ELSE \E largest \in LargestAttached(m1, b) :
               Settle(write_orphan(attempt_attach(m1, b, largest), b,
                                   IF HeadsToAttach(m1, b) = {} THEN "DisconnectedTip"
                                   ELSE "BelongsToDisconnected", 0))
    BY DEF AppendDisconnectedHead
<1>4. PICK n \in Memory :
          /\ n = m1 /\ n.orphan_pool = mem.orphan_pool \cup {b} /\ n.disconnected_heads_mapping = hm
          /\ n.disconnected_heads_heights = hh /\ n.disconnected_tips_mapping = tm
          /\ n.inverse = inv
          /\ n.validations_mapping = mem.validations_mapping /\ n.valid_tips = mem.valid_tips
          /\ n.max_orphan_height = mem.max_orphan_height
    <2>1. hm \in Maps(Block, SUBSET Block)
        <3>1. {b} \in SUBSET Block
            OBVIOUS
        <3> QED
            BY <1>1, <3>1, MapPut DEF Memory
    <2>2. tm \in Maps(Block, Block) /\ hh \in Maps(Block, Block) /\ inv \in Maps(Block, Nat)
        BY <1>1, MapPut DEF Memory
    <2>3. Height[b] \in Nat
        BY HeightAssumption
    <2> HIDE DEF hm, tm, hh, inv
    <2>4. m1 \in Memory
        BY <1>1, <2>1, <2>2, <2>3 DEF Memory
    <2>5. /\ m1.orphan_pool = mem.orphan_pool \cup {b} /\ m1.disconnected_heads_mapping = hm
          /\ m1.disconnected_heads_heights = hh /\ m1.disconnected_tips_mapping = tm
          /\ m1.inverse = inv
          /\ m1.validations_mapping = mem.validations_mapping /\ m1.valid_tips = mem.valid_tips
          /\ m1.max_orphan_height = mem.max_orphan_height
        BY <1>1 DEF Memory
    <2> HIDE DEF m1
    <2> QED
        BY <2>4, <2>5
<1>5. /\ Heads(n) = Heads(mem) \cup {b} /\ Tips(n, b) = {b} /\ \A h \in Heads(mem) \ {b} : Tips(n, h) = Tips(mem, h)
    BY <1>4, SMTT(30) DEF Heads, Tips, Put, Override
<1>6. /\ DOMAIN n.disconnected_heads_heights = Heads(mem) \cup {b} /\ n.disconnected_heads_heights[b] = b
      /\ \A h \in Heads(mem) \ {b} : n.disconnected_heads_heights[h] = mem.disconnected_heads_heights[h]
    BY <1>1, <1>4, SMTT(30) DEF Put, Override
<1>7. /\ b \in DOMAIN n.disconnected_tips_mapping /\ n.disconnected_tips_mapping[b] = b
      /\ \A t \in DOMAIN mem.disconnected_tips_mapping \ {b} :
            /\ t \in DOMAIN n.disconnected_tips_mapping
            /\ n.disconnected_tips_mapping[t] = mem.disconnected_tips_mapping[t]
    BY <1>4, SMTT(30) DEF Put, Override
<1>8. DOMAIN n.inverse = n.orphan_pool
    BY <1>4 DEF Put, Override, Filed
<1> HIDE DEF m1, hm, tm, hh, inv
<1>9. Placed(mem, n, b, b)
    <2>1. b \notin Heads(mem) /\ ((IF b \in Heads(mem) THEN Tips(mem, b) ELSE {}) \ {p}) \cup {b} = {b}
        BY <1>1
    <2>2. \A h \in Heads(mem) : \A t \in Tips(mem, h) \ {p} :
              t \in DOMAIN n.disconnected_tips_mapping /\ n.disconnected_tips_mapping[t] = h
        <3>1. \A h \in Heads(mem) : \A t \in Tips(mem, h) :
                  t \in DOMAIN mem.disconnected_tips_mapping /\ mem.disconnected_tips_mapping[t] = h /\ t # b
            BY SMTT(90) DEF Links, TipsLinked
        <3> QED
            BY <1>7, <3>1
    <2>3. Height[b] \in Nat
        BY HeightAssumption
    <2> QED
        BY <1>1, <1>4, <1>5, <1>6, <1>7, <1>8, <2>1, <2>2, <2>3, SMTT(30) DEF Placed
<1>10. /\ attempt_attachOk(n, b) /\ HeadsToAttach(n, b) = Following(mem, b)
       /\ \A largest \in LargestAttached(n, b) : Attaches(mem, n, attempt_attach(n, b, largest), b, b)
    BY <1>1, <1>2, <1>9, AttachHooks, ZenonT(30)
<1> DEFINE type == IF Following(mem, b) = {} THEN "DisconnectedTip" ELSE "BelongsToDisconnected"
<1>11. PICK largest \in LargestAttached(n, b) : Settle(write_orphan(attempt_attach(n, b, largest), b, type, 0))
    BY <1>1, <1>3, <1>4, <1>10
<1>12. PICK a \in Memory : a = attempt_attach(n, b, largest) /\ Attaches(mem, n, a, b, b)
    BY <1>10 DEF Attaches
<1>13. Hooked(mem, a, b, b) /\ Tips(a, b) = HungTips(mem, b, b)
    BY <1>12 DEF Attaches
<1>14. PICK r \in Memory : r = write_orphan(a, b, type, 0) /\ WritesOrphan(a, r, b, type)
    <2>1. type \in OrphanType
        BY DEF OrphanType
    <2> HIDE DEF type
    <2>2. write_orphan(a, b, type, 0) \in Memory
        BY <2>1, WriteOrphanType
    <2> QED
        BY <2>2, WriteOrphanAt
<1>15. Settle(r)
    BY <1>11, <1>12, <1>14
<1>16. /\ r.orphan_pool = mem.orphan_pool \cup {b} /\ r.orphan_pool = a.orphan_pool /\ SameChains(a, r)
       /\ r.validations_mapping = Put(mem.validations_mapping, b, type)
       /\ r.valid_tips = mem.valid_tips /\ r.max_orphan_height = MaxWith(b)
    <2>1. a.orphan_pool = mem.orphan_pool \cup {b} /\ b \in a.orphan_pool
        BY <1>13 DEF Hooked
    <2>2. type # "ValidChainTip"
        OBVIOUS
    <2> HIDE DEF type
    <2> QED
        BY <1>4, <1>12, <1>14, <2>1, <2>2 DEF WritesOrphan, Attaches, MaxWith
<1>17. Hooked(mem, r, b, b) /\ Tips(r, b) = HungTips(mem, b, b)
    <2>1. Hooked(mem, r, b, b) /\ Tips(r, b) = Tips(a, b)
        BY <1>13, <1>16, HookedSame, SMTT(30)
    <2> QED
        BY <1>13, <2>1
<1>18. /\ DOMAIN r.validations_mapping = DOMAIN mem.validations_mapping \cup {b} /\ r.validations_mapping[b] = type
       /\ \A x \in mem.orphan_pool : r.validations_mapping[x] = mem.validations_mapping[x]
    BY <1>1, <1>16 DEF Put, Override
<1>19. Hangs(mem, r, b, b)
    BY <1>1, <1>16, <1>17, <1>18 DEF Hangs
<1> QED
    BY <1>2, <1>15, <1>16, <1>19 DEF Hung

-----------------------------------------------------------------------------
(***************************************************************************)
(* The type invariant.                                                     *)
(***************************************************************************)

\* The maps of Chain::new.
LEMMA InitMemory == EmptyMemory \in Memory /\ NoOrphans \in OrphansRecord
<1>1. \A V : EmptyMap \in Maps(Block, V)
    <2> TAKE V
    <2>1. EmptyMap \in [{} -> V] /\ {} \in SUBSET Block
        BY DEF EmptyMap
    <2> QED
        BY <2>1, MapIntro
<1>2. EmptyMemory \in Memory
    BY <1>1 DEF EmptyMemory, Memory
<1>3. NoOrphans \in OrphansRecord
    BY DEF NoOrphans, OrphansRecord
<1> QED
    BY <1>2, <1>3

\* Chain::new on an empty database.
LEMMA InitType == Init => TypeInv
<1> SUFFICES ASSUME Init PROVE TypeInv
    OBVIOUS
<1> QED
    BY InitMemory, SMTT(30) DEF Init, TypeInv, Pcs

\* A panic keeps everything.
LEMMA PanicType == TypeInv /\ Panic => TypeInv'
BY DEF TypeInv, Panic, ledgerVars, switchVars, Pcs

\* A turn of process_orphans that only changes its locals, or ends it.
LEMMA ProcessStopType == TypeInv /\ ProcessStop => TypeInv'
<1>1. NoOrphans \in OrphansRecord
    BY DEF NoOrphans, OrphansRecord
<1> QED
    BY <1>1 DEF TypeInv, ProcessStop, ledgerVars, switchVars, Pcs

-----------------------------------------------------------------------------
(***************************************************************************)
(* append_block.                                                           *)
(***************************************************************************)

\* The branches that only change the maps.
LEMMA SettleType == ASSUME TypeInv, NEW m \in Memory, Settle(m) PROVE TypeInv'
BY DEF TypeInv, Settle, Remember, ledgerVars

\* The branches that try a switch.
LEMMA SwitchToType ==
    ASSUME TypeInv, NEW m \in Memory, NEW tip \in Block, SwitchTo(m, tip) PROVE TypeInv'
BY DEF TypeInv, SwitchTo, Remember, ledgerVars, Pcs

\* The end of the branches that put a block on a disconnected chain.
LEMMA AttachToDisconnectedType ==
    ASSUME TypeInv, NEW m \in Memory, NEW b \in Block, NEW head, AttachToDisconnected(m, b, head)
    PROVE  TypeInv'
<1> SUFFICES ASSUME ~Panic PROVE TypeInv'
    BY PanicType
<1>1. b \in DOMAIN m.disconnected_tips_mapping
    BY DEF AttachToDisconnected, attempt_attachOk
<1>2. PICK largest \in LargestAttached(m, b) :
          LET a == attempt_attach(m, b, largest)
          IN Settle(IF HeadsToAttach(m, b) = {} THEN recurse_inverse(a, b, 0, FALSE)
                    ELSE [a EXCEPT !.validations_mapping[b] = "BelongsToDisconnected",
                                   !.disconnected_heads_mapping[head] = @ \ {b},
                                   !.disconnected_tips_mapping = Drop(@, {b})])
    BY DEF AttachToDisconnected
<1> DEFINE a == attempt_attach(m, b, largest)
           val == [a.validations_mapping EXCEPT ![b] = "BelongsToDisconnected"]
           hm == [a.disconnected_heads_mapping EXCEPT ![head] = @ \ {b}]
           tm == Drop(a.disconnected_tips_mapping, {b})
           attached == [a EXCEPT !.validations_mapping = val, !.disconnected_heads_mapping = hm,
                                 !.disconnected_tips_mapping = tm]
<1>3. a \in Memory
    <2>1. largest \in Block \cup {NoBlock}
        BY TipsToAttachType
    <2> QED BY <1>1, <2>1, AttachType
<1>4. recurse_inverse(a, b, 0, FALSE) \in Memory
    <2> HIDE DEF a
    <2> QED BY <1>3, RecurseInverseType
<1>5. attached \in Memory
    <2> HIDE DEF a
    <2>1. val \in Maps(Block, OrphanType)
        BY <1>3, MapExcept DEF Memory, OrphanType
    <2>2. hm \in Maps(Block, SUBSET Block)
        <3>1. a.disconnected_heads_mapping \in Maps(Block, SUBSET Block)
            BY <1>3 DEF Memory
        <3>2. CASE head \in DOMAIN a.disconnected_heads_mapping
            <4>1. a.disconnected_heads_mapping[head] \ {b} \in SUBSET Block
                BY <3>1, <3>2, MapValue, SMTT(30)
            <4> QED BY <3>1, <4>1, MapExcept
        <3>3. CASE head \notin DOMAIN a.disconnected_heads_mapping
            BY <3>1, <3>3, MapValue, MapIntro, SMTT(30)
        <3> QED BY <3>2, <3>3
    <2>3. tm \in Maps(Block, Block)
        BY <1>3, MapDrop DEF Memory
    <2> HIDE DEF val, hm, tm
    <2> QED BY <1>3, <2>1, <2>2, <2>3 DEF Memory
<1>6. Settle(recurse_inverse(a, b, 0, FALSE)) \/ Settle(attached)
    BY <1>2, ZenonT(30)
<1> HIDE DEF a, attached
<1> QED
    BY <1>4, <1>5, <1>6, SettleType, ZenonT(30)

-----------------------------------------------------------------------------
(***************************************************************************)
(* The theorem.                                                            *)
(***************************************************************************)

\* A queue of several blocks does not become empty when write_block takes one.
LEMMA LongTail == ASSUME NEW s \in Seq(Block), Len(s) > 1, s # <<>> PROVE Tail(s) # <<>>
BY SMTT(30)

\* Every step of append_block and of rewind keeps the types.
LEMMA NextType == TypeInv /\ [NextWithRewind]_vars => TypeInv'
<1> SUFFICES ASSUME TypeInv, [NextWithRewind]_vars PROVE TypeInv'
    OBVIOUS
\* write_block.
<1>WriteType. TypeInv /\ (WriteBlockStore \/ WriteBlockHeight) => TypeInv'
    <2> SUFFICES ASSUME TypeInv, WriteBlockStore \/ WriteBlockHeight PROVE TypeInv'
        OBVIOUS
    <2> DEFINE b == Head(to_write)
    <2>1. to_write # <<>> /\ to_write \in Seq(Block) /\ b \in Block
        BY SMTT(30) DEF TypeInv, WriteBlockStore, WriteBlockHeight
    <2>2. CASE Panic
        BY <2>2, PanicType
    <2>3. CASE WriteBlockStore /\ ~Panic
        <3> HIDE DEF b
        <3>1. /\ db' = db \cup {b} /\ canonical_tip' = b /\ pc' = "height"
              /\ UNCHANGED <<dbHeight, height, mem, to_write, switchVars, orphans>>
            BY <2>3 DEF WriteBlockStore, b
        <3> QED
            BY <2>1, <3>1 DEF TypeInv, switchVars, Pcs
    <2>4. CASE WriteBlockHeight /\ ~write_blockOk(mem, b)
        BY <2>4, SMTT(30) DEF WriteBlockHeight, TypeInv, switchVars, Pcs
    <2>5. CASE WriteBlockHeight /\ write_blockOk(mem, b)
        <3>1. /\ dbHeight' = dbHeight + 1 /\ height' = dbHeight + 1
              /\ mem' = MemoryAfterWrite(mem, b)
              /\ to_write' = Tail(to_write)
              /\ pc' = AfterWrite
              /\ UNCHANGED <<db, canonical_tip, switchVars, orphans>>
            BY <2>5 DEF WriteBlockHeight
        <3>2. mem' \in Memory
            BY <3>1, AfterWriteType DEF TypeInv
        <3>3. to_write' \in Seq(Block)
            BY <2>1, <3>1, SMTT(30)
        <3>4. pc' \in {"write", "idle", "process", "rest"} /\ (pc' = "write" => to_write' # <<>>)
            BY <2>1, <3>1, LongTail DEF AfterWrite
        <3> QED
            BY <3>1, <3>2, <3>3, <3>4, SMTT(30) DEF TypeInv, switchVars, Pcs
    <2> QED
        BY <2>2, <2>3, <2>4, <2>5
\* The turns of process_orphans that write nothing.
<1>ProcessLoopType. TypeInv /\ (ProcessStart \/ ProcessPastMax \/ ProcessMissing \/ ProcessEmpty) => TypeInv'
    <2> SUFFICES ASSUME TypeInv, ProcessStart \/ ProcessPastMax \/ ProcessMissing \/ ProcessEmpty,
                        ~ProcessStop
                 PROVE  TypeInv'
        BY ProcessStopType
    <2>1. CASE ProcessStart
        <3>1. mem.max_orphan_height \in Nat \cup {NoHeight}
            BY DEF TypeInv, Memory
        <3>2. orphans' \in OrphansRecord
            BY <2>1, <3>1 DEF ProcessStart, TypeInv, OrphansRecord
        <3> QED
            BY <2>1, <3>2 DEF ProcessStart, TypeInv, ledgerVars, switchVars, Pcs
    <2>2. CASE ProcessPastMax
        BY <2>2 DEF ProcessPastMax
    <2>3. CASE ProcessMissing
        <3>0. orphans' = [orphans EXCEPT !.h = @ + 1]
            BY <2>3 DEF ProcessMissing
        <3>1. orphans' \in OrphansRecord
            <4>1. orphans \in OrphansRecord
                BY DEF TypeInv
            <4>2. orphans.h + 1 \in Nat
                BY <4>1, SMTT(30) DEF OrphansRecord
            <4> QED BY <3>0, <4>1, <4>2, ZenonT(30) DEF OrphansRecord
        <3> QED
            BY <2>3, <3>1 DEF ProcessMissing, TypeInv, ledgerVars, switchVars, Pcs
    <2>4. CASE ProcessEmpty
        <3>0. orphans' = [orphans EXCEPT !.done = TRUE, !.h = @ + 1]
            BY <2>4 DEF ProcessEmpty
        <3>1. orphans' \in OrphansRecord
            <4>1. orphans \in OrphansRecord
                BY DEF TypeInv
            <4>2. orphans.h + 1 \in Nat
                BY <4>1, SMTT(30) DEF OrphansRecord
            <4> QED BY <3>0, <4>1, <4>2, ZenonT(30) DEF OrphansRecord
        <3> QED
            BY <2>4, <3>1 DEF ProcessEmpty, TypeInv, ledgerVars, switchVars, Pcs
    <2> QED
        BY <2>1, <2>2, <2>3, <2>4
\* The only orphan of a height.
<1>ProcessSingleType. TypeInv /\ ProcessSingle => TypeInv'
    <2> SUFFICES ASSUME TypeInv, ProcessSingle, ~ProcessStop, ~Panic PROVE TypeInv'
        BY ProcessStopType, PanicType
    <2>1. PICK o \in mem.orphan_pool :
              /\ pc' = "write" /\ to_write' = <<o>>
              /\ orphans' = [orphans EXCEPT !.buf = {}]
              /\ UNCHANGED <<ledgerVars, mem, switchVars>>
        BY DEF ProcessSingle
    <2>2. o \in Block
        BY DEF TypeInv, Memory
    <2>3. orphans' \in OrphansRecord
        BY <2>1 DEF TypeInv, OrphansRecord
    <2>4. to_write' \in Seq(Block) /\ to_write' # <<>>
        BY <2>1, <2>2, SMTT(30)
    <2> QED
        BY <2>1, <2>3, <2>4 DEF TypeInv, ledgerVars, switchVars, Pcs
\* Several orphans of the same height.
<1>ProcessSeveralType. TypeInv /\ ProcessSeveral => TypeInv'
    <2> SUFFICES ASSUME TypeInv, ProcessSeveral, ~Panic PROVE TypeInv'
        BY PanicType
    <2> DEFINE at == OrphansAt(orphans.h)
               buf == {o \in at : Parent[o] = canonical_tip}
               replaced == {p \in orphans.prev \ {canonical_tip} : \E o \in at : Parent[o] = p}
               best == {o \in buf : \A q \in buf : mem.inverse[q] <= mem.inverse[o]}
    <2>1. at \subseteq mem.orphan_pool /\ at \in SUBSET Block
        BY DEF ProcessSeveral, TypeInv, Memory
    <2>2. PICK heir \in [replaced -> at] :
              LET heirs == {heir[p] : p \in replaced}
                  prev == (orphans.prev \ replaced) \cup heirs
              IN  /\ mem' = [mem EXCEPT
                         !.validations_mapping =
                             Override(Mark(heirs, "ValidChainTip"),
                                      Override(Mark(replaced, "BelongsToValidChain"), @)),
                         !.valid_tips = (@ \ replaced) \cup heirs]
                  /\ \/ /\ pc' = "idle" /\ orphans' = NoOrphans
                        /\ UNCHANGED to_write
                     \/ /\ orphans' = [orphans EXCEPT !.done = TRUE, !.prev = prev]
                        /\ UNCHANGED <<pc, to_write>>
                     \/ \E w \in best :
                           /\ pc' = "write" /\ to_write' = <<w>>
                           /\ orphans' = [orphans EXCEPT !.prev = prev, !.buf = buf \ {w}]
                     \/ /\ pc' = "rest"
                        /\ orphans' = [orphans EXCEPT !.prev = prev, !.buf = buf]
                        /\ UNCHANGED to_write
                  /\ UNCHANGED <<ledgerVars, switchVars>>
        BY DEF ProcessSeveral
    <2> DEFINE heirs == {heir[p] : p \in replaced}
               prev == (orphans.prev \ replaced) \cup heirs
               val == Override(Mark(heirs, "ValidChainTip"),
                               Override(Mark(replaced, "BelongsToValidChain"), mem.validations_mapping))
    <2>3. orphans.prev \in SUBSET Block
        BY DEF TypeInv, OrphansRecord
    <2>4. /\ replaced \in SUBSET Block /\ heirs \in SUBSET Block /\ prev \in SUBSET Block
          /\ buf \in SUBSET Block /\ best \subseteq Block
        BY <2>1, <2>3
    <2>5. val \in Maps(Block, OrphanType)
        <3> HIDE DEF heirs, replaced
        <3>1. "BelongsToValidChain" \in OrphanType /\ "ValidChainTip" \in OrphanType
            BY DEF OrphanType
        <3>2. mem.validations_mapping \in Maps(Block, OrphanType)
            BY DEF TypeInv, Memory
        <3>3. Override(Mark(replaced, "BelongsToValidChain"), mem.validations_mapping)
                  \in Maps(Block, OrphanType)
            BY <2>4, <3>1, <3>2, MapMark, MapOverride
        <3> QED
            BY <2>4, <3>1, <3>3, MapMark, MapOverride
    <2>6. mem' \in Memory
        <3>1. mem' = [mem EXCEPT !.validations_mapping = val,
                                 !.valid_tips = (@ \ replaced) \cup heirs]
            BY <2>2
        <3> HIDE DEF val, replaced, heirs
        <3> QED BY <2>4, <2>5, <3>1, ZenonT(30) DEF TypeInv, Memory
    <2> DEFINE Outcome ==
                   /\ orphans' \in OrphansRecord
                   /\ pc' \in {"idle", "write", "rest", "orphans"}
                   /\ to_write' \in Seq(Block)
                   /\ pc' = "write" => to_write' # <<>>
    <2>7. Outcome
        <3>1. orphans \in OrphansRecord /\ to_write \in Seq(Block) /\ pc = "orphans"
            BY DEF TypeInv, ProcessSeveral
        <3>2. CASE pc' = "idle" /\ orphans' = NoOrphans /\ UNCHANGED to_write
            <4>1. NoOrphans \in OrphansRecord
                BY DEF NoOrphans, OrphansRecord
            <4> QED BY <3>1, <3>2, <4>1
        <3>3. CASE /\ orphans' = [orphans EXCEPT !.done = TRUE, !.prev = prev]
                   /\ UNCHANGED <<pc, to_write>>
            <4> HIDE DEF prev
            <4>1. orphans' \in OrphansRecord
                BY <2>4, <3>1, <3>3 DEF OrphansRecord
            <4> QED BY <3>1, <3>3, <4>1
        <3>4. CASE \E w \in best :
                      /\ pc' = "write" /\ to_write' = <<w>>
                      /\ orphans' = [orphans EXCEPT !.prev = prev, !.buf = buf \ {w}]
            <4> PICK w \in best :
                      /\ pc' = "write" /\ to_write' = <<w>>
                      /\ orphans' = [orphans EXCEPT !.prev = prev, !.buf = buf \ {w}]
                BY <3>4
            <4>1. w \in Block
                BY <2>4
            <4> HIDE DEF prev, buf, best
            <4>2. orphans' \in OrphansRecord
                BY <2>4, <3>1 DEF OrphansRecord
            <4> QED BY <4>1, <4>2, SMTT(30)
        <3>5. CASE /\ pc' = "rest"
                   /\ orphans' = [orphans EXCEPT !.prev = prev, !.buf = buf]
                   /\ UNCHANGED to_write
            <4> HIDE DEF prev, buf
            <4>1. orphans' \in OrphansRecord
                BY <2>4, <3>1, <3>5 DEF OrphansRecord
            <4> QED BY <3>1, <3>5, <4>1
        <3> QED
            BY <2>2, <3>2, <3>3, <3>4, <3>5, ZenonT(30)
    <2>8. UNCHANGED <<ledgerVars, switchVars>>
        BY <2>2
    <2> QED
        BY <2>6, <2>7, <2>8 DEF TypeInv, ledgerVars, switchVars, Pcs
\* The rest of buf become tips.
<1>ProcessRestType. TypeInv /\ ProcessRest => TypeInv'
    <2> SUFFICES ASSUME TypeInv, ProcessRest PROVE TypeInv'
        OBVIOUS
    <2> DEFINE val == Override(Mark(orphans.buf, "ValidChainTip"), mem.validations_mapping)
    <2>1. orphans.buf \in SUBSET Block /\ orphans.prev \in SUBSET Block
        BY DEF TypeInv, OrphansRecord
    <2>2. val \in Maps(Block, OrphanType)
        <3>1. "ValidChainTip" \in OrphanType /\ mem.validations_mapping \in Maps(Block, OrphanType)
            BY DEF OrphanType, TypeInv, Memory
        <3> QED
            BY <2>1, <3>1, MapMark, MapOverride
    <2>3. mem' \in Memory
        <3>1. mem' = [mem EXCEPT !.validations_mapping = val, !.valid_tips = @ \cup orphans.buf]
            BY DEF ProcessRest
        <3> HIDE DEF val
        <3> QED BY <2>1, <2>2, <3>1 DEF TypeInv, Memory
    <2>4. orphans' \in OrphansRecord
        <3>1. orphans \in OrphansRecord
            BY DEF TypeInv
        <3>2. orphans.h + 1 \in Nat /\ orphans.prev \cup orphans.buf \in SUBSET Block
            BY <2>1, <3>1, SMTT(30) DEF OrphansRecord
        <3>3. orphans' = [orphans EXCEPT !.h = @ + 1, !.prev = @ \cup orphans.buf, !.buf = {}]
            BY DEF ProcessRest
        <3> QED BY <3>1, <3>2, <3>3 DEF OrphansRecord
    <2> QED
        BY <2>3, <2>4 DEF ProcessRest, TypeInv, ledgerVars, switchVars, Pcs
\* attempt_switch: the blocks to write are the candidate and orphans of the pool.
<1>AttemptSwitchType. TypeInv /\ AttemptSwitch => TypeInv'
    <2> SUFFICES ASSUME TypeInv, AttemptSwitch, ~Panic PROVE TypeInv'
        BY PanicType
    <2>1. CASE ~Higher(candidate)
        BY <2>1 DEF AttemptSwitch, TypeInv, ledgerVars, Pcs
    <2>2. CASE Higher(candidate)
        <3>1. candidate \in mem.valid_tips /\ candidate \in Block
            BY DEF AttemptSwitch, TypeInv, Memory
        <3>2. PICK n \in HorizonDistances(candidate) :
                  /\ to_write' = [i \in 1 .. n |-> IF i = n THEN candidate ELSE Ancestor[n - i][candidate]]
                  /\ horizon' = Ancestor[n][candidate]
                  /\ cursor' = canonical_tip
                  /\ inverse_height' = 0
                  /\ candidate' = NoBlock
                  /\ pc' = "rewind"
                  /\ UNCHANGED <<ledgerVars, mem, orphans>>
            BY <2>2 DEF AttemptSwitch
        <3>3. n \in Nat /\ 1 <= n
            BY DistanceType DEF HorizonDistances
        <3>4. horizon' \in Block
            BY <3>2 DEF HorizonDistances, TypeInv
        <3>5. to_write' \in Seq(Block)
            <4>1. ASSUME NEW i \in 1 .. n, i # n PROVE Ancestor[n - i][candidate] \in Block
                <5>1. n - i \in 1 .. n - 1
                    BY <3>3, <4>1, SMTT(30)
                <5>2. Ancestor[n - i][candidate] \in mem.orphan_pool
                    BY <5>1 DEF HorizonDistances
                <5> QED
                    BY <5>2 DEF TypeInv, Memory
            <4>2. to_write' \in [1 .. n -> Block]
                BY <3>1, <3>2, <4>1
            <4> QED
                BY <3>3, <4>2, SMTT(30)
        <3> QED
            BY <3>2, <3>4, <3>5 DEF TypeInv, ledgerVars, Pcs
    <2> QED
        BY <2>1, <2>2
\* rewind.
<1>RewindType. TypeInv /\ (RewindBlock \/ RewindDone \/ \E b \in Block \cup {Genesis} : Rewind(b)) => TypeInv'
    <2> SUFFICES ASSUME TypeInv, ~Panic,
                        RewindBlock \/ RewindDone \/ \E b \in Block \cup {Genesis} : Rewind(b)
                 PROVE  TypeInv'
        BY PanicType
    <2>1. CASE RewindBlock
        <3>1. cursor \in db /\ cursor \in Block
            BY <2>1 DEF RewindBlock, TypeInv
        <3>2. mem' \in Memory
            BY <2>1, <3>1, UnwoundType DEF RewindBlock, TypeInv
        <3>3. Parent[cursor] \in Block \cup {Genesis, NoBlock}
            BY <3>1, ParentAssumption
        <3>4. /\ db' = db \ {cursor}
              /\ inverse_height' = inverse_height + 1
              /\ \/ pc' = "rewound" /\ UNCHANGED cursor
                 \/ cursor' = Parent[cursor] /\ UNCHANGED pc
              /\ UNCHANGED <<dbHeight, height, canonical_tip, to_write, candidate, horizon, orphans>>
            BY <2>1, <3>1 DEF RewindBlock
        <3>5. pc = "rewind"
            BY <2>1 DEF RewindBlock
        <3> QED
            BY <3>2, <3>3, <3>4, <3>5, SMTT(30) DEF TypeInv, Pcs
    <2>2. CASE RewindDone
        <3>1. horizon \in Block /\ Height[horizon] \in Nat
            BY <2>2, HeightAssumption DEF RewindDone, TypeInv
        <3> QED
            BY <2>2, <3>1 DEF RewindDone, TypeInv, Pcs
    <2>3. CASE \E b \in Block \cup {Genesis} : Rewind(b)
        BY <2>3 DEF Rewind, TypeInv, vars, ledgerVars, switchVars, Pcs
    <2> QED
        BY <2>1, <2>2, <2>3
\* A block on the tip, or a rejected one.
<1>AppendCanonicalType. ASSUME TypeInv, NEW b \in Block, RejectBlock(b) \/ AppendCanonical(b) PROVE TypeInv'
    <2> USE <1>AppendCanonicalType
    <2>1. CASE RejectBlock(b)
        BY <2>1 DEF RejectBlock, TypeInv, vars, ledgerVars, switchVars
    <2>2. CASE AppendCanonical(b)
        <3>1. Height[b] + 1 \in Nat
            BY HeightAssumption, SMTT(30)
        <3>2. orphans' \in OrphansRecord
            BY <2>2, <3>1 DEF AppendCanonical, NoOrphans, OrphansRecord
        <3>3. to_write' \in Seq(Block) /\ to_write' # <<>>
            BY <2>2, SMTT(30) DEF AppendCanonical
        <3> QED
            BY <2>2, <3>2, <3>3 DEF AppendCanonical, TypeInv, ledgerVars, switchVars, Pcs
    <2> QED
        BY <2>1, <2>2
\* A fork of the canonical chain.
<1>AppendForkType. ASSUME TypeInv, NEW b \in Block, AppendFork(b) PROVE TypeInv'
    <2> USE <1>AppendForkType
    <2> SUFFICES ASSUME ~Panic PROVE TypeInv'
        BY PanicType
    <2> DEFINE m == write_orphan(mem, b, "ValidChainTip", 0)
    <2>1. m \in Memory
        BY WriteOrphanType DEF TypeInv, OrphanType
    <2>2. PICK head \in BestHeads(m, b) :
              /\ attempt_attach_validOk(m, b, head)
              /\ \/ Settle(attempt_attach_valid(m, b, head))
                 \/ SwitchTo(attempt_attach_valid(m, b, head), NewTip(m, b, head))
        BY DEF AppendFork
    <2> HIDE DEF m
    <2>3. attempt_attach_valid(m, b, head) \in Memory /\ NewTip(m, b, head) \in Block
        BY <2>1, <2>2, AttachValidType
    <2> QED
        BY <2>2, <2>3, SettleType, SwitchToType
\* A block on the tip of a valid chain.
<1>AppendOnValidTipType. ASSUME TypeInv, NEW b \in Block, AppendOnValidTip(b) PROVE TypeInv'
    <2> USE <1>AppendOnValidTipType
    <2> SUFFICES ASSUME ~Panic PROVE TypeInv'
        BY PanicType
    <2> DEFINE v1 == [mem.validations_mapping EXCEPT ![Parent[b]] = "BelongsToValidChain"]
               m1 == [mem EXCEPT !.validations_mapping = v1]
               m2 == write_orphan(m1, b, "ValidChainTip", 0)
    <2>1. m1 \in Memory
        <3>1. v1 \in Maps(Block, OrphanType)
            BY MapExcept DEF TypeInv, Memory, OrphanType
        <3> HIDE DEF v1
        <3> QED BY <3>1 DEF TypeInv, Memory
    <2>2. m2 \in Memory
        <3> HIDE DEF m1
        <3> QED BY <2>1, WriteOrphanType DEF OrphanType
    <2>3. PICK head \in BestHeads(m2, b) :
              LET tip == NewTip(m2, b, head)
                  inverse == Height[tip] - Height[b]
                  m3 == attempt_attach_valid(m2, b, head)
                  m4 == recurse_inverse(m3, b, inverse, inverse = 0)
              IN  /\ attempt_attach_validOk(m2, b, head)
                  /\ SwitchTo([m4 EXCEPT !.valid_tips = (@ \ {Parent[b]}) \cup {tip}], tip)
        BY DEF AppendOnValidTip
    <2> DEFINE tip == NewTip(m2, b, head)
               inverse == Height[tip] - Height[b]
               m3 == attempt_attach_valid(m2, b, head)
               m4 == recurse_inverse(m3, b, inverse, inverse = 0)
               m5 == [m4 EXCEPT !.valid_tips = (@ \ {Parent[b]}) \cup {tip}]
    <2> HIDE DEF m2
    <2>4. tip \in Block /\ m3 \in Memory /\ inverse \in Nat
        BY <2>2, <2>3, AttachValidType
    <2>5. m4 \in Memory
        <3> HIDE DEF m3, inverse
        <3> QED BY <2>4, RecurseInverseType
    <2>6. m5 \in Memory
        <3> HIDE DEF m4, tip
        <3> QED BY <2>4, <2>5 DEF Memory
    <2>7. SwitchTo(m5, tip)
        BY <2>3
    <2> HIDE DEF m5, tip
    <2> QED
        BY <2>4, <2>6, <2>7, SwitchToType
\* A block on a block inside a valid chain.
<1>AppendOnValidBranchType. ASSUME TypeInv, NEW b \in Block, AppendOnValidBranch(b) PROVE TypeInv'
    <2> USE <1>AppendOnValidBranchType
    <2> SUFFICES ASSUME ~Panic PROVE TypeInv'
        BY PanicType
    <2> DEFINE m1 == [mem EXCEPT !.valid_tips = @ \cup {b}]
    <2>1. m1 \in Memory
        BY DEF TypeInv, Memory
    <2>2. PICK head \in BestHeads(m1, b) :
              LET tip == NewTip(m1, b, head)
                  inverse == Height[tip] - Height[b]
                  m2 == attempt_attach_valid(m1, b, head)
                  m3 == write_orphan(m2, b, IF head = NoBlock THEN "ValidChainTip"
                                            ELSE "BelongsToValidChain", inverse)
              IN  /\ attempt_attach_validOk(m1, b, head)
                  /\ SwitchTo(recurse_inverse(m3, tip, inverse, inverse = 0), tip)
        BY DEF AppendOnValidBranch
    <2> DEFINE tip == NewTip(m1, b, head)
               inverse == Height[tip] - Height[b]
               type == IF head = NoBlock THEN "ValidChainTip" ELSE "BelongsToValidChain"
               m2 == attempt_attach_valid(m1, b, head)
               m3 == write_orphan(m2, b, type, inverse)
               m4 == recurse_inverse(m3, tip, inverse, inverse = 0)
    <2> HIDE DEF m1
    <2>3. tip \in Block /\ m2 \in Memory /\ inverse \in Nat
        BY <2>1, <2>2, AttachValidType
    <2>4. type \in OrphanType
        BY DEF OrphanType
    <2>5. m3 \in Memory
        <3> HIDE DEF m2, inverse, type
        <3> QED BY <2>3, <2>4, WriteOrphanType
    <2>6. m4 \in Memory
        <3> HIDE DEF m3, inverse, tip
        <3> QED BY <2>3, <2>5, RecurseInverseType
    <2>7. SwitchTo(m4, tip)
        BY <2>2
    <2> HIDE DEF m4, tip
    <2> QED
        BY <2>3, <2>6, <2>7, SwitchToType
\* A block on the tip of a disconnected chain.
<1>AppendOnDisconnectedTipType. ASSUME TypeInv, NEW b \in Block, AppendOnDisconnectedTip(b) PROVE TypeInv'
    <2> USE <1>AppendOnDisconnectedTipType
    <2> SUFFICES ASSUME ~Panic PROVE TypeInv'
        BY PanicType
    <2> DEFINE p == Parent[b]
               head == mem.disconnected_tips_mapping[p]
               top == mem.disconnected_heads_heights[head]
               val == [mem.validations_mapping EXCEPT ![p] = "BelongsToDisconnected"]
               hm == [mem.disconnected_heads_mapping EXCEPT ![head] = (@ \ {p}) \cup {b}]
               tm == Drop(mem.disconnected_tips_mapping, {p})
               hh == [mem.disconnected_heads_heights EXCEPT
                         ![head] = IF Height[b] > Height[top] THEN b ELSE top]
               m1 == [mem EXCEPT !.validations_mapping = val, !.disconnected_heads_mapping = hm,
                                 !.disconnected_tips_mapping = tm, !.disconnected_heads_heights = hh]
               m2 == write_orphan(m1, b, "DisconnectedTip", 0)
               m3 == [m2 EXCEPT !.disconnected_tips_mapping = Put(@, b, head)]
    <2>0. /\ p \in DOMAIN mem.disconnected_tips_mapping
          /\ head \in DOMAIN mem.disconnected_heads_mapping
          /\ head \in DOMAIN mem.disconnected_heads_heights
        BY DEF AppendOnDisconnectedTip
    <2>1. AttachToDisconnected(m3, b, head)
        BY DEF AppendOnDisconnectedTip
    <2>2. mem \in Memory
        BY DEF TypeInv
    <2>3. head \in Block
        BY <2>0, <2>2, MapValue DEF Memory
    <2>4. m1 \in Memory
        <3>1. val \in Maps(Block, OrphanType)
            BY <2>2, MapExcept DEF Memory, OrphanType
        <3>2. hm \in Maps(Block, SUBSET Block)
            <4>1. mem.disconnected_heads_mapping \in Maps(Block, SUBSET Block)
                BY <2>2 DEF Memory
            <4> HIDE DEF p, head
            <4>2. mem.disconnected_heads_mapping[head] \in SUBSET Block
                BY <2>0, <4>1, MapValue
            <4>3. (mem.disconnected_heads_mapping[head] \ {p}) \cup {b} \in SUBSET Block
                BY <4>2
            <4> QED BY <4>1, <4>3, MapExcept
        <3>3. tm \in Maps(Block, Block)
            BY <2>2, MapDrop DEF Memory
        <3>4. hh \in Maps(Block, Block)
            <4>1. top \in Block
                BY <2>0, <2>2, MapValue DEF Memory
            <4>2. PICK v \in Block : v = IF Height[b] > Height[top] THEN b ELSE top
                BY <4>1
            <4>3. hh = [mem.disconnected_heads_heights EXCEPT ![head] = v]
                BY <4>2
            <4> HIDE DEF hh, head
            <4> QED BY <2>2, <4>3, MapExcept DEF Memory
        <3> HIDE DEF val, hm, tm, hh
        <3> QED BY <2>2, <3>1, <3>2, <3>3, <3>4 DEF Memory
    <2>5. m2 \in Memory
        <3> HIDE DEF m1
        <3> QED BY <2>4, WriteOrphanType DEF OrphanType
    <2>6. m3 \in Memory
        <3> HIDE DEF m2, head
        <3>1. Put(m2.disconnected_tips_mapping, b, head) \in Maps(Block, Block)
            BY <2>3, <2>5, MapPut DEF Memory
        <3> QED BY <2>5, <3>1 DEF Memory
    <2> HIDE DEF m3, head
    <2> QED
        BY <2>1, <2>6, AttachToDisconnectedType
\* A block on a block inside a disconnected chain.
<1>AppendOnDisconnectedBranchType. ASSUME TypeInv, NEW b \in Block, AppendOnDisconnectedBranch(b) PROVE TypeInv'
    <2> USE <1>AppendOnDisconnectedBranchType
    <2> SUFFICES ASSUME ~Panic PROVE TypeInv'
        BY PanicType
    <2> DEFINE m1 == write_orphan(mem, b, "DisconnectedTip", 0)
    <2>1. PICK n \in HeadDistances(mem, b) :
              LET head == Ancestor[n][b]
                  m2 == [m1 EXCEPT !.disconnected_heads_mapping[head] = @ \cup {b},
                                   !.disconnected_tips_mapping = Put(@, b, head)]
              IN AttachToDisconnected(m2, b, head)
        BY DEF AppendOnDisconnectedBranch
    <2> DEFINE head == Ancestor[n][b]
               hm == [m1.disconnected_heads_mapping EXCEPT ![head] = @ \cup {b}]
               tm == Put(m1.disconnected_tips_mapping, b, head)
               m2 == [m1 EXCEPT !.disconnected_heads_mapping = hm, !.disconnected_tips_mapping = tm]
    <2>2. m1 \in Memory
        BY WriteOrphanType DEF TypeInv, OrphanType
    <2>3. m1.disconnected_heads_mapping = mem.disconnected_heads_mapping
        BY DEF write_orphan, update_max_orphan_height, TypeInv, Memory
    <2>4. head \in DOMAIN m1.disconnected_heads_mapping
        BY <2>3 DEF HeadDistances
    <2>5. AttachToDisconnected(m2, b, head)
        BY <2>1
    <2> HIDE DEF m1, head
    <2>6. m2 \in Memory
        <3>1. head \in Block /\ m1.disconnected_heads_mapping[head] \cup {b} \in SUBSET Block
            BY <2>2, <2>4, MapValue, SMTT(30) DEF Memory
        <3>2. hm \in Maps(Block, SUBSET Block)
            BY <2>2, <3>1, MapExcept DEF Memory
        <3>3. tm \in Maps(Block, Block)
            BY <2>2, <3>1, MapPut DEF Memory
        <3> HIDE DEF hm, tm
        <3> QED BY <2>2, <3>2, <3>3 DEF Memory
    <2> HIDE DEF m2
    <2> QED
        BY <2>5, <2>6, AttachToDisconnectedType, SMTT(30)
\* A block whose parent is unknown.
<1>AppendDisconnectedHeadType. ASSUME TypeInv, NEW b \in Block, AppendDisconnectedHead(b) PROVE TypeInv'
    <2> USE <1>AppendDisconnectedHeadType
    <2> SUFFICES ASSUME ~Panic PROVE TypeInv'
        BY PanicType
    <2> DEFINE hm == Put(mem.disconnected_heads_mapping, b, {b})
               tm == Put(mem.disconnected_tips_mapping, b, b)
               hh == Put(mem.disconnected_heads_heights, b, b)
               inv == Put(mem.inverse, b, 0)
               m1 == [mem EXCEPT !.disconnected_heads_mapping = hm,
                                 !.disconnected_tips_mapping = tm,
                                 !.disconnected_heads_heights = hh,
                                 !.heights = @ \cup {Height[b]},
                                 !.inverse = inv,
                                 !.orphan_pool = @ \cup {b}]
               type == IF HeadsToAttach(m1, b) = {} THEN "DisconnectedTip" ELSE "BelongsToDisconnected"
    <2>1. /\ attempt_attachOk(m1, b)
          /\ \E largest \in LargestAttached(m1, b) :
                Settle(write_orphan(attempt_attach(m1, b, largest), b, type, 0))
        BY DEF AppendDisconnectedHead
    <2>2. mem \in Memory
        BY DEF TypeInv
    <2>3. m1 \in Memory
        <3>1. hm \in Maps(Block, SUBSET Block)
            BY <2>2, MapPut DEF Memory
        <3>2. tm \in Maps(Block, Block) /\ hh \in Maps(Block, Block)
            BY <2>2, MapPut DEF Memory
        <3>3. inv \in Maps(Block, Nat)
            BY <2>2, MapPut DEF Memory
        <3>4. Height[b] \in Nat
            BY HeightAssumption
        <3> HIDE DEF hm, tm, hh, inv
        <3> QED BY <2>2, <3>1, <3>2, <3>3, <3>4 DEF Memory
    <2>4. b \in DOMAIN m1.disconnected_tips_mapping
        BY <2>1 DEF attempt_attachOk
    <2>5. type \in OrphanType
        BY DEF OrphanType
    <2> HIDE DEF m1, type
    <2>6. PICK largest \in LargestAttached(m1, b) :
              Settle(write_orphan(attempt_attach(m1, b, largest), b, type, 0))
        BY <2>1
    <2>7. attempt_attach(m1, b, largest) \in Memory
        <3>1. largest \in Block \cup {NoBlock}
            BY <2>3, <2>4, <2>6, TipsToAttachType
        <3> QED BY <2>3, <2>4, <3>1, AttachType
    <2>8. write_orphan(attempt_attach(m1, b, largest), b, type, 0) \in Memory
        BY <2>5, <2>7, WriteOrphanType
    <2> QED
        BY <2>6, <2>8, SettleType
<1>1. CASE WriteBlockStore \/ WriteBlockHeight
    BY <1>1, <1>WriteType
<1>2. CASE ProcessStart \/ ProcessPastMax \/ ProcessMissing \/ ProcessEmpty
    BY <1>2, <1>ProcessLoopType
<1>3. CASE ProcessSingle
    BY <1>3, <1>ProcessSingleType
<1>4. CASE ProcessSeveral
    BY <1>4, <1>ProcessSeveralType
<1>5. CASE ProcessRest
    BY <1>5, <1>ProcessRestType
<1>6. CASE AttemptSwitch
    BY <1>6, <1>AttemptSwitchType
<1>7. CASE RewindBlock \/ RewindDone \/ \E b \in Block \cup {Genesis} : Rewind(b)
    BY <1>7, <1>RewindType
<1>8. CASE \E b \in Block : append_block(b)
    <2> PICK b \in Block : append_block(b)
        BY <1>8
    <2>1. CASE RejectBlock(b) \/ AppendCanonical(b)
        BY <2>1, <1>AppendCanonicalType
    <2>2. CASE AppendFork(b)
        BY <2>2, <1>AppendForkType
    <2>3. CASE AppendOnValidTip(b)
        BY <2>3, <1>AppendOnValidTipType, SMTT(30)
    <2>4. CASE AppendOnValidBranch(b)
        BY <2>4, <1>AppendOnValidBranchType
    <2>5. CASE AppendOnDisconnectedTip(b)
        BY <2>5, <1>AppendOnDisconnectedTipType
    <2>6. CASE AppendOnDisconnectedBranch(b)
        BY <2>6, <1>AppendOnDisconnectedBranchType
    <2>7. CASE AppendDisconnectedHead(b)
        BY <2>7, <1>AppendDisconnectedHeadType
    <2> QED
        BY <2>1, <2>2, <2>3, <2>4, <2>5, <2>6, <2>7 DEF append_block
<1>9. CASE UNCHANGED vars
    BY <1>9 DEF TypeInv, vars, ledgerVars, switchVars
<1> QED
    BY <1>1, <1>2, <1>3, <1>4, <1>5, <1>6, <1>7, <1>8, <1>9 DEF NextWithRewind, Next, Step

\* Whatever blocks arrive and whatever rewinds are asked for, in whatever order,
\* append_block and rewind keep every map, counter and set of the chain typed;
\* heights and inverse heights, which the code subtracts as u64, stay natural
\* numbers.
THEOREM TypeCorrect == SpecWithRewind => []TypeOK
\* TypeInv says more than TypeOK.
<1>TypeInvIsTypeOK. TypeInv => TypeOK
    <2> SUFFICES ASSUME TypeInv PROVE TypeOK
        OBVIOUS
    <2>1. IsMemory(mem)
        BY MapIsMap DEF TypeInv, Memory, IsMemory
    <2>2. /\ orphans.h \in Nat /\ orphans.max \in Nat \cup {NoHeight} /\ orphans.done \in BOOLEAN
          /\ orphans.prev \subseteq Block /\ orphans.buf \subseteq Block
        BY DEF TypeInv, OrphansRecord
    <2> QED
        BY <2>1, <2>2 DEF TypeInv, TypeOK
<1>1. SpecWithRewind => []TypeInv
    BY InitType, NextType, PTL DEF SpecWithRewind
<1> QED
    BY <1>1, <1>TypeInvIsTypeOK, PTL

-----------------------------------------------------------------------------
(***************************************************************************)
(* The store.                                                              *)
(***************************************************************************)

\* A step outside a rewind that touches neither the db nor the tip is a stutter
\* of the stack.
LEMMA TopStays ==
    ASSUME RewindState, UNCHANGED <<db, canonical_tip, cursor>>,
           pc \notin {"rewind", "rewound", "panic"}, pc' \notin {"rewind", "rewound"}
    PROVE  RewindState' /\ UNCHANGED Store!ledger
BY DEF RewindState, Top, Store!ledger

\* A panic, of a rewind too.
LEMMA PanicStays ==
    ASSUME RewindState, Panic, pc \notin {"rewound", "panic"}
    PROVE  RewindState' /\ UNCHANGED Store!ledger
BY DEF RewindState, Panic, Top, Store!ledger, ledgerVars, switchVars

\* Every step of the chain is a step of the stack, if write_block is only
\* called with blocks that are not stored.
LEMMA StackStep ==
    ASSUME BaseInv, [NextWithRewind]_vars,
           pc = "write" /\ Parent[Head(to_write)] = canonical_tip => Head(to_write) \notin db
    PROVE  RewindState' /\ [Store!Next]_(Store!ledger)
\* write_block puts the block on the stack if it was not stored before.
<1>WriteStep. ASSUME BaseInv, WriteBlockStore \/ WriteBlockHeight,
                     pc = "write" /\ Parent[Head(to_write)] = canonical_tip => Head(to_write) \notin db
              PROVE  RewindState' /\ [Store!Next]_(Store!ledger)
    <2> USE <1>WriteStep
    <2>1. CASE Panic
        BY <2>1, PanicStays DEF BaseInv, WriteBlockStore, WriteBlockHeight
    <2>2. CASE WriteBlockStore /\ ~Panic
        <3> DEFINE b == Head(to_write)
        <3>1. b \in Block
            BY <2>2, SMTT(30) DEF BaseInv, TypeInv, WriteBlockStore
        <3>2. cursor = NoBlock /\ Top = canonical_tip
            BY <2>2 DEF BaseInv, RewindState, WriteBlockStore, Top
        <3>3. /\ Parent[b] = canonical_tip /\ db' = db \cup {b} /\ canonical_tip' = b
              /\ pc' = "height" /\ cursor' = cursor
            BY <2>2 DEF WriteBlockStore, switchVars
        <3>4. Top' = b
            BY <3>2, <3>3 DEF Top
        <3>5. b \notin db
            BY <2>2, <3>3 DEF WriteBlockStore
        <3>6. Store!Push(b)
            BY <3>2, <3>3, <3>4, <3>5 DEF Store!Push
        <3> QED
            BY <3>1, <3>2, <3>3, <3>6 DEF Store!Next, RewindState
    <2>3. CASE WriteBlockHeight
        <3>1. /\ pc = "height" /\ pc' \in {AfterWrite, "panic"}
              /\ UNCHANGED <<db, canonical_tip, cursor>>
            BY <2>3 DEF WriteBlockHeight, switchVars
        <3>2. pc' \notin {"rewind", "rewound"}
            BY <3>1 DEF AfterWrite
        <3> QED
            BY <3>1, <3>2, TopStays DEF BaseInv
    <2> QED
        BY <2>1, <2>2, <2>3
\* process_orphans only decides what write_block writes.
<1>ProcessStep. ASSUME BaseInv,
                       \/ ProcessStart \/ ProcessPastMax \/ ProcessMissing \/ ProcessEmpty
                       \/ ProcessSingle \/ ProcessSeveral \/ ProcessRest
                PROVE  RewindState' /\ UNCHANGED Store!ledger
    <2> USE <1>ProcessStep
    <2>1. CASE Panic
        BY <2>1, PanicStays DEF BaseInv, ProcessStart, ProcessPastMax, ProcessMissing, ProcessEmpty,
               ProcessSingle, ProcessSeveral, ProcessRest
    <2>2. CASE ~Panic
        <3>1. pc \in {"process", "orphans", "rest"} /\ UNCHANGED <<db, canonical_tip, cursor>>
            BY <2>2, ZenonT(30) DEF ProcessStart, ProcessPastMax, ProcessMissing, ProcessEmpty, ProcessSingle,
                   ProcessSeveral, ProcessRest, ProcessStop, ledgerVars, switchVars
        <3>2. pc' \notin {"rewind", "rewound"}
            BY <2>2 DEF ProcessStart, ProcessPastMax, ProcessMissing, ProcessEmpty, ProcessSingle,
                   ProcessSeveral, ProcessRest, ProcessStop
        <3> QED
            BY <3>1, <3>2, TopStays, SMTT(30) DEF BaseInv
    <2> QED
        BY <2>1, <2>2, SMTT(30)
\* A rewind starts at the tip, takes the block at the cursor off the stack at
\* every turn, and leaves the horizon as the tip.
<1>RewindStep. ASSUME BaseInv,
                      \/ AttemptSwitch \/ RewindBlock \/ RewindDone
                      \/ \E b \in Block \cup {Genesis} : Rewind(b)
               PROVE  RewindState' /\ [Store!Next]_(Store!ledger)
    <2> USE <1>RewindStep
    <2>1. CASE Panic
        <3>1. pc \notin {"rewound", "panic"}
            BY <2>1 DEF Panic, AttemptSwitch, RewindBlock, RewindDone, Rewind
        <3> QED
            BY <2>1, <3>1, PanicStays DEF BaseInv
    <2>2. CASE (AttemptSwitch \/ \E b \in Block \cup {Genesis} : Rewind(b)) /\ ~Panic
        <3>1. cursor = NoBlock /\ pc \in {"switch", "idle"}
            BY <2>2 DEF BaseInv, RewindState, AttemptSwitch, Rewind
        <3>2. \/ pc' = "rewind" /\ cursor' = canonical_tip /\ UNCHANGED <<db, canonical_tip>>
              \/ pc' = "idle" /\ UNCHANGED <<db, canonical_tip, cursor>>
            BY <2>2, <3>1 DEF AttemptSwitch, Rewind, ledgerVars, vars, switchVars
        <3>3. canonical_tip # NoBlock
            BY GenesisAssumption DEF BaseInv, TypeInv
        <3> QED
            BY <3>1, <3>2, <3>3 DEF RewindState, Top, Store!ledger
    <2>3. CASE RewindBlock /\ ~Panic
        <3>1. /\ pc = "rewind" /\ cursor \in db /\ db' = db \ {cursor} /\ horizon' = horizon
              /\ \/ Parent[cursor] = horizon /\ pc' = "rewound" /\ cursor' = cursor
                 \/ cursor' = Parent[cursor] /\ pc' = "rewind"
            BY <2>3 DEF RewindBlock
        <3>2. Top = cursor /\ cursor # NoBlock
            BY <3>1 DEF BaseInv, RewindState, Top
        <3>3. Parent[cursor] # NoBlock
            BY <3>1, GenesisAssumption
               DEF BaseInv, TypeInv, StoreClosed
        <3>4. Top' = Parent[cursor]
            BY <3>1, <3>3 DEF Top
        <3> QED
            BY <3>1, <3>2, <3>3, <3>4 DEF RewindState, Store!Next, Store!Pop
    <2>4. CASE RewindDone
        BY <2>4 DEF RewindDone, RewindState, Top, Store!ledger, BaseInv
    <2> QED
        BY <2>1, <2>2, <2>3, <2>4
\* Between the writes append_block only changes maps and decides what to do.
<1>AppendStep. ASSUME BaseInv, NEW b \in Block, append_block(b)
               PROVE  RewindState' /\ UNCHANGED Store!ledger
    <2> USE <1>AppendStep
    <2>1. pc = "idle"
        BY DEF append_block, RejectBlock, AppendCanonical, AppendFork, AppendOnValidTip,
               AppendOnValidBranch, AppendOnDisconnectedTip, AppendOnDisconnectedBranch,
               AppendDisconnectedHead, OnOrphan, Appending
    <2>2. CASE Panic
        BY <2>1, <2>2, PanicStays DEF BaseInv
    <2>3. CASE RejectBlock(b) \/ AppendCanonical(b)
        <3>1. UNCHANGED <<db, canonical_tip, cursor>> /\ pc' \in {"idle", "write"}
            BY <2>1, <2>3 DEF RejectBlock, AppendCanonical, vars, ledgerVars, switchVars
        <3> QED
            BY <2>1, <3>1, TopStays DEF BaseInv
    <2>4. ASSUME NEW m, NEW t, Settle(m) \/ SwitchTo(m, t)
          PROVE  RewindState' /\ UNCHANGED Store!ledger
        <3>1. UNCHANGED <<db, canonical_tip, cursor>> /\ pc' \in {"idle", "switch"}
            BY <2>1, <2>4 DEF Settle, SwitchTo, Remember, ledgerVars
        <3> QED
            BY <2>1, <3>1, TopStays DEF BaseInv
    <2>5. CASE AppendFork(b) \/ AppendOnValidTip(b) \/ AppendOnValidBranch(b)
        <3>1. Panic \/ \E m, t : Settle(m) \/ SwitchTo(m, t)
            BY <2>5 DEF AppendFork, AppendOnValidTip, AppendOnValidBranch
        <3> QED
            BY <2>2, <2>4, <3>1
    <2>6. CASE \/ AppendOnDisconnectedTip(b) \/ AppendOnDisconnectedBranch(b)
               \/ AppendDisconnectedHead(b)
        <3>1. Panic \/ \E m : Settle(m)
            BY <2>6 DEF AppendOnDisconnectedTip, AppendOnDisconnectedBranch,
               AppendDisconnectedHead, AttachToDisconnected
        <3> QED
            BY <2>2, <2>4, <3>1
    <2> QED
        BY <2>3, <2>5, <2>6, SMTT(30) DEF append_block
<1>1. CASE WriteBlockStore \/ WriteBlockHeight
    BY <1>1, <1>WriteStep
<1>2. CASE \/ ProcessStart \/ ProcessPastMax \/ ProcessMissing \/ ProcessEmpty
           \/ ProcessSingle \/ ProcessSeveral \/ ProcessRest
    BY <1>2, <1>ProcessStep
<1>3. CASE AttemptSwitch \/ RewindBlock \/ RewindDone \/ \E b \in Block \cup {Genesis} : Rewind(b)
    BY <1>3, <1>RewindStep
<1>4. CASE \E b \in Block : append_block(b)
    BY <1>4, <1>AppendStep
<1>5. CASE UNCHANGED vars
    BY <1>5 DEF BaseInv, RewindState, Store!ledger, Top, vars, ledgerVars, switchVars
<1> QED
    BY <1>1, <1>2, <1>3, <1>4, <1>5 DEF NextWithRewind, Next, Step

\* On one chain no stored block has the tip as its parent, so write_block is.
LEMMA StoreStep ==
    StoreInv /\ [NextWithRewind]_vars => StoreInv' /\ [Store!Next]_(Store!ledger)
<1> SUFFICES ASSUME StoreInv, [NextWithRewind]_vars
             PROVE  StoreInv' /\ [Store!Next]_(Store!ledger)
    OBVIOUS
\* A step of the stack keeps the stored blocks one chain.
<1>LedgerStep. ASSUME db \subseteq Block, CanonicalChain, [Store!Next]_(Store!ledger)
               PROVE  CanonicalChain'
    <2> USE <1>LedgerStep
    <2> USE DEF CanonicalChain, Store!CanonicalChain, Store!Closed, Store!Unforked, Store!TopIsLast
    <2>1. CASE Store!Pop
        BY <2>1 DEF Store!Pop
    <2>2. ASSUME NEW b \in Block, Store!Push(b) PROVE CanonicalChain'
        BY <2>2, GenesisAssumption DEF Store!Push
    <2>3. CASE UNCHANGED Store!ledger
        BY <2>3 DEF Store!ledger
    <2> QED
        BY <2>1, <2>2, <2>3 DEF Store!Next
<1>0. BaseInv
    BY DEF StoreInv, BaseInv, CanonicalChain, Store!CanonicalChain, Store!Closed, StoreClosed
<1>1. RewindState' /\ [Store!Next]_(Store!ledger)
    <2>1. ASSUME pc = "write", Parent[Head(to_write)] = canonical_tip PROVE Head(to_write) \notin db
        <3>1. Top = canonical_tip
            BY <2>1 DEF StoreInv, RewindState, Top
        <3> QED
            BY <2>1, <3>1 DEF StoreInv, CanonicalChain, Store!CanonicalChain, Store!TopIsLast
    <2> QED
        BY <1>0, <2>1, StackStep
<1>2. TypeInv'
    BY NextType DEF StoreInv
<1>3. CanonicalChain'
    BY <1>1, <1>LedgerStep DEF StoreInv, TypeInv
<1> QED
    BY <1>1, <1>2, <1>3 DEF StoreInv

\* Chain::new on an empty database is the empty stack.
LEMMA StoreInit == Init => StoreInv /\ Store!Init
<1> SUFFICES ASSUME Init PROVE StoreInv /\ Store!Init
    OBVIOUS
<1>1. db = {} /\ Top = Genesis /\ pc = "idle" /\ cursor = NoBlock
    BY DEF Init, Top
<1>2. CanonicalChain /\ Store!Init
    BY <1>1 DEF CanonicalChain, Store!CanonicalChain, Store!Closed, Store!Unforked,
                Store!TopIsLast, Store!Init
<1> QED
    BY <1>1, <1>2, InitType DEF StoreInv, RewindState

-----------------------------------------------------------------------------

\* The blocks in the db are at every moment one chain from genesis to the tip:
\* between the two writes of write_block, between two removals of a rewind
\* and between the rewind and the writes of a switch.
THEOREM OneChain == SpecWithRewind => []CanonicalChain
<1>1. SpecWithRewind => []StoreInv
    BY StoreInit, StoreStep, PTL DEF SpecWithRewind
<1>2. StoreInv => CanonicalChain
    BY DEF StoreInv
<1> QED
    BY <1>1, <1>2, PTL

\* The chain implements the stack of Ledger: write_block only ever pushes a block
\* whose parent is the top, rewind only ever pops the top, and nothing else
\* touches the db.
THEOREM ImplementsLedger == SpecWithRewind => StackOfBlocks
<1>1. SpecWithRewind => []StoreInv
    BY StoreInit, StoreStep, PTL DEF SpecWithRewind
<1> QED
    BY <1>1, StoreInit, StoreStep, PTL DEF SpecWithRewind, StackOfBlocks, Store!Spec

-----------------------------------------------------------------------------
(***************************************************************************)
(* Restarts.                                                               *)
(***************************************************************************)

\* Every step keeps it: the block that write_block stores is not stored yet, as no
\* stored block follows a tip other than genesis.
LEMMA RestartStep == RestartInv /\ [RestartNext]_vars => RestartInv'
<1> SUFFICES ASSUME RestartInv, [RestartNext]_vars PROVE RestartInv'
    OBVIOUS
\* A step of the stack keeps the chains apart.
<1>ForestStep. ASSUME db \subseteq Block, ForestInv, [Store!Next]_(Store!ledger)
               PROVE  ForestInv'
    <2> USE <1>ForestStep
    <2> USE DEF ForestInv, UsableStore, StoreClosed, ForksAtGenesis
    <2>1. CASE Store!Pop
        BY <2>1, ParentDiffers DEF Store!Pop
    <2>2. ASSUME NEW b \in Block, Store!Push(b) PROVE ForestInv'
        BY <2>2, GenesisAssumption, ParentDiffers DEF Store!Push
    <2>3. CASE UNCHANGED Store!ledger
        BY <2>3 DEF Store!ledger
    <2> QED
        BY <2>1, <2>2, <2>3 DEF Store!Next
\* The tip is a block once write_block or a rewind has run.
<1>FirstWriteStep. ASSUME TypeInv, FirstWrite, [NextWithRewind]_vars PROVE FirstWrite'
    <2> USE <1>FirstWriteStep
    <2>0. canonical_tip \in Block \cup {Genesis} /\ Genesis \notin Block
        BY GenesisAssumption DEF TypeInv
    <2>1. CASE Panic
        BY <2>1 DEF Panic, FirstWrite
    <2>2. CASE WriteBlockStore /\ ~Panic
        <3>1. Head(to_write) \in Block
            BY <2>2, SMTT(30) DEF TypeInv, WriteBlockStore
        <3> QED
            BY <2>0, <2>2, <3>1 DEF WriteBlockStore, FirstWrite
    <2>3. CASE WriteBlockHeight
        BY <2>3 DEF WriteBlockHeight, FirstWrite
    <2>4. CASE RewindDone
        BY <2>0, <2>4 DEF RewindDone, FirstWrite, TypeInv
    <2>5. CASE /\ \/ ProcessStart \/ ProcessPastMax \/ ProcessMissing \/ ProcessEmpty
                  \/ ProcessSingle \/ ProcessSeveral \/ ProcessRest
               /\ ~Panic
        <3>1. pc \in {"process", "orphans", "rest"} /\ canonical_tip' = canonical_tip
            BY <2>5, ZenonT(30) DEF ProcessStart, ProcessPastMax, ProcessMissing, ProcessEmpty, ProcessSingle,
                   ProcessSeveral, ProcessRest, ProcessStop, ledgerVars
        <3> QED
            BY <3>1, SMTT(30) DEF FirstWrite
    <2>6. CASE (AttemptSwitch \/ RewindBlock \/ \E b \in Block \cup {Genesis} : Rewind(b)) /\ ~Panic
        <3>1. pc' \in {"idle", "rewind", "rewound"}
            BY <2>6 DEF AttemptSwitch, RewindBlock, Rewind, vars
        <3> QED
            BY <3>1 DEF FirstWrite
    <2>7. CASE \E b \in Block : append_block(b) /\ ~Panic
        <3> PICK b \in Block : append_block(b) /\ ~Panic
            BY <2>7, SMTT(30)
        <3>1. CASE RejectBlock(b)
            BY <3>1 DEF RejectBlock, vars, ledgerVars, FirstWrite
        <3>2. CASE AppendCanonical(b)
            <4>1. b \notin db
                BY <3>2 DEF AppendCanonical, Appending, AppendResult
            <4>2. pc' = "write" /\ Head(to_write') = b /\ db' = db
                BY <3>2, SMTT(30) DEF AppendCanonical, ledgerVars
            <4> QED
                BY <4>1, <4>2 DEF FirstWrite
        <3>3. CASE \E m, t : Settle(m) \/ SwitchTo(m, t)
            <4>1. pc = "idle"
                BY DEF append_block, RejectBlock, AppendCanonical, AppendFork, AppendOnValidTip,
                       AppendOnValidBranch, AppendOnDisconnectedTip, AppendOnDisconnectedBranch,
                       AppendDisconnectedHead, OnOrphan, Appending
            <4> QED
                BY <3>3, <4>1 DEF Settle, SwitchTo, FirstWrite
        <3>4. CASE AppendFork(b) \/ AppendOnValidTip(b) \/ AppendOnValidBranch(b)
            BY <3>3, <3>4 DEF AppendFork, AppendOnValidTip, AppendOnValidBranch
        <3>5. CASE \/ AppendOnDisconnectedTip(b) \/ AppendOnDisconnectedBranch(b)
                   \/ AppendDisconnectedHead(b)
            BY <3>3, <3>5, ZenonT(60) DEF AppendOnDisconnectedTip, AppendOnDisconnectedBranch,
               AppendDisconnectedHead, AttachToDisconnected
        <3> QED
            BY <3>1, <3>2, <3>4, <3>5 DEF append_block
    <2>8. CASE UNCHANGED vars
        BY <2>8 DEF FirstWrite, vars, ledgerVars
    <2> QED
        BY <2>1, <2>2, <2>3, <2>4, <2>5, <2>6, <2>7, <2>8, SMTT(30) DEF NextWithRewind, Next, Step
<1>1. CASE Restart
    <2>1. /\ canonical_tip' = Genesis /\ pc' = "idle" /\ cursor' = NoBlock
          /\ db' = db /\ Top' = Genesis
        BY <1>1 DEF Restart, Top
    <2>2. TypeInv'
        BY <1>1, InitMemory, SMTT(30) DEF Restart, RestartInv, TypeInv, Pcs
    <2>3. RewindState' /\ FirstWrite' /\ ForestInv'
        BY <2>1 DEF RewindState, FirstWrite, RestartInv, ForestInv, UsableStore, StoreClosed, ForksAtGenesis
    <2> QED
        BY <2>2, <2>3 DEF RestartInv
<1>2. CASE [NextWithRewind]_vars
    <2>1. BaseInv /\ db \subseteq Block
        BY DEF RestartInv, BaseInv, ForestInv, UsableStore, TypeInv
    <2>2. ASSUME pc = "write", Parent[Head(to_write)] = canonical_tip PROVE Head(to_write) \notin db
        <3>1. Top = canonical_tip
            BY <2>2 DEF RestartInv, RewindState, Top
        <3> QED
            BY <2>2, <3>1 DEF RestartInv, ForestInv, FirstWrite
    <2>3. RewindState' /\ [Store!Next]_(Store!ledger)
        BY <1>2, <2>1, <2>2, StackStep
    <2>4. ForestInv'
        BY <2>1, <2>3, <1>ForestStep DEF RestartInv
    <2> QED
        BY <1>2, <2>3, <2>4, NextType, <1>FirstWriteStep DEF RestartInv
<1> QED
    BY <1>1, <1>2 DEF RestartNext, NextWithRewind

\* An empty db.
LEMMA RestartInit == Init => RestartInv
<1> SUFFICES ASSUME Init PROVE RestartInv
    OBVIOUS
<1>1. db = {} /\ Top = Genesis /\ pc = "idle" /\ cursor = NoBlock
    BY DEF Init, Top
<1> QED
    BY <1>1, InitType DEF RestartInv, RewindState, FirstWrite, ForestInv, UsableStore, StoreClosed,
                          ForksAtGenesis

\* Whenever the process stops, between the two writes of write_block, between
\* two removals of a rewind or between a rewind and the writes of a switch, and
\* however often, every stored block leads to genesis through stored blocks, and
\* two stored chains share no block.
THEOREM StoreUsable == RestartSpec => []UsableStore
<1>1. RestartInv => UsableStore
    BY DEF RestartInv, ForestInv
<1> QED
    BY <1>1, RestartInit, RestartStep, PTL DEF RestartSpec

-----------------------------------------------------------------------------
(***************************************************************************)
(* Heights.                                                                *)
(***************************************************************************)

\* Every step of the chain keeps HeightInv when height fields are right.
LEMMA HeightStep ==
    ASSUME WellFormedHeights, TypeInv, HeightInv, [NextWithRewind]_vars PROVE HeightInv'
<1>1. CASE Panic
    BY <1>1 DEF Panic, HeightInv
<1>2. CASE WriteBlockStore /\ ~Panic
    <2> DEFINE b == Head(to_write)
    <2>1. b \in Block
        BY <1>2, SMTT(30) DEF TypeInv, WriteBlockStore
    <2>2. /\ pc = "write" /\ Parent[b] = canonical_tip /\ canonical_tip' = b /\ pc' = "height"
          /\ dbHeight' = dbHeight
        BY <1>2 DEF WriteBlockStore
    <2>3. Height[b] = Height[canonical_tip] + 1
        BY <2>1, <2>2 DEF WellFormedHeights, TypeInv
    <2> QED
        BY <2>2, <2>3 DEF HeightInv
<1>3. CASE WriteBlockHeight
    BY <1>3 DEF WriteBlockHeight, HeightInv, AfterWrite
<1>4. CASE RewindDone
    BY <1>4 DEF RewindDone, HeightInv
<1>5. ASSUME UNCHANGED <<dbHeight, height, canonical_tip>>, pc \notin {"height", "panic"},
             pc' # "height"
      PROVE  HeightInv'
    BY <1>5 DEF HeightInv
<1>6. CASE /\ \/ ProcessStart \/ ProcessPastMax \/ ProcessMissing \/ ProcessEmpty
              \/ ProcessSingle \/ ProcessSeveral \/ ProcessRest
           /\ ~Panic
    <2>1. pc \in {"process", "orphans", "rest"} /\ UNCHANGED <<dbHeight, height, canonical_tip>>
        BY <1>6, ZenonT(30) DEF ProcessStart, ProcessPastMax, ProcessMissing, ProcessEmpty, ProcessSingle,
               ProcessSeveral, ProcessRest, ProcessStop, ledgerVars
    <2>2. pc' # "height"
        BY <1>6 DEF ProcessStart, ProcessPastMax, ProcessMissing, ProcessEmpty, ProcessSingle,
               ProcessSeveral, ProcessRest, ProcessStop
    <2> QED
        BY <1>5, <2>1, <2>2, SMTT(30)
<1>7. CASE (AttemptSwitch \/ RewindBlock \/ \E b \in Block \cup {Genesis} : Rewind(b)) /\ ~Panic
    <2>1. pc \in {"switch", "rewind", "idle"} /\ UNCHANGED <<dbHeight, height, canonical_tip>>
        BY <1>7 DEF AttemptSwitch, RewindBlock, Rewind, ledgerVars, vars
    <2>2. pc' # "height"
        BY <1>7 DEF AttemptSwitch, RewindBlock, Rewind, vars
    <2> QED
        BY <1>5, <2>1, <2>2
<1>8. CASE \E b \in Block : append_block(b) /\ ~Panic
    <2> PICK b \in Block : append_block(b) /\ ~Panic
        BY <1>8, SMTT(30)
    <2>1. pc = "idle"
        BY DEF append_block, RejectBlock, AppendCanonical, AppendFork, AppendOnValidTip,
               AppendOnValidBranch, AppendOnDisconnectedTip, AppendOnDisconnectedBranch,
               AppendDisconnectedHead, OnOrphan, Appending
    <2>2. CASE RejectBlock(b) \/ AppendCanonical(b)
        BY <1>5, <2>1, <2>2 DEF RejectBlock, AppendCanonical, vars, ledgerVars
    <2>3. CASE \E m, t : Settle(m) \/ SwitchTo(m, t)
        BY <1>5, <2>1, <2>3 DEF Settle, SwitchTo, Remember, ledgerVars
    <2>4. CASE AppendFork(b) \/ AppendOnValidTip(b) \/ AppendOnValidBranch(b)
        BY <2>3, <2>4 DEF AppendFork, AppendOnValidTip, AppendOnValidBranch
    <2>5. CASE \/ AppendOnDisconnectedTip(b) \/ AppendOnDisconnectedBranch(b)
               \/ AppendDisconnectedHead(b)
        BY <2>3, <2>5 DEF AppendOnDisconnectedTip, AppendOnDisconnectedBranch,
           AppendDisconnectedHead, AttachToDisconnected
    <2> QED
        BY <2>2, <2>4, <2>5 DEF append_block
<1>9. CASE UNCHANGED vars
    BY <1>9 DEF HeightInv, vars, ledgerVars
<1> QED
    BY <1>1, <1>2, <1>3, <1>4, <1>6, <1>7, <1>8, <1>9, SMTT(30) DEF NextWithRewind, Next, Step

\* When every height field is its parent's plus one, the cached height, the
\* height in the db and the height of the tip agree whenever append_block or
\* rewind has returned, although write_block counts up and rewind copies.
THEOREM HeightsAgree == ASSUME WellFormedHeights PROVE SpecWithRewind => []HeightOfTip
<1>1. SpecWithRewind => []TypeInv
    BY InitType, NextType, PTL DEF SpecWithRewind
<1>2. Init => HeightInv
    BY HeightAssumption DEF Init, HeightInv
<1>3. TypeInv /\ HeightInv /\ [NextWithRewind]_vars => HeightInv'
    BY HeightStep
<1>4. HeightInv => HeightOfTip
    BY DEF HeightInv, HeightOfTip
<1> QED
    BY <1>1, <1>2, <1>3, <1>4, PTL DEF SpecWithRewind

-----------------------------------------------------------------------------
(***************************************************************************)
(* The orphan pool.                                                        *)
(***************************************************************************)

-----------------------------------------------------------------------------
(***************************************************************************)
(* append_block files the block it received.                               *)
(***************************************************************************)

\* A branch that ends without a switch.
LEMMA SettledFiles == ASSUME NEW b, NEW n, Settle(n), FilesToo(mem, n, b) PROVE Files(b)
<1>1. /\ Settle(n) \/ (SwitchTo(n, b) /\ b \in n.orphan_pool)
      /\ FilesToo(mem, n, b)
    OBVIOUS
<1> QED
    BY <1>1 DEF Files

\* The branches on the canonical chain and on valid chains.
LEMMA ValidBranchesFile ==
    ASSUME Shaped(mem), NEW b, ~Panic,
           AppendFork(b) \/ AppendOnValidTip(b) \/ AppendOnValidBranch(b)
    PROVE  Files(b)
<1>1. CASE AppendFork(b)
    <2> DEFINE m == write_orphan(mem, b, "ValidChainTip", 0)
    <2>1. PICK head : /\ \/ Settle(attempt_attach_valid(m, b, head))
                         \/ SwitchTo(attempt_attach_valid(m, b, head), NewTip(m, b, head))
                      /\ attempt_attach_validOk(m, b, head)
        BY <1>1 DEF AppendFork
    <2>2. FilesToo(mem, m, b) /\ Shaped(m)
        BY WriteOrphanFiles, FilesTrans
    <2> HIDE DEF m
    <2>3. FilesToo(mem, attempt_attach_valid(m, b, head), b)
        BY <2>2, AttachValidFiles, FilesTrans
    <2>4. NewTip(m, b, head) \in attempt_attach_valid(m, b, head).orphan_pool
        BY <2>1, <2>2, <2>3, NewTipInPool DEF FilesToo
    <2> QED
        BY <2>1, <2>3, <2>4 DEF Files
<1>2. CASE AppendOnValidTip(b)
    <2> DEFINE m1 == [mem EXCEPT !.validations_mapping[Parent[b]] = "BelongsToValidChain"]
               m2 == write_orphan(m1, b, "ValidChainTip", 0)
    <2>1. PICK head, start, tip, tips :
              LET m4 == recurse_inverse(attempt_attach_valid(m2, b, head), b, start, start = 0)
              IN /\ SwitchTo([m4 EXCEPT !.valid_tips = tips], tip)
                 /\ attempt_attach_validOk(m2, b, head) /\ tip = NewTip(m2, b, head)
        BY <1>2 DEF AppendOnValidTip
    <2>2. SameFiles(mem, m1) /\ Shaped(m1)
        BY DEF SameFiles, Shaped
    <2> DEFINE m3 == attempt_attach_valid(m2, b, head)
               m4 == recurse_inverse(m3, b, start, start = 0)
               m5 == [m4 EXCEPT !.valid_tips = tips]
    <2>3. SwitchTo(m5, tip) /\ attempt_attach_validOk(m2, b, head) /\ tip = NewTip(m2, b, head)
        BY <2>1
    <2> HIDE DEF m1
    <2>4. FilesToo(mem, m2, b) /\ Shaped(m2)
        BY <2>2, WriteOrphanFiles, FilesTrans
    <2> HIDE DEF m2
    <2>5. FilesToo(mem, m3, b) /\ Shaped(m3)
        BY <2>4, AttachValidFiles, FilesTrans
    <2> HIDE DEF m3
    <2>6. FilesToo(mem, m4, b) /\ Shaped(m4)
        BY <2>5, RecurseInverseFiles, FilesTrans
    <2> HIDE DEF m4
    <2>7. FilesToo(mem, m5, b)
        BY <2>6 DEF FilesToo, Shaped
    <2>8. tip \in m5.orphan_pool
        BY <2>3, <2>4, <2>7, NewTipInPool DEF FilesToo
    <2> QED
        BY <2>3, <2>7, <2>8 DEF Files
<1>3. CASE AppendOnValidBranch(b)
    <2> DEFINE m1 == [mem EXCEPT !.valid_tips = @ \cup {b}]
    <2>1. PICK head, start, tip, type :
              LET m2 == attempt_attach_valid(m1, b, head)
                  m3 == write_orphan(m2, b, type, start)
              IN /\ SwitchTo(recurse_inverse(m3, tip, start, start = 0), tip)
                 /\ attempt_attach_validOk(m1, b, head) /\ tip = NewTip(m1, b, head)
        BY <1>3 DEF AppendOnValidBranch
    <2>2. SameFiles(mem, m1) /\ Shaped(m1)
        BY DEF SameFiles, Shaped
    <2> DEFINE m2 == attempt_attach_valid(m1, b, head)
               m3 == write_orphan(m2, b, type, start)
               m4 == recurse_inverse(m3, tip, start, start = 0)
    <2>3. SwitchTo(m4, tip) /\ attempt_attach_validOk(m1, b, head) /\ tip = NewTip(m1, b, head)
        BY <2>1
    <2> HIDE DEF m1
    <2>4. SameFiles(mem, m2) /\ Shaped(m2)
        BY <2>2, AttachValidFiles, FilesTrans
    <2> HIDE DEF m2
    <2>5. FilesToo(mem, m3, b) /\ Shaped(m3)
        BY <2>4, WriteOrphanFiles, FilesTrans
    <2> HIDE DEF m3
    <2>6. FilesToo(mem, m4, b)
        BY <2>5, RecurseInverseFiles, FilesTrans
    <2>7. tip \in m4.orphan_pool
        BY <2>2, <2>3, <2>6, NewTipInPool DEF FilesToo, SameFiles
    <2> QED
        BY <2>3, <2>6, <2>7 DEF Files
<1> QED
    BY <1>1, <1>2, <1>3

\* The end of the branches on disconnected chains files nothing more.
LEMMA AttachToDisconnectedFiles ==
    ASSUME NEW m, NEW b, NEW head, Shaped(m), ~Panic, AttachToDisconnected(m, b, head)
    PROVE  \E n : Settle(n) /\ SameFiles(m, n)
<1>1. PICK largest :
          LET a == attempt_attach(m, b, largest)
          IN \/ Settle(recurse_inverse(a, b, 0, FALSE))
             \/ Settle([a EXCEPT !.validations_mapping[b] = "BelongsToDisconnected",
                                 !.disconnected_heads_mapping[head] = @ \ {b},
                                 !.disconnected_tips_mapping = Drop(@, {b})])
    BY DEF AttachToDisconnected
<1> DEFINE a == attempt_attach(m, b, largest)
           n == [a EXCEPT !.validations_mapping[b] = "BelongsToDisconnected",
                          !.disconnected_heads_mapping[head] = @ \ {b},
                          !.disconnected_tips_mapping = Drop(@, {b})]
<1>2. Settle(recurse_inverse(a, b, 0, FALSE)) \/ Settle(n)
    BY <1>1
<1>3. SameFiles(m, a) /\ Shaped(a)
    BY AttachFiles, FilesTrans
<1> HIDE DEF a
<1>4. SameFiles(m, recurse_inverse(a, b, 0, FALSE))
    BY <1>3, RecurseInverseFiles, FilesTrans
<1>5. SameFiles(m, n)
    BY <1>3 DEF SameFiles, Shaped
<1> QED
    BY <1>2, <1>4, <1>5

\* The branches on disconnected chains.
LEMMA DisconnectedBranchesFile ==
    ASSUME Shaped(mem), NEW b, ~Panic,
           AppendOnDisconnectedTip(b) \/ AppendOnDisconnectedBranch(b) \/ AppendDisconnectedHead(b)
    PROVE  Files(b)
<1>1. CASE AppendOnDisconnectedTip(b)
    <2>1. PICK head, vm, hm, tm, hh, tm2 :
              LET m1 == [mem EXCEPT !.validations_mapping = vm, !.disconnected_heads_mapping = hm,
                                    !.disconnected_tips_mapping = tm,
                                    !.disconnected_heads_heights = hh]
                  m2 == write_orphan(m1, b, "DisconnectedTip", 0)
              IN AttachToDisconnected([m2 EXCEPT !.disconnected_tips_mapping = tm2], b, head)
        BY <1>1 DEF AppendOnDisconnectedTip
    <2> DEFINE m1 == [mem EXCEPT !.validations_mapping = vm, !.disconnected_heads_mapping = hm,
                                 !.disconnected_tips_mapping = tm,
                                 !.disconnected_heads_heights = hh]
               m2 == write_orphan(m1, b, "DisconnectedTip", 0)
               m3 == [m2 EXCEPT !.disconnected_tips_mapping = tm2]
    <2>2. AttachToDisconnected(m3, b, head)
        BY <2>1
    <2>3. SameFiles(mem, m1) /\ Shaped(m1)
        BY DEF SameFiles, Shaped
    <2> HIDE DEF m1
    <2>4. FilesToo(mem, m2, b) /\ Shaped(m2)
        BY <2>3, WriteOrphanFiles, FilesTrans
    <2> HIDE DEF m2
    <2>5. FilesToo(mem, m3, b) /\ Shaped(m3)
        BY <2>4 DEF FilesToo, Shaped
    <2> HIDE DEF m3
    <2>6. PICK n : Settle(n) /\ SameFiles(m3, n)
        BY <2>2, <2>5, AttachToDisconnectedFiles
    <2> QED
        BY <2>5, <2>6, FilesTrans, SettledFiles
<1>2. CASE AppendOnDisconnectedBranch(b)
    <2> DEFINE m1 == write_orphan(mem, b, "DisconnectedTip", 0)
    <2>1. PICK head :
              AttachToDisconnected(
                  [m1 EXCEPT !.disconnected_heads_mapping[head] = @ \cup {b},
                             !.disconnected_tips_mapping = Put(@, b, head)], b, head)
        BY <1>2 DEF AppendOnDisconnectedBranch
    <2> DEFINE m2 == [m1 EXCEPT !.disconnected_heads_mapping[head] = @ \cup {b},
                                !.disconnected_tips_mapping = Put(@, b, head)]
    <2>2. FilesToo(mem, m1, b) /\ Shaped(m1)
        BY WriteOrphanFiles, FilesTrans
    <2> HIDE DEF m1
    <2>3. FilesToo(mem, m2, b) /\ Shaped(m2)
        BY <2>2 DEF FilesToo, Shaped
    <2>4. PICK n : Settle(n) /\ SameFiles(m2, n)
        <3> HIDE DEF m2
        <3> QED BY <2>1, <2>3, AttachToDisconnectedFiles DEF m2
    <2> HIDE DEF m2
    <2> QED
        BY <2>3, <2>4, FilesTrans, SettledFiles
<1>3. CASE AppendDisconnectedHead(b)
    <2> DEFINE m1 == [mem EXCEPT
                         !.disconnected_heads_mapping = Put(@, b, {b}),
                         !.disconnected_tips_mapping = Put(@, b, b),
                         !.disconnected_heads_heights = Put(@, b, b),
                         !.heights = @ \cup {Height[b]},
                         !.inverse = Put(@, b, 0),
                         !.orphan_pool = @ \cup {b}]
    <2>1. PICK largest, type : Settle(write_orphan(attempt_attach(m1, b, largest), b, type, 0))
        BY <1>3 DEF AppendDisconnectedHead
    <2>2. DOMAIN m1 = DOMAIN mem
        OBVIOUS
    <2>3. /\ m1.orphan_pool = mem.orphan_pool \cup {b}
          /\ m1.heights = mem.heights \cup {Height[b]}
          /\ m1.inverse = Put(mem.inverse, b, 0)
        BY DEF Shaped
    <2> HIDE DEF m1
    <2>4. FilesToo(mem, m1, b) /\ Shaped(m1)
        <3> DEFINE inv == Put(mem.inverse, b, 0)
        <3>1. DOMAIN inv = DOMAIN mem.inverse \cup {b}
            BY PutDomain
        <3> HIDE DEF inv
        <3>2. m1.inverse = inv
            BY <2>3 DEF inv
        <3> QED BY <2>2, <2>3, <3>1, <3>2 DEF FilesToo, Shaped
    <2> DEFINE a == attempt_attach(m1, b, largest)
    <2>5. FilesToo(mem, a, b) /\ Shaped(a)
        BY <2>4, AttachFiles, FilesTrans
    <2> HIDE DEF a
    <2>6. FilesToo(mem, write_orphan(a, b, type, 0), b)
        BY <2>5, WriteOrphanFiles, FilesTrans
    <2> QED
        BY <2>1, <2>6, SettledFiles DEF a
<1> QED
    BY <1>1, <1>2, <1>3

\* The types say that the maps have their fields.
LEMMA MemoryShaped == TypeInv => Shaped(mem)
BY DEF TypeInv, Memory, Shaped

\* A step that leaves the db and the filed blocks alone.
LEMMA NothingFiled ==
    ASSUME PoolInv, db' = db, SameFiles(mem, mem'), pc \notin {"height", "panic"}, pc' # "height"
    PROVE  PoolInv' /\ Kept
BY DEF PoolInv, SameFiles, Filed, Kept

\* A panic leaves everything alone.
LEMMA PanicFiles == ASSUME PoolInv, Panic PROVE PoolInv' /\ Kept
BY DEF PoolInv, Panic, Filed, Kept, ledgerVars

\* Every step keeps the invariant and every block.
LEMMA PoolStep == TypeInv /\ PoolInv /\ [NextWithRewind]_vars => PoolInv' /\ Kept
<1> SUFFICES ASSUME TypeInv, PoolInv, [NextWithRewind]_vars PROVE PoolInv' /\ Kept
    OBVIOUS
\* write_block: the block is in the db before it leaves the pool.
<1>WriteFiles. ASSUME TypeInv, PoolInv, WriteBlockStore \/ WriteBlockHeight PROVE PoolInv' /\ Kept
    <2> USE <1>WriteFiles
    <2>1. CASE Panic
        BY <2>1, PanicFiles
    <2>2. CASE WriteBlockStore /\ ~Panic
        BY <2>2 DEF WriteBlockStore, PoolInv, Filed, Kept
    <2>3. CASE WriteBlockHeight /\ ~write_blockOk(mem, Head(to_write))
        BY <2>3 DEF WriteBlockHeight, PoolInv, Filed, Kept
    <2>4. CASE WriteBlockHeight /\ write_blockOk(mem, Head(to_write))
        <3> DEFINE b == Head(to_write)
        <3>1. /\ pc = "height" /\ mem' = MemoryAfterWrite(mem, b) /\ db' = db /\ pc' = AfterWrite
            BY <2>4 DEF WriteBlockHeight
        <3>2. pc' # "height"
            BY <3>1 DEF AfterWrite
        <3>3. Shaped(mem)
            BY MemoryShaped
        <3> HIDE DEF b
        <3>4. /\ mem'.orphan_pool = mem.orphan_pool \ {b} /\ mem'.heights = mem.heights
              /\ mem'.inverse = Drop(mem.inverse, {b})
            BY <3>1, <3>3 DEF MemoryAfterWrite, RemoveOrphan, Shaped
        <3>5. DOMAIN mem'.inverse = DOMAIN mem.inverse \ {b}
            BY <3>4 DEF Drop, Restrict
        <3>6. b \in db /\ Filed(mem) /\ mem.orphan_pool \cap db \subseteq {b}
            BY <3>1 DEF PoolInv, b
        <3>7. Filed(mem')
            BY <3>4, <3>5, <3>6 DEF Filed
        <3> QED
            BY <3>1, <3>2, <3>4, <3>6, <3>7 DEF PoolInv, Kept, Filed
    <2> QED
        BY <2>1, <2>2, <2>3, <2>4
\* process_orphans changes statuses and valid_tips.
<1>ProcessFiles. ASSUME TypeInv, PoolInv,
                        \/ ProcessStart \/ ProcessPastMax \/ ProcessMissing \/ ProcessEmpty
                        \/ ProcessSingle \/ ProcessSeveral \/ ProcessRest
                 PROVE  PoolInv' /\ Kept
    <2> USE <1>ProcessFiles
    <2>1. CASE Panic
        BY <2>1, PanicFiles
    <2>2. CASE ~Panic
        <3>1. pc \in {"process", "orphans", "rest"} /\ db' = db
            BY <2>2, ZenonT(30) DEF ProcessStart, ProcessPastMax, ProcessMissing, ProcessEmpty, ProcessSingle,
                   ProcessSeveral, ProcessRest, ProcessStop, ledgerVars
        <3>2. pc' # "height"
            BY <2>2, ZenonT(30) DEF ProcessStart, ProcessPastMax, ProcessMissing, ProcessEmpty, ProcessSingle,
                   ProcessSeveral, ProcessRest, ProcessStop
        <3>3. mem' = mem \/ \E v, t : mem' = [mem EXCEPT !.validations_mapping = v, !.valid_tips = t]
            <4>1. CASE ProcessStart \/ ProcessPastMax \/ ProcessMissing \/ ProcessEmpty \/ ProcessSingle
                BY <2>2, <4>1 DEF ProcessStart, ProcessPastMax, ProcessMissing, ProcessEmpty,
                       ProcessSingle, ProcessStop
            <4>2. CASE ProcessSeveral
                BY <2>2, <4>2 DEF ProcessSeveral
            <4>3. CASE ProcessRest
                BY <4>3 DEF ProcessRest
            <4> QED BY <4>1, <4>2, <4>3, ZenonT(30)
        <3>4. SameFiles(mem, mem')
            BY <3>3, MemoryShaped DEF SameFiles, Shaped
        <3> QED
            BY <3>1, <3>2, <3>4, NothingFiled, SMTT(30)
    <2> QED
        BY <2>1, <2>2
\* rewind moves the block at the cursor from the db to the pool.
<1>RewindFiles. ASSUME TypeInv, PoolInv,
                       \/ AttemptSwitch \/ RewindBlock \/ RewindDone
                       \/ \E b \in Block \cup {Genesis} : Rewind(b)
                PROVE  PoolInv' /\ Kept
    <2> USE <1>RewindFiles
    <2>1. CASE Panic
        BY <2>1, PanicFiles
    <2>2. CASE (AttemptSwitch \/ RewindDone \/ \E b \in Block \cup {Genesis} : Rewind(b)) /\ ~Panic
        <3>1. pc \in {"switch", "rewound", "idle"} /\ db' = db /\ mem' = mem
            BY <2>2 DEF AttemptSwitch, RewindDone, Rewind, ledgerVars, vars
        <3>2. pc' # "height"
            BY <2>2 DEF AttemptSwitch, RewindDone, Rewind, vars
        <3>3. SameFiles(mem, mem')
            BY <3>1 DEF SameFiles
        <3> QED
            BY <3>1, <3>2, <3>3, NothingFiled, SMTT(30)
    <2>3. CASE RewindBlock /\ ~Panic
        <3>1. /\ pc = "rewind" /\ db' = db \ {cursor} /\ mem' = Unwound(mem, cursor, inverse_height)
              /\ pc' \in {"rewind", "rewound"}
            BY <2>3 DEF RewindBlock
        <3>2. /\ mem'.orphan_pool = mem.orphan_pool \cup {cursor}
              /\ mem'.heights = mem.heights \cup {Height[cursor]}
              /\ mem'.inverse = Put(mem.inverse, cursor, inverse_height)
            BY <3>1, MemoryShaped DEF Unwound, update_max_orphan_height, Shaped
        <3> DEFINE inv == Put(mem.inverse, cursor, inverse_height)
        <3>3. DOMAIN inv = DOMAIN mem.inverse \cup {cursor}
            BY PutDomain
        <3> HIDE DEF inv
        <3>4. Filed(mem')
            <4>1. mem'.inverse = inv
                BY <3>2 DEF inv
            <4> QED BY <3>2, <3>3, <4>1 DEF PoolInv, Filed
        <3> QED
            BY <3>1, <3>2, <3>4 DEF PoolInv, Kept, Filed
    <2> QED
        BY <2>1, <2>2, <2>3
\* append_block adds the block, which was neither stored nor an orphan.
<1>AppendFiles. ASSUME TypeInv, PoolInv, NEW b \in Block, append_block(b) PROVE PoolInv' /\ Kept
    <2> USE <1>AppendFiles
    <2>1. CASE Panic
        BY <2>1, PanicFiles
    <2>2. CASE RejectBlock(b) \/ AppendCanonical(b)
        <3>1. pc = "idle" /\ pc' # "height" /\ db' = db /\ mem' = mem
            BY <2>2 DEF RejectBlock, AppendCanonical, Appending, vars, ledgerVars
        <3> QED
            BY <3>1, NothingFiled DEF SameFiles
    <2>3. CASE ~Panic /\ ~RejectBlock(b) /\ ~AppendCanonical(b)
        <3>1. Files(b)
            BY <2>3, MemoryShaped, ValidBranchesFile, DisconnectedBranchesFile DEF append_block
        <3>2. PICK n, t : (Settle(n) \/ SwitchTo(n, t)) /\ FilesToo(mem, n, b)
            BY <3>1, SMTT(30) DEF Files
        <3>3. Appending(b)
            BY <2>3 DEF append_block, AppendFork, AppendOnValidTip, AppendOnValidBranch,
                   AppendOnDisconnectedTip, AppendOnDisconnectedBranch, AppendDisconnectedHead, OnOrphan
        <3>4. b \notin db /\ pc = "idle"
            BY <3>3 DEF Appending, AppendResult
        <3>5. mem' = n /\ db' = db /\ pc' # "height"
            BY <3>2, <3>4 DEF Settle, SwitchTo, Remember, ledgerVars
        <3>6. Filed(mem')
            BY <3>2, <3>5, FilesTooFiled DEF PoolInv
        <3> QED
            BY <3>2, <3>4, <3>5, <3>6 DEF PoolInv, Kept, FilesToo
    <2> QED
        BY <2>1, <2>2, <2>3
<1>1. CASE UNCHANGED vars
    BY <1>1 DEF PoolInv, Filed, Kept, vars, ledgerVars
<1> QED
    BY <1>1, <1>WriteFiles, <1>ProcessFiles, <1>RewindFiles, <1>AppendFiles DEF NextWithRewind, Next, Step

\* An empty pool.
LEMMA PoolInit == Init => PoolInv
BY SMTT(30) DEF Init, PoolInv, Filed, EmptyMemory, EmptyMap

-----------------------------------------------------------------------------

\* heights_mapping and the pool never come apart, and between two appends no
\* block is canonical and an orphan: process_orphans, which unwraps the pool
\* entry of every block heights_mapping names, always finds it.
THEOREM FiledOrphans == SpecWithRewind => []OrphansFiled
<1>1. SpecWithRewind => []TypeInv
    BY InitType, NextType, PTL DEF SpecWithRewind
<1>2. PoolInv => OrphansFiled
    BY DEF PoolInv, Filed, OrphansFiled
<1> QED
    BY <1>1, <1>2, PoolInit, PoolStep, PTL DEF SpecWithRewind

\* An accepted block is in the db or in the pool for ever: no step of a
\* switch, a rewind or an append loses it, and none leaves it in neither place
\* for a moment.
THEOREM NothingForgotten == SpecWithRewind => NeverForgotten
<1>1. SpecWithRewind => []TypeInv
    BY InitType, NextType, PTL DEF SpecWithRewind
<1>2. SpecWithRewind => []PoolInv
    BY <1>1, PoolInit, PoolStep, PTL DEF SpecWithRewind
<1>3. Kept => [db \cup mem.orphan_pool \subseteq db' \cup mem'.orphan_pool]_vars
    BY DEF Kept
<1> QED
    BY <1>1, <1>2, <1>3, PoolStep, PTL DEF SpecWithRewind, NeverForgotten

-----------------------------------------------------------------------------
(***************************************************************************)
(* Switches.                                                               *)
(***************************************************************************)

\* The pool is a finite set.
LEMMA PoolFinite ==
    ASSUME TypeInv
    PROVE  /\ mem.orphan_pool \subseteq Block
           /\ IsFiniteSet(mem.orphan_pool) /\ Cardinality(mem.orphan_pool) \in Nat
<1>1. mem.orphan_pool \subseteq Block
    BY DEF TypeInv, Memory
<1> QED
    BY <1>1, FiniteAssumption, FS_Subset, FS_CardinalityType

\* A step outside a switch that leaves the pool and the ledger alone.
LEMMA QuietSwitch ==
    ASSUME SwitchInv, mem'.orphan_pool = mem.orphan_pool,
           UNCHANGED <<db, dbHeight, height, canonical_tip>>,
           pc \in {"idle", "switch", "process", "orphans", "rest"}, pc' \in {"idle", "process", "orphans", "rest"},
           pc' = "idle" => orphans' = NoOrphans,
           pc' # "idle" => orphans'.h > 0 /\ canonical_tip # Genesis
    PROVE  SwitchInv'
<1>1. OrphansRun'
    BY DEF OrphansRun
<1>2. TipHeight'
    BY DEF TipHeight, SwitchInv
<1>3. Gaining'
    BY DEF Gaining, Switching
<1>4. Fits'
    BY DEF Fits, Room, SwitchInv
<1> QED
    BY <1>1, <1>2, <1>3, <1>4 DEF SwitchInv

\* A panic.
LEMMA PanicSwitch == ASSUME pc' = "panic" PROVE SwitchInv'
BY DEF SwitchInv, OrphansRun, TipHeight, Gaining, Switching, Fits

\* Every step keeps the invariant.
LEMMA SwitchStep ==
    ASSUME WellFormedHeights, TypeInv, SwitchInv, [RestartNext]_vars
    PROVE  SwitchInv'
\* write_block: the block leaves the pool it was in.
<1>WriteSwitch. ASSUME WellFormedHeights, TypeInv, SwitchInv, WriteBlockStore \/ WriteBlockHeight
                PROVE  SwitchInv'
    <2> USE <1>WriteSwitch
    <2> DEFINE b == Head(to_write)
    <2>1. b \in Block /\ to_write \in Seq(Block) /\ to_write # <<>> /\ b = to_write[1] /\ Len(to_write) \in Nat /\ Len(to_write) > 0
        BY SMTT(30) DEF TypeInv, WriteBlockStore, WriteBlockHeight
    <2>2. CASE pc' = "panic"
        BY <2>2, PanicSwitch
    <2>3. CASE WriteBlockStore /\ pc' # "panic"
        <3>1. /\ pc = "write" /\ Parent[b] = canonical_tip /\ canonical_tip' = b /\ pc' = "height"
              /\ UNCHANGED <<dbHeight, height, mem, to_write, switchVars, orphans>>
            BY <2>3 DEF WriteBlockStore, Panic
        <3>2. OrphansRun'
            BY <3>1 DEF SwitchInv, OrphansRun
        <3>3. TipHeight'
            <4>1. canonical_tip = Genesis => Height[b] = dbHeight + 1
                BY <3>1 DEF SwitchInv, TipHeight
            <4>2. canonical_tip # Genesis => Height[b] = Height[canonical_tip] + 1
                BY <2>1, <3>1 DEF WellFormedHeights, TypeInv
            <4>3. b # Genesis
                BY <2>1, GenesisAssumption
            <4> HIDE DEF b
            <4> QED
                BY <3>1, <4>1, <4>2, <4>3 DEF SwitchInv, TipHeight
        <3>4. Gaining' /\ Fits'
            BY <3>1 DEF SwitchInv, Gaining, Switching, Fits, Room, switchVars
        <3> QED
            BY <3>2, <3>3, <3>4 DEF SwitchInv
    <2>4. CASE WriteBlockHeight /\ pc' # "panic"
        <3>1. /\ pc = "height" /\ dbHeight' = dbHeight + 1 /\ height' = dbHeight + 1
              /\ mem' = MemoryAfterWrite(mem, b) /\ to_write' = Tail(to_write) /\ pc' = AfterWrite
              /\ UNCHANGED <<db, canonical_tip, switchVars, orphans>>
            BY <2>4 DEF WriteBlockHeight
        <3>2. mem'.orphan_pool = mem.orphan_pool \ {b}
            BY <3>1, MemoryShaped DEF MemoryAfterWrite, RemoveOrphan, Shaped
        <3>3. /\ to_write' \in Seq(Block) /\ Len(to_write') = Len(to_write) - 1
              /\ \A i \in 1 .. Len(to_write) - 1 : to_write'[i] = to_write[i + 1]
            BY <2>1, <3>1, SMTT(30)
        <3>4. /\ Cardinality(mem'.orphan_pool) <= Cardinality(mem.orphan_pool)
              /\ b \in mem.orphan_pool => Cardinality(mem'.orphan_pool) = Cardinality(mem.orphan_pool) - 1
              /\ Cardinality(mem.orphan_pool) \in Nat /\ Cardinality(mem'.orphan_pool) \in Nat
            <4>1. IsFiniteSet(mem.orphan_pool) /\ Cardinality(mem.orphan_pool) \in Nat
                BY PoolFinite
            <4>2. IsFiniteSet(mem'.orphan_pool) /\ Cardinality(mem'.orphan_pool) =
                      IF b \in mem.orphan_pool THEN Cardinality(mem.orphan_pool) - 1 ELSE Cardinality(mem.orphan_pool)
                BY <3>2, <4>1, FS_RemoveElement, SMTT(30)
            <4> QED
                BY <4>1, <4>2, FS_CardinalityType, SMTT(30)
        <3>5. /\ canonical_tip # Genesis /\ Height[canonical_tip] = dbHeight + 1 /\ dbHeight \in Nat
            BY <3>1 DEF SwitchInv, TipHeight, TypeInv
        <3>6. TipHeight'
            BY <3>1, <3>5 DEF TipHeight, AfterWrite
        <3>7. CASE orphans = NoOrphans
            <4>1. pc' = (IF Len(to_write) > 1 THEN "write" ELSE "idle") /\ orphans' = NoOrphans
                BY <3>1, <3>7 DEF AfterWrite
            <4>2. Switching /\ b \in mem.orphan_pool
                BY <2>1, <3>1, <3>7, SMTT(30) DEF SwitchInv, Gaining, Switching
            <4>3. Cardinality(mem.orphan_pool) <= MaxOrphans + Len(to_write)
                BY <3>1, <3>7 DEF SwitchInv, Fits, Room
            <4>4. OrphansRun'
                BY <4>1 DEF OrphansRun
            <4>5. Fits'
                BY <2>1, <3>3, <3>4, <4>1, <4>2, <4>3, BoundsAssumption, SMTT(30) DEF Fits, Room
            <4>6. Gaining'
                <5>1. ASSUME NEW i \in 1 .. Len(to_write')
                      PROVE  /\ to_write'[i] \in mem'.orphan_pool
                             /\ Height[to_write'[i]] = Height[to_write'[1]] + i - 1
                    <6>1. /\ i \in Nat /\ i + 1 \in 1 .. Len(to_write) /\ 2 \in 1 .. Len(to_write)
                          /\ to_write'[i] = to_write[i + 1] /\ to_write'[1] = to_write[2]
                        BY <2>1, <3>3, SMTT(30)
                    <6>2. /\ to_write[i + 1] \in mem.orphan_pool
                          /\ Height[to_write[i + 1]] = Height[b] + i
                          /\ Height[to_write[2]] = Height[b] + 1
                        <7>1. \A j \in 1 .. Len(to_write) :
                                  /\ to_write[j] \in mem.orphan_pool
                                  /\ Height[to_write[j]] = Height[to_write[1]] + j - 1
                            BY <4>2 DEF SwitchInv, Gaining
                        <7>2. Height[b] \in Nat
                            BY <2>1, HeightAssumption
                        <7> QED
                            BY <2>1, <6>1, <7>1, <7>2, SMTT(30)
                    <6>3. Height[b] \in Nat
                        BY <2>1, HeightAssumption
                    <6> HIDE DEF b
                    <6>4. to_write[i + 1] # b
                        BY <6>1, <6>2, <6>3, SMTT(30)
                    <6> QED
                        BY <3>2, <6>1, <6>2, <6>3, <6>4, SMTT(30)
                <5> QED
                    BY <4>1, <5>1 DEF Gaining
            <4> QED
                BY <3>6, <4>4, <4>5, <4>6 DEF SwitchInv
        <3>8. CASE orphans # NoOrphans
            <4>1. Len(to_write) = 1 /\ orphans.h > 0
                BY <3>1, <3>8 DEF SwitchInv, OrphansRun
            <4>2. pc' \in {"process", "rest"} /\ orphans' = orphans
                BY <3>1, <3>8, <4>1, SMTT(30) DEF AfterWrite
            <4>3. Cardinality(mem.orphan_pool) <= MaxOrphans
                BY <3>1, <3>8 DEF SwitchInv, Fits, Room
            <4>4. OrphansRun' /\ Gaining'
                BY <4>1, <4>2 DEF OrphansRun, Gaining, Switching
            <4>5. Fits'
                BY <3>4, <4>2, <4>3, BoundsAssumption, SMTT(30) DEF Fits, Room
            <4> QED
                BY <3>6, <4>4, <4>5 DEF SwitchInv
        <3> QED
            BY <3>7, <3>8
    <2> QED
        BY <2>2, <2>3, <2>4
\* process_orphans writes one block after the other, and no rewind runs.
<1>ProcessSwitch. ASSUME TypeInv, SwitchInv,
                         \/ ProcessStart \/ ProcessPastMax \/ ProcessMissing \/ ProcessEmpty
                         \/ ProcessSingle \/ ProcessSeveral \/ ProcessRest
                  PROVE  SwitchInv'
    <2> USE <1>ProcessSwitch
    <2>1. CASE pc' = "panic"
        BY <2>1, PanicSwitch
    <2>2. CASE pc' # "panic"
        <3>1. /\ pc \in {"process", "orphans", "rest"}
              /\ UNCHANGED <<db, dbHeight, height, canonical_tip>>
            BY <2>2, ZenonT(30) DEF ProcessStart, ProcessPastMax, ProcessMissing, ProcessEmpty, ProcessSingle,
                   ProcessSeveral, ProcessRest, ProcessStop, ledgerVars, Panic
        <3>2. canonical_tip # Genesis /\ orphans.h > 0 /\ orphans \in OrphansRecord
            BY <3>1 DEF SwitchInv, TipHeight, OrphansRun, TypeInv
        <3>3. mem'.orphan_pool = mem.orphan_pool
            <4>1. mem' = mem \/ \E v, t : mem' = [mem EXCEPT !.validations_mapping = v, !.valid_tips = t]
                <5>1. CASE ProcessStart \/ ProcessPastMax \/ ProcessMissing \/ ProcessEmpty \/ ProcessSingle
                    BY <2>2, <5>1 DEF ProcessStart, ProcessPastMax, ProcessMissing, ProcessEmpty,
                           ProcessSingle, ProcessStop, Panic
                <5>2. CASE ProcessSeveral
                    BY <2>2, <5>2 DEF ProcessSeveral, Panic
                <5>3. CASE ProcessRest
                    BY <5>3 DEF ProcessRest
                <5> QED BY <5>1, <5>2, <5>3, ZenonT(30)
            <4> QED
                BY <4>1, MemoryShaped DEF Shaped
        <3>4. \/ pc' = "idle" /\ orphans' = NoOrphans
              \/ pc' \in {"orphans", "rest"} /\ orphans'.h > 0
              \/ pc' = "write" /\ orphans'.h > 0 /\ Len(to_write') = 1
            <4>1. CASE ProcessStart \/ ProcessPastMax
                BY <2>2, <3>2, <4>1 DEF ProcessStart, ProcessPastMax, ProcessStop, OrphansRecord
            <4>4. CASE ProcessMissing
                BY <2>2, <3>2, <4>4, SMTT(30) DEF ProcessMissing, OrphansRecord
            <4>6. CASE ProcessEmpty
                <5>1. PICK x : x = [orphans EXCEPT !.done = TRUE, !.h = @ + 1]
                    OBVIOUS
                <5>2. (pc' = "idle" /\ orphans' = NoOrphans) \/ (pc' = "orphans" /\ orphans' = x)
                    BY <2>2, <4>6, <5>1 DEF ProcessEmpty, ProcessStop
                <5>3. x.h > 0
                    BY <3>2, <5>1, SMTT(30) DEF OrphansRecord
                <5> QED
                    BY <5>2, <5>3
            <4>5. CASE ProcessRest
                BY <2>2, <3>2, <4>5, SMTT(30) DEF ProcessRest, OrphansRecord
            <4>2. CASE ProcessSingle
                BY <2>2, <3>2, <4>2, SMTT(30) DEF ProcessSingle, ProcessStop, Panic, OrphansRecord
            <4>3. CASE ProcessSeveral
                <5>1. \/ pc' = "idle" /\ orphans' = NoOrphans
                      \/ \E p : pc' = pc /\ pc = "orphans" /\ orphans' = [orphans EXCEPT !.done = TRUE, !.prev = p]
                      \/ \E p, f, w : /\ pc' = "write" /\ to_write' = <<w>>
                                      /\ orphans' = [orphans EXCEPT !.prev = p, !.buf = f]
                      \/ \E p, f : pc' = "rest" /\ orphans' = [orphans EXCEPT !.prev = p, !.buf = f]
                    BY <2>2, <4>3, ZenonT(30) DEF ProcessSeveral, Panic
                <5>3. pc' = "write" => Len(to_write') = 1
                    <6>1. pc' = "write" => \E w : to_write' = <<w>>
                        BY <3>1, <5>1
                    <6>2. \A w : Len(<<w>>) = 1
                        OBVIOUS
                    <6> QED
                        BY <6>1, <6>2
                <5>4. pc' # "idle" => orphans'.h = orphans.h
                    BY <3>2, <5>1 DEF OrphansRecord
                <5>5. pc' \in {"idle", "orphans", "write", "rest"} /\ (pc' = "idle" => orphans' = NoOrphans)
                    BY <5>1
                <5> QED
                    BY <3>2, <5>3, <5>4, <5>5
            <4> QED
                BY <4>1, <4>2, <4>3, <4>4, <4>5, <4>6
        <3>5. CASE pc' = "write"
            <4>1. orphans'.h > 0 /\ Len(to_write') = 1 /\ orphans' # NoOrphans
                BY <3>4, <3>5, SMTT(30) DEF NoOrphans
            <4>2. OrphansRun' /\ Gaining'
                BY <3>5, <4>1 DEF OrphansRun, Gaining, Switching
            <4>3. TipHeight'
                BY <3>1, <3>2, <3>5 DEF TipHeight, SwitchInv
            <4>4. Fits'
                BY <3>1, <3>3, <3>5, <4>1 DEF SwitchInv, Fits, Room
            <4> QED
                BY <4>2, <4>3, <4>4 DEF SwitchInv
        <3>6. CASE pc' # "write"
            BY <3>1, <3>2, <3>3, <3>4, <3>6, QuietSwitch
        <3> QED
            BY <3>5, <3>6
    <2> QED
        BY <2>1, <2>2
\* attempt_switch and rewind: the candidate is higher than the chain, and the
\* blocks that lead to it are as many as it is higher than the horizon.
<1>RewindSwitch. ASSUME WellFormedHeights, TypeInv, SwitchInv, AttemptSwitch \/ RewindBlock \/ RewindDone
                 PROVE  SwitchInv'
    <2> USE <1>RewindSwitch
    <2>1. CASE pc' = "panic"
        BY <2>1, PanicSwitch
    <2>2. CASE AttemptSwitch /\ pc' # "panic" /\ pc' # "rewind"
        <3>1. /\ pc = "switch" /\ pc' = "idle" /\ mem' = mem /\ orphans' = orphans
              /\ UNCHANGED <<db, dbHeight, height, canonical_tip>>
            BY <2>2 DEF AttemptSwitch, Panic, ledgerVars
        <3>2. orphans' = NoOrphans
            BY <3>1 DEF SwitchInv, OrphansRun
        <3> QED
            BY <3>1, <3>2, QuietSwitch
    <2>3. CASE AttemptSwitch /\ pc' = "rewind"
        <3>1. PICK n \in HorizonDistances(candidate) :
                  /\ to_write' = [i \in 1 .. n |-> IF i = n THEN candidate ELSE Ancestor[n - i][candidate]]
                  /\ horizon' = Ancestor[n][candidate]
                  /\ cursor' = canonical_tip /\ inverse_height' = 0
            BY <2>3 DEF AttemptSwitch, Panic
        <3>2. /\ pc = "switch" /\ Higher(candidate) /\ mem' = mem /\ orphans' = orphans
              /\ UNCHANGED <<db, dbHeight, height, canonical_tip>>
            BY <2>3 DEF AttemptSwitch, Panic, ledgerVars
        <3>3. PICK c \in Block : c = candidate /\ c \in mem.orphan_pool
            BY <3>2, PoolFinite DEF SwitchInv, Gaining
        <3>4. /\ n \in Distance /\ n \in Nat /\ n > 0 /\ Ancestor[n][c] \in Block
              /\ \A k \in 1 .. n - 1 : k \in Distance /\ Ancestor[k][c] \in mem.orphan_pool
            BY <3>1, <3>3, DistanceType, SMTT(30) DEF HorizonDistances, TypeInv, Distance
        <3>5. Height[c] = Height[horizon'] + n /\ Height[horizon'] \in Nat /\ Height[c] \in Nat
            BY <3>1, <3>3, <3>4, AncestorHeight, HeightAssumption
        <3>6. to_write' \in Seq(Block) /\ Len(to_write') = n
            <4>1. \A k \in 1 .. n - 1 : Ancestor[k][c] \in Block
                BY <3>4, PoolFinite
            <4>2. \A i \in 1 .. n : (IF i = n THEN c ELSE Ancestor[n - i][c]) \in Block
                BY <3>4, <4>1, SMTT(30)
            <4> QED
                BY <3>1, <3>3, <3>4, <4>2, SMTT(30)
        <3>7. ASSUME NEW i \in 1 .. n
              PROVE  to_write'[i] \in mem.orphan_pool /\ Height[to_write'[i]] = Height[c] - (n - i)
            <4>1. CASE i = n
                BY <3>1, <3>3, <3>4, <3>5, <4>1, SMTT(30)
            <4>2. CASE i # n
                <5>1. PICK k \in 1 .. n - 1 : k = n - i
                    BY <3>4, <4>2, SMTT(30)
                <5>2. to_write'[i] = Ancestor[k][c]
                    BY <3>1, <3>3, <4>2, <5>1
                <5>3. k \in Distance /\ Ancestor[k][c] \in mem.orphan_pool /\ Ancestor[k][c] \in Block
                    BY <3>4, PoolFinite
                <5>4. Height[c] = Height[Ancestor[k][c]] + k /\ Height[Ancestor[k][c]] \in Nat
                    BY <5>3, AncestorHeight, HeightAssumption
                <5> QED
                    BY <3>4, <5>1, <5>2, <5>3, <5>4, SMTT(30)
            <4> QED
                BY <4>1, <4>2
        <3>8. OrphansRun' /\ orphans' = NoOrphans
            BY <2>3, <3>2 DEF SwitchInv, OrphansRun
        <3>9. TipHeight'
            BY <2>3, <3>2 DEF SwitchInv, TipHeight
        <3>10. Gaining'
            <4>1. ASSUME NEW i \in 1 .. Len(to_write')
                  PROVE  to_write'[i] \in mem'.orphan_pool /\ Height[to_write'[i]] = Height[to_write'[1]] + i - 1
                <5>1. i \in 1 .. n /\ 1 \in 1 .. n
                    BY <3>4, <3>6, SMTT(30)
                <5> QED
                    BY <3>2, <3>4, <3>5, <3>7, <5>1, SMTT(30)
            <4>2. Height[horizon'] + Len(to_write') > height'
                BY <3>2, <3>3, <3>5, <3>6 DEF Higher
            <4>3. cursor' \in Block => Height[cursor'] + inverse_height' = height'
                BY <3>1, <3>2, GenesisAssumption, HeightAssumption, SMTT(30) DEF SwitchInv, TipHeight, TypeInv
            <4> QED
                BY <2>3, <4>1, <4>2, <4>3 DEF Gaining
        <3>11. Fits'
            BY <2>3, <3>1, <3>2, PoolFinite, BoundsAssumption, SMTT(30) DEF SwitchInv, Fits, Room
        <3> QED
            BY <3>8, <3>9, <3>10, <3>11 DEF SwitchInv
    <2>4. CASE RewindBlock /\ pc' # "panic"
        <3>1. /\ pc = "rewind" /\ cursor \in db /\ mem' = Unwound(mem, cursor, inverse_height)
              /\ inverse_height' = inverse_height + 1
              /\ \/ Parent[cursor] = horizon /\ pc' = "rewound" /\ cursor' = cursor
                 \/ Parent[cursor] # horizon /\ pc' = "rewind" /\ cursor' = Parent[cursor]
              /\ UNCHANGED <<dbHeight, height, canonical_tip, to_write, candidate, horizon, orphans>>
            BY <2>4 DEF RewindBlock, Panic
        <3>2. mem'.orphan_pool = mem.orphan_pool \cup {cursor}
            BY <3>1, MemoryShaped DEF Unwound, update_max_orphan_height, Shaped
        <3>3. Cardinality(mem'.orphan_pool) <= Cardinality(mem.orphan_pool) + 1 /\ Cardinality(mem.orphan_pool) \in Nat
              /\ Cardinality(mem'.orphan_pool) \in Nat
            <4>1. IsFiniteSet(mem.orphan_pool) /\ Cardinality(mem.orphan_pool) \in Nat
                BY PoolFinite
            <4>2. Cardinality(mem'.orphan_pool)
                      = IF cursor \in mem.orphan_pool THEN Cardinality(mem.orphan_pool) ELSE Cardinality(mem.orphan_pool) + 1
                BY <3>2, <4>1, FS_AddElement
            <4> QED
                BY <4>1, <4>2, SMTT(30)
        <3>4. cursor \in Block /\ Height[cursor] + inverse_height = height /\ horizon \in Block
              /\ Height[cursor] \in Nat /\ inverse_height \in Nat
            BY <3>1, HeightAssumption DEF SwitchInv, Gaining, TypeInv
        <3>5. Parent[cursor] \in Block => Height[cursor] = Height[Parent[cursor]] + 1 /\ Height[Parent[cursor]] \in Nat
            BY <3>4, HeightAssumption DEF WellFormedHeights
        <3>6. OrphansRun' /\ TipHeight'
            BY <3>1 DEF SwitchInv, OrphansRun, TipHeight
        <3>7. Gaining'
            <4>1. pc' = "rewind" /\ cursor' \in Block => Height[cursor'] + inverse_height' = height'
                BY <3>1, <3>4, <3>5, SMTT(30)
            <4>2. pc' = "rewound" => Height[horizon'] + inverse_height' = height'
                BY <3>1, <3>4, <3>5, SMTT(30)
            <4>3. \A i \in 1 .. Len(to_write') :
                      /\ to_write'[i] \in mem'.orphan_pool
                      /\ Height[to_write'[i]] = Height[to_write'[1]] + i - 1
                BY <3>1, <3>2 DEF SwitchInv, Gaining, Switching
            <4>4. Height[horizon'] + Len(to_write') > height' /\ pc' # "switch"
                BY <3>1 DEF SwitchInv, Gaining
            <4> QED
                BY <4>1, <4>2, <4>3, <4>4 DEF Gaining
        <3>8. Fits'
            <4>1. Cardinality(mem.orphan_pool) <= MaxOrphans + inverse_height
                BY <3>1 DEF SwitchInv, Fits, Room
            <4> QED
                BY <3>1, <3>3, <3>4, <4>1, BoundsAssumption, SMTT(30) DEF Fits, Room
        <3> QED
            BY <3>6, <3>7, <3>8 DEF SwitchInv
    <2>5. CASE RewindDone /\ pc' # "panic"
        <3>1. /\ pc = "rewound" /\ height' = Height[horizon] /\ dbHeight' = Height[horizon]
              /\ canonical_tip' = horizon /\ pc' = (IF to_write = <<>> THEN "idle" ELSE "write")
              /\ UNCHANGED <<mem, to_write, orphans>>
            BY <2>5 DEF RewindDone
        <3>2. /\ horizon \in Block /\ Height[horizon] \in Nat /\ inverse_height \in Nat /\ height \in Nat
              /\ to_write \in Seq(Block) /\ Len(to_write) \in Nat
            BY <3>1, HeightAssumption, SMTT(30) DEF TypeInv
        <3>3. Height[horizon] + inverse_height = height /\ Height[horizon] + Len(to_write) > height
            BY <3>1 DEF SwitchInv, Gaining
        <3>4. Len(to_write) > inverse_height /\ to_write # <<>> /\ pc' = "write"
            BY <3>1, <3>2, <3>3, SMTT(30)
        <3>5. orphans' = NoOrphans
            BY <3>1 DEF SwitchInv, OrphansRun
        <3>6. OrphansRun'
            BY <3>4, <3>5 DEF OrphansRun
        <3>7. TipHeight'
            BY <3>1, <3>2, <3>4, GenesisAssumption DEF TipHeight
        <3>8. Gaining'
            BY <3>1, <3>4 DEF SwitchInv, Gaining, Switching
        <3>9. Fits'
            <4>1. Cardinality(mem.orphan_pool) <= MaxOrphans + inverse_height /\ Cardinality(mem.orphan_pool) \in Nat
                BY <3>1, PoolFinite DEF SwitchInv, Fits, Room
            <4> QED
                BY <3>1, <3>2, <3>4, <3>5, <4>1, BoundsAssumption, SMTT(30) DEF Fits, Room
        <3> QED
            BY <3>6, <3>7, <3>8, <3>9 DEF SwitchInv
    <2> QED
        BY <2>1, <2>2, <2>3, <2>4, <2>5
\* append_block: a block enters the pool only below the limit.
<1>AppendSwitch. ASSUME TypeInv, SwitchInv, NEW b \in Block, append_block(b)
                 PROVE  SwitchInv'
    <2> USE <1>AppendSwitch
    <2>1. CASE pc' = "panic"
        BY <2>1, PanicSwitch
    <2>2. CASE RejectBlock(b)
        BY <2>2 DEF RejectBlock, vars, ledgerVars, switchVars, SwitchInv, OrphansRun, TipHeight, Gaining, Switching,
                    Fits, Room
    <2>3. CASE AppendCanonical(b)
        <3>1. /\ pc = "idle" /\ Height[b] = height + 1 /\ Parent[b] = canonical_tip /\ to_write' = <<b>> /\ pc' = "write"
              /\ orphans' = [NoOrphans EXCEPT !.h = Height[b] + 1]
              /\ UNCHANGED <<dbHeight, height, canonical_tip, mem>>
            BY <2>3 DEF AppendCanonical, Appending, AppendResult, ledgerVars
        <3>2. orphans'.h > 0 /\ orphans' # NoOrphans
            BY <3>1, HeightAssumption, SMTT(30) DEF NoOrphans
        <3>3. OrphansRun' /\ Gaining'
            BY <3>1, <3>2 DEF OrphansRun, Gaining, Switching
        <3>4. TipHeight'
            BY <3>1, SMTT(30) DEF SwitchInv, TipHeight
        <3>5. Fits'
            BY <3>1, <3>2 DEF SwitchInv, Fits, Room
        <3> QED
            BY <3>3, <3>4, <3>5 DEF SwitchInv
    <2>4. CASE ~RejectBlock(b) /\ ~AppendCanonical(b) /\ pc' # "panic"
        <3>1. Files(b)
            BY <2>4, MemoryShaped, ValidBranchesFile, DisconnectedBranchesFile DEF append_block, Panic
        <3>2. PICK n, t : (Settle(n) \/ (SwitchTo(n, t) /\ t \in n.orphan_pool)) /\ FilesToo(mem, n, b)
            BY <3>1 DEF Files
        <3>3. Appending(b) /\ Parent[b] # canonical_tip
            BY <2>4 DEF append_block, AppendFork, AppendOnValidTip, AppendOnValidBranch,
                   AppendOnDisconnectedTip, AppendOnDisconnectedBranch, AppendDisconnectedHead, OnOrphan
        <3>4. pc = "idle" /\ Cardinality(mem.orphan_pool) < MaxOrphans
            BY <3>3, PoolFinite, BoundsAssumption, SMTT(30) DEF Appending, AppendResult, PoolFull
        <3>5. /\ mem' = n /\ UNCHANGED <<dbHeight, height, canonical_tip, orphans>>
              /\ pc' = "idle" \/ (pc' = "switch" /\ candidate' \in mem'.orphan_pool)
            BY <3>2, <3>4 DEF Settle, SwitchTo, Remember, ledgerVars
        <3>6. orphans' = NoOrphans
            BY <3>4, <3>5 DEF SwitchInv, OrphansRun
        <3>7. Cardinality(mem'.orphan_pool) <= MaxOrphans
            <4>1. mem'.orphan_pool = mem.orphan_pool \cup {b}
                BY <3>2, <3>5 DEF FilesToo
            <4>2. IsFiniteSet(mem.orphan_pool) /\ Cardinality(mem.orphan_pool) \in Nat
                BY PoolFinite
            <4>3. Cardinality(mem'.orphan_pool)
                      = IF b \in mem.orphan_pool THEN Cardinality(mem.orphan_pool) ELSE Cardinality(mem.orphan_pool) + 1
                BY <4>1, <4>2, FS_AddElement
            <4> QED
                BY <3>4, <4>2, <4>3, BoundsAssumption, SMTT(30)
        <3>8. OrphansRun' /\ Gaining'
            BY <3>5, <3>6 DEF OrphansRun, Gaining, Switching
        <3>9. TipHeight'
            BY <3>4, <3>5 DEF SwitchInv, TipHeight
        <3>10. Fits'
            BY <3>5, <3>7 DEF Fits, Room
        <3> QED
            BY <3>8, <3>9, <3>10 DEF SwitchInv
    <2> QED
        BY <2>1, <2>2, <2>3, <2>4
<1>1. CASE Restart
    <2>1. mem'.orphan_pool = {} /\ pc' = "idle" /\ orphans' = NoOrphans /\ canonical_tip' = Genesis
          /\ height' = dbHeight /\ dbHeight' = dbHeight
        BY <1>1 DEF Restart, EmptyMemory
    <2>2. Fits'
        BY <2>1, FS_EmptySet, BoundsAssumption, SMTT(30) DEF Fits, Room
    <2> QED
        BY <2>1, <2>2 DEF SwitchInv, OrphansRun, TipHeight, Gaining, Switching
<1>2. CASE UNCHANGED vars
    BY <1>2 DEF vars, ledgerVars, switchVars, SwitchInv, OrphansRun, TipHeight, Gaining, Switching, Fits, Room
<1>3. CASE Step
    BY <1>3, <1>WriteSwitch, <1>ProcessSwitch, <1>RewindSwitch DEF Step
<1>4. CASE \E b \in Block : append_block(b)
    BY <1>4, <1>AppendSwitch
<1> QED
    BY <1>1, <1>2, <1>3, <1>4 DEF RestartNext, Next

\* The maps of Chain::new.
LEMMA SwitchInit == Init => SwitchInv
<1> SUFFICES ASSUME Init PROVE SwitchInv
    OBVIOUS
<1>1. mem.orphan_pool = {}
    BY DEF Init, EmptyMemory
<1>2. Fits
    BY <1>1, FS_EmptySet, BoundsAssumption, SMTT(30) DEF Init, Fits, Room
<1> QED
    BY <1>2 DEF Init, SwitchInv, OrphansRun, TipHeight, Gaining, Switching

\* The invariant holds from one restart to the next.
LEMMA SwitchInvariant == ASSUME WellFormedHeights PROVE RestartSpec => []SwitchInv
<1>1. RestartSpec => []TypeInv
    <2>1. RestartInv => TypeInv
        BY DEF RestartInv
    <2> QED
        BY <2>1, RestartInit, RestartStep, PTL DEF RestartSpec
<1>2. TypeInv /\ SwitchInv /\ [RestartNext]_vars => SwitchInv'
    BY SwitchStep
<1> QED
    BY <1>1, <1>2, SwitchInit, PTL DEF RestartSpec

\* When height fields follow from the parents', the pool never holds more than
\* MAX_ORPHANS blocks between two appends, although rewind puts blocks into it
\* without looking at the limit, and whenever the process is restarted.
THEOREM PoolStaysBounded == ASSUME WellFormedHeights PROVE RestartSpec => []PoolBounded
<1>1. SwitchInv => PoolBounded
    BY DEF SwitchInv, Fits, Room, PoolBounded
<1> QED
    BY <1>1, SwitchInvariant, PTL

\* When height fields follow from the parents', attempt_switch never trades the
\* canonical chain for one that is not higher: after the rewind, the blocks it
\* still has to write lead above the height that was given up.
THEOREM SwitchesGain == ASSUME WellFormedHeights PROVE RestartSpec => []SwitchGains
<1>1. SwitchInv => SwitchGains
    BY DEF SwitchInv, Gaining, SwitchGains
<1> QED
    BY <1>1, SwitchInvariant, PTL

=============================================================================
