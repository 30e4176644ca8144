------------------------- MODULE OrphanChainsProofs -------------------------
(***************************************************************************)
(* Facts about the in-memory maps, for every finite set of blocks: partial *)
(* maps and ancestors, the types that the helpers keep, how the links      *)
(* between the orphans change when a block enters or leaves the pool, and  *)
(* that the helpers of append_block, write_block and rewind change them in *)
(* these ways.                                                             *)
(***************************************************************************)
EXTENDS OrphanChains, FiniteSetTheorems, TLAPS

\* A leaf is proved by Zenon unless it says otherwise.
USE Zenon

-----------------------------------------------------------------------------
(***************************************************************************)
(* Partial maps.                                                           *)
(***************************************************************************)

\* A member of Maps(K, V) has its domain in K and its values in V.
LEMMA MapValue ==
    ASSUME NEW K, NEW V, NEW f \in Maps(K, V)
    PROVE  /\ DOMAIN f \subseteq K
           /\ \A x \in DOMAIN f : f[x] \in V
           /\ f \in [DOMAIN f -> V]
BY DEF Maps

\* Conversely, a function with such a domain and such values is a member.
LEMMA MapIntro ==
    ASSUME NEW K, NEW V, NEW D \in SUBSET K, NEW f \in [D -> V]
    PROVE  f \in Maps(K, V)
BY DEF Maps

\* Maps(K, V) is the set form of IsMap.
LEMMA MapIsMap ==
    ASSUME NEW K, NEW V, NEW f \in Maps(K, V)
    PROVE  IsMap(f, K, V)
BY MapValue DEF IsMap

\* Override keeps the type.
LEMMA MapOverride ==
    ASSUME NEW K, NEW V, NEW f \in Maps(K, V), NEW g \in Maps(K, V)
    PROVE  Override(f, g) \in Maps(K, V)
<1>1. Override(f, g) \in [DOMAIN f \cup DOMAIN g -> V]
    BY MapValue DEF Override
<1>2. DOMAIN f \cup DOMAIN g \in SUBSET K
    BY MapValue
<1> QED
    BY <1>1, <1>2, MapIntro

\* Marking blocks with one value gives a map.
LEMMA MapMark ==
    ASSUME NEW K, NEW V, NEW S \in SUBSET K, NEW v \in V
    PROVE  Mark(S, v) \in Maps(K, V)
<1>1. Mark(S, v) \in [S -> V]
    BY DEF Mark
<1> QED
    BY <1>1, MapIntro

\* HashMap::insert keeps the type.
LEMMA MapPut ==
    ASSUME NEW K, NEW V, NEW f \in Maps(K, V), NEW k \in K, NEW v \in V
    PROVE  Put(f, k, v) \in Maps(K, V)
<1>1. [x \in {k} |-> v] \in Maps(K, V)
    BY MapMark, {k} \in SUBSET K DEF Mark
<1> QED
    BY <1>1, MapOverride DEF Put

\* HashMap::remove keeps the type.
LEMMA MapDrop ==
    ASSUME NEW K, NEW V, NEW f \in Maps(K, V), NEW S
    PROVE  Drop(f, S) \in Maps(K, V)
<1>1. Drop(f, S) \in [DOMAIN f \ S -> V]
    BY MapValue DEF Drop, Restrict
<1>2. DOMAIN f \ S \in SUBSET K
    BY MapValue
<1> QED
    BY <1>1, <1>2, MapIntro

\* Replacing one value keeps the type.
LEMMA MapExcept ==
    ASSUME NEW K, NEW V, NEW f \in Maps(K, V), NEW k, NEW v \in V
    PROVE  [f EXCEPT ![k] = v] \in Maps(K, V)
<1>1. [f EXCEPT ![k] = v] \in [DOMAIN f -> V]
    BY MapValue
<1>2. DOMAIN f \in SUBSET K
    BY MapValue
<1> QED
    BY <1>1, <1>2, MapIntro

-----------------------------------------------------------------------------
(***************************************************************************)
(* Greatest elements.                                                      *)
(***************************************************************************)

\* A finite non-empty set of integers has a greatest element, and Max is it.
\* Of the sets of what lies above an element, one is minimal; it is empty.
LEMMA MaxOfFinite ==
    ASSUME NEW S \in SUBSET Int, IsFiniteSet(S), S # {}
    PROVE  Max(S) \in S /\ \A y \in S : y <= Max(S)
<1> DEFINE Above(x) == {y \in S : y > x}
           T == {Above(x) : x \in S}
<1>1. IsWellFoundedOn(StrictSubsetOrdering(S), FiniteSubsetsOf(S))
    BY FS_StrictSubsetOrderingWellFounded
<1>2. T \subseteq FiniteSubsetsOf(S)
    <2> SUFFICES ASSUME NEW x \in S PROVE Above(x) \in FiniteSubsetsOf(S)
        OBVIOUS
    <2>1. Above(x) \in SUBSET S
        OBVIOUS
    <2>2. IsFiniteSet(Above(x))
        BY <2>1, FS_Subset
    <2> QED
        BY <2>1, <2>2 DEF FiniteSubsetsOf
<1>3. T # {}
    OBVIOUS
<1>4. PICK U \in T : \A W \in T : <<W, U>> \notin StrictSubsetOrdering(S)
    <2> HIDE DEF T
    <2> QED
        BY <1>1, <1>2, <1>3, WFMin
<1>5. PICK m \in S : U = Above(m)
    OBVIOUS
<1>6. \A y \in S : y <= m
    <2> SUFFICES ASSUME NEW y \in S, y > m PROVE FALSE
        BY SMTT(30)
    <2>1. Above(y) \in T
        OBVIOUS
    <2>2. Above(y) \subseteq U /\ y \in U /\ y \notin Above(y)
        <3>1. \A z \in S : z > y => z > m
            BY SMTT(30)
        <3>2. y \notin Above(y)
            BY SMTT(30)
        <3> QED
            BY <1>5, <3>1, <3>2
    <2>3. <<Above(y), U>> \in StrictSubsetOrdering(S)
        BY <2>2, <1>5 DEF StrictSubsetOrdering
    <2> QED
        BY <1>4, <2>1, <2>3
<1> QED
    BY <1>6 DEF Max

\* A nonempty set of natural numbers has a least element.
LEMMA LeastNatural ==
    ASSUME NEW S \in SUBSET Nat, S # {}
    PROVE  \E m \in S : \A y \in S : m <= y
<1>1. PICK m \in S : \A y \in S : <<y, m>> \notin OpToRel(<, Nat)
    BY NatLessThanWellFounded, WFMin
<1>2. \A y \in Nat : y < m => <<y, m>> \in OpToRel(<, Nat)
    BY DEF OpToRel
<1>3. \A y \in S : ~(y < m)
    BY <1>1, <1>2
<1> QED
    BY <1>3, SMTT(30)

-----------------------------------------------------------------------------
(***************************************************************************)
(* The helpers of Chain keep the type of the maps.                         *)
(***************************************************************************)

\* Distances are positive integers, bounded by the number of blocks.
LEMMA DistanceType ==
    /\ Cardinality(Block) \in Nat
    /\ \A n \in Distance : n \in Nat /\ 1 <= n /\ n <= Cardinality(Block)
BY FiniteAssumption, FS_CardinalityType, SMTT(30) DEF Distance

\* What following parent_hash n times means.
LEMMA AncestorStep ==
    /\ \A b \in Block \cup {Genesis, NoBlock} : Ancestor[0][b] = b
    /\ \A n \in Distance : \A b \in Block \cup {Genesis, NoBlock} :
          Ancestor[n][b] = IF Ancestor[n - 1][b] \in Block THEN Parent[Ancestor[n - 1][b]] ELSE NoBlock
\* The recursive definition of Up has a solution: the greatest distance up to
\* which it has one is the number of blocks.
<1>UpUnfold. Up = [n \in {0} \cup Distance |->
                     [b \in Block \cup {Genesis, NoBlock} |->
                         IF n = 0 THEN b
                         ELSE LET a == Up[n - 1][b] IN IF a \in Block THEN Parent[a] ELSE NoBlock]]
    <2> DEFINE N == Cardinality(Block)
               B == Block \cup {Genesis, NoBlock}
               Next1(u) == [b \in B |-> IF u[b] \in Block THEN Parent[u[b]] ELSE NoBlock]
               Row(g, n) == [b \in B |-> IF n = 0 THEN b
                                         ELSE LET a == g[n - 1][b] IN IF a \in Block THEN Parent[a] ELSE NoBlock]
               Solves(g, n) == g = [k \in 0 .. n |-> Row(g, k)]
               S == {n \in 0 .. N : \E g : Solves(g, n)}
    <2>1. N \in Nat /\ {0} \cup Distance = 0 .. N
        BY DistanceType, SMTT(30) DEF Distance
    <2> HIDE DEF N
    <2>2. 0 \in S
        <3> DEFINE g == [k \in 0 .. 0 |-> [b \in B |-> b]]
        <3>1. Solves(g, 0)
            BY SMTT(30)
        <3> QED
            BY <2>1, <3>1
    <2>3. ASSUME NEW n \in S, n < N PROVE n + 1 \in S
        <3>1. PICK g : Solves(g, n)
            OBVIOUS
        <3> DEFINE h == [k \in 0 .. n + 1 |-> IF k = n + 1 THEN Next1(g[n]) ELSE g[k]]
        <3>2. n \in Nat /\ n + 1 \in 0 .. N /\ n + 1 \in 0 .. n + 1
            BY <2>1, <2>3, SMTT(30)
        <3>3. ASSUME NEW k \in 0 .. n + 1 PROVE h[k] = Row(h, k)
            <4>1. CASE k = n + 1
                <5>1. h[n] = g[n] /\ k - 1 = n /\ k # 0
                    BY <3>2, <4>1, SMTT(30)
                <5>2. h[k] = Next1(g[n])
                    BY <4>1
                <5> HIDE DEF h
                <5> QED
                    BY <5>1, <5>2
            <4>2. CASE k # n + 1
                <5>1. k \in 0 .. n /\ (k # 0 => k - 1 \in 0 .. n /\ k - 1 # n + 1 /\ k - 1 \in 0 .. n + 1)
                    BY <3>2, <4>2, SMTT(30)
                <5>2. h[k] = g[k] /\ (k # 0 => h[k - 1] = g[k - 1])
                    BY <4>2, <5>1, <3>2
                <5>3. g[k] = Row(g, k)
                    <6> DEFINE G == [i \in 0 .. n |-> Row(g, i)]
                    <6>1. G[k] = Row(g, k)
                        BY <5>1
                    <6> QED
                        BY <3>1, <6>1
                <5> HIDE DEF h
                <5> QED
                    BY <5>2, <5>3
            <4> QED
                BY <4>1, <4>2
        <3>4. Solves(h, n + 1)
            BY <3>3
        <3> QED
            BY <3>2, <3>4
    <2>4. N \in S
        <3> HIDE DEF S
        <3>1. S \in SUBSET (0 .. N) /\ S \in SUBSET Int
            BY <2>1, SMTT(30) DEF S
        <3>2. IsFiniteSet(S)
          <4>1. IsFiniteSet(0 .. N)
              BY <2>1, FS_Interval, SMTT(30)
          <4> QED
              BY <3>1, <4>1, FS_Subset
        <3>3. Max(S) \in S /\ \A y \in S : y <= Max(S)
            BY <2>2, <3>1, <3>2, MaxOfFinite
        <3>4. Max(S) \in 0 .. N
            BY <3>1, <3>3
        <3>5. CASE Max(S) < N
            <4>1. Max(S) + 1 \in S
                BY <2>3, <3>3, <3>5
            <4> QED
                BY <3>3, <3>4, <4>1, SMTT(30)
        <3>6. CASE ~(Max(S) < N)
            BY <2>1, <3>3, <3>4, <3>6, SMTT(30)
        <3> QED
            BY <3>5, <3>6
    <2>5. PICK g : Solves(g, N)
        BY <2>4
    <2>6. g = [n \in {0} \cup Distance |->
                [b \in Block \cup {Genesis, NoBlock} |->
                    IF n = 0 THEN b
                    ELSE LET a == g[n - 1][b] IN IF a \in Block THEN Parent[a] ELSE NoBlock]]
        BY <2>1, <2>5
    <2> QED
        BY <2>6 DEF Up
<1>1. \A n \in {0} \cup Distance : \A b \in Block \cup {Genesis, NoBlock} : Ancestor[n][b] = Up[n][b]
    BY DEF Ancestor
<1>2. \A n \in Distance : n - 1 \in {0} \cup Distance /\ n # 0
    BY DistanceType, SMTT(30) DEF Distance
<1> DEFINE U == [n \in {0} \cup Distance |->
            [b \in Block \cup {Genesis, NoBlock} |->
                IF n = 0 THEN b
                ELSE LET a == Up[n - 1][b] IN IF a \in Block THEN Parent[a] ELSE NoBlock]]
<1>0. Up = U
    BY <1>UpUnfold
<1>3. \A b \in Block \cup {Genesis, NoBlock} : Up[0][b] = b
    <2>1. \A b \in Block \cup {Genesis, NoBlock} : U[0][b] = b
        OBVIOUS
    <2> HIDE DEF U
    <2> QED
        BY <1>0, <2>1
<1>4. \A n \in Distance : \A b \in Block \cup {Genesis, NoBlock} :
          Up[n][b] = IF Up[n - 1][b] \in Block THEN Parent[Up[n - 1][b]] ELSE NoBlock
    <2> SUFFICES ASSUME NEW n \in Distance, NEW b \in Block \cup {Genesis, NoBlock}
                 PROVE  Up[n][b] = IF Up[n - 1][b] \in Block THEN Parent[Up[n - 1][b]] ELSE NoBlock
        OBVIOUS
    <2>1. U[n][b] = IF Up[n - 1][b] \in Block THEN Parent[Up[n - 1][b]] ELSE NoBlock
        BY <1>2
    <2> HIDE DEF U
    <2> QED
        BY <1>0, <2>1
<1> HIDE DEF U
<1>5. \A b \in Block \cup {Genesis, NoBlock} : Ancestor[0][b] = b
    BY <1>1, <1>3
<1>6. ASSUME NEW n \in Distance, NEW b \in Block \cup {Genesis, NoBlock}
      PROVE  Ancestor[n][b] = IF Ancestor[n - 1][b] \in Block THEN Parent[Ancestor[n - 1][b]] ELSE NoBlock
    <2>1. Ancestor[n][b] = Up[n][b] /\ Ancestor[n - 1][b] = Up[n - 1][b]
        BY <1>1, <1>2
    <2> QED
        BY <1>4, <2>1
<1> QED
    BY <1>5, <1>6

\* No block is its own parent.
LEMMA ParentDiffers == \A b \in Block : Parent[b] # b
<1> SUFFICES ASSUME NEW b \in Block PROVE Parent[b] # b
    OBVIOUS
<1>1. 1 \in Distance
    <2>1. Cardinality(Block) \in Nat /\ Cardinality(Block) # 0
        BY FiniteAssumption, FS_CardinalityType, FS_EmptySet
    <2> QED
        BY <2>1, SMTT(30) DEF Distance
<1>2. Ancestor[1][b] = Parent[b]
    <2>1. Ancestor[0][b] = b
        BY AncestorStep
    <2>2. 1 - 1 = 0
        BY SMTT(30)
    <2> QED
        BY <1>1, <2>1, <2>2, AncestorStep, SMTT(30)
<1> QED
    BY <1>1, <1>2, AcyclicAssumption

\* The n-th ancestor of a block is n lower.
LEMMA AncestorHeight ==
    ASSUME WellFormedHeights, NEW c \in Block, NEW n \in {0} \cup Distance,
           Ancestor[n][c] \in Block
    PROVE  Height[c] = Height[Ancestor[n][c]] + n
<1> DEFINE Wrong == {k \in {0} \cup Distance :
                        Ancestor[k][c] \in Block /\ Height[c] # Height[Ancestor[k][c]] + k}
<1> SUFFICES ASSUME n \in Wrong PROVE FALSE
    OBVIOUS
<1>1. {0} \cup Distance \subseteq Nat
    BY DistanceType, SMTT(30)
<1>2. PICK m \in Wrong : \A y \in Wrong : m <= y
    BY <1>1, LeastNatural
<1>3. m # 0
    <2>1. Ancestor[0][c] = c
        BY AncestorStep
    <2> QED
        BY <2>1, HeightAssumption, SMTT(30)
<1>4. m \in Distance /\ m - 1 \in {0} \cup Distance /\ m - 1 \notin Wrong
    <2>1. m \in Distance /\ m \in Nat
        BY <1>1, <1>3
    <2>2. m - 1 \in {0} \cup Distance
        BY <2>1, DistanceType, SMTT(30) DEF Distance
    <2>3. m - 1 \notin Wrong
        <3> HIDE DEF Wrong
        <3> QED BY <1>2, <2>1, SMTT(30)
    <2> QED
        BY <2>1, <2>2, <2>3
<1>5. PICK a : a = Ancestor[m - 1][c]
    OBVIOUS
<1>6. Ancestor[m][c] = IF a \in Block THEN Parent[a] ELSE NoBlock
    BY <1>4, <1>5, AncestorStep, ZenonT(60)
<1>7. a \in Block /\ Parent[a] = Ancestor[m][c] /\ Parent[a] \in Block
    BY <1>6, GenesisAssumption
<1>8. Height[a] = Height[Parent[a]] + 1
    BY <1>7 DEF WellFormedHeights
<1>9. Height[c] = Height[a] + (m - 1)
    BY <1>4, <1>5, <1>7
<1> QED
    BY <1>1, <1>4, <1>7, <1>8, <1>9, HeightAssumption, SMTT(30)

\* recurse_inverse, make_valid_tips and write_block only meet orphans when they
\* walk up the parents.
LEMMA WalksStayInPool ==
    ASSUME NEW m \in Memory, NEW b
    PROVE  /\ PoolAncestors(m, b) \subseteq m.orphan_pool
           /\ WalkUntilValid(m, b) \subseteq m.orphan_pool
           /\ PoolAncestors(m, b) \in SUBSET Block
           /\ WalkUntilValid(m, b) \in SUBSET Block
<1>1. \A n \in PoolDistances(m, b) : Ancestor[n][b] \in m.orphan_pool
    BY DistanceType, SMTT(30) DEF PoolDistances
<1>2. m.orphan_pool \subseteq Block
    BY DEF Memory
<1> QED
    BY <1>1, <1>2 DEF PoolAncestors, WalkUntilValid

\* update_max_orphan_height.
LEMMA UpdateMaxType ==
    ASSUME NEW m \in Memory, NEW h \in Nat
    PROVE  update_max_orphan_height(m, h) \in Memory
BY DEF Memory, update_max_orphan_height, NoHeight

\* write_orphan.
LEMMA WriteOrphanType ==
    ASSUME NEW m \in Memory, NEW b \in Block, NEW type \in OrphanType, NEW inverse \in Nat
    PROVE  write_orphan(m, b, type, inverse) \in Memory
<1> DEFINE inv == IF b \in DOMAIN m.inverse THEN m.inverse ELSE Put(m.inverse, b, inverse)
           val == Put(m.validations_mapping, b, type)
           tips == IF type = "ValidChainTip" THEN m.valid_tips \cup {b} ELSE m.valid_tips
           filed == [m EXCEPT !.orphan_pool = @ \cup {b},
                              !.heights = @ \cup {Height[b]},
                              !.inverse = inv,
                              !.validations_mapping = val,
                              !.valid_tips = tips]
<1>1. inv \in Maps(Block, Nat)
    BY MapPut DEF Memory
<1>2. val \in Maps(Block, OrphanType)
    BY MapPut DEF Memory
<1>3. tips \in SUBSET Block
    BY DEF Memory
<1>4. Height[b] \in Nat
    BY HeightAssumption
<1>5. filed \in Memory
    <2> HIDE DEF inv, val, tips
    <2> QED BY <1>1, <1>2, <1>3, <1>4 DEF Memory
<1>6. write_orphan(m, b, type, inverse) = update_max_orphan_height(filed, Height[b])
    BY DEF write_orphan
<1> QED
    BY <1>4, <1>5, <1>6, UpdateMaxType

\* The loop of recurse_inverse.  The new inverse heights are the greatest of
\* finitely many numbers.
LEMMA RaiseInverseType ==
    ASSUME NEW m \in Memory, NEW T, NEW start \in Nat
    PROVE  RaiseInverse(m, T, start) \in Memory
<1> DEFINE reached(x) ==
               {start + n : n \in {n \in Distance :
                                      \E t \in T : n \in PoolDistances(m, t) /\ Ancestor[n][t] = x}}
           raised == [x \in DOMAIN m.inverse |-> Max({m.inverse[x]} \cup reached(x))]
<1>1. ASSUME NEW x \in DOMAIN m.inverse PROVE raised[x] \in Nat
    <2> DEFINE S == {m.inverse[x]} \cup reached(x)
    <2>1. m.inverse[x] \in Nat
        BY MapValue DEF Memory
    <2>2. reached(x) \in SUBSET Nat /\ \A s \in reached(x) : s <= start + Cardinality(Block)
        BY DistanceType, SMTT(30)
    <2>3. start + Cardinality(Block) \in Nat
        BY DistanceType, SMTT(30)
    <2>4. IsFiniteSet(reached(x))
        <3> HIDE DEF reached
        <3> QED BY <2>2, <2>3, FS_BoundedSetOfNaturals
    <2>5. IsFiniteSet(S) /\ S \in SUBSET Nat /\ S # {}
        <3>1. IsFiniteSet(reached(x) \cup {m.inverse[x]})
            <4> HIDE DEF reached
            <4> QED BY <2>4, FS_AddElement
        <3>2. S = reached(x) \cup {m.inverse[x]}
            OBVIOUS
        <3> QED
            BY <2>1, <2>2, <3>1, <3>2
    <2>6. Max(S) \in S
        <3> HIDE DEF S
        <3>1. S \in SUBSET Int
            BY <2>5, SMTT(30)
        <3> QED BY <2>5, <3>1, MaxOfFinite
    <2> QED
        BY <2>5, <2>6
<1>2. raised \in Maps(Block, Nat)
    <2>1. raised \in [DOMAIN m.inverse -> Nat]
        BY <1>1
    <2>2. DOMAIN m.inverse \in SUBSET Block
        BY MapValue, SMTT(30) DEF Memory
    <2> HIDE DEF raised
    <2> QED BY <2>1, <2>2, MapIntro
<1>3. RaiseInverse(m, T, start) = [m EXCEPT !.inverse = raised]
    BY DEF RaiseInverse
<1> HIDE DEF raised
<1> QED
    BY <1>2, <1>3 DEF Memory

\* recurse_inverse.
LEMMA RecurseInverseType ==
    ASSUME NEW m \in Memory, NEW b \in Block, NEW start \in Nat, NEW make_valid
    PROVE  recurse_inverse(m, b, start, make_valid) \in Memory
<1> DEFINE r == RaiseInverse(m, {b}, start)
           val == IF make_valid
                  THEN Put(Override(Mark(PoolAncestors(m, b), "BelongsToValidChain"),
                                    r.validations_mapping),
                           b, "ValidChainTip")
                  ELSE r.validations_mapping
<1>1. r \in Memory
    BY RaiseInverseType
<1>2. r.validations_mapping \in Maps(Block, OrphanType)
    BY <1>1 DEF Memory
<1>3. val \in Maps(Block, OrphanType)
    <2> HIDE DEF r
    <2>1. "BelongsToValidChain" \in OrphanType /\ "ValidChainTip" \in OrphanType
        BY DEF OrphanType
    <2>2. Mark(PoolAncestors(m, b), "BelongsToValidChain") \in Maps(Block, OrphanType)
        BY <2>1, MapMark, WalksStayInPool
    <2>3. Override(Mark(PoolAncestors(m, b), "BelongsToValidChain"), r.validations_mapping)
              \in Maps(Block, OrphanType)
        BY <1>2, <2>2, MapOverride
    <2> QED
        BY <1>2, <2>1, <2>3, MapPut
<1>4. recurse_inverse(m, b, start, make_valid) = [r EXCEPT !.validations_mapping = val]
    BY DEF recurse_inverse
<1> HIDE DEF r, val
<1> QED
    BY <1>1, <1>3, <1>4 DEF Memory

\* The statuses and tips that make_valid_tips and write_block set.
LEMMA MarkValidType ==
    ASSUME NEW f \in Maps(Block, OrphanType), NEW tips \in SUBSET Block, NEW parents \in SUBSET Block
    PROVE  Override(Mark(parents, "BelongsToValidChain"), Override(Mark(tips, "ValidChainTip"), f))
               \in Maps(Block, OrphanType)
<1>1. "BelongsToValidChain" \in OrphanType /\ "ValidChainTip" \in OrphanType
    BY DEF OrphanType
<1>2. Override(Mark(tips, "ValidChainTip"), f) \in Maps(Block, OrphanType)
    BY <1>1, MapMark, MapOverride
<1> QED
    BY <1>1, <1>2, MapMark, MapOverride

\* make_valid_tips.
LEMMA MakeValidTipsType ==
    ASSUME NEW m \in Memory, NEW head \in DOMAIN m.disconnected_heads_mapping
    PROVE  make_valid_tips(m, head) \in Memory
<1> DEFINE tips == m.disconnected_heads_mapping[head]
           parents == UNION {WalkUntilValid(m, t) : t \in tips}
           hm == Drop(m.disconnected_heads_mapping, {head})
           hh == Drop(m.disconnected_heads_heights, {head})
           tm == Drop(m.disconnected_tips_mapping, tips)
           val == Override(Mark(parents, "BelongsToValidChain"),
                           Override(Mark(tips, "ValidChainTip"), m.validations_mapping))
<1>1. tips \in SUBSET Block
    BY MapValue, SMTT(30) DEF Memory
<1>2. parents \in SUBSET Block
    BY WalksStayInPool
<1>3. val \in Maps(Block, OrphanType)
    <2> HIDE DEF tips, parents
    <2> QED BY <1>1, <1>2, MarkValidType DEF Memory
<1>4. /\ hm \in Maps(Block, SUBSET Block)
      /\ hh \in Maps(Block, Block)
      /\ tm \in Maps(Block, Block)
    BY MapDrop DEF Memory
<1>5. make_valid_tips(m, head) =
          [m EXCEPT !.disconnected_heads_mapping = hm, !.disconnected_heads_heights = hh,
                    !.disconnected_tips_mapping = tm, !.validations_mapping = val,
                    !.valid_tips = @ \cup tips]
    BY DEF make_valid_tips
<1> HIDE DEF tips, parents, hm, hh, tm, val
<1> QED
    BY <1>1, <1>3, <1>4, <1>5 DEF Memory

\* What attempt_attach merges: tips of disconnected chains, and the new highest
\* tip of the chain is one of them.
LEMMA TipsToAttachType ==
    ASSUME NEW m \in Memory, NEW b
    PROVE  /\ TipsToAttach(m, b) \in SUBSET Block
           /\ LargestAttached(m, b) \subseteq Block \cup {NoBlock}
<1>1. HeadsToAttach(m, b) \subseteq DOMAIN m.disconnected_heads_mapping
    BY DEF HeadsToAttach
<1>2. \A h \in DOMAIN m.disconnected_heads_mapping : m.disconnected_heads_mapping[h] \in SUBSET Block
    BY MapValue, SMTT(30) DEF Memory
<1>3. TipsToAttach(m, b) \in SUBSET Block
    BY <1>1, <1>2 DEF TipsToAttach
<1> QED
    BY <1>3 DEF LargestAttached

\* attempt_attach.
LEMMA AttachType ==
    ASSUME NEW m \in Memory, NEW b \in DOMAIN m.disconnected_tips_mapping,
           NEW largest \in Block \cup {NoBlock}
    PROVE  attempt_attach(m, b, largest) \in Memory
<1> DEFINE head == m.disconnected_tips_mapping[b]
           attached == HeadsToAttach(m, b)
           tips == TipsToAttach(m, b)
           hm == Put(Drop(m.disconnected_heads_mapping, attached), head, OwnTips(m, head) \cup tips)
           hh == IF largest = NoBlock THEN Drop(m.disconnected_heads_heights, attached)
                 ELSE Put(Drop(m.disconnected_heads_heights, attached), head, largest)
           tm == Override(Mark(tips, head), Drop(m.disconnected_tips_mapping, {head}))
           merged == [m EXCEPT !.disconnected_heads_mapping = hm,
                               !.disconnected_heads_heights = hh,
                               !.disconnected_tips_mapping = tm]
<1>1. head \in Block
    BY MapValue DEF Memory
<1>2. tips \in SUBSET Block
    BY TipsToAttachType
<1>3. OwnTips(m, head) \in SUBSET Block
    BY MapValue, SMTT(30) DEF OwnTips, Memory
<1> HIDE DEF head, attached, tips
<1>4. hm \in Maps(Block, SUBSET Block)
    <2>1. Drop(m.disconnected_heads_mapping, attached) \in Maps(Block, SUBSET Block)
        BY MapDrop DEF Memory
    <2>2. OwnTips(m, head) \cup tips \in SUBSET Block
        BY <1>2, <1>3
    <2> QED
        BY <1>1, <2>1, <2>2, MapPut
<1>5. hh \in Maps(Block, Block)
    <2>1. Drop(m.disconnected_heads_heights, attached) \in Maps(Block, Block)
        BY MapDrop DEF Memory
    <2> QED
        BY <1>1, <2>1, MapPut
<1>6. tm \in Maps(Block, Block)
    <2>1. Drop(m.disconnected_tips_mapping, {head}) \in Maps(Block, Block)
        BY MapDrop DEF Memory
    <2>2. Mark(tips, head) \in Maps(Block, Block)
        BY <1>1, <1>2, MapMark
    <2> QED
        BY <2>1, <2>2, MapOverride
<1>7. merged \in Memory
    <2> HIDE DEF hm, hh, tm
    <2> QED BY <1>4, <1>5, <1>6 DEF Memory
<1>8. attempt_attach(m, b, largest) = IF attached = {} THEN m ELSE RaiseInverse(merged, tips, 0)
    BY DEF attempt_attach, head, attached, tips
<1> HIDE DEF merged
<1> QED
    BY <1>7, <1>8, RaiseInverseType

\* attempt_attach_valid: the new tip is a block, and the maps keep their type.
LEMMA AttachValidType ==
    ASSUME NEW m \in Memory, NEW b \in Block, NEW head \in BestHeads(m, b),
           attempt_attach_validOk(m, b, head)
    PROVE  /\ head \in Block \cup {NoBlock}
           /\ NewTip(m, b, head) \in Block
           /\ attempt_attach_valid(m, b, head) \in Memory
           /\ Height[NewTip(m, b, head)] - Height[b] \in Nat
<1>1. head # NoBlock => head \in DOMAIN m.disconnected_heads_heights
    BY DEF BestHeads, HeadsFollowing
<1>2. head \in Block \cup {NoBlock}
    BY <1>1, MapValue DEF Memory
<1>3. NewTip(m, b, head) \in Block
    BY <1>1, MapValue DEF NewTip, Memory
<1>4. (IF head = NoBlock THEN m ELSE make_valid_tips(m, head)) \in Memory
    <2>1. head # NoBlock => head \in DOMAIN m.disconnected_heads_mapping
        BY DEF attempt_attach_validOk, make_valid_tipsOk
    <2> QED
        BY <2>1, MakeValidTipsType
<1>5. attempt_attach_valid(m, b, head) \in Memory
    BY <1>3, <1>4, RecurseInverseType DEF attempt_attach_valid
<1>6. Height[NewTip(m, b, head)] - Height[b] \in Nat
    <2>1. Height[NewTip(m, b, head)] \in Nat /\ Height[b] \in Nat
        BY <1>3, HeightAssumption
    <2>2. CASE head = NoBlock
        BY <2>1, <2>2, SMTT(30) DEF NewTip
    <2>3. CASE head # NoBlock
        BY <2>1, <2>3, SMTT(30) DEF attempt_attach_validOk
    <2> QED
        BY <2>2, <2>3
<1> QED
    BY <1>2, <1>3, <1>5, <1>6

\* The in-memory part of write_block.
LEMMA AfterWriteType ==
    ASSUME NEW m \in Memory, NEW b
    PROVE  MemoryAfterWrite(m, b) \in Memory
\* The search for the next lower orphan height in write_block.
<1>MaxAfterWriteType. MaxAfterWrite(m, b) \in Nat \cup {NoHeight}
    <2> DEFINE lower == {h \in m.heights : 0 < h /\ h < m.max_orphan_height}
    <2>1. m.max_orphan_height \in Nat \cup {NoHeight} /\ m.heights \in SUBSET Nat
        BY DEF Memory
    <2>2. ASSUME lower # {} PROVE Max(lower) \in Nat
        <3>1. lower \in SUBSET Nat /\ lower \in SUBSET Int
            BY <2>1, SMTT(30)
        <3>2. m.max_orphan_height \in Nat /\ \A h \in lower : h <= m.max_orphan_height
            BY <2>1, <2>2, SMTT(30) DEF NoHeight
        <3>3. IsFiniteSet(lower)
            <4> HIDE DEF lower
            <4> QED BY <3>1, <3>2, FS_BoundedSetOfNaturals
        <3> HIDE DEF lower
        <3>4. Max(lower) \in lower
            BY <2>2, <3>1, <3>3, MaxOfFinite
        <3> QED
            BY <3>1, <3>4
    <2>3. MaxAfterWrite(m, b) =
              IF m.max_orphan_height # Height[b] THEN m.max_orphan_height
              ELSE IF lower = {} THEN NoHeight ELSE Max(lower)
        BY DEF MaxAfterWrite
    <2> HIDE DEF lower
    <2> QED
        BY <2>1, <2>2, <2>3
\* The tips that write_block turns into tips of valid chains.
<1>WrittenTipsType. WrittenTips(m, b) \in SUBSET Block
    BY MapValue, SMTT(30) DEF WrittenTips, Memory
<1> DEFINE inv == Drop(m.inverse, {b})
           out == [m EXCEPT !.orphan_pool = @ \ {b}, !.inverse = inv]
           tips == WrittenTips(m, b)
           parents == UNION {PoolAncestors(out, t) : t \in tips}
           hm == Drop(m.disconnected_heads_mapping, {b})
           hh == Drop(m.disconnected_heads_heights, {b})
           tm == Drop(m.disconnected_tips_mapping, {b} \cup tips)
           max == MaxAfterWrite(m, b)
           val == Override(Mark(parents, "BelongsToValidChain"),
                           Override(Mark(tips, "ValidChainTip"), m.validations_mapping))
<1>1. out \in Memory
    <2>1. inv \in Maps(Block, Nat)
        BY MapDrop DEF Memory
    <2> HIDE DEF inv
    <2> QED BY <2>1 DEF Memory
<1>2. tips \in SUBSET Block
    BY <1>WrittenTipsType
<1>3. parents \in SUBSET Block
    <2> HIDE DEF out
    <2> QED BY <1>1, WalksStayInPool
<1>4. val \in Maps(Block, OrphanType)
    <2> HIDE DEF tips, parents
    <2> QED BY <1>2, <1>3, MarkValidType DEF Memory
<1>5. /\ hm \in Maps(Block, SUBSET Block)
      /\ hh \in Maps(Block, Block)
      /\ tm \in Maps(Block, Block)
    BY MapDrop DEF Memory
<1>6. max \in Nat \cup {NoHeight}
    BY <1>MaxAfterWriteType
<1>7. RemoveOrphan(m, b) = out
    BY DEF RemoveOrphan
<1>8. /\ out.disconnected_heads_mapping = m.disconnected_heads_mapping
      /\ out.disconnected_heads_heights = m.disconnected_heads_heights
      /\ out.disconnected_tips_mapping = m.disconnected_tips_mapping
      /\ out.validations_mapping = m.validations_mapping
    BY DEF Memory
<1>9. MemoryAfterWrite(m, b) =
          [out EXCEPT !.max_orphan_height = max,
                      !.disconnected_heads_mapping = hm,
                      !.disconnected_heads_heights = hh,
                      !.disconnected_tips_mapping = tm,
                      !.validations_mapping = val,
                      !.valid_tips = (@ \ {b}) \cup tips]
    <2> HIDE DEF out
    <2> QED BY <1>7, <1>8 DEF MemoryAfterWrite
<1> HIDE DEF out, tips, parents, hm, hh, tm, max, val
<1> QED
    BY <1>1, <1>2, <1>4, <1>5, <1>6, <1>9, ZenonT(30) DEF Memory

\* One turn of rewind.
LEMMA UnwoundType ==
    ASSUME NEW m \in Memory, NEW b \in Block, NEW inverse \in Nat
    PROVE  Unwound(m, b, inverse) \in Memory
<1> DEFINE inv == Put(m.inverse, b, inverse)
           val == Put(m.validations_mapping, b,
                      IF inverse = 0 THEN "ValidChainTip" ELSE "BelongsToValidChain")
           tips == IF inverse = 0 THEN m.valid_tips \cup {b} ELSE m.valid_tips
           unwound == [m EXCEPT !.orphan_pool = @ \cup {b},
                                !.heights = @ \cup {Height[b]},
                                !.inverse = inv,
                                !.validations_mapping = val,
                                !.valid_tips = tips]
<1>1. inv \in Maps(Block, Nat)
    BY MapPut DEF Memory
<1>2. val \in Maps(Block, OrphanType)
    BY MapPut DEF Memory, OrphanType
<1>3. tips \in SUBSET Block
    BY DEF Memory
<1>4. Height[b] \in Nat
    BY HeightAssumption
<1>5. unwound \in Memory
    <2> HIDE DEF inv, val, tips
    <2> QED BY <1>1, <1>2, <1>3, <1>4 DEF Memory
<1>6. Unwound(m, b, inverse) = update_max_orphan_height(unwound, Height[b])
    BY DEF Unwound
<1> QED
    BY <1>4, <1>5, <1>6, UpdateMaxType

-----------------------------------------------------------------------------
(***************************************************************************)
(* Walking up the parents.                                                 *)
(***************************************************************************)

\* Every block on the way to an ancestor is a block.
LEMMA AncestorsBelow ==
    ASSUME NEW c \in Block, NEW n \in {0} \cup Distance, Ancestor[n][c] \in Block
    PROVE  \A k \in 0 .. n : k \in {0} \cup Distance /\ Ancestor[k][c] \in Block
<1> DEFINE Wrong == {k \in 0 .. n : Ancestor[k][c] \notin Block}
<1>1. n \in Nat /\ \A k \in 0 .. n : k \in {0} \cup Distance
    BY DistanceType, SMTT(30) DEF Distance
<1> SUFFICES ASSUME Wrong # {} PROVE FALSE
    BY <1>1
<1>2. IsFiniteSet(Wrong) /\ Wrong \in SUBSET Int
    <2>1. IsFiniteSet(0 .. n) /\ Wrong \in SUBSET (0 .. n) /\ 0 .. n \in SUBSET Int
        BY <1>1, FS_Interval, SMTT(30)
    <2> HIDE DEF Wrong
    <2> QED
        BY <2>1, FS_Subset
<1>3. PICK m \in Wrong : \A y \in Wrong : y <= m
    BY <1>2, MaxOfFinite
<1>4. m + 1 \in Distance /\ m + 1 \in 0 .. n /\ m + 1 - 1 = m
    BY <1>1, DistanceType, SMTT(30) DEF Distance
<1>5. Ancestor[m + 1][c] = NoBlock
    BY <1>4, AncestorStep, SMTT(30)
<1> QED
    BY <1>1, <1>3, <1>4, <1>5, GenesisAssumption, SMTT(30)

\* A block has fewer ancestors than there are blocks.
LEMMA AncestorShort ==
    ASSUME WellFormedHeights, NEW c \in Block, NEW n \in {0} \cup Distance, Ancestor[n][c] \in Block
    PROVE  n + 1 \in Distance
<1> DEFINE f == [k \in 0 .. n |-> Ancestor[k][c]]
<1>1. n \in Nat /\ Cardinality(Block) \in Nat
    BY DistanceType, SMTT(30)
<1>2. \A k \in 0 .. n : /\ Ancestor[k][c] \in Block /\ Height[Ancestor[k][c]] \in Nat
                        /\ Height[c] = Height[Ancestor[k][c]] + k
    BY AncestorsBelow, AncestorHeight, HeightAssumption
<1>3. \A j, k \in 0 .. n : f[j] = f[k] => j = k
    BY <1>1, <1>2, SMTT(30)
<1>4. f \in Injection(0 .. n, Block)
    <2>1. f \in [0 .. n -> Block]
        BY <1>2
    <2> HIDE DEF f
    <2> QED
        BY <1>3, <2>1 DEF Injection, IsInjective
<1>5. Cardinality(0 .. n) <= Cardinality(Block)
    BY <1>4, FiniteAssumption, FS_Injection
<1>6. Cardinality(0 .. n) = n + 1
    BY <1>1, FS_Interval, SMTT(30)
<1> QED
    BY <1>1, <1>5, <1>6, SMTT(30) DEF Distance

\* The parent is the first ancestor.
LEMMA FirstAncestor ==
    /\ \A b \in Block : 1 \in Distance /\ Ancestor[1][b] = Parent[b]
    /\ \A n \in Distance : \A b \in Block : Ancestor[n - 1][b] \in Block => Ancestor[n][b] = Parent[Ancestor[n - 1][b]]
<1>1. \A b \in Block : 1 \in Distance
    <2>1. ASSUME NEW b \in Block PROVE Cardinality(Block) \in Nat /\ Cardinality(Block) # 0
        BY FiniteAssumption, FS_CardinalityType, FS_EmptySet
    <2> QED
        BY <2>1, SMTT(30) DEF Distance
<1>2. \A b \in Block : Ancestor[1 - 1][b] = b
    BY AncestorStep, SMTT(30)
<1> QED
    BY <1>1, <1>2, AncestorStep, SMTT(30)

\* The walk of recurse_inverse goes on while the parent is an orphan ...
LEMMA WalkGoesOn ==
    ASSUME WellFormedHeights, NEW m \in Memory, NEW t \in Block,
           NEW x \in {t} \cup PoolAncestors(m, t), Parent[x] \in m.orphan_pool
    PROVE  Parent[x] \in PoolAncestors(m, t)
<1>1. CASE x = t
    <2>1. 1 \in Distance /\ Ancestor[1][t] = Parent[x]
        BY <1>1, FirstAncestor
    <2>2. 1 \in PoolDistances(m, t)
        BY <2>1, SMTT(30) DEF PoolDistances
    <2> QED
        BY <2>1, <2>2 DEF PoolAncestors
<1>2. CASE x \in PoolAncestors(m, t)
    <2>1. PICK n \in PoolDistances(m, t) : x = Ancestor[n][t]
        BY <1>2 DEF PoolAncestors
    <2>2. n \in Distance /\ n \in Nat /\ 1 <= n /\ \A k \in 1 .. n : Ancestor[k][t] \in m.orphan_pool
        BY <2>1, DistanceType DEF PoolDistances
    <2>3. x \in Block
        BY <2>1, <2>2, SMTT(30) DEF Memory
    <2>4. n + 1 \in Distance
        BY <2>1, <2>2, <2>3, AncestorShort
    <2>5. Ancestor[n + 1][t] = Parent[x]
        <3>1. PICK k \in Distance : k = n + 1
            BY <2>4
        <3>2. k - 1 = n
            BY <2>2, <3>1, SMTT(30)
        <3>3. Ancestor[k][t] = Parent[Ancestor[k - 1][t]]
            BY <2>1, <2>3, <3>2, FirstAncestor
        <3> QED
            BY <2>1, <3>1, <3>2, <3>3
    <2>6. n + 1 \in PoolDistances(m, t)
        <3>1. \A k \in 1 .. n + 1 : k \in 1 .. n \/ k = n + 1
            BY <2>2, SMTT(30)
        <3> QED
            BY <2>2, <2>4, <2>5, <3>1 DEF PoolDistances
    <2> QED
        BY <2>5, <2>6 DEF PoolAncestors
<1> QED
    BY <1>1, <1>2

\* ... that of make_valid_tips while it is not marked BelongsToValidChain ...
LEMMA UntilValidGoesOn ==
    ASSUME WellFormedHeights, NEW m \in Memory, NEW t \in Block,
           NEW x \in {t} \cup WalkUntilValid(m, t), Parent[x] \in m.orphan_pool,
           m.validations_mapping[Parent[x]] # "BelongsToValidChain"
    PROVE  Parent[x] \in WalkUntilValid(m, t)
<1> DEFINE Free(n) == \A k \in 1 .. n : m.validations_mapping[Ancestor[k][t]] # "BelongsToValidChain"
<1>1. CASE x = t
    <2>1. 1 \in Distance /\ Ancestor[1][t] = Parent[x]
        BY <1>1, FirstAncestor
    <2>2. 1 \in PoolDistances(m, t) /\ Free(1)
        BY <2>1, SMTT(30) DEF PoolDistances
    <2> QED
        BY <2>1, <2>2 DEF WalkUntilValid
<1>2. CASE x \in WalkUntilValid(m, t)
    <2>1. PICK n \in PoolDistances(m, t) : x = Ancestor[n][t] /\ Free(n)
        BY <1>2 DEF WalkUntilValid
    <2>2. n \in Distance /\ n \in Nat /\ 1 <= n /\ \A k \in 1 .. n : Ancestor[k][t] \in m.orphan_pool
        BY <2>1, DistanceType DEF PoolDistances
    <2>3. x \in Block
        BY <2>1, <2>2, SMTT(30) DEF Memory
    <2>4. n + 1 \in Distance
        BY <2>1, <2>2, <2>3, AncestorShort
    <2>5. Ancestor[n + 1][t] = Parent[x]
        <3>1. PICK k \in Distance : k = n + 1
            BY <2>4
        <3>2. k - 1 = n
            BY <2>2, <3>1, SMTT(30)
        <3>3. Ancestor[k][t] = Parent[Ancestor[k - 1][t]]
            BY <2>1, <2>3, <3>2, FirstAncestor
        <3> QED
            BY <2>1, <3>1, <3>2, <3>3
    <2>6. n + 1 \in PoolDistances(m, t) /\ Free(n + 1)
        <3>1. \A k \in 1 .. n + 1 : k \in 1 .. n \/ k = n + 1
            BY <2>2, SMTT(30)
        <3> QED
            BY <2>1, <2>2, <2>4, <2>5, <3>1 DEF PoolDistances
    <2> QED
        BY <2>5, <2>6 DEF WalkUntilValid
<1> QED
    BY <1>1, <1>2

\* ... and meets nothing that is not reached from parent to parent.
LEMMA WalkStays ==
    ASSUME NEW m \in Memory, NEW t \in Block, NEW S, t \in S,
           \A x \in S : x \in Block /\ Parent[x] \in m.orphan_pool => Parent[x] \in S
    PROVE  PoolAncestors(m, t) \subseteq S
<1> DEFINE Wrong == {n \in PoolDistances(m, t) : Ancestor[n][t] \notin S}
<1> SUFFICES ASSUME Wrong # {} PROVE FALSE
    BY DEF PoolAncestors
<1>1. Wrong \in SUBSET Nat
    BY DistanceType DEF PoolDistances
<1>2. PICK n \in Wrong : \A y \in Wrong : n <= y
    BY <1>1, LeastNatural
<1>3. n \in Distance /\ n \in Nat /\ 1 <= n /\ \A k \in 1 .. n : Ancestor[k][t] \in m.orphan_pool
    BY <1>2, DistanceType DEF PoolDistances
<1>4. Ancestor[n - 1][t] \in S \cap Block
    <2>1. CASE n = 1
        <3>1. Ancestor[0][t] = t
            BY AncestorStep
        <3> QED
            BY <2>1, <3>1, SMTT(30)
    <2>2. CASE n # 1
        <3>1. n - 1 \in Distance /\ n - 1 \in 1 .. n
            BY <1>3, <2>2, DistanceType, SMTT(30) DEF Distance
        <3>2. n - 1 \in PoolDistances(m, t)
            BY <1>3, <3>1, SMTT(30) DEF PoolDistances
        <3>3. n - 1 \notin Wrong
            <4> HIDE DEF Wrong
            <4> QED BY <1>2, <1>3, SMTT(30)
        <3> QED
            BY <1>3, <3>1, <3>2, <3>3 DEF Memory
    <2> QED
        BY <2>1, <2>2
<1>5. Ancestor[n][t] = Parent[Ancestor[n - 1][t]]
    BY <1>3, <1>4, FirstAncestor
<1> QED
    BY <1>2, <1>3, <1>4, <1>5, SMTT(30)

\* A nonempty set of blocks has a highest and a lowest one.
LEMMA HighestBlock ==
    ASSUME NEW S \in SUBSET Block, S # {}
    PROVE  /\ \E x \in S : \A y \in S : Height[y] <= Height[x]
           /\ \E x \in S : \A y \in S : Height[x] <= Height[y]
<1> DEFINE H == {Height[x] : x \in S}
           f == [x \in S |-> Height[x]]
<1>1. \A x \in S : Height[x] \in Nat
    BY HeightAssumption
<1>2. f \in Surjection(S, H)
    <2>1. f \in [S -> H] /\ \A y \in H : \E x \in S : f[x] = y
        OBVIOUS
    <2> HIDE DEF f, H
    <2> QED
        BY <2>1 DEF Surjection
<1>3. IsFiniteSet(S)
    BY FiniteAssumption, FS_Subset
<1>4. IsFiniteSet(H)
    BY <1>2, <1>3, FS_Surjection
<1>5. H \in SUBSET Nat /\ H \in SUBSET Int /\ H # {}
    BY <1>1, SMTT(30)
<1>6. PICK u \in H : \A y \in H : y <= u
    BY <1>4, <1>5, MaxOfFinite
<1>7. PICK l \in H : \A y \in H : l <= y
    BY <1>5, LeastNatural
<1> QED
    BY <1>6, <1>7

-----------------------------------------------------------------------------
(***************************************************************************)
(* The links.                                                              *)
(***************************************************************************)

\* The parent of an orphan that is not its head has the same head.
LEMMA HomeAbove ==
    ASSUME NEW m \in Memory, NEW home, Homes(m, home),
           NEW x \in m.orphan_pool, home[x] \in Heads(m), home[x] # x
    PROVE  x \notin Heads(m) /\ Parent[x] \in m.orphan_pool /\ home[Parent[x]] = home[x]
<1>1. x \notin Heads(m)
    BY DEF Homes
<1>2. home[x] # NoBlock
    <2>1. Heads(m) \subseteq Block
        BY MapValue DEF Heads, Memory
    <2> QED
        BY <2>1, GenesisAssumption
<1> QED
    BY <1>1, <1>2 DEF Homes

\* Nothing is valid under a head whose parent is unknown.
LEMMA OpenHead ==
    ASSUME WellFormedHeights, NEW m \in Memory, NEW D, NEW home, NEW inner, Links(m, D, home, inner),
           NEW h \in Heads(m), Parent[h] \notin m.orphan_pool \cup D
    PROVE  \A x \in m.orphan_pool : home[x] = h => ~IsValid(m, x)
<1> DEFINE Wrong == {x \in m.orphan_pool : home[x] = h /\ IsValid(m, x)}
<1> SUFFICES ASSUME Wrong # {} PROVE FALSE
    OBVIOUS
<1>1. Wrong \in SUBSET Block /\ m.orphan_pool \subseteq Block
    BY DEF Memory
<1>2. PICK x \in Wrong : \A y \in Wrong : Height[x] <= Height[y]
    BY <1>1, HighestBlock
<1>3. x # h
    BY <1>2 DEF Links, ValidLinked
<1>4. x \notin Heads(m) /\ Parent[x] \in m.orphan_pool /\ home[Parent[x]] = h
    BY <1>2, <1>3, HomeAbove, SMTT(30) DEF Links
<1>5. IsValid(m, Parent[x])
    BY <1>2, <1>4 DEF Links, ValidLinked
<1>6. Parent[x] \in Wrong
    BY <1>4, <1>5
<1>7. Height[x] = Height[Parent[x]] + 1 /\ Height[Parent[x]] \in Nat
    BY <1>1, <1>2, <1>4, HeightAssumption DEF WellFormedHeights
<1> QED
    BY <1>2, <1>6, <1>7, SMTT(30)

\* A child of an orphan that is not valid has the same head, and is not valid.
LEMMA DisconnectedChild ==
    ASSUME NEW m \in Memory, NEW D, NEW home, NEW inner, Links(m, D, home, inner),
           NEW o \in m.orphan_pool, ~IsValid(m, o), NEW c \in m.orphan_pool, Parent[c] = o
    PROVE  c \notin Heads(m) /\ home[c] = home[o] /\ ~IsValid(m, c)
<1>1. c \notin Heads(m)
    BY DEF Links, HeadsLinked
<1>2. home[c] = home[o]
    BY <1>1 DEF Links, Homes
<1>3. ~IsValid(m, c)
    BY DEF Links, ValidLinked
<1> QED
    BY <1>1, <1>2, <1>3

\* Whoever walks up from all the tips of a head meets every orphan under the
\* head that is not valid.
LEMMA Covered ==
    ASSUME WellFormedHeights, NEW m \in Memory, NEW D, NEW home, NEW inner, Links(m, D, home, inner),
           NEW h \in Heads(m), NEW T, Tips(m, h) \subseteq T,
           \A x \in T : x \in m.orphan_pool /\ home[x] = h /\ x # h /\ ~IsValid(m, Parent[x]) => Parent[x] \in T
    PROVE  \A x \in m.orphan_pool : home[x] = h /\ ~IsValid(m, x) => x \in T
<1> DEFINE Wrong == {x \in m.orphan_pool : home[x] = h /\ ~IsValid(m, x) /\ x \notin T}
<1> SUFFICES ASSUME Wrong # {} PROVE FALSE
    OBVIOUS
<1>1. Wrong \in SUBSET Block /\ m.orphan_pool \subseteq Block
    BY DEF Memory
<1>2. PICK x \in Wrong : \A y \in Wrong : Height[y] <= Height[x]
    BY <1>1, HighestBlock
<1>3. m.validations_mapping[x] # "DisconnectedTip"
    BY <1>2 DEF Links, DisconnectedLinked
<1>4. PICK c \in m.orphan_pool : Parent[c] = x
    BY <1>2, <1>3 DEF Links, DisconnectedLinked
<1>5. c \notin Heads(m) /\ home[c] = h /\ ~IsValid(m, c)
    BY <1>2, <1>4, DisconnectedChild, SMTT(30)
<1>6. Height[c] = Height[x] + 1 /\ Height[x] \in Nat
    BY <1>1, <1>2, <1>4, HeightAssumption DEF WellFormedHeights
<1>7. c \in T
    BY <1>2, <1>5, <1>6, SMTT(30)
<1>8. c # h
    BY <1>5
<1> QED
    BY <1>2, <1>4, <1>5, <1>7, <1>8

\* A disconnected chain has a tip at least as high as any of its orphans that is
\* not valid, and above those that are no tips.
LEMMA HigherTip ==
    ASSUME WellFormedHeights, NEW m \in Memory, NEW D, NEW home, NEW inner, Links(m, D, home, inner)
    PROVE  \A o \in m.orphan_pool : ~IsValid(m, o) =>
              \E t \in Tips(m, home[o]) :
                  /\ Height[o] <= Height[t]
                  /\ m.validations_mapping[o] # "DisconnectedTip" => Height[o] < Height[t]
<1> DEFINE Fine(o) == \E t \in Tips(m, home[o]) :
                          /\ Height[o] <= Height[t]
                          /\ m.validations_mapping[o] # "DisconnectedTip" => Height[o] < Height[t]
           Wrong == {o \in m.orphan_pool : ~IsValid(m, o) /\ ~Fine(o)}
<1> SUFFICES ASSUME Wrong # {} PROVE FALSE
    OBVIOUS
<1>1. Wrong \in SUBSET Block /\ m.orphan_pool \subseteq Block
    BY DEF Memory
<1>2. PICK x \in Wrong : \A y \in Wrong : Height[y] <= Height[x]
    <2> HIDE DEF Wrong
    <2> QED BY <1>1, HighestBlock
<1>3. m.validations_mapping[x] # "DisconnectedTip"
    BY <1>1, <1>2, HeightAssumption DEF Links, DisconnectedLinked
<1>4. PICK c \in m.orphan_pool : Parent[c] = x
    BY <1>2, <1>3 DEF Links, DisconnectedLinked
<1>5. c \notin Heads(m) /\ home[c] = home[x] /\ ~IsValid(m, c)
    BY <1>2, <1>4, DisconnectedChild, SMTT(30)
<1>6. Height[c] = Height[x] + 1 /\ Height[x] \in Nat
    BY <1>1, <1>2, <1>4, HeightAssumption DEF WellFormedHeights
<1>7. Fine(c)
    <2> HIDE DEF Fine
    <2> QED BY <1>2, <1>5, <1>6, SMTT(30)
<1>8. PICK t \in Tips(m, home[x]) : Height[c] <= Height[t]
    BY <1>5, <1>7
<1>9. Height[t] \in Nat
    <2>1. home[x] \in Heads(m)
        BY <1>2 DEF Links, DisconnectedLinked
    <2>2. t \in m.orphan_pool
        BY <1>8, <2>1 DEF Links, TipsLinked
    <2> QED
        BY <1>1, <2>2, HeightAssumption
<1> QED
    BY <1>2, <1>6, <1>8, <1>9, SMTT(30)

\* attempt_switch finds its horizon: from a valid orphan the walk up the parents
\* leads through valid orphans to a stored block.
LEMMA ValidConnects ==
    ASSUME WellFormedHeights, NEW m \in Memory, NEW D, NEW home, NEW inner, Links(m, D, home, inner),
           NEW o \in m.orphan_pool, IsValid(m, o)
    PROVE  \E n \in Distance : Ancestor[n][o] \in D /\ \A k \in 0 .. n - 1 : Ancestor[k][o] \in m.orphan_pool
<1> DEFINE S == {x \in m.orphan_pool : IsValid(m, x)}
           W == {o} \cup PoolAncestors(m, o)
<1>1. m.orphan_pool \subseteq Block
    BY DEF Memory
<1>2. W \subseteq S
    <2>1. o \in S /\ \A x \in S : x \in Block /\ Parent[x] \in m.orphan_pool => Parent[x] \in S
        BY DEF Links, ValidLinked
    <2> HIDE DEF S
    <2> QED
        BY <1>1, <2>1, WalkStays
<1>3. PICK x \in W : \A y \in W : Height[x] <= Height[y]
    <2>1. W \in SUBSET Block /\ W # {}
        BY <1>1, <1>2
    <2> HIDE DEF W
    <2> QED
        BY <2>1, HighestBlock
<1>4. x \in S /\ x \in Block
    BY <1>1, <1>2, <1>3
<1>5. Parent[x] \in D
    <2>1. CASE Parent[x] \in m.orphan_pool
        <3>1. Parent[x] \in W
            BY <1>1, <1>3, <2>1, WalkGoesOn
        <3>2. Height[x] = Height[Parent[x]] + 1 /\ Height[Parent[x]] \in Nat
            BY <1>1, <1>4, <2>1, HeightAssumption DEF WellFormedHeights
        <3> HIDE DEF W
        <3> QED
            BY <1>3, <3>1, <3>2, SMTT(30)
    <2> QED
        BY <1>4, <2>1 DEF Links, ValidLinked
<1>6. PICK n \in {0} \cup Distance : Ancestor[n][o] = x /\ \A k \in 0 .. n : Ancestor[k][o] \in m.orphan_pool
    <2>1. Ancestor[0][o] = o
        BY <1>1, AncestorStep
    <2>2. CASE x = o
        BY <2>1, <2>2, SMTT(30)
    <2>3. CASE x \in PoolAncestors(m, o)
        <3>1. PICK n \in PoolDistances(m, o) : Ancestor[n][o] = x
            BY <2>3 DEF PoolAncestors
        <3>2. n \in Distance /\ n \in Nat /\ \A k \in 1 .. n : Ancestor[k][o] \in m.orphan_pool
            BY <3>1, DistanceType DEF PoolDistances
        <3>3. \A k \in 0 .. n : k = 0 \/ k \in 1 .. n
            BY <3>2, SMTT(30)
        <3> QED
            BY <2>1, <3>1, <3>2, <3>3
    <2> QED
        BY <1>3, <2>2, <2>3
<1>7. PICK k \in Distance : k = n + 1 /\ k - 1 = n
    <2>1. n + 1 \in Distance /\ n \in Nat
        BY <1>1, <1>4, <1>6, AncestorShort, DistanceType, SMTT(30)
    <2> QED
        BY <2>1, SMTT(30)
<1>8. Ancestor[k][o] = Parent[x]
    BY <1>1, <1>4, <1>6, <1>7, FirstAncestor, ZenonT(60)
<1> QED
    BY <1>5, <1>6, <1>7, <1>8

\* The head that append_block looks for among the parents of a block on a
\* disconnected chain is found, and is the parent's head.
LEMMA HeadFound ==
    ASSUME WellFormedHeights, NEW home, NEW m \in Memory, Homes(m, home), Heads(m) \subseteq m.orphan_pool,
           NEW b \in Block, Parent[b] \in m.orphan_pool, home[Parent[b]] \in Heads(m)
    PROVE  /\ HeadDistances(m, b) # {}
           /\ \A n \in HeadDistances(m, b) : Ancestor[n][b] = home[Parent[b]]
<1> DEFINE h == home[Parent[b]]
           A == {n \in Distance : \A k \in 1 .. n :
                    /\ Ancestor[k][b] \in m.orphan_pool /\ home[Ancestor[k][b]] = h
                    /\ k < n => Ancestor[k][b] \notin Heads(m)}
<1>0. m.orphan_pool \subseteq Block
    BY DEF Memory
<1>1. 1 \in A
    <2>1. 1 \in Distance /\ Ancestor[1][b] = Parent[b]
        BY FirstAncestor
    <2> QED
        BY <2>1, SMTT(30)
<1>2. PICK n \in A : \A y \in A : y <= n
    <2>1. A \in SUBSET Distance /\ Distance \in SUBSET Int /\ IsFiniteSet(Distance)
        BY DistanceType, FS_Interval, SMTT(30) DEF Distance
    <2> HIDE DEF A
    <2>2. IsFiniteSet(A) /\ A \in SUBSET Int
        BY <2>1, FS_Subset
    <2> QED
        BY <1>1, <2>2, MaxOfFinite
<1>3. n \in Distance /\ n \in Nat /\ 1 <= n
    BY <1>2, DistanceType
<1>4. PICK x \in m.orphan_pool : x = Ancestor[n][b] /\ home[x] = h /\ x \in Block
    BY <1>0, <1>2, <1>3, SMTT(30)
<1>5. x \in Heads(m)
    <2> SUFFICES ASSUME x \notin Heads(m) PROVE FALSE
        OBVIOUS
    <2>1. Parent[x] \in m.orphan_pool /\ home[Parent[x]] = h
        BY <1>4, HomeAbove, SMTT(30)
    <2>2. PICK k \in Distance : k = n + 1 /\ k - 1 = n
        <3>1. n + 1 \in Distance
            BY <1>3, <1>4, AncestorShort
        <3> QED
            BY <1>3, <3>1, SMTT(30)
    <2>3. Ancestor[k][b] = Parent[x]
        BY <1>4, <2>2, FirstAncestor, SMTT(30)
    <2>4. k \in A
        <3>1. \A j \in 1 .. k : j = k \/ (j \in 1 .. n /\ (j < n \/ j = n))
            BY <1>3, <2>2, SMTT(30)
        <3> QED
            BY <1>2, <1>3, <1>4, <2>1, <2>2, <2>3, <3>1, SMTT(30)
    <2> HIDE DEF A
    <2> QED
        BY <1>2, <1>3, <2>2, <2>4, SMTT(30)
<1>6. HeadDistances(m, b) # {}
    <2>1. \A k \in 1 .. n - 1 : k \in 1 .. n /\ k < n
        BY <1>3, SMTT(30)
    <2>2. n \in HeadDistances(m, b)
        BY <1>2, <1>3, <1>4, <1>5, <2>1 DEF HeadDistances, Heads
    <2> QED
        BY <2>2
<1>7. ASSUME NEW d \in HeadDistances(m, b) PROVE Ancestor[d][b] = h
    <2>1. /\ d \in Distance /\ d \in Nat /\ 1 <= d /\ Ancestor[d][b] \in Heads(m)
          /\ \A k \in 1 .. d - 1 : Ancestor[k][b] \in m.orphan_pool \ Heads(m)
        BY DistanceType DEF HeadDistances, Heads
    <2> DEFINE Wrong == {k \in 1 .. d : home[Ancestor[k][b]] # h}
    <2>2. CASE Wrong = {}
        BY <2>1, <2>2, SMTT(30) DEF Homes
    <2>3. CASE Wrong # {}
        <3>1. PICK k \in Wrong : \A y \in Wrong : k <= y
            <4>1. Wrong \in SUBSET Nat
                BY <2>1, SMTT(30)
            <4> HIDE DEF Wrong
            <4> QED
                BY <2>3, <4>1, LeastNatural
        <3>2. k # 1
            BY <3>1, FirstAncestor
        <3>3. k \in Nat /\ k - 1 \in 1 .. d - 1 /\ k \in Distance /\ (k = d \/ k \in 1 .. d - 1)
            BY <2>1, <3>1, <3>2, DistanceType, SMTT(30) DEF Distance
        <3>4. k - 1 \notin Wrong
            <4> HIDE DEF Wrong
            <4> QED BY <3>1, <3>3, SMTT(30)
        <3>5. PICK y \in m.orphan_pool : y = Ancestor[k - 1][b] /\ y \notin Heads(m) /\ home[y] = h
            BY <2>1, <3>3, <3>4, SMTT(30)
        <3>6. Ancestor[k][b] = Parent[y] /\ Parent[y] \in m.orphan_pool
            BY <1>0, <2>1, <3>3, <3>5, FirstAncestor, SMTT(30)
        <3> QED
            BY <3>1, <3>5, <3>6, SMTT(30) DEF Homes
    <2> QED
        BY <2>2, <2>3
<1> QED
    BY <1>6, <1>7

\* No tip of a head is an ancestor of another.
LEMMA TipsApart ==
    ASSUME WellFormedHeights, NEW m \in Memory, NEW D, NEW home, NEW inner, Links(m, D, home, inner),
           NEW h \in Heads(m), NEW t \in Tips(m, h), NEW u \in Tips(m, h), NEW n \in Distance
    PROVE  Ancestor[n][t] # u
<1> SUFFICES ASSUME Ancestor[n][t] = u PROVE FALSE
    OBVIOUS
<1>1. /\ t \in Block /\ u \in Block /\ h \in Block /\ m.orphan_pool \subseteq Block
      /\ home[t] = h /\ home[u] = h /\ u \notin inner /\ t \in m.orphan_pool /\ u \in m.orphan_pool
    BY DEF Memory, Links, TipsLinked, HeadsLinked, InnerLinked
<1>2. n \in Nat /\ 1 <= n /\ \A k \in 0 .. n : k \in {0} \cup Distance /\ Ancestor[k][t] \in Block
    BY <1>1, AncestorsBelow, DistanceType
<1>3. \A k \in 0 .. n : Height[Ancestor[k][t]] = Height[u] + (n - k) /\ Height[u] \in Nat
    <2>1. \A k \in 0 .. n : Height[t] = Height[Ancestor[k][t]] + k /\ Height[Ancestor[k][t]] \in Nat
        BY <1>1, <1>2, AncestorHeight, HeightAssumption
    <2> QED
        BY <1>2, <2>1, SMTT(30)
<1>4. \A k \in 0 .. n - 1 : Ancestor[k][t] # h
    <2>1. Height[h] <= Height[u] /\ Height[h] \in Nat
        BY <1>1, HeightAssumption DEF Links, Homes
    <2> QED
        BY <1>2, <1>3, <2>1, SMTT(30)
<1> DEFINE Wrong == {k \in 1 .. n : ~(Ancestor[k][t] \in inner /\ home[Ancestor[k][t]] = h)}
<1>5. n \in Wrong
    BY <1>1, <1>2, SMTT(30)
<1>6. PICK k \in Wrong : \A y \in Wrong : k <= y
    <2>1. Wrong \in SUBSET Nat
        BY <1>2, SMTT(30)
    <2> HIDE DEF Wrong
    <2> QED
        BY <1>5, <2>1, LeastNatural
<1>7. k \in Distance /\ k \in Nat /\ k - 1 \in 0 .. n - 1 /\ k - 1 \in 0 .. n
    BY <1>2, <1>6, SMTT(30)
<1>8. PICK y \in Block : y = Ancestor[k - 1][t]
    BY <1>2, <1>7
<1>9. Ancestor[k][t] = Parent[y] /\ y # h
    BY <1>1, <1>4, <1>7, <1>8, FirstAncestor
<1>10. y \in m.orphan_pool /\ home[y] = h /\ (y = t \/ y \in inner)
    <2>1. CASE k = 1
        BY <1>1, <1>8, <2>1, AncestorStep, SMTT(30)
    <2>2. CASE k # 1
        <3>1. k - 1 \in 1 .. n /\ k - 1 \notin Wrong
            <4>1. k - 1 \in 1 .. n
                BY <1>7, <2>2, SMTT(30)
            <4> HIDE DEF Wrong
            <4> QED BY <1>6, <1>7, <4>1, SMTT(30)
        <3> QED
            BY <1>8, <3>1 DEF Links, InnerLinked
    <2> QED
        BY <2>1, <2>2
<1>11. y \notin Heads(m) /\ home[Parent[y]] = h
    BY <1>9, <1>10, HomeAbove, SMTT(30) DEF Links
<1>12. Parent[y] \in inner
    BY <1>9, <1>10, <1>11 DEF Links, InnerLinked
<1> QED
    BY <1>6, <1>9, <1>11, <1>12

-----------------------------------------------------------------------------
(***************************************************************************)
(* How the maps change.  Each lemma takes the maps m to n.                 *)
(***************************************************************************)

\* Orphans that follow a stored or a valid block are marked valid.
LEMMA LinksRevalidated ==
    ASSUME NEW m \in Memory, NEW n \in Memory, NEW D, NEW home, NEW inner, Links(m, D, home, inner),
           n.orphan_pool = m.orphan_pool,
           n.disconnected_heads_mapping = m.disconnected_heads_mapping,
           n.disconnected_heads_heights = m.disconnected_heads_heights,
           \A h \in Heads(m) : \A t \in Tips(m, h) :
               t \in DOMAIN n.disconnected_tips_mapping /\ n.disconnected_tips_mapping[t] = h,
           m.orphan_pool \subseteq DOMAIN n.validations_mapping,
           \A x \in m.orphan_pool :
               \/ n.validations_mapping[x] = m.validations_mapping[x]
               \/ /\ IsValid(n, x)
                  /\ \/ IsValid(m, x) \/ Parent[x] \in D
                     \/ Parent[x] \in m.orphan_pool /\ IsValid(n, Parent[x]),
           ValidTipsLinked(n)
    PROVE  Links(n, D, home, inner)
<1>1. \A x \in m.orphan_pool : IsValid(m, x) => IsValid(n, x)
    BY DEF IsValid
<1>2. \A x \in m.orphan_pool : ~IsValid(n, x) =>
          ~IsValid(m, x) /\ n.validations_mapping[x] = m.validations_mapping[x]
    BY <1>1
<1>3. Heads(n) = Heads(m) /\ \A h \in Heads(m) : Tips(n, h) = Tips(m, h)
    BY DEF Heads, Tips
<1>4. Homes(n, home)
    BY <1>3 DEF Links, Homes
<1>5. HeadsLinked(n, D)
    BY <1>1, <1>3 DEF Links, HeadsLinked
<1>6. TipsLinked(n, home)
    <2>1. \A t \in m.orphan_pool : m.validations_mapping[t] # "BelongsToDisconnected"
                                       => n.validations_mapping[t] # "BelongsToDisconnected"
        BY DEF IsValid
    <2> QED
        BY <1>3, <2>1, ZenonT(60) DEF Links, TipsLinked
<1>7. InnerLinked(n, inner)
    BY <1>3 DEF Links, InnerLinked
<1>8. DisconnectedLinked(n, home, inner)
    BY <1>2, <1>3 DEF Links, DisconnectedLinked
<1>9. ValidLinked(n, D)
    <2> SUFFICES ASSUME NEW o \in m.orphan_pool, IsValid(n, o)
                 PROVE  Parent[o] \in D \/ (Parent[o] \in m.orphan_pool /\ IsValid(n, Parent[o]))
        BY DEF ValidLinked
    <2>1. CASE IsValid(m, o)
        BY <1>1, <2>1 DEF Links, ValidLinked
    <2>2. CASE ~IsValid(m, o)
        BY <2>2 DEF IsValid
    <2> QED
        BY <2>1, <2>2
<1> QED
    BY <1>4, <1>5, <1>6, <1>7, <1>8, <1>9 DEF Links

\* A block that nobody waits for in the pool is stored.
LEMMA LinksStored ==
    ASSUME NEW m \in Memory, NEW D, NEW home, NEW inner, Links(m, D, home, inner), NEW b, b \notin m.orphan_pool
    PROVE  Links(m, D \cup {b}, home, inner)
BY DEF Links, HeadsLinked, ValidLinked

\* A block that append_block puts on a valid chain, with the disconnected chain that
\* waited for it (if one did), leaves every orphan linked.
LEMMA LinksGrowValid ==
    ASSUME WellFormedHeights, NEW m \in Memory, NEW n \in Memory, NEW D, NEW home, NEW inner,
           Links(m, D, home, inner), NEW b \in Block, b \notin m.orphan_pool \cup D,
           Parent[b] \in D \/ (Parent[b] \in m.orphan_pool /\ IsValid(m, Parent[b])),
           NEW g, g \in Heads(m) => Parent[g] = b, GrowsValid(m, n, home, b, g)
    PROVE  \E home2, inner2 : Links(n, D, home2, inner2)
<1> DEFINE Mine(x) == g \in Heads(m) /\ home[x] = g
           up == IF Parent[b] \in m.orphan_pool THEN home[Parent[b]] ELSE NoBlock
           home2 == [o \in Block |-> IF o = b \/ (o \in m.orphan_pool /\ Mine(o)) THEN up ELSE home[o]]
           inner2 == {x \in inner : ~Mine(x)}
<1>1. /\ m.orphan_pool \subseteq Block /\ Heads(m) \subseteq m.orphan_pool /\ NoBlock \notin Block
      /\ NoBlock \notin Heads(m) /\ b \notin Heads(m) /\ home \in [Block -> Block \cup {NoBlock}]
    BY GenesisAssumption DEF Memory, Links, HeadsLinked, Homes
<1>2. \A x \in m.orphan_pool : Mine(x) => ~IsValid(m, x)
    BY OpenHead
<1>3. \A o \in m.orphan_pool : Parent[o] = b => o \in Heads(m)
    BY DEF Links, HeadsLinked
<1>4. up \in Heads(n) \cup {NoBlock}
    <2>1. Parent[b] \in m.orphan_pool => IsValid(m, Parent[b])
        BY DEF Links
    <2>2. Parent[b] \in m.orphan_pool => home[Parent[b]] \in Heads(m) \cup {NoBlock}
        BY DEF Links, Homes
    <2> QED
        BY <1>2, <2>1, <2>2, SMTT(30) DEF GrowsValid
<1>5. up \in Heads(n) => Height[up] < Height[b] /\ Height[up] \in Nat
    <2>1. up \in Heads(n) => up = home[Parent[b]] /\ up \in Heads(m) /\ Parent[b] \in m.orphan_pool
        BY <1>1 DEF GrowsValid
    <2>2. up \in Heads(n) => Height[up] <= Height[Parent[b]] /\ up \in Block /\ Parent[b] \in Block
        BY <1>1, <2>1 DEF Links, Homes
    <2>3. Parent[b] \in Block => Height[b] = Height[Parent[b]] + 1
        BY DEF WellFormedHeights
    <2> HIDE DEF up
    <2> QED
        BY <2>2, <2>3, HeightAssumption, SMTT(30)
<1>6. /\ home2 \in [Block -> Block \cup {NoBlock}] /\ home2[b] = up
      /\ \A o \in m.orphan_pool : home2[o] = IF Mine(o) THEN up ELSE home[o]
    <2>1. up \in Block \cup {NoBlock}
        BY <1>1, <1>4 DEF GrowsValid
    <2>2. \A o \in m.orphan_pool : o # b /\ o \in Block
        BY <1>1
    <2> HIDE DEF Mine, up
    <2> QED
        BY <1>1, <2>1, <2>2
<1> HIDE DEF home2, up
<1>7. Homes(n, home2)
    <2> SUFFICES ASSUME NEW o \in n.orphan_pool
                 PROVE  /\ o \in Heads(n) => home2[o] = o
                        /\ o \notin Heads(n) /\ Parent[o] \in n.orphan_pool => home2[o] = home2[Parent[o]]
                        /\ o \notin Heads(n) /\ Parent[o] \notin n.orphan_pool => home2[o] = NoBlock
                        /\ home2[o] \in Heads(n) \cup {NoBlock}
                        /\ home2[o] \in Heads(n) => Height[home2[o]] <= Height[o]
        BY <1>6 DEF Homes
    <2>1. CASE o = b
        <3>1. o \notin Heads(n) /\ home2[o] = up /\ Height[b] \in Nat
            BY <1>1, <1>6, <2>1, HeightAssumption DEF GrowsValid
        <3>2. Parent[b] \in n.orphan_pool => Parent[b] \in m.orphan_pool
            BY ParentDiffers DEF GrowsValid
        <3>3. Parent[b] \in m.orphan_pool => home2[Parent[b]] = up
            <4>1. Parent[b] \in m.orphan_pool => ~Mine(Parent[b])
                BY <1>2 DEF Links
            <4> QED
                BY <1>6, <4>1 DEF up
        <3>4. Parent[b] \notin m.orphan_pool => up = NoBlock
            BY DEF up
        <3>5. Parent[b] \in m.orphan_pool => Parent[b] \in n.orphan_pool
            BY DEF GrowsValid
        <3> QED
            BY <1>4, <1>5, <2>1, <3>1, <3>2, <3>3, <3>4, <3>5, SMTT(30)
    <2>2. CASE o \in m.orphan_pool /\ Mine(o)
        <3>1. o \notin Heads(n) /\ home2[o] = up
            BY <1>6, <2>2 DEF GrowsValid, Links, Homes
        <3>2. Parent[o] \in n.orphan_pool /\ home2[Parent[o]] = up
            <4>1. CASE o = g
                BY <1>6, <2>2, <4>1 DEF GrowsValid
            <4>2. CASE o # g
                <5>1. Parent[o] \in m.orphan_pool /\ home[Parent[o]] = g
                    BY <2>2, <4>2, HomeAbove, SMTT(30) DEF Links
                <5> QED
                    BY <1>6, <2>2, <5>1 DEF GrowsValid
            <4> QED
                BY <4>1, <4>2
        <3>3. Height[b] <= Height[o] /\ Height[b] \in Nat /\ Height[o] \in Nat
            <4>1. Height[g] <= Height[o] /\ g \in Block /\ o \in Block /\ Parent[g] = b
                BY <1>1, <2>2 DEF Links, Homes
            <4>2. Height[g] = Height[b] + 1
                BY <4>1 DEF WellFormedHeights
            <4> QED
                BY <4>1, <4>2, HeightAssumption, SMTT(30)
        <3> QED
            BY <1>4, <1>5, <3>1, <3>2, <3>3, SMTT(30)
    <2>3. CASE o \in m.orphan_pool /\ ~Mine(o)
        <3>1. home2[o] = home[o]
            BY <1>6, <2>3
        <3>2. o \in Heads(n) <=> o \in Heads(m)
            BY <2>3 DEF GrowsValid, Links, Homes
        <3>3. ASSUME o \notin Heads(m)
              PROVE  /\ Parent[o] \in n.orphan_pool <=> Parent[o] \in m.orphan_pool
                     /\ Parent[o] \in m.orphan_pool => home2[Parent[o]] = home[Parent[o]]
            <4>1. Parent[o] # b
                BY <1>3, <2>3, <3>3
            <4>2. Parent[o] \in m.orphan_pool => ~Mine(Parent[o])
                BY <2>3, <3>3 DEF Links, Homes
            <4> QED
                BY <1>6, <4>1, <4>2 DEF GrowsValid
        <3>4. home[o] \in Heads(n) \cup {NoBlock}
            BY <2>3, SMTT(30) DEF Links, Homes, GrowsValid
        <3>5. Heads(n) \subseteq Heads(m)
            BY DEF GrowsValid
        <3> HIDE DEF Mine
        <3> QED
            BY <2>3, <3>1, <3>2, <3>3, <3>4, <3>5 DEF Links, Homes
    <2> QED
        BY <2>1, <2>2, <2>3, SMTT(30) DEF GrowsValid
<1>8. \A x \in m.orphan_pool : IsValid(m, x) => IsValid(n, x)
    BY <1>2 DEF GrowsValid, IsValid
<1>9. HeadsLinked(n, D)
    BY <1>1, <1>3, <1>8, SMTT(30) DEF Links, HeadsLinked, GrowsValid
<1>10. TipsLinked(n, home2)
    <2> SUFFICES ASSUME NEW h \in Heads(n)
                 PROVE  /\ n.disconnected_heads_heights[h] \in Tips(n, h)
                        /\ \A t \in Tips(n, h) :
                              /\ t \in n.orphan_pool /\ home2[t] = h
                              /\ t \in DOMAIN n.disconnected_tips_mapping /\ n.disconnected_tips_mapping[t] = h
                              /\ Height[t] <= Height[n.disconnected_heads_heights[h]]
                              /\ n.validations_mapping[t] # "BelongsToDisconnected"
        BY DEF TipsLinked
    <2>1. h \in Heads(m) /\ h # g /\ Tips(n, h) = Tips(m, h)
          /\ n.disconnected_heads_heights[h] = m.disconnected_heads_heights[h]
        BY DEF GrowsValid
    <2>2. ASSUME NEW t \in Tips(m, h)
          PROVE  /\ t \in m.orphan_pool /\ home2[t] = h
                 /\ n.validations_mapping[t] # "BelongsToDisconnected"
        <3>1. t \in m.orphan_pool /\ home[t] = h /\ m.validations_mapping[t] # "BelongsToDisconnected"
            BY <2>1 DEF Links, TipsLinked
        <3>2. n.validations_mapping[t] # "BelongsToDisconnected"
            BY <2>1, <3>1 DEF GrowsValid, IsValid
        <3> QED
            BY <1>6, <2>1, <3>1, <3>2
    <2> QED
        BY <2>1, <2>2 DEF Links, TipsLinked, GrowsValid
<1>11. InnerLinked(n, inner2)
    <2>1. \A x \in inner2 : x \notin Heads(n) => Parent[x] \in inner2
        <3> SUFFICES ASSUME NEW x \in inner2, x \notin Heads(n) PROVE Parent[x] \in inner2
            OBVIOUS
        <3>1. x \in inner /\ ~Mine(x) /\ x \in m.orphan_pool
            BY DEF Links, InnerLinked
        <3>2. x \notin Heads(m)
            BY <3>1 DEF Links, Homes, GrowsValid
        <3>3. Parent[x] \in inner /\ Parent[x] \in m.orphan_pool
            BY <3>1, <3>2 DEF Links, InnerLinked
        <3> QED
            BY <3>1, <3>2, <3>3 DEF Links, Homes
    <2>2. ASSUME NEW h \in Heads(n), NEW t \in Tips(n, h)
          PROVE  t \notin inner2 /\ (t # h => Parent[t] \in inner2)
        <3>1. h \in Heads(m) /\ h # g /\ t \in Tips(m, h)
            BY DEF GrowsValid
        <3>2. t \notin inner /\ (t # h => Parent[t] \in inner) /\ home[t] = h /\ t \in m.orphan_pool
            BY <3>1 DEF Links, InnerLinked, TipsLinked
        <3>3. t # h => home[Parent[t]] = h
            BY <3>1, <3>2, HomeAbove, SMTT(30) DEF Links
        <3> QED
            BY <3>1, <3>2, <3>3
    <2>3. inner2 \subseteq n.orphan_pool
        BY DEF Links, InnerLinked, GrowsValid
    <2> HIDE DEF inner2
    <2> QED
        BY <2>1, <2>2, <2>3 DEF InnerLinked
<1>12. DisconnectedLinked(n, home2, inner2)
    <2> SUFFICES ASSUME NEW o \in n.orphan_pool, ~IsValid(n, o)
                 PROVE  /\ home2[o] \in Heads(n)
                        /\ n.validations_mapping[o] = "DisconnectedTip" =>
                              o \in Tips(n, home2[o]) /\ \A c \in n.orphan_pool : Parent[c] # o
                        /\ n.validations_mapping[o] # "DisconnectedTip" =>
                              o \in inner2 /\ \E c \in n.orphan_pool : Parent[c] = o
        BY DEF DisconnectedLinked
    <2>1. o \in m.orphan_pool /\ ~Mine(o) /\ ~IsValid(m, o)
          /\ n.validations_mapping[o] = m.validations_mapping[o]
        BY <1>8, SMTT(30) DEF GrowsValid
    <2>2. home2[o] = home[o] /\ home[o] \in Heads(m) /\ home[o] \in Heads(n)
        BY <1>6, <2>1, SMTT(30) DEF Links, DisconnectedLinked, GrowsValid
    <2>3. o # Parent[b]
        BY <2>1 DEF Links
    <2> QED
        BY <2>1, <2>2, <2>3 DEF Links, DisconnectedLinked, GrowsValid
<1>13. ValidLinked(n, D)
    <2> SUFFICES ASSUME NEW o \in n.orphan_pool, IsValid(n, o)
                 PROVE  Parent[o] \in D \/ (Parent[o] \in n.orphan_pool /\ IsValid(n, Parent[o]))
        BY DEF ValidLinked
    <2>1. CASE o = b
        BY <1>8, <2>1 DEF GrowsValid
    <2>2. CASE o \in m.orphan_pool /\ Mine(o)
        <3>1. CASE o = g
            BY <2>2, <3>1, SMTT(30) DEF GrowsValid
        <3>2. CASE o # g
            BY <2>2, <3>2, HomeAbove, SMTT(90) DEF GrowsValid, Links
        <3> QED
            BY <3>1, <3>2
    <2>3. CASE o \in m.orphan_pool /\ ~Mine(o)
        <3>1. IsValid(m, o)
            BY <2>3 DEF GrowsValid, IsValid
        <3> QED
            BY <1>8, <2>3, <3>1 DEF Links, ValidLinked, GrowsValid
    <2> QED
        BY <2>1, <2>2, <2>3, SMTT(30) DEF GrowsValid
<1>14. n.orphan_pool \cap D = {} /\ ValidTipsLinked(n)
    BY SMTT(30) DEF Links, GrowsValid
<1> HIDE DEF inner2
<1>15. Links(n, D, home2, inner2)
    BY <1>7, <1>9, <1>10, <1>11, <1>12, <1>13, <1>14 DEF Links
<1> QED
    BY <1>15

\* An orphan that write_block moves to the db leaves every other orphan linked: the
\* chain it headed becomes valid.
LEMMA LinksLeave ==
    ASSUME WellFormedHeights, NEW m \in Memory, NEW n \in Memory, NEW D, NEW home, NEW inner,
           Links(m, D, home, inner), NEW b \in m.orphan_pool, Parent[b] \notin m.orphan_pool,
           Leaves(m, n, home, b)
    PROVE  \E home2, inner2 : Links(n, D \cup {b}, home2, inner2)
<1> DEFINE Mine(x) == b \in Heads(m) /\ home[x] = b
           home2 == [o \in Block |-> IF o \in m.orphan_pool /\ Mine(o) THEN NoBlock ELSE home[o]]
           inner2 == {x \in inner : ~Mine(x)} \ {b}
<1>1. /\ m.orphan_pool \subseteq Block /\ Heads(m) \subseteq m.orphan_pool /\ NoBlock \notin Block
      /\ NoBlock \notin Heads(m) /\ home \in [Block -> Block \cup {NoBlock}]
    BY GenesisAssumption DEF Memory, Links, HeadsLinked, Homes
<1>2. b \notin Heads(m) => home[b] = NoBlock /\ IsValid(m, b)
    BY <1>1, SMTT(30) DEF Links, Homes, DisconnectedLinked
<1>3. /\ home2 \in [Block -> Block \cup {NoBlock}]
      /\ \A o \in m.orphan_pool : home2[o] = IF Mine(o) THEN NoBlock ELSE home[o]
    <2> HIDE DEF Mine
    <2> QED
        BY <1>1
<1> HIDE DEF home2
<1>5. \A o \in n.orphan_pool : IsValid(m, o) => IsValid(n, o)
    BY DEF Leaves, IsValid
<1>6. Homes(n, home2)
    <2> SUFFICES ASSUME NEW o \in n.orphan_pool
                 PROVE  /\ o \in Heads(n) => home2[o] = o
                        /\ o \notin Heads(n) /\ Parent[o] \in n.orphan_pool => home2[o] = home2[Parent[o]]
                        /\ o \notin Heads(n) /\ Parent[o] \notin n.orphan_pool => home2[o] = NoBlock
                        /\ home2[o] \in Heads(n) \cup {NoBlock}
                        /\ home2[o] \in Heads(n) => Height[home2[o]] <= Height[o]
        BY <1>3 DEF Homes
    <2>0. o \in m.orphan_pool /\ o # b /\ Heads(n) \subseteq Heads(m)
        BY SMTT(30) DEF Leaves
    <2>1. CASE Mine(o)
        <3>1. o \notin Heads(m) /\ Parent[o] \in m.orphan_pool /\ home[Parent[o]] = b
            BY <2>0, <2>1, HomeAbove, SMTT(30) DEF Links
        <3> QED
            BY <1>1, <1>3, <2>0, <2>1, <3>1, SMTT(30)
    <2>2. CASE ~Mine(o)
        <3>1. home2[o] = home[o] /\ (o \in Heads(n) <=> o \in Heads(m))
            BY <1>3, <2>0, <2>2 DEF Leaves
        <3>2. CASE Parent[o] = b /\ o \notin Heads(m)
            <4>1. home[o] = home[b]
                BY <2>0, <3>2 DEF Links, Homes
            <4>2. home[o] = NoBlock
                BY <1>2, <2>2, <4>1 DEF Links, Homes
            <4> QED
                BY <1>1, <2>0, <3>1, <3>2, <4>2 DEF Leaves
        <3>3. CASE Parent[o] # b \/ o \in Heads(m)
            <4>1. o \notin Heads(m) /\ Parent[o] \in m.orphan_pool => home2[Parent[o]] = home[Parent[o]]
                BY <1>3, <2>0, <2>2 DEF Links, Homes
            <4>2. o \notin Heads(m) => (Parent[o] \in n.orphan_pool <=> Parent[o] \in m.orphan_pool)
                BY <3>3 DEF Leaves
            <4>3. home[o] \in Heads(n) \cup {NoBlock}
                BY <2>0, <2>2, SMTT(30) DEF Links, Homes, Leaves
            <4> HIDE DEF Mine
            <4> QED
                BY <2>0, <3>1, <4>1, <4>2, <4>3 DEF Links, Homes
        <3> QED
            BY <3>2, <3>3
    <2> QED
        BY <2>1, <2>2
<1>7. HeadsLinked(n, D \cup {b})
    BY <1>1, <1>5 DEF Links, HeadsLinked, Leaves
<1>8. TipsLinked(n, home2)
    <2> SUFFICES ASSUME NEW h \in Heads(n)
                 PROVE  /\ n.disconnected_heads_heights[h] \in Tips(n, h)
                        /\ \A t \in Tips(n, h) :
                              /\ t \in n.orphan_pool /\ home2[t] = h
                              /\ t \in DOMAIN n.disconnected_tips_mapping /\ n.disconnected_tips_mapping[t] = h
                              /\ Height[t] <= Height[n.disconnected_heads_heights[h]]
                              /\ n.validations_mapping[t] # "BelongsToDisconnected"
        BY DEF TipsLinked
    <2>1. h \in Heads(m) /\ h # b /\ Tips(n, h) = Tips(m, h)
          /\ n.disconnected_heads_heights[h] = m.disconnected_heads_heights[h]
        BY DEF Leaves
    <2>2. ASSUME NEW t \in Tips(m, h)
          PROVE  /\ t \in n.orphan_pool /\ home2[t] = h
                 /\ n.validations_mapping[t] # "BelongsToDisconnected"
        <3>1. t \in m.orphan_pool /\ home[t] = h /\ m.validations_mapping[t] # "BelongsToDisconnected"
            BY <2>1 DEF Links, TipsLinked
        <3>2. t # b
            BY <1>1, <1>2, <2>1, <3>1 DEF Links, Homes
        <3>3. n.validations_mapping[t] # "BelongsToDisconnected"
            BY <2>1, <3>1, <3>2 DEF Leaves
        <3> QED
            BY <1>3, <2>1, <3>1, <3>2, <3>3 DEF Leaves
    <2> QED
        BY <2>1, <2>2 DEF Links, TipsLinked, Leaves
<1>9. InnerLinked(n, inner2)
    <2>1. \A x \in inner2 : x \notin Heads(n) => Parent[x] \in inner2
        <3> SUFFICES ASSUME NEW x \in inner2, x \notin Heads(n) PROVE Parent[x] \in inner2
            OBVIOUS
        <3>1. x \in inner /\ ~Mine(x) /\ x \in m.orphan_pool /\ x # b
            BY DEF Links, InnerLinked
        <3>2. x \notin Heads(m)
            BY <3>1 DEF Links, Homes, Leaves
        <3>3. Parent[x] \in inner /\ Parent[x] \in m.orphan_pool
            BY <3>1, <3>2 DEF Links, InnerLinked
        <3>4. home[x] = home[Parent[x]] /\ ~Mine(Parent[x])
            BY <3>1, <3>2, <3>3 DEF Links, Homes
        <3>5. Parent[x] # b
            <4> SUFFICES ASSUME Parent[x] = b PROVE FALSE
                OBVIOUS
            <4>1. b \notin Heads(m) /\ b \in inner
                BY <3>3, <3>4 DEF Links, Homes
            <4>2. Parent[b] \in inner
                BY <4>1 DEF Links, InnerLinked
            <4> QED
                BY <4>2 DEF Links, InnerLinked
        <3> QED
            BY <3>3, <3>4, <3>5
    <2>2. ASSUME NEW h \in Heads(n), NEW t \in Tips(n, h)
          PROVE  t \notin inner2 /\ (t # h => Parent[t] \in inner2)
        <3>1. h \in Heads(m) /\ h # b /\ t \in Tips(m, h)
            BY DEF Leaves
        <3>2. t \notin inner /\ (t # h => Parent[t] \in inner) /\ home[t] = h /\ t \in m.orphan_pool
            BY <3>1 DEF Links, InnerLinked, TipsLinked
        <3>3. t # h => home[Parent[t]] = h
            BY <3>1, <3>2, HomeAbove, SMTT(30) DEF Links
        <3>4. home[b] # h
            BY <1>1, <1>2, <3>1 DEF Links, Homes
        <3> QED
            BY <3>1, <3>2, <3>3, <3>4
    <2>3. inner2 \subseteq n.orphan_pool
        BY DEF Links, InnerLinked, Leaves
    <2> HIDE DEF inner2
    <2> QED
        BY <2>1, <2>2, <2>3 DEF InnerLinked
<1>10. DisconnectedLinked(n, home2, inner2)
    <2> SUFFICES ASSUME NEW o \in n.orphan_pool, ~IsValid(n, o)
                 PROVE  /\ home2[o] \in Heads(n)
                        /\ n.validations_mapping[o] = "DisconnectedTip" =>
                              o \in Tips(n, home2[o]) /\ \A c \in n.orphan_pool : Parent[c] # o
                        /\ n.validations_mapping[o] # "DisconnectedTip" =>
                              o \in inner2 /\ \E c \in n.orphan_pool : Parent[c] = o
        BY DEF DisconnectedLinked
    <2>1. o \in m.orphan_pool /\ o # b /\ ~Mine(o) /\ ~IsValid(m, o)
          /\ n.validations_mapping[o] = m.validations_mapping[o]
        BY <1>5, SMTT(30) DEF Leaves
    <2>2. home2[o] = home[o] /\ home[o] \in Heads(m) /\ home[o] \in Heads(n)
        BY <1>3, <2>1, SMTT(30) DEF Links, DisconnectedLinked, Leaves
    <2>3. o # Parent[b]
        BY <2>1
    <2> QED
        BY <2>1, <2>2, <2>3 DEF Links, DisconnectedLinked, Leaves
<1>11. ValidLinked(n, D \cup {b})
    <2> SUFFICES ASSUME NEW o \in n.orphan_pool, IsValid(n, o), Parent[o] # b
                 PROVE  Parent[o] \in D \/ (Parent[o] \in n.orphan_pool /\ IsValid(n, Parent[o]))
        BY DEF ValidLinked
    <2>0. o \in m.orphan_pool /\ o # b
        BY SMTT(30) DEF Leaves
    <2>1. CASE Mine(o)
        BY <2>0, <2>1, HomeAbove, SMTT(30) DEF Leaves, Links
    <2>2. CASE ~Mine(o)
        <3>1. IsValid(m, o)
            BY <2>2 DEF Leaves, IsValid
        <3> QED
            BY <1>5, <2>0, <3>1 DEF Links, ValidLinked, Leaves
    <2> QED
        BY <2>1, <2>2
<1>12. n.orphan_pool \cap (D \cup {b}) = {} /\ ValidTipsLinked(n)
    BY DEF Links, Leaves
<1> HIDE DEF inner2
<1>13. Links(n, D \cup {b}, home2, inner2)
    BY <1>6, <1>7, <1>8, <1>9, <1>10, <1>11, <1>12 DEF Links
<1> QED
    BY <1>13

\* The head that b hangs on is none of the tips it keeps.
LEMMA HeadNoTip ==
    ASSUME WellFormedHeights, NEW m \in Memory, NEW D, NEW home, NEW inner, Links(m, D, home, inner),
           NEW b \in Block, b \notin m.orphan_pool, NEW hd \in Heads(m), HangsOn(m, D, home, b, hd)
    PROVE  hd \notin Tips(m, hd) \ {Parent[b]}
\* Below an inner orphan its head is inner too, so it is no tip.
<1>InnerHead. ASSUME NEW x \in inner, home[x] \in Heads(m) PROVE home[x] \in inner
    <2> USE <1>InnerHead
    <2> DEFINE S == {y \in inner : home[y] = home[x]}
    <2>1. inner \subseteq m.orphan_pool /\ m.orphan_pool \subseteq Block
        BY DEF Links, InnerLinked, Memory
    <2>2. PICK y \in S : \A z \in S : Height[y] <= Height[z]
        <3>1. S \in SUBSET Block /\ x \in S
            BY <2>1
        <3> HIDE DEF S
        <3> QED
            BY <3>1, HighestBlock
    <2>3. CASE y = home[x]
        BY <2>2, <2>3
    <2>4. CASE y # home[x]
        <3>1. y \notin Heads(m) /\ Parent[y] \in m.orphan_pool /\ home[Parent[y]] = home[x]
            BY <2>1, <2>2, <2>4, HomeAbove, SMTT(30) DEF Links
        <3>2. Parent[y] \in S
            BY <2>2, <3>1 DEF Links, InnerLinked
        <3>3. Height[y] = Height[Parent[y]] + 1 /\ Height[Parent[y]] \in Nat
            BY <2>1, <2>2, <3>1, HeightAssumption DEF WellFormedHeights
        <3> QED
            BY <2>2, <3>2, <3>3, SMTT(30)
    <2> QED
        BY <2>3, <2>4
<1> DEFINE p == Parent[b]
<1>1. p \in m.orphan_pool /\ ~IsValid(m, p) /\ home[p] = hd
    BY DEF HangsOn, Links, HeadsLinked
<1>2. \A t \in Tips(m, hd) : t \notin inner /\ (t # hd => Parent[t] \in inner)
    BY DEF Links, InnerLinked
<1>3. CASE m.validations_mapping[p] = "DisconnectedTip"
    <2>1. p \in Tips(m, hd)
        BY <1>1, <1>3 DEF Links, DisconnectedLinked
    <2>2. CASE p # hd
        <3>1. Parent[p] \in inner /\ home[Parent[p]] = hd
            BY <1>1, <1>2, <2>1, <2>2, HomeAbove, SMTT(30) DEF Links
        <3>2. hd \in inner
            BY <3>1, <1>InnerHead
        <3> QED
            BY <1>2, <3>2
    <2> QED
        BY <2>2
<1>4. CASE m.validations_mapping[p] # "DisconnectedTip"
    <2>1. p \in inner
        BY <1>1, <1>4 DEF Links, DisconnectedLinked
    <2>2. hd \in inner
        BY <1>1, <2>1, <1>InnerHead
    <2> QED
        BY <1>2, <2>2
<1> QED
    BY <1>3, <1>4

\* A block that append_block puts on a disconnected chain, or that heads a new one,
\* leaves every orphan linked.
LEMMA LinksHang ==
    ASSUME WellFormedHeights, NEW m \in Memory, NEW n \in Memory, NEW D, NEW home, NEW inner,
           Links(m, D, home, inner), NEW b \in Block, b \notin m.orphan_pool \cup D,
           NEW hd, HangsOn(m, D, home, b, hd), Hangs(m, n, b, hd)
    PROVE  \E home2, inner2 : Links(n, D, home2, inner2)
<1> DEFINE p == Parent[b]
           A == Following(m, b)
           home2 == [o \in Block |-> IF o = b \/ (o \in m.orphan_pool /\ home[o] \in A) THEN hd ELSE home[o]]
           inner2 == inner \cup (IF A = {} THEN {} ELSE {b}) \cup ({p} \cap m.orphan_pool)
<1>1. /\ m.orphan_pool \subseteq Block /\ Heads(m) \subseteq m.orphan_pool /\ NoBlock \notin Block
      /\ NoBlock \notin Heads(m) /\ b \notin Heads(m) /\ home \in [Block -> Block \cup {NoBlock}]
      /\ A \subseteq Heads(m) /\ p # b
    BY GenesisAssumption, ParentDiffers DEF Memory, Links, HeadsLinked, Homes, Following
<1>2. p \in m.orphan_pool => /\ ~IsValid(m, p) /\ home[p] = hd /\ hd \in Heads(m) /\ hd # b
                             /\ Height[hd] < Height[b]
    <2>1. p \in m.orphan_pool => ~IsValid(m, p) /\ home[p] = hd /\ hd \in Heads(m) /\ Height[hd] <= Height[p]
        BY SMTT(30) DEF HangsOn, Links, DisconnectedLinked, Homes
    <2>2. p \in m.orphan_pool => p \in Block /\ Height[b] = Height[p] + 1 /\ Height[p] \in Nat
        BY <1>1, HeightAssumption DEF WellFormedHeights
    <2>3. p \in m.orphan_pool => Height[hd] \in Nat
        BY <1>1, <2>1, HeightAssumption
    <2> QED
        BY <1>1, <2>1, <2>2, <2>3, SMTT(30)
<1>3. p \notin m.orphan_pool => hd = b /\ p \notin D
    BY DEF HangsOn
<1>4. hd \notin A /\ hd \in Block /\ hd \in Heads(n) /\ Height[hd] <= Height[b] /\ Height[hd] \in Nat /\ Height[b] \in Nat
    <2>1. hd \in Block /\ Height[hd] \in Nat /\ Height[b] \in Nat /\ Height[hd] <= Height[b]
        BY <1>1, <1>2, <1>3, HeightAssumption, SMTT(30)
    <2>2. hd \notin A
        <3>1. hd \in A => Height[hd] = Height[b] + 1
            BY <2>1 DEF Following, WellFormedHeights
        <3> QED
            BY <2>1, <3>1, SMTT(30)
    <2> QED
        BY <2>1, <2>2 DEF Hangs, Hooked
<1>5. \A x \in m.orphan_pool : home[x] \in A => ~IsValid(m, x)
    BY OpenHead DEF Following
<1>6. \A o \in m.orphan_pool : Parent[o] = b => o \in A
    BY DEF Links, HeadsLinked, Following
<1>7. /\ home2 \in [Block -> Block \cup {NoBlock}] /\ home2[b] = hd
      /\ \A o \in m.orphan_pool : home2[o] = IF home[o] \in A THEN hd ELSE home[o]
    <2>1. \A o \in m.orphan_pool : o # b /\ o \in Block
        BY <1>1
    <2> HIDE DEF A, p
    <2> QED
        BY <1>1, <1>4, <2>1
<1> HIDE DEF home2
<1>8. p \in m.orphan_pool => home2[p] = hd /\ home[p] \notin A
    BY <1>2, <1>4, <1>7
<1>9. \A x \in m.orphan_pool : IsValid(m, x) <=> IsValid(n, x)
    BY <1>2 DEF Hangs, Hooked, IsValid
<1>10. ~IsValid(n, b)
    BY DEF Hangs, Hooked, IsValid
<1>11. Homes(n, home2)
    <2> SUFFICES ASSUME NEW o \in n.orphan_pool
                 PROVE  /\ o \in Heads(n) => home2[o] = o
                        /\ o \notin Heads(n) /\ Parent[o] \in n.orphan_pool => home2[o] = home2[Parent[o]]
                        /\ o \notin Heads(n) /\ Parent[o] \notin n.orphan_pool => home2[o] = NoBlock
                        /\ home2[o] \in Heads(n) \cup {NoBlock}
                        /\ home2[o] \in Heads(n) => Height[home2[o]] <= Height[o]
        BY <1>7 DEF Homes
    <2>1. CASE o = b
        <3>1. b \in Heads(n) => hd = b
            BY <1>1 DEF Hangs, Hooked
        <3>2. p \in n.orphan_pool <=> p \in m.orphan_pool
            BY <1>1 DEF Hangs, Hooked
        <3> QED
            BY <1>2, <1>3, <1>4, <1>7, <1>8, <2>1, <3>1, <3>2
    <2>2. CASE o \in m.orphan_pool /\ home[o] \in A
        <3>1. o \notin Heads(n) /\ home2[o] = hd
            <4>1. o = hd => o \in Heads(m)
                BY <1>1, <1>2, <1>3, <2>2
            <4> QED
                BY <1>4, <1>7, <2>2, <4>1 DEF Hangs, Hooked, Links, Homes
        <3>2. Parent[o] \in n.orphan_pool /\ home2[Parent[o]] = hd
            <4>1. CASE o = home[o]
                BY <1>7, <2>2, <4>1 DEF Hangs, Hooked, Following
            <4>2. CASE o # home[o]
                <5>1. Parent[o] \in m.orphan_pool /\ home[Parent[o]] = home[o]
                    BY <1>1, <2>2, <4>2, HomeAbove, SMTT(30) DEF Links
                <5> QED
                    BY <1>7, <2>2, <5>1 DEF Hangs, Hooked
            <4> QED
                BY <4>1, <4>2
        <3>3. Height[b] <= Height[o] /\ Height[o] \in Nat
            <4>1. PICK g \in A : g = home[o]
                BY <2>2
            <4>2. Height[g] <= Height[o] /\ g \in Block /\ o \in Block /\ Parent[g] = b
                BY <1>1, <2>2, <4>1 DEF Links, Homes, Following
            <4>3. Height[g] = Height[b] + 1
                BY <4>2 DEF WellFormedHeights
            <4> QED
                BY <1>4, <4>2, <4>3, HeightAssumption, SMTT(30)
        <3> QED
            BY <1>4, <3>1, <3>2, <3>3, SMTT(90)
    <2>3. CASE o \in m.orphan_pool /\ home[o] \notin A
        <3>1. home2[o] = home[o]
            BY <1>7, <2>3
        <3>2. o \in Heads(n) <=> o \in Heads(m)
            <4>1. o = hd => o \in Heads(m)
                BY <1>2, <1>3, <2>3
            <4> QED
                BY <2>3, <4>1, ZenonT(60) DEF Hangs, Hooked, Links, Homes
        <3>3. ASSUME o \notin Heads(m)
              PROVE  /\ Parent[o] \in n.orphan_pool <=> Parent[o] \in m.orphan_pool
                     /\ Parent[o] \in m.orphan_pool => home2[Parent[o]] = home[Parent[o]]
            <4>1. Parent[o] # b
                BY <1>1, <1>6, <2>3, <3>3
            <4>2. Parent[o] \in m.orphan_pool => home[Parent[o]] \notin A
                BY <2>3, <3>3 DEF Links, Homes
            <4> QED
                BY <1>7, <4>1, <4>2 DEF Hangs, Hooked
        <3>4. home[o] \in Heads(n) \cup {NoBlock} /\ (home[o] \in Heads(n) => home[o] \in Heads(m))
            <4>1. home[o] \in Heads(m) \cup {NoBlock}
                BY <2>3 DEF Links, Homes
            <4> QED
                BY <1>1, <1>4, <2>3, <4>1, SMTT(30) DEF Hangs, Hooked
        <3> HIDE DEF A, p
        <3> QED
            BY <2>3, <3>1, <3>2, <3>3, <3>4 DEF Links, Homes
    <2> QED
        BY <2>1, <2>2, <2>3, SMTT(90) DEF Hangs, Hooked
<1>12. HeadsLinked(n, D)
    <2>1. \A h \in Heads(n) : Parent[h] \in n.orphan_pool => IsValid(n, Parent[h])
        <3> SUFFICES ASSUME NEW h \in Heads(n), Parent[h] \in n.orphan_pool PROVE IsValid(n, Parent[h])
            OBVIOUS
        <3>1. h # b
            <4>1. h = b => hd = b /\ Parent[h] = p
                BY <1>1, SMTT(30) DEF Hangs, Hooked
            <4> QED
                BY <1>1, <1>2, <4>1 DEF Hangs, Hooked
        <3>2. h \in Heads(m) /\ Parent[h] # b
            BY <1>2, <1>3, <3>1, SMTT(30) DEF Hangs, Hooked, Following
        <3> QED
            BY <1>9, <3>2, SMTT(90) DEF Hangs, Hooked, Links, HeadsLinked
    <2>2. \A o \in n.orphan_pool : Parent[o] \notin n.orphan_pool \cup D => o \in Heads(n)
        <3> SUFFICES ASSUME NEW o \in n.orphan_pool, Parent[o] \notin n.orphan_pool \cup D PROVE o \in Heads(n)
            OBVIOUS
        <3>1. CASE o = b
            BY <1>3, <1>4, <3>1 DEF Hangs, Hooked
        <3>2. CASE o # b
            BY <3>2, SMTT(90) DEF Hangs, Hooked, Links, HeadsLinked, Following
        <3> QED
            BY <3>1, <3>2
    <2>3. Heads(n) \subseteq n.orphan_pool
        BY <1>1, <1>2, <1>3, SMTT(30) DEF Hangs, Hooked
    <2> QED
        BY <2>1, <2>2, <2>3 DEF Hangs, Hooked, HeadsLinked
<1>13. ASSUME NEW t \in HungTips(m, b, hd), t # b
       PROVE  /\ t \in m.orphan_pool /\ t # p /\ home2[t] = hd /\ t \notin inner /\ t # hd
              /\ n.validations_mapping[t] # "BelongsToDisconnected"
              /\ Parent[t] \in inner2
    <2>1. CASE hd \in Heads(m) /\ t \in Tips(m, hd) /\ t # p
        <3>1. /\ t \in m.orphan_pool /\ home[t] = hd /\ m.validations_mapping[t] # "BelongsToDisconnected"
              /\ t \notin inner /\ (t # hd => Parent[t] \in inner)
            BY <2>1 DEF Links, TipsLinked, InnerLinked
        <3>2. t # hd
            BY <2>1, HeadNoTip
        <3> QED
            BY <1>4, <1>7, <2>1, <3>1, <3>2 DEF Hangs, Hooked
    <2>2. CASE A # {} /\ \E h \in A : t \in Tips(m, h)
        <3>1. PICK h \in A : t \in Tips(m, h)
            BY <2>2
        <3>2. /\ t \in m.orphan_pool /\ home[t] = h /\ m.validations_mapping[t] # "BelongsToDisconnected"
              /\ t \notin inner /\ (t # h => Parent[t] \in inner)
            BY <1>1, <3>1 DEF Links, TipsLinked, InnerLinked
        <3>3. t # p /\ t # hd
            BY <1>2, <1>3, <1>4, <3>1, <3>2, SMTT(30) DEF Links, Homes
        <3>4. t = h => Parent[t] \in inner2
            BY <3>1 DEF Following
        <3> QED
            BY <1>7, <3>1, <3>2, <3>3, <3>4 DEF Hangs, Hooked
    <2>3. \/ t \in (IF hd \in Heads(m) THEN Tips(m, hd) ELSE {}) /\ t # Parent[b]
          \/ t \in IF Following(m, b) = {} THEN {b} ELSE UNION {Tips(m, h) : h \in Following(m, b)}
        BY DEF HungTips
    <2>4. \/ hd \in Heads(m) /\ t \in Tips(m, hd) /\ t # Parent[b]
          \/ Following(m, b) # {} /\ \E h \in Following(m, b) : t \in Tips(m, h)
        BY <1>13, <2>3
    <2> QED
        BY <2>1, <2>2, <2>4
<1>14. TipsLinked(n, home2)
    <2> SUFFICES ASSUME NEW h \in Heads(n)
                 PROVE  /\ n.disconnected_heads_heights[h] \in Tips(n, h)
                        /\ \A t \in Tips(n, h) :
                              /\ t \in n.orphan_pool /\ home2[t] = h
                              /\ t \in DOMAIN n.disconnected_tips_mapping /\ n.disconnected_tips_mapping[t] = h
                              /\ Height[t] <= Height[n.disconnected_heads_heights[h]]
                              /\ n.validations_mapping[t] # "BelongsToDisconnected"
        BY DEF TipsLinked
    <2>1. CASE h = hd
        <3>1. b \in HungTips(m, b, hd) => n.validations_mapping[b] = "DisconnectedTip"
            <4>1. b \notin UNION {Tips(m, g) : g \in A} /\ (hd \in Heads(m) => b \notin Tips(m, hd))
                BY <1>1, SMTT(30) DEF Links, TipsLinked
            <4> QED
                BY <4>1 DEF Hangs, Hooked, HungTips
        <3>2. \A t \in HungTips(m, b, hd) : t \in n.orphan_pool /\ home2[t] = h
                                            /\ n.validations_mapping[t] # "BelongsToDisconnected"
            BY <1>7, <1>13, <2>1, <3>1 DEF Hangs, Hooked
        <3> QED
            BY <2>1, <3>2, ZenonT(60) DEF Hangs, Hooked
    <2>2. CASE h # hd
        <3>1. h \in Heads(m) /\ h \notin A /\ Tips(n, h) = Tips(m, h)
              /\ n.disconnected_heads_heights[h] = m.disconnected_heads_heights[h]
            BY <2>2, SMTT(30) DEF Hangs, Hooked
        <3>2. ASSUME NEW t \in Tips(m, h)
              PROVE  t \in n.orphan_pool /\ home2[t] = h /\ n.validations_mapping[t] # "BelongsToDisconnected"
            <4>1. t \in m.orphan_pool /\ home[t] = h /\ m.validations_mapping[t] # "BelongsToDisconnected"
                BY <3>1 DEF Links, TipsLinked
            <4>2. t # p
                BY <1>2, <2>2, <4>1
            <4> QED
                BY <1>7, <3>1, <4>1, <4>2 DEF Hangs, Hooked
        <3> QED
            BY <2>2, <3>1, <3>2 DEF Hangs, Hooked, Links, TipsLinked
    <2> QED
        BY <2>1, <2>2
<1>15. InnerLinked(n, inner2)
    <2>1. inner2 \subseteq n.orphan_pool /\ inner \subseteq m.orphan_pool
        BY DEF Hangs, Hooked, Links, InnerLinked
    <2>2. ASSUME NEW x \in inner2, x \notin Heads(n) PROVE Parent[x] \in inner2
        <3>1. CASE x \in inner /\ x \notin Heads(m)
            BY <3>1 DEF Links, InnerLinked
        <3>2. CASE x \in inner /\ x \in Heads(m)
            BY <2>2, <3>2 DEF Hangs, Hooked, Following
        <3>3. CASE x = b
            BY <1>3, <1>4, <2>2, <3>3
        <3>4. CASE x = p /\ p \in m.orphan_pool
            <4>1. p \notin Heads(m)
                BY <1>2, <1>4, <2>2, <3>4 DEF Links, Homes
            <4>2. CASE m.validations_mapping[p] = "DisconnectedTip"
                <5>1. p \in Tips(m, hd)
                    BY <1>2, <3>4, <4>2 DEF Links, DisconnectedLinked
                <5> QED
                    BY <1>2, <3>4, <4>1, <5>1 DEF Links, InnerLinked
            <4>3. CASE m.validations_mapping[p] # "DisconnectedTip"
                <5>1. p \in inner
                    BY <1>2, <3>4, <4>3 DEF Links, DisconnectedLinked
                <5> QED
                    BY <3>4, <4>1, <5>1 DEF Links, InnerLinked
            <4> QED
                BY <4>2, <4>3
        <3> QED
            BY <3>1, <3>2, <3>3, <3>4
    <2>3. ASSUME NEW h \in Heads(n), NEW t \in Tips(n, h)
          PROVE  t \notin inner2 /\ (t # h => Parent[t] \in inner2)
        <3>1. CASE h = hd /\ t # b
            <4>1. t \in HungTips(m, b, hd)
                BY <3>1 DEF Hangs, Hooked
            <4> QED
                BY <1>13, <3>1, <4>1
        <3>2. CASE h = hd /\ t = b
            <4>1. A = {}
                <5>1. b \notin UNION {Tips(m, g) : g \in A} /\ (hd \in Heads(m) => b \notin Tips(m, hd))
                    BY <1>1, SMTT(30) DEF Links, TipsLinked
                <5> QED
                    BY <3>2, <5>1 DEF Hangs, Hooked, HungTips
            <4>2. b \notin inner2
                BY <1>1, <2>1, <4>1
            <4>3. b # hd => p \in inner2
                BY <1>3
            <4> QED
                BY <3>2, <4>2, <4>3
        <3>3. CASE h # hd
            <4>1. h \in Heads(m) /\ t \in Tips(m, h)
                BY <3>3, SMTT(30) DEF Hangs, Hooked
            <4>2. t \in m.orphan_pool /\ home[t] = h /\ t \notin inner /\ (t # h => Parent[t] \in inner)
                BY <4>1 DEF Links, TipsLinked, InnerLinked
            <4>3. t # p /\ t # b
                BY <1>1, <1>2, <3>3, <4>2
            <4> QED
                BY <4>2, <4>3
        <3> QED
            BY <3>1, <3>2, <3>3
    <2> HIDE DEF inner2
    <2> QED
        BY <2>1, <2>2, <2>3 DEF InnerLinked
<1>16. DisconnectedLinked(n, home2, inner2)
    <2> SUFFICES ASSUME NEW o \in n.orphan_pool, ~IsValid(n, o)
                 PROVE  /\ home2[o] \in Heads(n)
                        /\ n.validations_mapping[o] = "DisconnectedTip" =>
                              o \in Tips(n, home2[o]) /\ \A c \in n.orphan_pool : Parent[c] # o
                        /\ n.validations_mapping[o] # "DisconnectedTip" =>
                              o \in inner2 /\ \E c \in n.orphan_pool : Parent[c] = o
        BY DEF DisconnectedLinked
    <2>1. CASE o = b
        <3>1. CASE A = {}
            <4>1. \A c \in n.orphan_pool : Parent[c] # b
                BY <1>1, <1>6, <3>1 DEF Hangs, Hooked
            <4> QED
                BY <1>4, <1>7, <2>1, <3>1, <4>1 DEF Hangs, Hooked, HungTips
        <3>2. CASE A # {}
            <4>1. PICK c \in A : TRUE
                BY <3>2
            <4>2. Parent[c] = b /\ c \in n.orphan_pool
                BY <1>1, <4>1 DEF Hangs, Hooked, Following
            <4> QED
                BY <1>4, <1>7, <2>1, <3>2, <4>2 DEF Hangs, Hooked
        <3> QED
            BY <3>1, <3>2
    <2>2. CASE o = p /\ p \in m.orphan_pool
        BY <1>4, <1>8, <2>2 DEF Hangs, Hooked
    <2>3. CASE o \in m.orphan_pool /\ o # p
        <3>1. ~IsValid(m, o) /\ n.validations_mapping[o] = m.validations_mapping[o] /\ home[o] \in Heads(m)
            BY <1>9, <2>3 DEF Hangs, Hooked, Links, DisconnectedLinked
        <3>2. home2[o] \in Heads(n)
            BY <1>4, <1>7, <2>3, <3>1 DEF Hangs, Hooked
        <3>3. ASSUME m.validations_mapping[o] = "DisconnectedTip"
              PROVE  o \in Tips(n, home2[o]) /\ \A c \in n.orphan_pool : Parent[c] # o
            <4>1. o \in Tips(m, home[o]) /\ \A c \in m.orphan_pool : Parent[c] # o
                BY <2>3, <3>1, <3>3 DEF Links, DisconnectedLinked
            <4>2. o \in Tips(n, home2[o])
                <5>1. CASE home[o] \in A
                    <6>1. o \in HungTips(m, b, hd)
                        BY <4>1, <5>1 DEF HungTips
                    <6> QED
                        BY <1>7, <2>3, <5>1, <6>1, SMTT(90) DEF Hangs, Hooked
                <5>2. CASE home[o] \notin A /\ home[o] = hd
                    <6>1. o \in HungTips(m, b, hd)
                        BY <2>3, <3>1, <4>1, <5>2 DEF HungTips
                    <6> QED
                        BY <1>7, <2>3, <5>2, <6>1, SMTT(90) DEF Hangs, Hooked
                <5>3. CASE home[o] \notin A /\ home[o] # hd
                    BY <1>7, <2>3, <3>1, <4>1, <5>3, SMTT(90) DEF Hangs, Hooked
                <5> QED
                    BY <5>1, <5>2, <5>3
            <4> QED
                BY <2>3, <4>1, <4>2 DEF Hangs, Hooked
        <3>4. ASSUME m.validations_mapping[o] # "DisconnectedTip"
              PROVE  o \in inner2 /\ \E c \in n.orphan_pool : Parent[c] = o
            BY <2>3, <3>1, <3>4 DEF Hangs, Hooked, Links, DisconnectedLinked
        <3> QED
            BY <3>1, <3>2, <3>3, <3>4
    <2> QED
        BY <2>1, <2>2, <2>3, SMTT(90) DEF Hangs, Hooked
<1>17. ValidLinked(n, D)
    BY <1>9, <1>10 DEF Hangs, Hooked, Links, ValidLinked
<1>18. ValidTipsLinked(n)
    <2>1. \A o \in n.orphan_pool : n.validations_mapping[o] = "ValidChainTip" => o \in n.valid_tips
        BY <1>2, <1>10, ZenonT(60) DEF Hangs, Hooked, Links, ValidTipsLinked, IsValid
    <2> QED
        BY <1>9, <2>1 DEF Hangs, Hooked, Links, ValidTipsLinked
<1>19. n.orphan_pool \cap D = {}
    BY ZenonT(60) DEF Links, Hangs, Hooked
<1> HIDE DEF inner2
<1>20. Links(n, D, home2, inner2)
    BY <1>11, <1>12, <1>14, <1>15, <1>16, <1>17, <1>18, <1>19 DEF Links
<1> QED
    BY <1>20

-----------------------------------------------------------------------------
(***************************************************************************)
(* What the helpers of append_block do, field by field.                    *)
(***************************************************************************)

\* insert and remove, key by key.
LEMMA PutAt ==
    ASSUME NEW f, NEW k, NEW v
    PROVE  /\ DOMAIN Put(f, k, v) = DOMAIN f \cup {k} /\ Put(f, k, v)[k] = v
           /\ \A x \in DOMAIN f \ {k} : Put(f, k, v)[x] = f[x]
BY DEF Put, Override

\* HashMap::remove forgets the keys and keeps the rest.
LEMMA DropAt ==
    ASSUME NEW f, NEW S
    PROVE  /\ DOMAIN Drop(f, S) = DOMAIN f \ S
           /\ \A x \in DOMAIN f \ S : Drop(f, S)[x] = f[x]
BY DEF Drop, Restrict

\* What write_orphan changes.
LEMMA WriteOrphanAt ==
    ASSUME NEW m \in Memory, NEW b, NEW type, NEW inverse
    PROVE  WritesOrphan(m, write_orphan(m, b, type, inverse), b, type)
<1> DEFINE inv == IF b \in DOMAIN m.inverse THEN m.inverse ELSE Put(m.inverse, b, inverse)
           val == Put(m.validations_mapping, b, type)
           tips == IF type = "ValidChainTip" THEN m.valid_tips \cup {b} ELSE m.valid_tips
           filed == [m EXCEPT !.orphan_pool = @ \cup {b},
                              !.heights = @ \cup {Height[b]},
                              !.inverse = inv,
                              !.validations_mapping = val,
                              !.valid_tips = tips]
<1>1. write_orphan(m, b, type, inverse) = update_max_orphan_height(filed, Height[b])
    BY DEF write_orphan
<1>2. DOMAIN inv = DOMAIN m.inverse \cup {b}
    BY PutAt
<1> HIDE DEF inv, val, tips
<1>3. /\ filed.orphan_pool = m.orphan_pool \cup {b} /\ SameChains(m, filed)
      /\ filed.validations_mapping = val /\ filed.valid_tips = tips /\ filed.inverse = inv
      /\ filed.max_orphan_height = m.max_orphan_height
      /\ DOMAIN filed = DOMAIN m /\ DOMAIN m = DOMAIN EmptyMemory
    BY DEF Memory, SameChains, EmptyMemory
<1>4. PICK w : w = filed
    OBVIOUS
<1> HIDE DEF filed
<1>5. /\ write_orphan(m, b, type, inverse) = [w EXCEPT !.max_orphan_height = IF Height[b] > @ THEN Height[b] ELSE @]
    BY <1>1, <1>4 DEF update_max_orphan_height
<1> QED
    BY <1>2, <1>3, <1>4, <1>5 DEF WritesOrphan, SameChains, inv, val, tips, EmptyMemory

\* What recurse_inverse changes: the marks, and those only when it is asked to.
LEMMA RecurseInverseAt ==
    ASSUME NEW m \in Memory, NEW b \in Block, NEW start \in Nat
    PROVE  /\ OnlyMarks(m, recurse_inverse(m, b, start, TRUE), MarkedValid(m, b))
           /\ OnlyMarks(m, recurse_inverse(m, b, start, FALSE), m.validations_mapping)
\* RaiseInverse and recurse_inverse.
<1>RaiseInverseAt. ASSUME NEW T
                   PROVE  LET n == RaiseInverse(m, T, start)
                          IN /\ n.orphan_pool = m.orphan_pool /\ SameChains(m, n)
                             /\ n.validations_mapping = m.validations_mapping /\ n.valid_tips = m.valid_tips
                             /\ n.max_orphan_height = m.max_orphan_height
                             /\ DOMAIN n.inverse = DOMAIN m.inverse
    BY <1>RaiseInverseAt DEF RaiseInverse, Memory, SameChains
<1>1. PICK r \in Memory : r = RaiseInverse(m, {b}, start)
    BY RaiseInverseType
<1>2. /\ r.orphan_pool = m.orphan_pool /\ SameChains(m, r)
      /\ r.validations_mapping = m.validations_mapping /\ r.valid_tips = m.valid_tips
      /\ r.max_orphan_height = m.max_orphan_height /\ DOMAIN r.inverse = DOMAIN m.inverse
    BY <1>1, <1>RaiseInverseAt, SMTT(30)
<1>3. /\ recurse_inverse(m, b, start, TRUE) = [r EXCEPT !.validations_mapping = MarkedValid(m, b)]
      /\ recurse_inverse(m, b, start, FALSE) = [r EXCEPT !.validations_mapping = m.validations_mapping]
    BY <1>1, <1>2 DEF recurse_inverse, MarkedValid
<1> QED
    BY <1>2, <1>3 DEF Memory, SameChains, OnlyMarks

\* What make_valid_tips changes.
LEMMA MakeValidTipsAt ==
    ASSUME NEW m \in Memory, NEW head \in Heads(m)
    PROVE  MakesValid(m, make_valid_tips(m, head), head)
<1> DEFINE tips == Tips(m, head)
           parents == UNION {WalkUntilValid(m, t) : t \in tips}
           hm == Drop(m.disconnected_heads_mapping, {head})
           hh == Drop(m.disconnected_heads_heights, {head})
           tm == Drop(m.disconnected_tips_mapping, tips)
           val == Override(Mark(parents, "BelongsToValidChain"),
                           Override(Mark(tips, "ValidChainTip"), m.validations_mapping))
<1>1. make_valid_tips(m, head) =
          [m EXCEPT !.disconnected_heads_mapping = hm, !.disconnected_heads_heights = hh,
                    !.disconnected_tips_mapping = tm, !.validations_mapping = val,
                    !.valid_tips = @ \cup tips]
    BY DEF make_valid_tips, Tips
<1> HIDE DEF hm, hh, tm, val, tips
<1>2. LET n == make_valid_tips(m, head)
      IN /\ n.orphan_pool = m.orphan_pool
         /\ n.disconnected_heads_mapping = hm /\ n.disconnected_heads_heights = hh
         /\ n.disconnected_tips_mapping = tm /\ n.validations_mapping = val
         /\ n.valid_tips = m.valid_tips \cup tips
         /\ n.max_orphan_height = m.max_orphan_height /\ n.inverse = m.inverse
    BY <1>1 DEF Memory
<1> QED
    BY <1>2 DEF hm, hh, tm, val, tips, MakesValid, TipWalks

\* What write_block changes in memory.
LEMMA AfterWriteAt ==
    ASSUME NEW m \in Memory, NEW b
    PROVE  LET n == MemoryAfterWrite(m, b)
               out == RemoveOrphan(m, b)
               tips == WrittenTips(m, b)
               parents == UNION {PoolAncestors(out, t) : t \in tips}
           IN /\ out \in Memory /\ out.orphan_pool = m.orphan_pool \ {b}
              /\ n.orphan_pool = m.orphan_pool \ {b}
              /\ n.disconnected_heads_mapping = Drop(m.disconnected_heads_mapping, {b})
              /\ n.disconnected_heads_heights = Drop(m.disconnected_heads_heights, {b})
              /\ n.disconnected_tips_mapping = Drop(m.disconnected_tips_mapping, {b} \cup tips)
              /\ n.validations_mapping = Override(Mark(parents, "BelongsToValidChain"),
                                                  Override(Mark(tips, "ValidChainTip"), m.validations_mapping))
              /\ n.valid_tips = (m.valid_tips \ {b}) \cup tips
              /\ n.max_orphan_height = MaxAfterWrite(m, b)
<1> DEFINE inv == Drop(m.inverse, {b})
           out == RemoveOrphan(m, b)
           tips == WrittenTips(m, b)
           parents == UNION {PoolAncestors(out, t) : t \in tips}
           hm == Drop(m.disconnected_heads_mapping, {b})
           hh == Drop(m.disconnected_heads_heights, {b})
           tm == Drop(m.disconnected_tips_mapping, {b} \cup tips)
           max == MaxAfterWrite(m, b)
           val == Override(Mark(parents, "BelongsToValidChain"),
                           Override(Mark(tips, "ValidChainTip"), m.validations_mapping))
<1>1. /\ out \in Memory /\ out.orphan_pool = m.orphan_pool \ {b}
      /\ out.disconnected_heads_mapping = m.disconnected_heads_mapping
      /\ out.disconnected_heads_heights = m.disconnected_heads_heights
      /\ out.disconnected_tips_mapping = m.disconnected_tips_mapping
      /\ out.validations_mapping = m.validations_mapping /\ out.valid_tips = m.valid_tips
    <2>1. inv \in Maps(Block, Nat)
        BY MapDrop DEF Memory
    <2>2. out = [m EXCEPT !.orphan_pool = @ \ {b}, !.inverse = inv]
        BY DEF RemoveOrphan
    <2> HIDE DEF inv, out
    <2> QED BY <2>1, <2>2 DEF Memory
<1>2. MemoryAfterWrite(m, b) =
          [out EXCEPT !.max_orphan_height = max,
                      !.disconnected_heads_mapping = hm, !.disconnected_heads_heights = hh,
                      !.disconnected_tips_mapping = tm, !.validations_mapping = val,
                      !.valid_tips = (@ \ {b}) \cup tips]
    BY <1>1 DEF MemoryAfterWrite
<1> HIDE DEF hm, hh, tm, val, tips, max, out
<1>3. LET n == MemoryAfterWrite(m, b)
      IN /\ n.orphan_pool = out.orphan_pool
         /\ n.disconnected_heads_mapping = hm /\ n.disconnected_heads_heights = hh
         /\ n.disconnected_tips_mapping = tm /\ n.validations_mapping = val
         /\ n.valid_tips = (out.valid_tips \ {b}) \cup tips
         /\ n.max_orphan_height = max
    BY <1>1, <1>2, SMTT(30) DEF Memory
<1> QED
    BY <1>1, <1>3 DEF hm, hh, tm, val, tips, max, out

\* What rewind does to the maps in memory.
LEMMA UnwoundAt ==
    ASSUME NEW m \in Memory, NEW b, NEW inverse
    PROVE  Unwinds(m, Unwound(m, b, inverse), b, inverse)
<1> DEFINE inv == Put(m.inverse, b, inverse)
           val == Put(m.validations_mapping, b, IF inverse = 0 THEN "ValidChainTip" ELSE "BelongsToValidChain")
           tips == IF inverse = 0 THEN m.valid_tips \cup {b} ELSE m.valid_tips
           filed == [m EXCEPT !.orphan_pool = @ \cup {b},
                              !.heights = @ \cup {Height[b]},
                              !.inverse = inv,
                              !.validations_mapping = val,
                              !.valid_tips = tips]
<1>1. Unwound(m, b, inverse) = update_max_orphan_height(filed, Height[b])
    BY DEF Unwound
<1> HIDE DEF inv, val, tips
<1>3. /\ filed.orphan_pool = m.orphan_pool \cup {b} /\ SameChains(m, filed)
      /\ filed.validations_mapping = val /\ filed.valid_tips = tips /\ filed.inverse = inv
      /\ filed.max_orphan_height = m.max_orphan_height
      /\ DOMAIN filed = DOMAIN m /\ DOMAIN m = DOMAIN EmptyMemory
    BY DEF Memory, SameChains, EmptyMemory
<1>4. PICK w : w = filed
    OBVIOUS
<1> HIDE DEF filed
<1>5. Unwound(m, b, inverse) = [w EXCEPT !.max_orphan_height = IF Height[b] > @ THEN Height[b] ELSE @]
    BY <1>1, <1>4 DEF update_max_orphan_height
<1> QED
    BY <1>3, <1>4, <1>5 DEF SameChains, val, tips, EmptyMemory, Unwinds

-----------------------------------------------------------------------------
(***************************************************************************)
(* The branches of append_block that put b on a disconnected chain.        *)
(***************************************************************************)

\* attempt_attach panics not, and merges the chains of the heads that follow b.
LEMMA AttachHooks ==
    ASSUME WellFormedHeights, NEW m \in Memory, NEW D, NEW home, NEW inner, Links(m, D, home, inner),
           NEW b \in Block, b \notin m.orphan_pool \cup D, NEW hd, HangsOn(m, D, home, b, hd),
           NEW n \in Memory, Placed(m, n, b, hd)
    PROVE  /\ attempt_attachOk(n, b) /\ RaiseInverseOk(n, {b})
           /\ HeadsToAttach(n, b) = Following(m, b) /\ hd \notin Following(m, b)
           /\ \A largest \in LargestAttached(n, b) : Attaches(m, n, attempt_attach(n, b, largest), b, hd)
\* What attempt_attach changes when a head waits for the block.
<1>AttachAt. ASSUME b \in DOMAIN n.disconnected_tips_mapping,
                    NEW largest \in Block \cup {NoBlock}, HeadsToAttach(n, b) # {}
             PROVE  LET r == attempt_attach(n, b, largest)
                        head == n.disconnected_tips_mapping[b]
                        attached == HeadsToAttach(n, b)
                        tips == TipsToAttach(n, b)
                    IN /\ r \in Memory
                       /\ r.orphan_pool = n.orphan_pool
                       /\ r.disconnected_heads_mapping =
                              Put(Drop(n.disconnected_heads_mapping, attached), head, OwnTips(n, head) \cup tips)
                       /\ r.disconnected_heads_heights =
                              IF largest = NoBlock THEN Drop(n.disconnected_heads_heights, attached)
                              ELSE Put(Drop(n.disconnected_heads_heights, attached), head, largest)
                       /\ r.disconnected_tips_mapping =
                              Override(Mark(tips, head), Drop(n.disconnected_tips_mapping, {head}))
                       /\ r.validations_mapping = n.validations_mapping
                       /\ r.valid_tips = n.valid_tips /\ r.max_orphan_height = n.max_orphan_height
                       /\ DOMAIN r.inverse = DOMAIN n.inverse
    <2> USE <1>AttachAt
    <2> DEFINE head == n.disconnected_tips_mapping[b]
               attached == HeadsToAttach(n, b)
               tips == TipsToAttach(n, b)
               hm == Put(Drop(n.disconnected_heads_mapping, attached), head, OwnTips(n, head) \cup tips)
               hh == IF largest = NoBlock THEN Drop(n.disconnected_heads_heights, attached)
                     ELSE Put(Drop(n.disconnected_heads_heights, attached), head, largest)
               tm == Override(Mark(tips, head), Drop(n.disconnected_tips_mapping, {head}))
               merged == [n EXCEPT !.disconnected_heads_mapping = hm,
                                   !.disconnected_heads_heights = hh,
                                   !.disconnected_tips_mapping = tm]
    <2>1. attempt_attach(n, b, largest) = RaiseInverse(merged, tips, 0)
        BY DEF attempt_attach
    <2>2. attempt_attach(n, b, largest) \in Memory
        BY AttachType
    <2> HIDE DEF hm, hh, tm, head, attached, tips
    <2>3. /\ merged.orphan_pool = n.orphan_pool /\ merged.disconnected_heads_mapping = hm
          /\ merged.disconnected_heads_heights = hh /\ merged.disconnected_tips_mapping = tm
          /\ merged.validations_mapping = n.validations_mapping /\ merged.valid_tips = n.valid_tips
          /\ merged.max_orphan_height = n.max_orphan_height /\ merged.inverse = n.inverse
          /\ DOMAIN merged = DOMAIN EmptyMemory
        BY DEF Memory, EmptyMemory
    <2>4. PICK w : w = merged
        OBVIOUS
    <2> HIDE DEF merged
    <2> DEFINE reached(x) ==
                   {0 + i : i \in {i \in Distance :
                                      \E t \in tips : i \in PoolDistances(w, t) /\ Ancestor[i][t] = x}}
               inv == [x \in DOMAIN w.inverse |-> Max({w.inverse[x]} \cup reached(x))]
    <2>5. RaiseInverse(merged, tips, 0) = [w EXCEPT !.inverse = inv] /\ DOMAIN inv = DOMAIN w.inverse
        BY <2>4 DEF RaiseInverse
    <2> HIDE DEF inv
    <2>6. LET r == attempt_attach(n, b, largest)
          IN /\ r.orphan_pool = n.orphan_pool /\ r.disconnected_heads_mapping = hm
             /\ r.disconnected_heads_heights = hh /\ r.disconnected_tips_mapping = tm
             /\ r.validations_mapping = n.validations_mapping /\ r.valid_tips = n.valid_tips
             /\ r.max_orphan_height = n.max_orphan_height /\ DOMAIN r.inverse = DOMAIN n.inverse
        BY <2>1, <2>3, <2>4, <2>5, SMTT(30) DEF EmptyMemory
    <2> QED
        BY <2>2, <2>6 DEF hm, hh, tm, head, attached, tips
<1> DEFINE p == Parent[b]
           A == Following(m, b)
           Own == (IF hd \in Heads(m) THEN Tips(m, hd) ELSE {}) \ {p}
           tips == UNION {Tips(m, h) : h \in A}
           old == n.disconnected_heads_heights[hd]
<1>1. /\ m.orphan_pool \subseteq Block /\ Heads(m) \subseteq m.orphan_pool
      /\ b \notin Heads(m) /\ A \subseteq Heads(m) /\ p # b
    BY ParentDiffers DEF Memory, Links, HeadsLinked, Following
<1>2. p \in m.orphan_pool => home[p] = hd /\ hd \in Heads(m)
    BY SMTT(30) DEF HangsOn, Links, DisconnectedLinked
<1>3. hd \in Heads(m) \/ hd = b
    BY <1>2 DEF HangsOn
<1>4. hd \notin A
    <2>1. CASE hd = b
        BY <1>1, <2>1
    <2>2. CASE hd # b
        <3>1. p \in m.orphan_pool /\ hd \in Heads(m) /\ home[p] = hd
            BY <1>2, <2>2 DEF HangsOn
        <3>2. Height[hd] <= Height[p] /\ hd \in Block /\ p \in Block
            BY <1>1, <3>1 DEF Links, Homes
        <3>3. Height[b] = Height[p] + 1 /\ Height[p] \in Nat /\ Height[hd] \in Nat /\ Height[b] \in Nat
            BY <3>2, HeightAssumption DEF WellFormedHeights
        <3>4. hd \in A => Height[hd] = Height[b] + 1
            BY <3>2 DEF Following, WellFormedHeights
        <3> QED
            BY <3>2, <3>3, <3>4, SMTT(30)
    <2> QED
        BY <2>1, <2>2
<1>5. \A h \in Heads(m) : \A t \in Tips(m, h) : t \in m.orphan_pool /\ home[t] = h /\ t # b /\ (h # hd => t # p)
    BY <1>1, <1>2, SMTT(90) DEF Links, TipsLinked
<1>6. hd \notin Own /\ b \notin Own /\ Own \subseteq m.orphan_pool
    BY <1>1, <1>3, <1>5, HeadNoTip
<1>7. \A t \in tips : t \in m.orphan_pool /\ t # b /\ t # p /\ t # hd /\ t \notin Own /\ home[t] \in A
    <2>1. hd \in Heads(m) => home[hd] = hd
        BY <1>1 DEF Links, Homes
    <2>2. \A t \in tips : t \in m.orphan_pool /\ t # b /\ t # p /\ home[t] \in A
        BY <1>1, <1>4, <1>5, SMTT(30)
    <2>3. \A t \in Own : home[t] = hd
        BY <1>5
    <2> HIDE DEF tips, Own
    <2> QED
        BY <1>3, <1>4, <2>1, <2>2, <2>3
<1>8. HeadsToAttach(n, b) = A
    BY <1>1, <1>4, SMTT(30) DEF HeadsToAttach, Placed, Heads, Following
<1>9. TipsToAttach(n, b) = tips
    <2>1. \A h \in A : n.disconnected_heads_mapping[h] = Tips(m, h)
        BY <1>1, <1>4 DEF Placed, Tips
    <2> QED
        BY <1>8, <2>1 DEF TipsToAttach
<1>10. \A T : RaiseInverseOk(n, T)
    BY WalksStayInPool, SMTT(30) DEF RaiseInverseOk, Placed
<1>11. attempt_attachOk(n, b)
    <2>1. Heads(n) \ {n.disconnected_tips_mapping[b], b} \subseteq n.orphan_pool
        BY <1>1, <1>3 DEF Placed
    <2>2. tips \subseteq n.orphan_pool
        BY <1>7 DEF Placed
    <2>3. A \subseteq DOMAIN n.disconnected_heads_heights /\ hd \in DOMAIN n.disconnected_heads_heights
        BY <1>1 DEF Placed
    <2> HIDE DEF tips, A
    <2> QED
        BY <1>8, <1>9, <1>10, <2>1, <2>2, <2>3 DEF attempt_attachOk, Placed, Heads
<1>12. ASSUME NEW largest \in LargestAttached(n, b), A = {}
       PROVE  /\ attempt_attach(n, b, largest) = n /\ Hooked(m, n, b, hd)
              /\ Tips(n, hd) = HungTips(m, b, hd)
    <2>1. attempt_attach(n, b, largest) = n
        BY <1>8, <1>12 DEF attempt_attach
    <2>2. HungTips(m, b, hd) = Own \cup {b} /\ Tips(n, hd) = Own \cup {b}
        BY <1>12 DEF HungTips, Placed
    <2>3. Heads(n) = (Heads(m) \cup {hd}) \ A
        BY <1>12 DEF Placed
    <2>4. \A t \in Own : t \in DOMAIN n.disconnected_tips_mapping /\ n.disconnected_tips_mapping[t] = hd
        BY DEF Placed
    <2>5. \A h \in Heads(m) \ {hd} : \A t \in Tips(m, h) :
              t \in DOMAIN n.disconnected_tips_mapping /\ n.disconnected_tips_mapping[t] = h
        BY <1>5 DEF Placed
    <2> HIDE DEF Own
    <2> QED
        BY <2>1, <2>2, <2>3, <2>4, <2>5, SMTT(90) DEF Hooked, Placed
<1>13. ASSUME NEW largest \in LargestAttached(n, b), A # {}
       PROVE  LET a == attempt_attach(n, b, largest)
              IN /\ a \in Memory /\ Hooked(m, a, b, hd)
                 /\ b \notin HungTips(m, b, hd) /\ Tips(a, hd) = HungTips(m, b, hd) \cup ({b} \ {hd})
                 /\ a.validations_mapping = n.validations_mapping /\ a.valid_tips = n.valid_tips
                 /\ a.max_orphan_height = n.max_orphan_height
    <2>1. largest \in Block \cup {NoBlock} /\ b \in DOMAIN n.disconnected_tips_mapping
          /\ n.disconnected_tips_mapping[b] = hd
        BY TipsToAttachType DEF Placed
    <2>2. PICK a \in Memory :
             /\ a = attempt_attach(n, b, largest)
             /\ a.orphan_pool = n.orphan_pool
             /\ a.disconnected_heads_mapping =
                    Put(Drop(n.disconnected_heads_mapping, A), hd, OwnTips(n, hd) \cup tips)
             /\ a.disconnected_heads_heights =
                    IF largest = NoBlock THEN Drop(n.disconnected_heads_heights, A)
                    ELSE Put(Drop(n.disconnected_heads_heights, A), hd, largest)
             /\ a.disconnected_tips_mapping =
                    Override(Mark(tips, hd), Drop(n.disconnected_tips_mapping, {hd}))
             /\ a.validations_mapping = n.validations_mapping
             /\ a.valid_tips = n.valid_tips /\ a.max_orphan_height = n.max_orphan_height
        <3>1. /\ b \in DOMAIN n.disconnected_tips_mapping /\ n.disconnected_tips_mapping[b] = hd
              /\ HeadsToAttach(n, b) # {} /\ largest \in Block \cup {NoBlock}
              /\ HeadsToAttach(n, b) = A /\ TipsToAttach(n, b) = tips
            BY <1>8, <1>9, <1>13, <2>1
        <3> HIDE DEF A, tips
        <3> QED
            BY <3>1, <1>AttachAt
    <2>3. HungTips(m, b, hd) = Own \cup tips
        BY <1>13 DEF HungTips
    <2>4. OwnTips(n, hd) = Own \cup ({b} \ {hd})
        BY <1>6, SMTT(90) DEF OwnTips, Placed, Heads, Tips
    <2>5. /\ Heads(a) = (Heads(m) \cup {hd}) \ A
          /\ Tips(a, hd) = Own \cup tips \cup ({b} \ {hd})
          /\ \A h \in Heads(a) \ {hd} : Tips(a, h) = Tips(m, h)
        <3>1. /\ Heads(a) = (Heads(n) \ A) \cup {hd}
              /\ Tips(a, hd) = OwnTips(n, hd) \cup tips
              /\ \A h \in Heads(a) \ {hd} : Tips(a, h) = Tips(n, h)
            <4> HIDE DEF A, tips
            <4>1. PICK f, S : /\ f = n.disconnected_heads_mapping /\ S = OwnTips(n, hd) \cup tips
                             /\ a.disconnected_heads_mapping = Put(Drop(f, A), hd, S)
                BY <2>2
            <4>2. /\ DOMAIN Put(Drop(f, A), hd, S) = (DOMAIN f \ A) \cup {hd} /\ Put(Drop(f, A), hd, S)[hd] = S
                  /\ \A x \in DOMAIN f \ (A \cup {hd}) : Put(Drop(f, A), hd, S)[x] = f[x]
                BY DEF Put, Override, Drop, Restrict
            <4> QED
                BY <4>1, <4>2 DEF Heads, Tips
        <3> HIDE DEF A, tips, Own
        <3> QED
            BY <1>4, <2>4, <3>1, SMTT(90) DEF Placed
    <2>6. /\ DOMAIN a.disconnected_heads_heights = Heads(a)
          /\ a.disconnected_heads_heights[hd] = IF largest = NoBlock THEN old ELSE largest
          /\ \A h \in Heads(a) \ {hd} : a.disconnected_heads_heights[h] = m.disconnected_heads_heights[h]
        <3>1. hd \in DOMAIN n.disconnected_heads_heights \ A
            BY <1>4 DEF Placed
        <3> HIDE DEF A
        <3>2. CASE largest = NoBlock
            <4>1. a.disconnected_heads_heights = Drop(n.disconnected_heads_heights, A)
                BY <2>2, <3>2
            <4>2. PICK f : f = n.disconnected_heads_heights
                OBVIOUS
            <4>3. DOMAIN Drop(f, A) = DOMAIN f \ A /\ \A x \in DOMAIN f \ A : Drop(f, A)[x] = f[x]
                BY DropAt
            <4> QED
                BY <2>5, <3>1, <3>2, <4>1, <4>2, <4>3 DEF Placed
        <3>3. CASE largest # NoBlock
            <4>1. a.disconnected_heads_heights = Put(Drop(n.disconnected_heads_heights, A), hd, largest)
                BY <2>2, <3>3
            <4>2. PICK f : f = n.disconnected_heads_heights
                OBVIOUS
            <4>3. /\ DOMAIN Put(Drop(f, A), hd, largest) = (DOMAIN f \ A) \cup {hd}
                  /\ Put(Drop(f, A), hd, largest)[hd] = largest
                  /\ \A x \in DOMAIN f \ (A \cup {hd}) : Put(Drop(f, A), hd, largest)[x] = f[x]
                BY DEF Put, Override, Drop, Restrict
            <4> QED
                BY <2>5, <3>1, <3>3, <4>1, <4>2, <4>3, SMTT(30) DEF Placed
        <3> QED
            BY <3>2, <3>3
    <2>7. /\ \A t \in tips : t \in DOMAIN a.disconnected_tips_mapping /\ a.disconnected_tips_mapping[t] = hd
          /\ \A t \in DOMAIN n.disconnected_tips_mapping \ (tips \cup {hd}) :
                 /\ t \in DOMAIN a.disconnected_tips_mapping
                 /\ a.disconnected_tips_mapping[t] = n.disconnected_tips_mapping[t]
        <3> HIDE DEF tips
        <3>1. PICK f : f = n.disconnected_tips_mapping
            OBVIOUS
        <3>2. /\ DOMAIN Override(Mark(tips, hd), Drop(f, {hd})) = tips \cup (DOMAIN f \ {hd})
              /\ \A x \in tips : Override(Mark(tips, hd), Drop(f, {hd}))[x] = hd
              /\ \A x \in DOMAIN f \ ({hd} \cup tips) : Override(Mark(tips, hd), Drop(f, {hd}))[x] = f[x]
            BY DEF Mark, Override, Drop, Restrict
        <3> QED
            BY <2>2, <3>1, <3>2
    <2>8. \A t \in Own \cup tips : t \in DOMAIN a.disconnected_tips_mapping /\ a.disconnected_tips_mapping[t] = hd
        <3>1. \A t \in Own : t \in DOMAIN n.disconnected_tips_mapping /\ n.disconnected_tips_mapping[t] = hd
            BY DEF Placed
        <3>2. \A t \in Own : t \notin tips \cup {hd}
            BY <1>6, <1>7
        <3> HIDE DEF Own, tips
        <3> QED
            BY <2>7, <3>1, <3>2
    <2>9. ASSUME NEW h \in Heads(a) \ {hd}, NEW t \in Tips(m, h)
          PROVE  t \in DOMAIN a.disconnected_tips_mapping /\ a.disconnected_tips_mapping[t] = h
        <3>1. h \in Heads(m) /\ h \notin A
            BY <2>5
        <3>2. t # p /\ t # b /\ home[t] = h /\ t \in m.orphan_pool
            BY <1>5, <3>1
        <3>3. t \notin tips
            BY <1>7, <3>1, <3>2
        <3>4. t # hd
            BY <1>3, <3>2 DEF Links, Homes
        <3>5. t \in DOMAIN n.disconnected_tips_mapping /\ n.disconnected_tips_mapping[t] = h
            BY <3>1, <3>2 DEF Placed
        <3> HIDE DEF tips
        <3> QED
            BY <2>7, <3>3, <3>4, <3>5
    <2>10. \A t \in Own \cup tips \cup {b} : Height[t] \in Nat
        BY <1>1, <1>6, <1>7, HeightAssumption
    <2>11. old \in Own \cup {b} /\ \A t \in Own \cup {b} : Height[t] <= Height[old]
        BY DEF Placed
    <2>12. \E t \in tips : Height[t] > Height[b]
        <3>1. PICK h \in A : TRUE
            BY <1>13
        <3>2. h \in Heads(m) /\ Parent[h] = b
            BY <3>1 DEF Following
        <3>3. PICK t \in Tips(m, h) : TRUE
            BY <3>2 DEF Links, TipsLinked
        <3>4. t \in tips /\ Height[h] <= Height[t] /\ h \in Block
            BY <1>1, <1>5, <3>1, <3>2, <3>3, SMTT(30) DEF Links, Homes
        <3>5. Height[h] = Height[b] + 1 /\ Height[b] \in Nat
            BY <3>2, <3>4, HeightAssumption DEF WellFormedHeights
        <3> QED
            BY <2>10, <3>4, <3>5, SMTT(30)
    <2> DEFINE higher == {t \in tips : Height[t] > Height[old]}
    <2>13. \/ higher = {} /\ largest = NoBlock
           \/ largest \in higher /\ \A u \in higher : Height[u] <= Height[largest]
        <3>1. LargestAttached(n, b) = IF higher = {} THEN {NoBlock}
                                      ELSE {t \in higher : \A u \in higher : Height[u] <= Height[t]}
            <4>1. n.disconnected_heads_heights[n.disconnected_tips_mapping[b]] = old
                BY <2>1
            <4> HIDE DEF old, tips
            <4> QED
                BY <1>9, <4>1 DEF LargestAttached
        <3> HIDE DEF higher
        <3> QED
            BY <3>1
    <2>14. a.disconnected_heads_heights[hd] \in Own \cup tips
        <3>1. CASE higher = {} /\ largest = NoBlock
            <4>1. old # b
                BY <2>12, <3>1
            <4> HIDE DEF old, tips, Own
            <4> QED
                BY <2>6, <2>11, <3>1, <4>1
        <3>2. CASE largest \in higher
            <4>1. largest # NoBlock /\ largest \in tips
                BY <1>1, <1>7, <3>2, GenesisAssumption
            <4> HIDE DEF old, tips, Own
            <4> QED
                BY <2>6, <4>1
        <3> QED
            BY <2>13, <3>1, <3>2
    <2>15. \A t \in Own \cup tips : Height[t] <= Height[a.disconnected_heads_heights[hd]]
        <3>1. CASE higher = {} /\ largest = NoBlock
            <4>1. \A t \in tips : Height[t] <= Height[old]
                BY <2>10, <2>11, <3>1, SMTT(30)
            <4> HIDE DEF old, tips, Own
            <4> QED
                BY <2>6, <2>11, <3>1, <4>1
        <3>2. CASE largest \in higher /\ \A u \in higher : Height[u] <= Height[largest]
            <4>1. largest # NoBlock /\ largest \in tips /\ Height[largest] > Height[old]
                BY <1>1, <1>7, <3>2, GenesisAssumption
            <4>2. \A t \in tips : Height[t] <= Height[old] \/ Height[t] <= Height[largest]
                BY <2>10, <2>11, <3>2, SMTT(30)
            <4> HIDE DEF old, tips, Own
            <4> QED
                BY <2>6, <2>10, <2>11, <4>1, <4>2, SMTT(30)
        <3> QED
            BY <2>13, <3>1, <3>2
    <2>16. Hooked(m, a, b, hd)
        <3> HIDE DEF Own, tips, old
        <3>1. a.orphan_pool = m.orphan_pool \cup {b}
            BY <2>2 DEF Placed
        <3> QED
            BY <2>3, <2>5, <2>6, <2>8, <2>9, <2>14, <2>15, <3>1 DEF Hooked
    <2>17. b \notin HungTips(m, b, hd)
        BY <1>6, <1>7, <2>3
    <2>18. Tips(a, hd) = HungTips(m, b, hd) \cup ({b} \ {hd})
        BY <2>3, <2>5
    <2> QED
        BY <2>2, <2>16, <2>17, <2>18
<1>14. ASSUME NEW largest \in LargestAttached(n, b)
       PROVE  Attaches(m, n, attempt_attach(n, b, largest), b, hd)
    <2>1. CASE A = {}
        BY <1>12, <2>1 DEF Attaches
    <2>2. CASE A # {}
        BY <1>13, <2>2 DEF Attaches
    <2> QED
        BY <2>1, <2>2
<1> QED
    BY <1>4, <1>8, <1>10, <1>11, <1>14

\* What hangs b on a chain reads the maps of the disconnected chains only.
LEMMA HookedSame ==
    ASSUME NEW m, NEW a, NEW n, NEW b, NEW hd, Hooked(m, a, b, hd),
           n.orphan_pool = a.orphan_pool, SameChains(a, n)
    PROVE  Hooked(m, n, b, hd) /\ Tips(n, hd) = Tips(a, hd)
<1>1. Heads(n) = Heads(a) /\ \A h : Tips(n, h) = Tips(a, h)
    BY DEF SameChains, Heads, Tips
<1> QED
    BY <1>1, SMTT(30) DEF Hooked, SameChains

-----------------------------------------------------------------------------
(***************************************************************************)
(* The branches of append_block that put b on a valid chain.               *)
(***************************************************************************)

\* What attempt_attach_valid unwraps and asserts is there, and the new tip is
\* above b if a chain is attached.
LEMMA AttachValidFine ==
    ASSUME WellFormedHeights, NEW m \in Memory, NEW D, NEW home, NEW inner, Links(m, D, home, inner),
           NEW b \in Block, b \notin m.orphan_pool \cup D,
           NEW n \in Memory, Ready(m, n, b), NEW head \in BestHeads(n, b)
    PROVE  /\ attempt_attach_validOk(n, b, head) /\ NewTip(n, b, head) \in Block
           /\ head = NoBlock => NewTip(n, b, head) = b
           /\ head # NoBlock => /\ head \in Heads(m) /\ Parent[head] = b
                                /\ NewTip(n, b, head) \in Tips(m, head)
                                /\ Height[NewTip(n, b, head)] > Height[b]
<1> DEFINE tip == NewTip(n, b, head)
<1>1. /\ Heads(n) = Heads(m) /\ \A h \in Heads(m) : Tips(n, h) = Tips(m, h)
      /\ n.disconnected_heads_heights = m.disconnected_heads_heights
      /\ DOMAIN m.disconnected_heads_heights = Heads(m) /\ Heads(m) \subseteq m.orphan_pool
      /\ m.orphan_pool \subseteq n.orphan_pool /\ m.orphan_pool \subseteq Block
      /\ n.orphan_pool \subseteq DOMAIN n.validations_mapping /\ DOMAIN n.inverse = n.orphan_pool
      /\ b \in n.valid_tips /\ NoBlock \notin Block
    BY GenesisAssumption DEF Ready, SameChains, Heads, Tips, Links, HeadsLinked, Memory
<1>2. \A h \in Heads(m) : /\ m.disconnected_heads_heights[h] \in Tips(m, h)
                          /\ \A t \in Tips(m, h) : t \in m.orphan_pool /\ home[t] = h
    BY DEF Links, TipsLinked
<1>3. head = NoBlock \/ (head \in Heads(m) /\ Parent[head] = b)
    BY <1>1 DEF BestHeads, HeadsFollowing
<1>4. \A t : PoolAncestors(n, t) \subseteq n.orphan_pool
    BY WalksStayInPool
<1>5. RaiseInverseOk(n, {tip})
    BY <1>1, <1>4 DEF RaiseInverseOk
<1>6. CASE head = NoBlock
    <2>1. tip = b
        BY <1>6 DEF NewTip
    <2>2. attempt_attach_validOk(n, b, head)
        BY <1>1, <1>2, <1>5, <1>6 DEF attempt_attach_validOk, Heads, Tips
    <2> QED
        BY <1>6, <2>1, <2>2
<1>7. CASE head # NoBlock
    <2>1. head \in Heads(m) /\ Parent[head] = b /\ head \in Block
        BY <1>1, <1>3, <1>7
    <2>2. tip = m.disconnected_heads_heights[head] /\ tip \in Tips(m, head) /\ tip \in m.orphan_pool /\ home[tip] = head
        BY <1>1, <1>2, <1>7, <2>1 DEF NewTip
    <2>3. Height[head] <= Height[tip]
        BY <2>1, <2>2 DEF Links, Homes
    <2>4. Height[head] = Height[b] + 1 /\ Height[b] \in Nat /\ Height[tip] \in Nat
        BY <1>1, <2>1, <2>2, HeightAssumption DEF WellFormedHeights
    <2>5. make_valid_tipsOk(n, head)
        BY <1>1, <1>2, <1>4, <2>1, SMTT(30) DEF make_valid_tipsOk, Heads, Tips
    <2> HIDE DEF tip
    <2>6. attempt_attach_validOk(n, b, head)
        BY <1>1, <1>2, <1>5, <1>7, <2>1, <2>2, <2>3, <2>4, <2>5, SMTT(90) DEF attempt_attach_validOk, Heads, Tips, tip
    <2> QED
        BY <1>1, <1>7, <2>1, <2>2, <2>3, <2>4, <2>6, SMTT(90) DEF tip
<1> QED
    BY <1>6, <1>7

\* Walking up from b or from an attached chain, one meets that chain, b, and valid
\* orphans.
LEMMA JoiningWalk ==
    ASSUME NEW m \in Memory, NEW D, NEW home, NEW inner, Links(m, D, home, inner),
           NEW b \in Block, b \notin m.orphan_pool \cup D, OnValid(m, D, b),
           NEW head, head \in Heads(m) => Parent[head] = b,
           NEW q \in Memory, q.orphan_pool \subseteq m.orphan_pool \cup {b},
           NEW t \in Block, t = b \/ (t \in m.orphan_pool /\ Joining(m, home, head, t))
    PROVE  \A x \in PoolAncestors(q, t) :
               x = b \/ (x \in m.orphan_pool /\ (Joining(m, home, head, x) \/ IsValid(m, x)))
<1> DEFINE K == {b} \cup {x \in m.orphan_pool : Joining(m, home, head, x) \/ IsValid(m, x)}
<1>1. ASSUME NEW x \in K, x \in Block, Parent[x] \in q.orphan_pool PROVE Parent[x] \in K
    <2>1. CASE x = b
        <3>1. Parent[b] \in m.orphan_pool
            BY <1>1, <2>1, ParentDiffers
        <3> QED
            BY <2>1, <3>1 DEF OnValid, Links
    <2>2. CASE x \in m.orphan_pool /\ IsValid(m, x)
        BY <1>1, <2>2 DEF Links, ValidLinked
    <2>3. CASE x \in m.orphan_pool /\ Joining(m, home, head, x)
        <3>1. CASE x = head
            BY <2>3, <3>1 DEF Joining
        <3>2. CASE x # head
            <4>1. Parent[x] \in m.orphan_pool /\ home[Parent[x]] = head
                BY <2>3, <3>2, HomeAbove, SMTT(90) DEF Joining, Links
            <4> QED
                BY <2>3, <4>1 DEF Joining
        <3> QED
            BY <3>1, <3>2
    <2> QED
        BY <1>1, <2>1, <2>2, <2>3
<1>2. t \in K
    OBVIOUS
<1> HIDE DEF K
<1>3. PoolAncestors(q, t) \subseteq K
    BY <1>1, <1>2, WalkStays
<1> QED
    BY <1>3 DEF K

\* recurse_inverse from a tip of the attached chain marks valid orphans only.
LEMMA JoinedMarked ==
    ASSUME NEW m \in Memory, NEW D, NEW home, NEW inner, NEW b \in Block, NEW n \in Memory, NEW head,
           Attaching(m, D, home, inner, b, n, head),
           NEW q \in Memory, Joined(m, n, q, home, b, head),
           NEW t \in Block, MayBeTip(m, b, head, t),
           NEW r \in Memory, OnlyMarks(q, r, MarkedValid(q, t))
    PROVE  Joined(m, n, r, home, b, head) /\ t \in DOMAIN r.validations_mapping
           /\ r.validations_mapping[t] = "ValidChainTip"
<1> DEFINE A == PoolAncestors(q, t)
<1>0. /\ Links(m, D, home, inner) /\ b \notin m.orphan_pool \cup D /\ OnValid(m, D, b) /\ Ready(m, n, b)
      /\ head \in Heads(m) => Parent[head] = b
    BY DEF Attaching
<1>1. t = b \/ (t \in m.orphan_pool /\ Joining(m, home, head, t) /\ t \in Tips(m, head))
    BY <1>0 DEF Links, TipsLinked, Joining, MayBeTip
<1>2. q.orphan_pool \subseteq m.orphan_pool \cup {b}
    BY <1>0 DEF Joined, Ready
<1>3. \A x \in A : x = b \/ (x \in m.orphan_pool /\ (Joining(m, home, head, x) \/ IsValid(m, x)))
    BY <1>0, <1>1, <1>2, JoiningWalk, SMTT(90)
<1> HIDE DEF A
<1>4. PICK f : f = q.validations_mapping
    OBVIOUS
<1>5. r.validations_mapping = Put(Override(Mark(A, "BelongsToValidChain"), f), t, "ValidChainTip")
    BY <1>4 DEF OnlyMarks, MarkedValid, A
<1>6. /\ DOMAIN r.validations_mapping = DOMAIN f \cup A \cup {t} /\ r.validations_mapping[t] = "ValidChainTip"
      /\ \A x \in A \ {t} : r.validations_mapping[x] = "BelongsToValidChain"
      /\ \A x \in DOMAIN f \ (A \cup {t}) : r.validations_mapping[x] = f[x]
    BY <1>5 DEF Put, Override, Mark
<1>7. /\ r.orphan_pool = q.orphan_pool /\ DOMAIN r.inverse = DOMAIN q.inverse
      /\ r.disconnected_heads_mapping = q.disconnected_heads_mapping
      /\ r.disconnected_heads_heights = q.disconnected_heads_heights
      /\ r.disconnected_tips_mapping = q.disconnected_tips_mapping
      /\ r.valid_tips = q.valid_tips
    BY DEF OnlyMarks, SameChains
<1>8. q.orphan_pool \subseteq DOMAIN f
    BY <1>4 DEF Joined
<1>9. \A x \in m.orphan_pool : Joining(m, home, head, x) =>
          IsValid(r, x) /\ (r.validations_mapping[x] = "ValidChainTip" => x \in Tips(m, head))
    <2> SUFFICES ASSUME NEW x \in m.orphan_pool, Joining(m, home, head, x)
                 PROVE  IsValid(r, x) /\ (r.validations_mapping[x] = "ValidChainTip" => x \in Tips(m, head))
        OBVIOUS
    <2>1. x \in q.orphan_pool
        BY <1>0 DEF Joined, Ready
    <2>2. CASE x = t
        BY <1>0, <1>1, <1>6, <2>2 DEF IsValid
    <2>3. CASE x # t /\ x \in A
        BY <1>6, <2>3 DEF IsValid
    <2>4. CASE x # t /\ x \notin A
        <3>1. r.validations_mapping[x] = q.validations_mapping[x]
            BY <1>4, <1>6, <1>8, <2>1, <2>4
        <3> QED
            BY <3>1 DEF IsValid, Joined
    <2> QED
        BY <2>2, <2>3, <2>4
<1>10. \A x \in r.orphan_pool : x = b \/ ~Joining(m, home, head, x) =>
           \/ r.validations_mapping[x] = n.validations_mapping[x]
           \/ (x = b \/ IsValid(m, x)) /\ r.validations_mapping[x] = "BelongsToValidChain"
    <2> SUFFICES ASSUME NEW x \in r.orphan_pool, x = b \/ ~Joining(m, home, head, x)
                 PROVE  \/ r.validations_mapping[x] = n.validations_mapping[x]
                        \/ (x = b \/ IsValid(m, x)) /\ r.validations_mapping[x] = "BelongsToValidChain"
        OBVIOUS
    <2>1. x \in q.orphan_pool /\ x \in n.orphan_pool
        BY <1>7 DEF Joined
    <2>2. CASE x = t
        <3>1. x = b
            BY <1>1, <2>2
        <3> QED
            BY <1>0, <1>6, <2>1, <2>2, <3>1 DEF Ready
    <2>3. CASE x # t /\ x \in A
        BY <1>3, <1>6, <2>3
    <2>4. CASE x # t /\ x \notin A
        <3>1. r.validations_mapping[x] = q.validations_mapping[x]
            BY <1>4, <1>6, <1>8, <2>1, <2>4
        <3> QED
            BY <2>1, <3>1 DEF Joined
    <2> QED
        BY <2>2, <2>3, <2>4
<1>11. r.orphan_pool \subseteq DOMAIN r.validations_mapping
    BY <1>6, <1>7, <1>8
<1>12. Heads(r) = Heads(q) /\ \A h : Tips(r, h) = Tips(q, h)
    BY <1>7 DEF Heads, Tips
<1>13. /\ r.orphan_pool = n.orphan_pool /\ DOMAIN r.inverse = DOMAIN n.inverse
       /\ Heads(r) = Heads(m) \ {head} /\ DOMAIN r.disconnected_heads_heights = Heads(m) \ {head}
       /\ r.valid_tips = n.valid_tips \cup (IF head \in Heads(m) THEN Tips(m, head) ELSE {})
    BY <1>7, <1>12 DEF Joined
<1>14. \A h \in Heads(r) :
          /\ Tips(r, h) = Tips(m, h)
          /\ r.disconnected_heads_heights[h] = m.disconnected_heads_heights[h]
          /\ \A x \in Tips(m, h) : /\ x \in DOMAIN r.disconnected_tips_mapping
                                   /\ r.disconnected_tips_mapping[x] = h
    <2> SUFFICES ASSUME NEW h \in Heads(r)
                 PROVE  /\ Tips(r, h) = Tips(m, h)
                        /\ r.disconnected_heads_heights[h] = m.disconnected_heads_heights[h]
                        /\ \A x \in Tips(m, h) : /\ x \in DOMAIN r.disconnected_tips_mapping
                                                 /\ r.disconnected_tips_mapping[x] = h
        OBVIOUS
    <2>1. h \in Heads(q)
        BY <1>12
    <2>2. /\ Tips(q, h) = Tips(m, h)
          /\ q.disconnected_heads_heights[h] = m.disconnected_heads_heights[h]
          /\ \A x \in Tips(m, h) : /\ x \in DOMAIN q.disconnected_tips_mapping
                                   /\ q.disconnected_tips_mapping[x] = h
        BY <2>1 DEF Joined
    <2> QED
        BY <1>7, <1>12, <2>2
<1>15. Joined(m, n, r, home, b, head)
    BY <1>9, <1>10, <1>11, <1>13, <1>14 DEF Joined
<1> QED
    BY <1>6, <1>15

\* recurse_inverse without marks.
LEMMA JoinedSame ==
    ASSUME NEW m, NEW n, NEW home, NEW b, NEW head, NEW q \in Memory, Joined(m, n, q, home, b, head),
           NEW r \in Memory, OnlyMarks(q, r, q.validations_mapping)
    PROVE  Joined(m, n, r, home, b, head)
<1>1. /\ r.orphan_pool = q.orphan_pool /\ DOMAIN r.inverse = DOMAIN q.inverse
      /\ r.disconnected_heads_mapping = q.disconnected_heads_mapping
      /\ r.disconnected_heads_heights = q.disconnected_heads_heights
      /\ r.disconnected_tips_mapping = q.disconnected_tips_mapping
      /\ r.valid_tips = q.valid_tips /\ r.validations_mapping = q.validations_mapping
    BY DEF OnlyMarks, SameChains
<1>2. Heads(r) = Heads(q) /\ (\A h : Tips(r, h) = Tips(q, h)) /\ \A x : IsValid(r, x) <=> IsValid(q, x)
    BY <1>1 DEF Heads, Tips, IsValid
<1> QED
    BY <1>1, <1>2, SMTT(90) DEF Joined

\* attempt_attach_valid.
LEMMA AttachValidJoins ==
    ASSUME WellFormedHeights, NEW m \in Memory, NEW D, NEW home, NEW inner, Links(m, D, home, inner),
           NEW b \in Block, b \notin m.orphan_pool \cup D, OnValid(m, D, b), NEW n \in Memory, Ready(m, n, b),
           NEW head \in BestHeads(n, b)
    PROVE  LET r == attempt_attach_valid(n, b, head)
           IN /\ r \in Memory /\ Joined(m, n, r, home, b, head)
              /\ r.validations_mapping[NewTip(n, b, head)] = "ValidChainTip"
              /\ r.max_orphan_height = n.max_orphan_height
\* Without a head to attach there is nothing to do.
<1>NothingJoins. ASSUME head \notin Heads(m) PROVE Joined(m, n, n, home, b, head)
    <2> USE <1>NothingJoins
    <2>1. Heads(n) = Heads(m) /\ \A h : Tips(n, h) = Tips(m, h)
        BY DEF Ready, SameChains, Heads, Tips
    <2>2. Heads(m) \ {head} = Heads(m)
        OBVIOUS
    <2> QED
        BY <2>1, <2>2, SMTT(90) DEF Joined, Joining, Ready, SameChains, Links, HeadsLinked, TipsLinked
\* make_valid_tips marks the whole chain of the head.
<1>TipsJoin. ASSUME head \in Heads(m), Parent[head] = b, NEW q \in Memory, MakesValid(n, q, head)
             PROVE  Joined(m, n, q, home, b, head)
    <2> USE <1>TipsJoin
    <2> DEFINE tips == Tips(m, head)
               W == TipWalks(n, head)
    <2>1. /\ Heads(n) = Heads(m) /\ Tips(n, head) = tips /\ m.orphan_pool \subseteq n.orphan_pool
          /\ n.orphan_pool \subseteq m.orphan_pool \cup {b} /\ m.orphan_pool \subseteq Block
          /\ n.orphan_pool \subseteq DOMAIN n.validations_mapping
          /\ DOMAIN m.disconnected_heads_heights = Heads(m)
        BY DEF Ready, SameChains, Heads, Tips, Memory, Links, HeadsLinked
    <2>2. \A t \in tips : t \in m.orphan_pool /\ home[t] = head /\ t # b
        BY DEF Links, TipsLinked
    <2>3. \A x \in W : x = b \/ (x \in m.orphan_pool /\ (Joining(m, home, head, x) \/ IsValid(m, x)))
        <3> SUFFICES ASSUME NEW t \in tips, NEW x \in WalkUntilValid(n, t)
                     PROVE  x = b \/ (x \in m.orphan_pool /\ (Joining(m, home, head, x) \/ IsValid(m, x)))
            BY <2>1 DEF TipWalks
        <3>1. x \in PoolAncestors(n, t)
            BY DEF WalkUntilValid, PoolAncestors
        <3>2. t \in Block /\ t \in m.orphan_pool /\ Joining(m, home, head, t)
            BY <2>1, <2>2 DEF Joining
        <3> QED
            BY <2>1, <3>1, <3>2, JoiningWalk
    <2>4. \A x \in m.orphan_pool : home[x] = head => ~IsValid(m, x) /\ x \in tips \cup W
        <3>1. \A x \in m.orphan_pool : home[x] = head => ~IsValid(m, x)
            BY OpenHead
        <3>2. \A x \in tips \cup W :
                  x \in m.orphan_pool /\ home[x] = head /\ x # head /\ ~IsValid(m, Parent[x]) => Parent[x] \in tips \cup W
            <4> SUFFICES ASSUME NEW x \in tips \cup W, x \in m.orphan_pool, home[x] = head, x # head, ~IsValid(m, Parent[x])
                         PROVE  Parent[x] \in W
                OBVIOUS
            <4>1. PICK t \in tips : x \in {t} \cup WalkUntilValid(n, t)
                BY <2>1, SMTT(30) DEF TipWalks
            <4>2. Parent[x] \in m.orphan_pool
                BY HomeAbove DEF Links
            <4>3. n.validations_mapping[Parent[x]] # "BelongsToValidChain"
                BY <4>2 DEF Ready, IsValid
            <4>4. Parent[x] \in WalkUntilValid(n, t)
                BY <2>1, <2>2, <4>1, <4>2, <4>3, UntilValidGoesOn
            <4> QED
                BY <2>1, <4>4 DEF TipWalks
        <3>3. \A x \in m.orphan_pool : home[x] = head /\ ~IsValid(m, x) => x \in tips \cup W
            <4> DEFINE T == tips \cup W
            <4>1. Tips(m, head) \subseteq T
                OBVIOUS
            <4>2. \A x \in T : x \in m.orphan_pool /\ home[x] = head /\ x # head /\ ~IsValid(m, Parent[x]) => Parent[x] \in T
                BY <3>2
            <4> HIDE DEF T
            <4>3. \A x \in m.orphan_pool : home[x] = head /\ ~IsValid(m, x) => x \in T
                BY <4>1, <4>2, Covered
            <4> QED
                BY <4>3 DEF T
        <3> QED
            BY <3>1, <3>3
    <2> HIDE DEF tips, W
    <2>5. PICK f, hm, hh, tm : /\ f = n.validations_mapping /\ hm = m.disconnected_heads_mapping
                               /\ hh = m.disconnected_heads_heights /\ tm = m.disconnected_tips_mapping
        OBVIOUS
    <2>6. /\ q.validations_mapping = Override(Mark(W, "BelongsToValidChain"), Override(Mark(tips, "ValidChainTip"), f))
          /\ q.disconnected_heads_mapping = Drop(hm, {head}) /\ q.disconnected_heads_heights = Drop(hh, {head})
          /\ q.disconnected_tips_mapping = Drop(tm, tips)
          /\ q.orphan_pool = n.orphan_pool /\ q.inverse = n.inverse /\ q.valid_tips = n.valid_tips \cup tips
        BY <2>1, <2>5 DEF MakesValid, Ready, SameChains, W, tips
    <2>7. /\ DOMAIN q.validations_mapping = DOMAIN f \cup W \cup tips
          /\ \A x \in W : q.validations_mapping[x] = "BelongsToValidChain"
          /\ \A x \in tips \ W : q.validations_mapping[x] = "ValidChainTip"
          /\ \A x \in DOMAIN f \ (W \cup tips) : q.validations_mapping[x] = f[x]
        BY <2>6 DEF Override, Mark
    <2>8. /\ Heads(q) = Heads(m) \ {head} /\ \A h \in Heads(m) \ {head} : Tips(q, h) = Tips(m, h)
        BY <2>5, <2>6 DEF Heads, Tips, Drop, Restrict
    <2>9. /\ DOMAIN q.disconnected_heads_heights = Heads(m) \ {head}
          /\ \A h \in Heads(m) \ {head} : q.disconnected_heads_heights[h] = m.disconnected_heads_heights[h]
        BY <2>1, <2>5, <2>6 DEF Drop, Restrict
    <2>10. /\ DOMAIN q.disconnected_tips_mapping = DOMAIN m.disconnected_tips_mapping \ tips
           /\ \A t \in DOMAIN m.disconnected_tips_mapping \ tips :
                 q.disconnected_tips_mapping[t] = m.disconnected_tips_mapping[t]
        BY <2>5, <2>6 DEF Drop, Restrict
    <2>11. \A h \in Heads(m) \ {head} : \A t \in Tips(m, h) :
               t \in DOMAIN q.disconnected_tips_mapping /\ q.disconnected_tips_mapping[t] = h
        <3>1. \A h \in Heads(m) \ {head} : \A t \in Tips(m, h) :
                  t \in DOMAIN m.disconnected_tips_mapping /\ m.disconnected_tips_mapping[t] = h /\ home[t] = h
            BY DEF Links, TipsLinked
        <3> QED
            BY <2>2, <2>10, <3>1
    <2>12. \A x \in m.orphan_pool : Joining(m, home, head, x) =>
               IsValid(q, x) /\ (q.validations_mapping[x] = "ValidChainTip" => x \in tips)
        <3> SUFFICES ASSUME NEW x \in m.orphan_pool, home[x] = head
                     PROVE  IsValid(q, x) /\ (q.validations_mapping[x] = "ValidChainTip" => x \in tips)
            BY DEF Joining
        <3>1. x \in W \/ x \in tips \ W
            BY <2>4
        <3> QED
            BY <2>7, <3>1 DEF IsValid
    <2>13. \A x \in q.orphan_pool : x = b \/ ~Joining(m, home, head, x) =>
               \/ q.validations_mapping[x] = n.validations_mapping[x]
               \/ (x = b \/ IsValid(m, x)) /\ q.validations_mapping[x] = "BelongsToValidChain"
        <3> SUFFICES ASSUME NEW x \in q.orphan_pool, x = b \/ ~Joining(m, home, head, x)
                     PROVE  \/ q.validations_mapping[x] = n.validations_mapping[x]
                            \/ (x = b \/ IsValid(m, x)) /\ q.validations_mapping[x] = "BelongsToValidChain"
            OBVIOUS
        <3>1. x \notin tips
            BY <2>2 DEF Joining
        <3>2. CASE x \in W
            BY <2>3, <2>7, <3>2
        <3>3. CASE x \notin W
            BY <2>1, <2>5, <2>6, <2>7, <3>1, <3>3
        <3> QED
            BY <3>2, <3>3
    <2>14. q.orphan_pool \subseteq DOMAIN q.validations_mapping
        BY <2>1, <2>5, <2>6, <2>7
    <2> QED
        BY <2>6, <2>8, <2>9, <2>11, <2>12, <2>13, <2>14 DEF Joined, tips
<1> DEFINE tip == NewTip(n, b, head)
<1>1. /\ attempt_attach_validOk(n, b, head) /\ tip \in Block
      /\ head = NoBlock => tip = b
      /\ head # NoBlock => head \in Heads(m) /\ Parent[head] = b /\ tip \in Tips(m, head)
    BY AttachValidFine, SMTT(90)
<1>2. NoBlock \notin Heads(m) /\ Heads(n) = Heads(m)
    <2>1. Heads(m) \subseteq Block
        BY MapValue, SMTT(30) DEF Memory, Heads
    <2> QED
        BY <2>1, GenesisAssumption DEF Ready, SameChains, Heads
<1>3. PICK q \in Memory :
          /\ q = IF head = NoBlock THEN n ELSE make_valid_tips(n, head)
          /\ Joined(m, n, q, home, b, head) /\ q.max_orphan_height = n.max_orphan_height
    <2>1. CASE head = NoBlock
        <3>1. Joined(m, n, n, home, b, head)
            BY <1>2, <2>1, <1>NothingJoins
        <3> QED
            BY <2>1, <3>1
    <2>2. CASE head # NoBlock
        <3>1. make_valid_tips(n, head) \in Memory /\ MakesValid(n, make_valid_tips(n, head), head)
            BY <1>1, <1>2, <2>2, MakeValidTipsType, MakeValidTipsAt DEF Heads
        <3>2. PICK q \in Memory : q = make_valid_tips(n, head) /\ MakesValid(n, q, head)
            BY <3>1
        <3>3. Joined(m, n, q, home, b, head)
            BY <1>1, <2>2, <3>2, <1>TipsJoin
        <3> QED
            BY <2>2, <3>2, <3>3 DEF MakesValid
    <2> QED
        BY <2>1, <2>2
<1> HIDE DEF tip
<1>4. PICK r \in Memory : r = recurse_inverse(q, tip, 0, TRUE) /\ OnlyMarks(q, r, MarkedValid(q, tip))
    <2>1. 0 \in Nat
        OBVIOUS
    <2>2. recurse_inverse(q, tip, 0, TRUE) \in Memory
        BY <1>1, <2>1, RecurseInverseType
    <2>3. OnlyMarks(q, recurse_inverse(q, tip, 0, TRUE), MarkedValid(q, tip))
        BY <1>1, <2>1, RecurseInverseAt
    <2> QED
        BY <2>2, <2>3
<1>5. r = attempt_attach_valid(n, b, head)
    BY <1>3, <1>4 DEF attempt_attach_valid, tip
<1>6. Joined(m, n, r, home, b, head) /\ r.validations_mapping[tip] = "ValidChainTip"
    <2>1. head \in Heads(m) => Parent[head] = b
        BY <1>1, <1>2
    <2>2. tip = b \/ (head \in Heads(m) /\ tip \in Tips(m, head))
        BY <1>1
    <2>3. PICK t \in Block : t = tip
        BY <1>1
    <2>4. MayBeTip(m, b, head, t) /\ OnlyMarks(q, r, MarkedValid(q, t)) /\ Joined(m, n, q, home, b, head)
        BY <1>3, <1>4, <2>2, <2>3 DEF MayBeTip
    <2>5. Attaching(m, D, home, inner, b, n, head)
        BY <2>1 DEF Attaching
    <2>6. Joined(m, n, r, home, b, head) /\ r.validations_mapping[t] = "ValidChainTip"
        BY <2>4, <2>5, JoinedMarked, SMTT(90)
    <2> QED
        BY <2>3, <2>6
<1>7. r.max_orphan_height = n.max_orphan_height
    BY <1>3, <1>4 DEF OnlyMarks
<1> QED
    BY <1>5, <1>6, <1>7 DEF tip

\* The block enters the pool after the chain was attached.
LEMMA JoinedWritten ==
    ASSUME NEW m \in Memory, NEW D, NEW home, NEW b \in Block, b \notin m.orphan_pool, NEW n \in Memory, Ready(m, n, b),
           n.orphan_pool = m.orphan_pool, NEW head, NEW q \in Memory, Joined(m, n, q, home, b, head),
           NEW n2 \in Memory, WritesOrphan(n, n2, b, "ValidChainTip"),
           NEW type \in {"ValidChainTip", "BelongsToValidChain"},
           NEW r \in Memory, WritesOrphan(q, r, b, type)
    PROVE  Ready(m, n2, b) /\ Joined(m, n2, r, home, b, head)
<1>1. PICK f, g : f = n.validations_mapping /\ g = q.validations_mapping
    OBVIOUS
<1>2. /\ DOMAIN n2.validations_mapping = DOMAIN f \cup {b} /\ n2.validations_mapping[b] = "ValidChainTip"
      /\ \A x \in DOMAIN f \ {b} : n2.validations_mapping[x] = n.validations_mapping[x]
    BY <1>1, SMTT(90) DEF WritesOrphan, Put, Override
<1>3. /\ DOMAIN r.validations_mapping = DOMAIN g \cup {b} /\ r.validations_mapping[b] = type
      /\ \A x \in DOMAIN g \ {b} : r.validations_mapping[x] = q.validations_mapping[x]
    BY <1>1 DEF WritesOrphan, Put, Override
<1>4. m.orphan_pool \subseteq DOMAIN f \ {b} /\ m.orphan_pool \subseteq DOMAIN g \ {b} /\ q.orphan_pool = m.orphan_pool
    BY <1>1 DEF Ready, Joined
<1>5. /\ n2.orphan_pool = m.orphan_pool \cup {b} /\ SameChains(n, n2) /\ DOMAIN n2.inverse = DOMAIN n.inverse \cup {b}
      /\ n2.valid_tips = n.valid_tips \cup {b}
    BY DEF WritesOrphan
<1>6. /\ r.orphan_pool = m.orphan_pool \cup {b} /\ SameChains(q, r) /\ DOMAIN r.inverse = DOMAIN q.inverse \cup {b}
      /\ r.valid_tips = q.valid_tips \cup {b} \/ r.valid_tips = q.valid_tips
    BY <1>4 DEF WritesOrphan
<1>7. Ready(m, n2, b)
    <2>1. SameChains(m, n2)
        BY <1>5 DEF Ready, SameChains
    <2>2. DOMAIN n2.inverse = n2.orphan_pool /\ n2.valid_tips = m.valid_tips \cup {b}
        BY <1>5 DEF Ready
    <2>3. n2.orphan_pool \subseteq DOMAIN n2.validations_mapping
        BY <1>2, <1>4, <1>5
    <2>4. \A x \in m.orphan_pool : n2.validations_mapping[x] = n.validations_mapping[x]
        BY <1>2, <1>4
    <2> QED
        BY <1>2, <1>5, <2>1, <2>2, <2>3, <2>4 DEF Ready
<1>8. Joined(m, n2, r, home, b, head)
    <2>1. Heads(r) = Heads(q) /\ \A h : Tips(r, h) = Tips(q, h)
        BY <1>6 DEF SameChains, Heads, Tips
    <2>2. r.valid_tips = n2.valid_tips \cup (IF head \in Heads(m) THEN Tips(m, head) ELSE {})
        BY <1>5, <1>6, ZenonT(60) DEF Joined, Ready
    <2>3. r.orphan_pool \subseteq DOMAIN r.validations_mapping /\ r.orphan_pool = n2.orphan_pool
          /\ DOMAIN r.inverse = DOMAIN n2.inverse
        BY <1>3, <1>4, <1>5, <1>6 DEF Joined
    <2>4. \A x \in m.orphan_pool : Joining(m, home, head, x) =>
              IsValid(r, x) /\ (r.validations_mapping[x] = "ValidChainTip" => x \in Tips(m, head))
        BY <1>3, <1>4 DEF Joined, IsValid
    <2>5. \A x \in r.orphan_pool : x = b \/ ~Joining(m, home, head, x) =>
              \/ r.validations_mapping[x] = n2.validations_mapping[x]
              \/ (x = b \/ IsValid(m, x)) /\ r.validations_mapping[x] = "BelongsToValidChain"
        <3> SUFFICES ASSUME NEW x \in r.orphan_pool, x = b \/ ~Joining(m, home, head, x)
                     PROVE  \/ r.validations_mapping[x] = n2.validations_mapping[x]
                            \/ (x = b \/ IsValid(m, x)) /\ r.validations_mapping[x] = "BelongsToValidChain"
            OBVIOUS
        <3>1. CASE x = b
            BY <1>2, <1>3, <3>1
        <3>2. CASE x # b
            <4>1. x \in m.orphan_pool /\ x \in q.orphan_pool /\ r.validations_mapping[x] = q.validations_mapping[x]
                  /\ n2.validations_mapping[x] = n.validations_mapping[x]
                BY <1>2, <1>3, <1>4, <1>6, <3>2
            <4> QED
                BY <3>2, <4>1 DEF Joined
        <3> QED
            BY <3>1, <3>2
    <2> QED
        BY <1>6, <2>1, <2>2, <2>3, <2>4, <2>5, SMTT(90) DEF Joined, SameChains
<1> QED
    BY <1>7, <1>8

\* The result, whatever else leaves valid_tips that is not marked as a tip.
LEMMA JoinedGrows ==
    ASSUME WellFormedHeights, NEW m \in Memory, NEW D, NEW home, NEW inner, Links(m, D, home, inner),
           NEW b \in Block, b \notin m.orphan_pool, NEW n \in Memory, Ready(m, n, b), b \in n.orphan_pool,
           NEW head, NEW q \in Memory, Joined(m, n, q, home, b, head),
           NEW r \in Memory, r.orphan_pool = q.orphan_pool, SameChains(q, r),
           r.validations_mapping = q.validations_mapping, r.valid_tips \subseteq q.valid_tips,
           \A x \in q.valid_tips : q.validations_mapping[x] = "ValidChainTip" => x \in r.valid_tips
    PROVE  GrowsValid(m, r, home, b, head)
<1>1. /\ Heads(r) = Heads(q) /\ \A h : Tips(r, h) = Tips(q, h)
    BY DEF SameChains, Heads, Tips
<1>2. q.orphan_pool = m.orphan_pool \cup {b}
    BY DEF Joined, Ready
<1>3. IsValid(q, b)
    BY <1>2 DEF Joined, Ready, IsValid
<1>4. \A x \in m.orphan_pool :
          \/ Joining(m, home, head, x) /\ IsValid(q, x)
          \/ q.validations_mapping[x] = m.validations_mapping[x]
          \/ IsValid(m, x) /\ q.validations_mapping[x] = "BelongsToValidChain"
    BY <1>2, SMTT(90) DEF Joined, Ready
<1>5. ValidTipsLinked(r)
    <2>1. ASSUME NEW t \in r.valid_tips PROVE t \in r.orphan_pool /\ IsValid(r, t)
        <3>1. t \in m.valid_tips \/ t = b \/ (head \in Heads(m) /\ t \in Tips(m, head))
            BY <2>1 DEF Joined, Ready
        <3>2. CASE t \in m.valid_tips
            <4>1. t \in m.orphan_pool /\ IsValid(m, t)
                BY <3>2 DEF Links, ValidTipsLinked
            <4> QED
                BY <1>2, <1>4, <4>1 DEF IsValid
        <3>3. CASE t = b
            BY <1>2, <1>3, <3>3 DEF IsValid
        <3>4. CASE head \in Heads(m) /\ t \in Tips(m, head)
            <4>1. t \in m.orphan_pool /\ Joining(m, home, head, t)
                BY <3>4 DEF Links, TipsLinked, Joining
            <4> QED
                BY <1>2, <4>1 DEF Joined, IsValid
        <3> QED
            BY <3>1, <3>2, <3>3, <3>4
    <2>2. ASSUME NEW x \in r.orphan_pool, r.validations_mapping[x] = "ValidChainTip" PROVE x \in r.valid_tips
        <3>1. x \in q.valid_tips
            <4>1. CASE x = b
                BY <4>1 DEF Joined, Ready
            <4>2. CASE x # b /\ Joining(m, home, head, x)
                BY <1>2, <2>2, <4>2, SMTT(90) DEF Joined, Joining
            <4>3. CASE x # b /\ ~Joining(m, home, head, x)
                <5>1. x \in m.orphan_pool /\ m.validations_mapping[x] = "ValidChainTip"
                    BY <1>2, <1>4, <2>2, <4>3
                <5>2. x \in m.valid_tips
                    BY <5>1 DEF Links, ValidTipsLinked
                <5> QED
                    BY <5>2 DEF Joined, Ready
            <4> QED
                BY <4>1, <4>2, <4>3
        <3> QED
            BY <2>2, <3>1
    <2> QED
        BY <2>1, <2>2 DEF ValidTipsLinked
<1>6. IsValid(r, b) /\ \A x \in m.orphan_pool : Joining(m, home, head, x) => IsValid(r, x)
    BY <1>3 DEF Joined, IsValid
<1>7. DOMAIN m.disconnected_heads_heights = Heads(m)
    BY DEF Links, HeadsLinked
<1>8. \A x \in m.orphan_pool : \/ head \in Heads(m) /\ home[x] = head
                               \/ r.validations_mapping[x] = m.validations_mapping[x]
                               \/ IsValid(m, x) /\ IsValid(r, x)
    BY <1>4 DEF Joining, IsValid
<1> QED
    BY <1>1, <1>2, <1>5, <1>6, <1>7, <1>8, SMTT(90) DEF GrowsValid, Joined, Joining, SameChains

\* Nothing follows the new tip.
LEMMA TipIsLeaf ==
    ASSUME WellFormedHeights, NEW m \in Memory, NEW D, NEW home, NEW inner, Links(m, D, home, inner),
           NEW b \in Block, b \notin m.orphan_pool \cup D, OnValid(m, D, b), NEW n \in Memory, Ready(m, n, b),
           NEW head \in BestHeads(n, b)
    PROVE  \A c \in m.orphan_pool \cup {b} : Parent[c] # NewTip(n, b, head)
<1>1. CASE head = NoBlock
    <2>1. NewTip(n, b, head) = b
        BY <1>1, AttachValidFine, SMTT(30)
    <2>2. \A c \in m.orphan_pool : Parent[c] = b => c \in Heads(m)
        BY DEF Links, HeadsLinked
    <2>3. \A c \in Heads(m) : Parent[c] # b
        <3>1. NoBlock \notin Heads(m)
            <4>1. Heads(m) \subseteq Block
                BY MapValue, SMTT(30) DEF Memory, Heads
            <4> QED
                BY <4>1, GenesisAssumption
        <3>2. DOMAIN n.disconnected_heads_heights = Heads(m)
            BY DEF Ready, SameChains, Links, HeadsLinked
        <3>3. HeadsFollowing(n, b) = {}
            BY <1>1, <3>1, <3>2 DEF BestHeads, HeadsFollowing
        <3> QED
            BY <3>2, <3>3 DEF HeadsFollowing
    <2> QED
        BY <2>1, <2>2, <2>3, ParentDiffers
<1>2. CASE head # NoBlock
    <2>1. PICK t \in Tips(m, head) : t = NewTip(n, b, head) /\ head \in Heads(m) /\ Parent[head] = b
        BY <1>2, AttachValidFine, SMTT(30)
    <2>2. t \in m.orphan_pool /\ home[t] = head /\ m.validations_mapping[t] # "BelongsToDisconnected"
        BY <2>1 DEF Links, TipsLinked
    <2>3. ~IsValid(m, t)
        BY <2>1, <2>2, OpenHead
    <2>4. m.validations_mapping[t] = "DisconnectedTip"
        <3>1. m.validations_mapping[t] \in OrphanType
            BY <2>2, MapValue, SMTT(30) DEF Memory, Links, HeadsLinked
        <3> QED
            BY <2>2, <2>3, <3>1 DEF OrphanType, IsValid
    <2>5. \A c \in m.orphan_pool : Parent[c] # t
        BY <2>2, <2>3, <2>4 DEF Links, DisconnectedLinked
    <2>6. Parent[b] # t
        BY <2>2, <2>3 DEF OnValid, Links
    <2> QED
        BY <2>1, <2>5, <2>6
<1> QED
    BY <1>1, <1>2

\* recurse_inverse marks a valid chain exactly when nothing was attached.
LEMMA RecurseWhen ==
    ASSUME NEW m, NEW b, NEW start
    PROVE  /\ start = 0 => recurse_inverse(m, b, start, start = 0) = recurse_inverse(m, b, start, TRUE)
           /\ start # 0 => recurse_inverse(m, b, start, start = 0) = recurse_inverse(m, b, start, FALSE)
BY DEF recurse_inverse

-----------------------------------------------------------------------------
(***************************************************************************)
(* Writing a block, and taking one back.                                   *)
(***************************************************************************)

\* What write_block does to the maps in memory.
LEMMA AfterWriteIs ==
    ASSUME NEW m \in Memory, NEW b
    PROVE  Writes(m, MemoryAfterWrite(m, b), b, WrittenTips(m, b), WrittenParents(m, b))
<1>1. PICK n, tips, parents, f : /\ n = MemoryAfterWrite(m, b) /\ tips = WrittenTips(m, b)
                                 /\ parents = WrittenParents(m, b) /\ f = m.validations_mapping
    OBVIOUS
<1>2. /\ n.orphan_pool = m.orphan_pool \ {b}
      /\ n.disconnected_heads_mapping = Drop(m.disconnected_heads_mapping, {b})
      /\ n.disconnected_heads_heights = Drop(m.disconnected_heads_heights, {b})
      /\ n.disconnected_tips_mapping = Drop(m.disconnected_tips_mapping, {b} \cup tips)
      /\ n.validations_mapping = Override(Mark(parents, "BelongsToValidChain"),
                                          Override(Mark(tips, "ValidChainTip"), f))
      /\ n.valid_tips = (m.valid_tips \ {b}) \cup tips
      /\ n.max_orphan_height = MaxAfterWrite(m, b)
    BY <1>1, AfterWriteAt, ZenonT(60) DEF WrittenParents
<1>3. /\ DOMAIN n.validations_mapping = DOMAIN f \cup tips \cup parents
      /\ \A x \in parents : n.validations_mapping[x] = "BelongsToValidChain"
      /\ \A x \in tips \ parents : n.validations_mapping[x] = "ValidChainTip"
      /\ \A x \in DOMAIN f \ (tips \cup parents) : n.validations_mapping[x] = f[x]
    BY <1>2 DEF Override, Mark
<1> QED
    BY <1>1, <1>2, <1>3 DEF Writes

\* Writing an orphan finds every entry it unwraps, and what hung on the orphan is
\* a valid chain afterwards.
LEMMA WriteLeaves ==
    ASSUME WellFormedHeights, NEW m \in Memory, NEW D, NEW home, NEW inner, Links(m, D, home, inner),
           NEW b \in m.orphan_pool, Parent[b] \notin m.orphan_pool, NEW n \in Memory, n = MemoryAfterWrite(m, b)
    PROVE  Leaves(m, n, home, b)
\* The walks of write_block from the tips of b stay among the orphans of b's chain.
<1>WrittenWalk. /\ b \notin Heads(m) => WrittenTips(m, b) = {} /\ WrittenParents(m, b) = {}
                /\ \A x \in WrittenTips(m, b) \cup WrittenParents(m, b) :
                      x \in m.orphan_pool \ {b} /\ b \in Heads(m) /\ home[x] = b
                /\ b \in Heads(m) => Tips(m, b) \subseteq {b} \cup WrittenTips(m, b)
    <2>1. PICK out \in Memory : out = RemoveOrphan(m, b) /\ out.orphan_pool = m.orphan_pool \ {b}
        <3>1. b \in Block /\ RemoveOrphan(m, b) \in Memory
                  /\ RemoveOrphan(m, b).orphan_pool = m.orphan_pool \ {b}
            BY AfterWriteAt DEF Memory
        <3> QED
            BY <3>1
    <2>2. b \notin Heads(m) => WrittenTips(m, b) = {} /\ WrittenParents(m, b) = {}
        BY DEF WrittenTips, WrittenParents, Heads
    <2>3. b \in Heads(m) => Tips(m, b) \subseteq {b} \cup WrittenTips(m, b)
        BY DEF WrittenTips, Heads, Tips
    <2>4. \A t \in WrittenTips(m, b) : t \in m.orphan_pool \ {b} /\ b \in Heads(m) /\ home[t] = b
        BY DEF WrittenTips, Heads, Tips, Links, TipsLinked
    <2>5. ASSUME NEW t \in WrittenTips(m, b), NEW x \in PoolAncestors(out, t)
          PROVE  x \in m.orphan_pool \ {b} /\ b \in Heads(m) /\ home[x] = b
        <3> DEFINE S == {y \in m.orphan_pool \ {b} : home[y] = b}
        <3>1. t \in S /\ t \in Block /\ b \in Heads(m) /\ m.orphan_pool \subseteq Block
            BY <2>4, <2>5 DEF Memory
        <3>2. \A y \in S : y \in Block /\ Parent[y] \in out.orphan_pool => Parent[y] \in S
            BY <2>1, <3>1, HomeAbove, SMTT(90) DEF Links
        <3> HIDE DEF S
        <3>3. PoolAncestors(out, t) \subseteq S
            BY <3>1, <3>2, WalkStays
        <3> QED
            BY <2>5, <3>1, <3>3 DEF S
    <2>6. \A x \in WrittenParents(m, b) : x \in m.orphan_pool \ {b} /\ b \in Heads(m) /\ home[x] = b
        BY <2>1, <2>5 DEF WrittenParents
    <2> QED
        BY <2>2, <2>3, <2>4, <2>6
<1>1. PICK tips, parents : /\ tips = WrittenTips(m, b) /\ parents = WrittenParents(m, b)
                           /\ Writes(m, n, b, tips, parents)
    BY AfterWriteIs
<1>2. /\ b \notin Heads(m) => tips = {} /\ parents = {}
      /\ \A x \in tips \cup parents : x \in m.orphan_pool \ {b} /\ b \in Heads(m) /\ home[x] = b
      /\ b \in Heads(m) => Tips(m, b) \subseteq {b} \cup tips
    BY <1>1, <1>WrittenWalk, SMTT(90)
<1>3. /\ Heads(n) = Heads(m) \ {b}
      /\ DOMAIN n.disconnected_heads_heights = DOMAIN m.disconnected_heads_heights \ {b}
      /\ \A h \in Heads(n) : Tips(n, h) = Tips(m, h)
      /\ \A h \in DOMAIN n.disconnected_heads_heights :
            n.disconnected_heads_heights[h] = m.disconnected_heads_heights[h]
    <2>1. PICK f, g : f = m.disconnected_heads_mapping /\ g = m.disconnected_heads_heights
        OBVIOUS
    <2>2. n.disconnected_heads_mapping = Drop(f, {b}) /\ n.disconnected_heads_heights = Drop(g, {b})
        BY <1>1, <2>1 DEF Writes
    <2>3. /\ DOMAIN n.disconnected_heads_mapping = DOMAIN f \ {b}
          /\ \A h \in DOMAIN f \ {b} : n.disconnected_heads_mapping[h] = f[h]
        BY <2>2 DEF Drop, Restrict
    <2>4. /\ DOMAIN n.disconnected_heads_heights = DOMAIN g \ {b}
          /\ \A h \in DOMAIN g \ {b} : n.disconnected_heads_heights[h] = g[h]
        BY <2>2 DEF Drop, Restrict
    <2> QED
        BY <2>1, <2>3, <2>4 DEF Heads, Tips
<1>4. ASSUME NEW h \in Heads(n), NEW t \in Tips(m, h)
      PROVE  t \in DOMAIN n.disconnected_tips_mapping /\ n.disconnected_tips_mapping[t] = h
    <2>1. h \in Heads(m) /\ h # b /\ home[t] = h /\ t \in m.orphan_pool
          /\ t \in DOMAIN m.disconnected_tips_mapping /\ m.disconnected_tips_mapping[t] = h
        BY <1>3, <1>4 DEF Links, TipsLinked
    <2>2. NoBlock \notin Heads(m)
        BY GenesisAssumption DEF Links, HeadsLinked, Memory
    <2>3. t \notin {b} \cup tips
        BY <1>2, <2>1, <2>2, SMTT(90) DEF Links, Homes
    <2>4. PICK f : f = m.disconnected_tips_mapping
        OBVIOUS
    <2>5. n.disconnected_tips_mapping = Drop(f, {b} \cup tips)
        BY <1>1, <2>4 DEF Writes
    <2>6. t \in DOMAIN n.disconnected_tips_mapping /\ n.disconnected_tips_mapping[t] = f[t]
        BY <2>1, <2>3, <2>4, <2>5 DEF Drop, Restrict
    <2> QED
        BY <2>1, <2>4, <2>6
<1>5. n.orphan_pool = m.orphan_pool \ {b} /\ m.orphan_pool \subseteq DOMAIN m.validations_mapping
    BY <1>1 DEF Writes, Links, HeadsLinked
<1>6. \A x \in n.orphan_pool : /\ x \in tips \cup parents => IsValid(n, x)
                               /\ x \notin tips \cup parents => n.validations_mapping[x] = m.validations_mapping[x]
    BY <1>1, <1>5 DEF Writes, IsValid
<1>7. ASSUME NEW x \in n.orphan_pool, b \in Heads(m), home[x] = b
      PROVE  IsValid(n, x)
    <2>1. CASE IsValid(m, x)
        BY <1>6, <2>1 DEF IsValid
    <2>2. CASE ~IsValid(m, x)
        <3> DEFINE T == {b} \cup tips \cup parents
        <3>1. ASSUME NEW y \in T, y \in m.orphan_pool, home[y] = b, y # b
              PROVE  Parent[y] \in T
            <4>0. RemoveOrphan(m, b) \in Memory /\ RemoveOrphan(m, b).orphan_pool = m.orphan_pool \ {b}
                BY AfterWriteAt
            <4>1. PICK out \in Memory : out = RemoveOrphan(m, b) /\ out.orphan_pool = m.orphan_pool \ {b}
                BY <4>0
            <4>2. PICK t \in tips : y \in {t} \cup PoolAncestors(out, t)
                BY <1>1, <3>1, <4>1, SMTT(30) DEF WrittenParents
            <4>3. t \in Block /\ Parent[y] \in m.orphan_pool
                <5>1. t \in m.orphan_pool /\ m.orphan_pool \subseteq Block
                    BY <1>2 DEF Memory
                <5>2. y \in m.orphan_pool /\ home[y] \in Heads(m) /\ home[y] # y /\ Homes(m, home)
                    BY <1>7, <3>1 DEF Links
                <5>3. Parent[y] \in m.orphan_pool
                    BY <5>2, HomeAbove
                <5> QED
                    BY <5>1, <5>3
            <4>4. CASE Parent[y] = b
                BY <4>4
            <4>5. CASE Parent[y] # b
                <5>1. Parent[y] \in PoolAncestors(out, t)
                    BY <4>1, <4>2, <4>3, <4>5, WalkGoesOn
                <5> QED
                    BY <1>1, <4>1, <5>1 DEF WrittenParents
            <4> QED
                BY <4>4, <4>5
        <3>2. Tips(m, b) \subseteq T
            BY <1>2, <1>7
        <3> HIDE DEF T
        <3>3. x \in T
            BY <1>5, <1>7, <2>2, <3>1, <3>2, Covered
        <3> QED
            BY <1>5, <1>6, <1>7, <3>3 DEF T
    <2> QED
        BY <2>1, <2>2
<1>8. \A x \in n.orphan_pool :
          (b \in Heads(m) /\ home[x] = b) \/ n.validations_mapping[x] = m.validations_mapping[x]
    BY <1>2, <1>6
<1>9. ValidTipsLinked(n)
    <2>1. \A t \in n.valid_tips : t \in n.orphan_pool /\ IsValid(n, t)
        BY <1>1, <1>2, <1>5, <1>6 DEF Writes, Links, ValidTipsLinked, IsValid
    <2>2. \A o \in n.orphan_pool : n.validations_mapping[o] = "ValidChainTip" => o \in n.valid_tips
        BY <1>1, <1>5 DEF Writes, Links, ValidTipsLinked
    <2> QED
        BY <2>1, <2>2 DEF ValidTipsLinked
<1>10. n.orphan_pool \subseteq DOMAIN n.validations_mapping
    BY <1>1, <1>5 DEF Writes
<1>11. \A h \in Heads(n) : n.disconnected_heads_heights[h] = m.disconnected_heads_heights[h]
    BY <1>3 DEF Links, HeadsLinked
<1> QED
    BY <1>3, <1>4, <1>5, <1>7, <1>8, <1>9, <1>10, <1>11 DEF Leaves

\* write_block finds every entry it unwraps.
LEMMA WriteBlockFine ==
    ASSUME NEW m \in Memory, NEW D, NEW home, NEW inner, Links(m, D, home, inner), NEW b
    PROVE  write_blockOk(m, b)
<1>1. PICK out \in Memory : /\ out = [m EXCEPT !.orphan_pool = @ \ {b}]
                            /\ out.orphan_pool = m.orphan_pool \ {b}
    <2> DEFINE pool == m.orphan_pool \ {b}
               new == [m EXCEPT !.orphan_pool = pool]
    <2>1. pool \in SUBSET Block
        BY DEF Memory
    <2> HIDE DEF pool
    <2>2. new \in Memory /\ new.orphan_pool = pool
        BY <2>1 DEF Memory
    <2> QED
        BY <2>2 DEF pool
<1>2. \A t \in WrittenTips(m, b) : t \in out.orphan_pool
    BY <1>1 DEF WrittenTips, Heads, Tips, Links, TipsLinked
<1>3. \A t \in WrittenTips(m, b) : PoolAncestors(out, t) \subseteq out.orphan_pool
    BY WalksStayInPool
<1>4. out.orphan_pool \subseteq DOMAIN m.validations_mapping
    BY <1>1 DEF Links, HeadsLinked
<1> QED
    BY <1>1, <1>2, <1>3, <1>4 DEF write_blockOk

\* Writing a block that is no orphan leaves the links as they are.
LEMMA WriteKeeps ==
    ASSUME NEW m \in Memory, NEW D, NEW home, NEW inner, Links(m, D, home, inner),
           NEW b, b \notin m.orphan_pool, NEW n \in Memory, n = MemoryAfterWrite(m, b)
    PROVE  Links(n, D, home, inner)
<1>1. b \notin Heads(m) /\ Heads(m) = DOMAIN m.disconnected_heads_heights
    BY DEF Links, HeadsLinked
<1>2. WrittenTips(m, b) = {} /\ WrittenParents(m, b) = {}
    BY <1>1 DEF WrittenTips, WrittenParents, Heads
<1>3. Writes(m, n, b, {}, {})
    BY <1>2, AfterWriteIs
<1>4. PICK f, g, k : /\ f = m.disconnected_heads_mapping /\ g = m.disconnected_heads_heights
                     /\ k = m.disconnected_tips_mapping
    OBVIOUS
<1>5. n.disconnected_heads_mapping = m.disconnected_heads_mapping
    <2>1. n.disconnected_heads_mapping = Drop(f, {b}) /\ b \notin DOMAIN f
        BY <1>1, <1>3, <1>4 DEF Writes, Heads
    <2>2. f = [x \in DOMAIN f |-> f[x]]
        BY <1>4 DEF Memory, Maps
    <2> QED
        BY <1>4, <2>1, <2>2 DEF Drop, Restrict
<1>6. n.disconnected_heads_heights = m.disconnected_heads_heights
    <2>1. n.disconnected_heads_heights = Drop(g, {b}) /\ b \notin DOMAIN g
        BY <1>1, <1>3, <1>4 DEF Writes, Heads
    <2>2. g = [x \in DOMAIN g |-> g[x]]
        BY <1>4 DEF Memory, Maps
    <2> QED
        BY <1>4, <2>1, <2>2 DEF Drop, Restrict
<1>7. \A h \in Heads(m) : \A t \in Tips(m, h) :
          t \in DOMAIN n.disconnected_tips_mapping /\ n.disconnected_tips_mapping[t] = h
    <2>1. n.disconnected_tips_mapping = Drop(k, {b})
        BY <1>3, <1>4 DEF Writes
    <2>2. \A t \in DOMAIN k \ {b} : /\ t \in DOMAIN n.disconnected_tips_mapping
                                    /\ n.disconnected_tips_mapping[t] = k[t]
        BY <2>1 DEF Drop, Restrict
    <2> QED
        BY <1>4, <2>2 DEF Links, TipsLinked
<1>8. /\ n.orphan_pool = m.orphan_pool /\ m.orphan_pool \subseteq DOMAIN n.validations_mapping
      /\ \A x \in m.orphan_pool : n.validations_mapping[x] = m.validations_mapping[x]
      /\ n.valid_tips = m.valid_tips
    BY <1>3, SMTT(90) DEF Writes, Links, HeadsLinked, ValidTipsLinked
<1>9. ValidTipsLinked(n)
    BY <1>8 DEF Links, ValidTipsLinked, IsValid
<1> QED
    BY <1>5, <1>6, <1>7, <1>8, <1>9, LinksRevalidated

\* A stored block b that follows a stored block goes back to the pool.
LEMMA LinksUnwound ==
    ASSUME NEW m \in Memory, NEW n \in Memory, NEW D, NEW home, NEW inner,
           Links(m, D, home, inner), NEW b \in Block, b \in D, Parent[b] \in D, Parent[b] # b,
           n.orphan_pool = m.orphan_pool \cup {b}, SameChains(m, n),
           n.orphan_pool \subseteq DOMAIN n.validations_mapping, IsValid(n, b),
           \A x \in m.orphan_pool : n.validations_mapping[x] = m.validations_mapping[x],
           ValidTipsLinked(n)
    PROVE  \E home2 : Links(n, D \ {b}, home2, inner)
<1> DEFINE home2 == [home EXCEPT ![b] = NoBlock]
<1>1. b \notin m.orphan_pool /\ b \notin Heads(m) /\ m.orphan_pool \subseteq Block /\ Heads(m) \subseteq Block
    BY DEF Links, HeadsLinked, Memory
<1>2. /\ home2 \in [Block -> Block \cup {NoBlock}] /\ home2[b] = NoBlock
      /\ \A o \in m.orphan_pool : home2[o] = home[o]
    BY <1>1 DEF Links, Homes
<1> HIDE DEF home2
<1>3. /\ Heads(n) = Heads(m) /\ \A h : Tips(n, h) = Tips(m, h)
      /\ n.disconnected_heads_heights = m.disconnected_heads_heights
      /\ n.disconnected_tips_mapping = m.disconnected_tips_mapping
    BY DEF Heads, Tips, SameChains
<1>4. \A o \in m.orphan_pool : IsValid(n, o) <=> IsValid(m, o)
    BY DEF IsValid
<1>5. Parent[b] \notin n.orphan_pool
    BY DEF Links
<1>6. Homes(n, home2)
    <2> SUFFICES ASSUME NEW o \in n.orphan_pool
                 PROVE  /\ o \in Heads(n) => home2[o] = o
                        /\ o \notin Heads(n) /\ Parent[o] \in n.orphan_pool => home2[o] = home2[Parent[o]]
                        /\ o \notin Heads(n) /\ Parent[o] \notin n.orphan_pool => home2[o] = NoBlock
                        /\ home2[o] \in Heads(n) \cup {NoBlock}
                        /\ home2[o] \in Heads(n) => Height[home2[o]] <= Height[o]
        BY <1>2 DEF Homes
    <2>1. CASE o = b
        BY <1>1, <1>2, <1>3, <1>5, <2>1, GenesisAssumption
    <2>2. CASE o # b /\ (Parent[o] # b \/ o \in Heads(m))
        BY <1>1, <1>2, <1>3, <2>2, SMTT(90) DEF Links, Homes
    <2>3. CASE o # b /\ Parent[o] = b /\ o \notin Heads(m)
        BY <1>1, <1>2, <1>3, <2>3, GenesisAssumption, SMTT(90) DEF Links, Homes
    <2> QED
        BY <2>1, <2>2, <2>3
<1>7. HeadsLinked(n, D \ {b})
    BY <1>1, <1>3, <1>4 DEF Links, HeadsLinked
<1>8. TipsLinked(n, home2)
    BY <1>1, <1>2, <1>3, SMTT(90) DEF Links, TipsLinked
<1>9. InnerLinked(n, inner)
    BY <1>3 DEF Links, InnerLinked
<1>10. DisconnectedLinked(n, home2, inner)
    <2> SUFFICES ASSUME NEW o \in n.orphan_pool, ~IsValid(n, o)
                 PROVE  /\ home2[o] \in Heads(n)
                        /\ n.validations_mapping[o] = "DisconnectedTip" =>
                              o \in Tips(n, home2[o]) /\ \A c \in n.orphan_pool : Parent[c] # o
                        /\ n.validations_mapping[o] # "DisconnectedTip" =>
                              o \in inner /\ \E c \in n.orphan_pool : Parent[c] = o
        BY DEF DisconnectedLinked
    <2>1. o \in m.orphan_pool /\ ~IsValid(m, o) /\ home2[o] = home[o] /\ o # Parent[b]
        BY <1>2, <1>4, <1>5
    <2> QED
        BY <1>3, <2>1, SMTT(90) DEF Links, DisconnectedLinked
<1>11. ValidLinked(n, D \ {b})
    BY <1>4 DEF Links, ValidLinked
<1>12. n.orphan_pool \cap (D \ {b}) = {}
    BY DEF Links
<1>13. Links(n, D \ {b}, home2, inner)
    BY <1>6, <1>7, <1>8, <1>9, <1>10, <1>11, <1>12 DEF Links
<1> QED
    BY <1>13

\* A block that rewind takes out of the store is linked in the pool.
LEMMA UnwindLinks ==
    ASSUME NEW m \in Memory, NEW D, NEW home, NEW inner, Links(m, D, home, inner),
           NEW b \in Block, b \in D, Parent[b] \in D, Parent[b] # b, NEW inverse \in Nat,
           NEW n \in Memory, n = Unwound(m, b, inverse)
    PROVE  \E home2 : Links(n, D \ {b}, home2, inner)
<1>1. PICK type \in {"ValidChainTip", "BelongsToValidChain"} :
          /\ type = IF inverse = 0 THEN "ValidChainTip" ELSE "BelongsToValidChain"
          /\ type = "ValidChainTip" <=> inverse = 0
    OBVIOUS
<1>2. PICK f : f = m.validations_mapping
    OBVIOUS
<1>3. /\ n.orphan_pool = m.orphan_pool \cup {b} /\ SameChains(m, n)
      /\ n.validations_mapping = Put(f, b, type)
      /\ n.valid_tips = IF inverse = 0 THEN m.valid_tips \cup {b} ELSE m.valid_tips
    <2>1. /\ n.orphan_pool = m.orphan_pool \cup {b} /\ SameChains(m, n)
          /\ n.validations_mapping =
                 Put(m.validations_mapping, b, IF inverse = 0 THEN "ValidChainTip" ELSE "BelongsToValidChain")
          /\ n.valid_tips = IF inverse = 0 THEN m.valid_tips \cup {b} ELSE m.valid_tips
        <3>1. Unwinds(m, n, b, inverse)
            BY UnwoundAt
        <3> QED
            BY <3>1 DEF Unwinds
    <2> QED
        BY <1>1, <1>2, <2>1
<1>4. /\ DOMAIN n.validations_mapping = DOMAIN f \cup {b} /\ n.validations_mapping[b] = type
      /\ \A x \in DOMAIN f \ {b} : n.validations_mapping[x] = f[x]
    BY <1>3 DEF Put, Override
<1>5. b \notin m.orphan_pool /\ m.orphan_pool \subseteq DOMAIN f
    BY <1>2 DEF Links, HeadsLinked
<1>6. /\ n.orphan_pool \subseteq DOMAIN n.validations_mapping /\ IsValid(n, b)
      /\ \A x \in m.orphan_pool : n.validations_mapping[x] = m.validations_mapping[x]
    BY <1>1, <1>2, <1>3, <1>4, <1>5 DEF IsValid
<1>7. ValidTipsLinked(n)
    <2>1. m.valid_tips \subseteq n.valid_tips /\ n.valid_tips \subseteq m.valid_tips \cup {b}
        BY <1>3
    <2>2. \A t \in n.valid_tips : t \in n.orphan_pool /\ IsValid(n, t)
        BY <1>3, <1>6, <2>1 DEF Links, ValidTipsLinked, IsValid
    <2>3. \A o \in n.orphan_pool : n.validations_mapping[o] = "ValidChainTip" => o \in n.valid_tips
        BY <1>1, <1>3, <1>4, <1>6, <2>1 DEF Links, ValidTipsLinked
    <2> QED
        BY <2>2, <2>3 DEF ValidTipsLinked
<1> QED
    BY <1>3, <1>6, <1>7, LinksUnwound

\* The marks that process_orphans sets keep the links.
LEMMA MarksKeep ==
    ASSUME NEW m \in Memory, NEW D, NEW home, NEW inner, Links(m, D, home, inner),
           NEW heirs, NEW replaced, MayMark(m, D, heirs, replaced),
           NEW n \in Memory, Marks(m, n, heirs, replaced)
    PROVE  /\ Links(n, D, home, inner)
           /\ \A x \in m.orphan_pool : IsValid(m, x) => IsValid(n, x)
           /\ \A x \in heirs : IsValid(n, x)
<1> USE DEF Marks, MayMark
<1>3. /\ m.orphan_pool \subseteq DOMAIN m.validations_mapping
      /\ m.orphan_pool \subseteq DOMAIN n.validations_mapping
    BY DEF Links, HeadsLinked
<1>4. \A x \in m.orphan_pool : IsValid(m, x) => IsValid(n, x)
    BY <1>3 DEF IsValid
<1>5. \A x \in heirs : IsValid(n, x)
    BY DEF IsValid
<1>6. \A x \in m.orphan_pool :
               \/ n.validations_mapping[x] = m.validations_mapping[x]
               \/ /\ IsValid(n, x)
                  /\ \/ IsValid(m, x) \/ Parent[x] \in D
                     \/ Parent[x] \in m.orphan_pool /\ IsValid(n, Parent[x])
    BY <1>3, <1>4, <1>5 DEF OnValid
<1>7. ValidTipsLinked(n)
    <2>1. \A t \in n.valid_tips : t \in n.orphan_pool /\ IsValid(n, t)
        BY <1>4, <1>5 DEF Links, ValidTipsLinked
    <2>2. \A o \in n.orphan_pool : n.validations_mapping[o] = "ValidChainTip" => o \in n.valid_tips
        BY <1>3 DEF Links, ValidTipsLinked
    <2> QED
        BY <2>1, <2>2 DEF ValidTipsLinked
<1>8. \A h \in Heads(m) : \A t \in Tips(m, h) :
          t \in DOMAIN n.disconnected_tips_mapping /\ n.disconnected_tips_mapping[t] = h
    BY SMTT(90) DEF SameChains, Links, TipsLinked
<1>9. Links(n, D, home, inner)
    BY <1>3, <1>6, <1>7, <1>8, LinksRevalidated DEF SameChains
<1> QED
    BY <1>4, <1>5, <1>9

-----------------------------------------------------------------------------
(***************************************************************************)
(* The helpers keep the pool filed under its heights.                      *)
(***************************************************************************)

\* Put adds a key.
LEMMA PutDomain == ASSUME NEW f, NEW k, NEW v PROVE DOMAIN Put(f, k, v) = DOMAIN f \cup {k}
BY DEF Put, Override

\* Filing one more block keeps the two structures in step.
LEMMA FilesTooFiled ==
    ASSUME NEW m, NEW n, NEW b, Filed(m), FilesToo(m, n, b) PROVE Filed(n)
BY DEF Filed, FilesToo

\* Filing composes: one block is filed once, however often it is written.
LEMMA FilesTrans ==
    ASSUME NEW m, NEW n, NEW q, NEW b, Shaped(m)
    PROVE  /\ SameFiles(m, n) \/ FilesToo(m, n, b) => Shaped(n)
           /\ SameFiles(m, n) /\ SameFiles(n, q) => SameFiles(m, q)
           /\ FilesToo(m, n, b) /\ SameFiles(n, q) => FilesToo(m, q, b)
           /\ SameFiles(m, n) /\ FilesToo(n, q, b) => FilesToo(m, q, b)
           /\ FilesToo(m, n, b) /\ FilesToo(n, q, b) => FilesToo(m, q, b)
BY DEF SameFiles, FilesToo, Shaped

\* write_orphan files the block.
LEMMA WriteOrphanFiles ==
    ASSUME NEW m, Shaped(m), NEW b, NEW type, NEW inverse
    PROVE  FilesToo(m, write_orphan(m, b, type, inverse), b)
<1> DEFINE inv == IF b \in DOMAIN m.inverse THEN m.inverse ELSE Put(m.inverse, b, inverse)
           w == write_orphan(m, b, type, inverse)
<1>1. DOMAIN inv = DOMAIN m.inverse \cup {b}
    BY PutDomain
<1>2. /\ DOMAIN w = DOMAIN m
      /\ w.orphan_pool = m.orphan_pool \cup {b} /\ w.heights = m.heights \cup {Height[b]}
      /\ w.inverse = inv
    BY DEF write_orphan, update_max_orphan_height, Shaped
<1> HIDE DEF inv, w
<1> QED
    BY <1>1, <1>2 DEF FilesToo, w

\* recurse_inverse only changes inverse heights and statuses.
LEMMA RaiseInverseFiles ==
    ASSUME NEW m, Shaped(m), NEW T, NEW start PROVE SameFiles(m, RaiseInverse(m, T, start))
BY DEF RaiseInverse, Shaped, SameFiles

\* The same with the statuses.
LEMMA RecurseInverseFiles ==
    ASSUME NEW m, Shaped(m), NEW b, NEW start, NEW make_valid
    PROVE  SameFiles(m, recurse_inverse(m, b, start, make_valid))
<1> DEFINE r == RaiseInverse(m, {b}, start)
<1>1. SameFiles(m, r)
    BY RaiseInverseFiles
<1> HIDE DEF r
<1>2. SameFiles(r, recurse_inverse(m, b, start, make_valid))
    BY <1>1 DEF recurse_inverse, r, SameFiles, Shaped
<1> QED
    BY <1>1, <1>2, FilesTrans

\* attempt_attach changes inverse heights and the disconnected mappings.
LEMMA AttachFiles ==
    ASSUME NEW m, Shaped(m), NEW b, NEW largest
    PROVE  SameFiles(m, attempt_attach(m, b, largest))
<1>1. PICK hm, hh, tm :
          LET n == [m EXCEPT !.disconnected_heads_mapping = hm,
                             !.disconnected_heads_heights = hh,
                             !.disconnected_tips_mapping = tm]
          IN attempt_attach(m, b, largest) \in {m, RaiseInverse(n, TipsToAttach(m, b), 0)}
    BY DEF attempt_attach
<1> DEFINE n == [m EXCEPT !.disconnected_heads_mapping = hm,
                          !.disconnected_heads_heights = hh,
                          !.disconnected_tips_mapping = tm]
<1>2. SameFiles(m, n) /\ SameFiles(m, m)
    BY DEF SameFiles, Shaped
<1>3. Shaped(n)
    BY <1>2, FilesTrans
<1> HIDE DEF n
<1>4. SameFiles(m, RaiseInverse(n, TipsToAttach(m, b), 0))
    BY <1>2, <1>3, RaiseInverseFiles, FilesTrans
<1> QED
    BY <1>1, <1>2, <1>4 DEF n

\* attempt_attach_valid changes inverse heights, statuses, the disconnected mappings
\* and valid_tips.
LEMMA AttachValidFiles ==
    ASSUME NEW m, Shaped(m), NEW b, NEW head
    PROVE  SameFiles(m, attempt_attach_valid(m, b, head))
<1> DEFINE n == IF head = NoBlock THEN m ELSE make_valid_tips(m, head)
<1>1. SameFiles(m, n)
    BY DEF make_valid_tips, SameFiles, Shaped
<1>2. Shaped(n)
    BY <1>1, FilesTrans
<1>3. attempt_attach_valid(m, b, head) = recurse_inverse(n, NewTip(m, b, head), 0, TRUE)
    BY DEF attempt_attach_valid
<1> HIDE DEF n
<1> QED
    BY <1>1, <1>2, <1>3, RecurseInverseFiles, FilesTrans

\* The tip that attempt_attach_valid returns.
LEMMA NewTipInPool ==
    ASSUME NEW m, NEW b, NEW head, attempt_attach_validOk(m, b, head)
    PROVE  NewTip(m, b, head) \in m.orphan_pool \cup {b}
BY DEF attempt_attach_validOk, NewTip

=============================================================================
