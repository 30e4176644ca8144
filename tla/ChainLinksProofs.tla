-------------------------- MODULE ChainLinksProofs --------------------------
(***************************************************************************)
(* Every step of Chain keeps the maps in agreement with each other and     *)
(* hits no unwrap, assert or unreachable!, for every tree of blocks whose  *)
(* height fields follow from their parents'.  It rests on what             *)
(* ChainStoreProofs shows of the store, the pool and the heights.          *)
(***************************************************************************)
EXTENDS ChainStoreProofs

\* A leaf is proved by Zenon unless it says otherwise.
USE Zenon

\* How append_block ends in these branches, without a panic.
Grown(home, b) ==
    \E n \in Memory : \E head \in Block \cup {NoBlock} :
        /\ head \in Heads(mem) => Parent[head] = b
        /\ GrowsValid(mem, n, home, b, head) /\ n.max_orphan_height = MaxWith(b)
        /\ \/ Settle(n)
           \/ \E tip \in n.valid_tips : SwitchTo(n, tip) /\ \A c \in n.orphan_pool : Parent[c] # tip

\* The parent is a stored block.
LEMMA ForkGrows ==
    ASSUME WellFormedHeights, TypeInv, Filed(mem), NEW home, NEW inner, Links(mem, db, home, inner),
           NEW b \in Block, b \notin mem.orphan_pool \cup db, AppendFork(b)
    PROVE  Grown(home, b)
<1>1. mem \in Memory /\ OnValid(mem, db, b) /\ mem.orphan_pool \subseteq DOMAIN mem.validations_mapping
    BY DEF TypeInv, AppendFork, OnValid, Links, HeadsLinked
<1>2. PICK n \in Memory : n = write_orphan(mem, b, "ValidChainTip", 0) /\ WritesOrphan(mem, n, b, "ValidChainTip")
    <2>1. write_orphan(mem, b, "ValidChainTip", 0) \in Memory
        BY <1>1, WriteOrphanType DEF OrphanType
    <2> QED
        BY <1>1, <2>1, WriteOrphanAt
<1>3. Ready(mem, n, b) /\ n.max_orphan_height = MaxWith(b) /\ b \in n.orphan_pool
    <2>1. /\ DOMAIN n.validations_mapping = DOMAIN mem.validations_mapping \cup {b}
          /\ n.validations_mapping[b] = "ValidChainTip"
          /\ \A x \in DOMAIN mem.validations_mapping \ {b} : n.validations_mapping[x] = mem.validations_mapping[x]
        BY <1>2 DEF WritesOrphan, Put, Override
    <2> QED
        BY <1>1, <1>2, <2>1 DEF WritesOrphan, MaxWith, Ready, Filed
<1>4. PICK head \in BestHeads(n, b) :
          IF ~attempt_attach_validOk(n, b, head) THEN Panic
          ELSE IF head = NoBlock THEN Settle(attempt_attach_valid(n, b, head))
          ELSE SwitchTo(attempt_attach_valid(n, b, head), NewTip(n, b, head))
    BY <1>2 DEF AppendFork
<1>5. /\ attempt_attach_validOk(n, b, head)
      /\ head = NoBlock => NewTip(n, b, head) = b
      /\ head # NoBlock => head \in Heads(mem) /\ Parent[head] = b /\ NewTip(n, b, head) \in Tips(mem, head)
    BY <1>1, <1>3, AttachValidFine, SMTT(30)
<1>6. PICK r \in Memory : /\ r = attempt_attach_valid(n, b, head) /\ Joined(mem, n, r, home, b, head)
                          /\ r.max_orphan_height = n.max_orphan_height
    BY <1>1, <1>3, AttachValidJoins, SMTT(30)
<1>7. head \in Block \cup {NoBlock} /\ NoBlock \notin Heads(mem)
    <2>1. Heads(mem) \subseteq Block
        BY <1>1, MapValue, SMTT(30) DEF Memory, Heads
    <2> QED
        BY <1>5, <2>1, GenesisAssumption
<1>8. GrowsValid(mem, r, home, b, head)
    BY <1>1, <1>3, <1>6, JoinedGrows DEF SameChains
<1>9. \A c \in r.orphan_pool : Parent[c] # NewTip(n, b, head)
    <2>1. \A c \in mem.orphan_pool \cup {b} : Parent[c] # NewTip(n, b, head)
        BY <1>1, <1>3, TipIsLeaf
    <2> QED
        BY <1>3, <1>6, <2>1 DEF Joined, Ready
<1>10. NewTip(n, b, head) \in r.valid_tips
    BY <1>3, <1>5, <1>6 DEF Joined, Ready
<1>11. \/ Settle(r)
       \/ SwitchTo(r, NewTip(n, b, head))
    BY <1>4, <1>5, <1>6
<1> QED
    BY <1>3, <1>5, <1>6, <1>7, <1>8, <1>9, <1>10, <1>11 DEF Grown

\* The parent is the tip of a valid chain.
LEMMA OnValidTipGrows ==
    ASSUME WellFormedHeights, TypeInv, Filed(mem), NEW home, NEW inner, Links(mem, db, home, inner),
           NEW b \in Block, b \notin mem.orphan_pool \cup db, AppendOnValidTip(b)
    PROVE  Grown(home, b)
<1> DEFINE p == Parent[b]
           val == [mem.validations_mapping EXCEPT ![p] = "BelongsToValidChain"]
           m1 == [mem EXCEPT !.validations_mapping = val]
<1>1. /\ mem \in Memory /\ p \in mem.orphan_pool /\ IsValid(mem, p) /\ OnValid(mem, db, b) /\ p # b
      /\ mem.orphan_pool \subseteq DOMAIN mem.validations_mapping
    BY ParentDiffers DEF TypeInv, AppendOnValidTip, OnOrphan, OnValid, IsValid, Links, HeadsLinked
<1>2. m1 \in Memory /\ m1.validations_mapping = val /\ m1.orphan_pool = mem.orphan_pool /\ SameChains(mem, m1)
      /\ m1.valid_tips = mem.valid_tips /\ m1.inverse = mem.inverse /\ m1.max_orphan_height = mem.max_orphan_height
    <2>1. val \in Maps(Block, OrphanType)
        BY <1>1, MapExcept DEF Memory, OrphanType
    <2> HIDE DEF val
    <2> QED
        BY <1>1, <2>1 DEF Memory, SameChains
<1>3. PICK n \in Memory : n = write_orphan(m1, b, "ValidChainTip", 0) /\ WritesOrphan(m1, n, b, "ValidChainTip")
    <2> HIDE DEF m1
    <2>1. write_orphan(m1, b, "ValidChainTip", 0) \in Memory
        BY <1>2, WriteOrphanType DEF OrphanType
    <2> QED
        BY <1>2, <2>1, WriteOrphanAt
<1>4. PICK head \in BestHeads(n, b) :
          LET tip == NewTip(n, b, head)
              inverse == Height[tip] - Height[b]
              m3 == attempt_attach_valid(n, b, head)
              m4 == recurse_inverse(m3, b, inverse, inverse = 0)
          IN IF ~attempt_attach_validOk(n, b, head) THEN Panic
             ELSE SwitchTo([m4 EXCEPT !.valid_tips = (@ \ {p}) \cup {tip}], tip)
    BY <1>3 DEF AppendOnValidTip
<1> HIDE DEF m1
<1>5. Ready(mem, n, b) /\ n.max_orphan_height = MaxWith(b) /\ b \in n.orphan_pool
      /\ n.validations_mapping[p] = "BelongsToValidChain"
    <2>1. /\ DOMAIN val = DOMAIN mem.validations_mapping /\ val[p] = "BelongsToValidChain"
          /\ \A x \in DOMAIN mem.validations_mapping \ {p} : val[x] = mem.validations_mapping[x]
        BY <1>1
    <2> HIDE DEF val
    <2>2. /\ DOMAIN n.validations_mapping = DOMAIN val \cup {b}
          /\ n.validations_mapping[b] = "ValidChainTip"
          /\ \A x \in DOMAIN val \ {b} : n.validations_mapping[x] = val[x]
        BY <1>2, <1>3 DEF WritesOrphan, Put, Override
    <2>3. /\ n.orphan_pool = mem.orphan_pool \cup {b} /\ SameChains(mem, n) /\ DOMAIN n.inverse = n.orphan_pool
          /\ n.valid_tips = mem.valid_tips \cup {b} /\ n.max_orphan_height = MaxWith(b)
        BY <1>2, <1>3 DEF WritesOrphan, SameChains, MaxWith, Filed
    <2>4. \A x \in mem.orphan_pool \ {p} : n.validations_mapping[x] = mem.validations_mapping[x]
        BY <1>1, <2>1, <2>2
    <2>5. n.validations_mapping[p] = "BelongsToValidChain"
        BY <1>1, <2>1, <2>2
    <2> QED
        BY <1>1, <2>1, <2>2, <2>3, <2>4, <2>5 DEF Ready
<1>6. /\ attempt_attach_validOk(n, b, head) /\ NewTip(n, b, head) \in Block
      /\ head = NoBlock => NewTip(n, b, head) = b
      /\ head # NoBlock => /\ head \in Heads(mem) /\ Parent[head] = b /\ NewTip(n, b, head) \in Tips(mem, head)
                           /\ Height[NewTip(n, b, head)] > Height[b]
    BY <1>1, <1>5, AttachValidFine, SMTT(30)
<1>7. PICK q \in Memory : /\ q = attempt_attach_valid(n, b, head) /\ Joined(mem, n, q, home, b, head)
                          /\ q.max_orphan_height = n.max_orphan_height
    BY <1>1, <1>5, AttachValidJoins, SMTT(30)
<1>8. head \in Block \cup {NoBlock} /\ NoBlock \notin Heads(mem)
    <2>1. Heads(mem) \subseteq Block
        BY <1>1, MapValue, SMTT(30) DEF Memory, Heads
    <2> QED
        BY <1>6, <2>1, GenesisAssumption
<1>9. PICK tip \in Block : tip = NewTip(n, b, head)
    BY <1>6
<1>10. PICK inverse \in Nat : inverse = Height[tip] - Height[b] /\ (inverse = 0 <=> head = NoBlock)
    BY <1>6, <1>9, HeightAssumption, SMTT(30)
<1>11. PICK w \in Memory :
          /\ w = recurse_inverse(q, b, inverse, inverse = 0) /\ Joined(mem, n, w, home, b, head)
          /\ w.max_orphan_height = n.max_orphan_height
    <2>1. PICK w \in Memory : w = recurse_inverse(q, b, inverse, inverse = 0)
        BY RecurseInverseType
    <2>2. CASE head = NoBlock
        <3>1. w = recurse_inverse(q, b, inverse, TRUE)
            BY <1>10, <2>1, <2>2, RecurseWhen
        <3>2. OnlyMarks(q, w, MarkedValid(q, b))
            BY <3>1, RecurseInverseAt
        <3>3. Attaching(mem, db, home, inner, b, n, head) /\ MayBeTip(mem, b, head, b)
            BY <1>1, <1>5, <1>6, <1>8 DEF Attaching, MayBeTip
        <3>4. Joined(mem, n, w, home, b, head)
            BY <1>1, <1>7, <3>2, <3>3, JoinedMarked
        <3> QED
            BY <1>7, <2>1, <3>2, <3>4 DEF OnlyMarks
    <2>3. CASE head # NoBlock
        <3>1. w = recurse_inverse(q, b, inverse, FALSE)
            BY <1>10, <2>1, <2>3, RecurseWhen
        <3>2. OnlyMarks(q, w, q.validations_mapping)
            BY <3>1, RecurseInverseAt
        <3>3. Joined(mem, n, w, home, b, head)
            BY <1>7, <3>2, JoinedSame
        <3> QED
            BY <1>7, <2>1, <3>2, <3>3 DEF OnlyMarks
    <2> QED
        BY <2>2, <2>3
<1> DEFINE tips == (w.valid_tips \ {p}) \cup {tip}
           r == [w EXCEPT !.valid_tips = tips]
<1>12. tip \in w.valid_tips /\ tips \subseteq w.valid_tips
    BY <1>5, <1>6, <1>9, <1>11, SMTT(90) DEF Joined, Ready
<1>13. /\ r \in Memory /\ r.orphan_pool = w.orphan_pool /\ SameChains(w, r)
       /\ r.validations_mapping = w.validations_mapping /\ r.valid_tips = tips
       /\ r.max_orphan_height = w.max_orphan_height
    <2>1. tips \in SUBSET Block
        BY <1>12 DEF Memory
    <2> HIDE DEF tips
    <2> QED
        BY <2>1 DEF Memory, SameChains
<1>14. SwitchTo(r, tip)
    BY <1>4, <1>6, <1>7, <1>9, <1>10, <1>11
<1> HIDE DEF r
<1>15. w.validations_mapping[p] # "ValidChainTip"
    <2>1. ~Joining(mem, home, head, p)
        BY <1>1, <1>6, <1>8, OpenHead DEF Joining
    <2>2. p \in w.orphan_pool
        BY <1>1, <1>5, <1>11, SMTT(90) DEF Joined, Ready
    <2> QED
        BY <1>5, <1>11, <2>1, <2>2 DEF Joined
<1>16. GrowsValid(mem, r, home, b, head)
    <2>1. r.valid_tips \subseteq w.valid_tips
          /\ \A x \in w.valid_tips : w.validations_mapping[x] = "ValidChainTip" => x \in r.valid_tips
        BY <1>12, <1>13, <1>15
    <2>2. b \notin mem.orphan_pool
        OBVIOUS
    <2> QED
        BY <1>1, <1>5, <1>11, <1>13, <2>1, <2>2, JoinedGrows
<1>17. \A c \in r.orphan_pool : Parent[c] # tip
    <2>1. \A c \in mem.orphan_pool \cup {b} : Parent[c] # NewTip(n, b, head)
        BY <1>1, <1>5, TipIsLeaf
    <2> QED
        BY <1>5, <1>9, <1>11, <1>13, <2>1, SMTT(90) DEF Joined, Ready
<1>18. r.max_orphan_height = MaxWith(b) /\ tip \in r.valid_tips
    BY <1>5, <1>11, <1>13
<1> QED
    BY <1>6, <1>8, <1>13, <1>14, <1>16, <1>17, <1>18 DEF Grown

\* The parent is inside a valid chain.
LEMMA OnValidBranchGrows ==
    ASSUME WellFormedHeights, TypeInv, Filed(mem), NEW home, NEW inner, Links(mem, db, home, inner),
           NEW b \in Block, b \notin mem.orphan_pool \cup db, AppendOnValidBranch(b)
    PROVE  Grown(home, b)
<1>1. /\ mem \in Memory /\ OnValid(mem, db, b) /\ mem.orphan_pool \subseteq DOMAIN mem.validations_mapping
    BY DEF TypeInv, AppendOnValidBranch, OnOrphan, OnValid, IsValid, Links, HeadsLinked
<1>2. PICK n \in Memory : n = [mem EXCEPT !.valid_tips = @ \cup {b}] /\ n.valid_tips = mem.valid_tips \cup {b}
          /\ n.validations_mapping = mem.validations_mapping /\ n.orphan_pool = mem.orphan_pool
          /\ SameChains(mem, n) /\ n.inverse = mem.inverse /\ n.max_orphan_height = mem.max_orphan_height
    <2> DEFINE tips == mem.valid_tips \cup {b}
               new == [mem EXCEPT !.valid_tips = tips]
    <2>1. tips \in SUBSET Block
        BY <1>1 DEF Memory
    <2> HIDE DEF tips
    <2>2. new \in Memory
        BY <1>1, <2>1 DEF Memory
    <2>3. new.valid_tips = tips /\ new.orphan_pool = mem.orphan_pool
          /\ new.validations_mapping = mem.validations_mapping
          /\ SameChains(mem, new) /\ new.inverse = mem.inverse
          /\ new.max_orphan_height = mem.max_orphan_height
        BY <1>1 DEF Memory, SameChains
    <2>4. new = [mem EXCEPT !.valid_tips = @ \cup {b}]
        BY DEF tips
    <2> HIDE DEF new
    <2> QED
        BY <2>2, <2>3, <2>4 DEF tips
<1>3. Ready(mem, n, b)
    BY <1>1, <1>2 DEF Ready, Filed
<1>4. PICK head \in BestHeads(n, b) :
          LET tip == NewTip(n, b, head)
              inverse == Height[tip] - Height[b]
              m2 == attempt_attach_valid(n, b, head)
              m3 == write_orphan(m2, b, IF head = NoBlock THEN "ValidChainTip"
                                        ELSE "BelongsToValidChain", inverse)
          IN IF ~attempt_attach_validOk(n, b, head) \/ ~RaiseInverseOk(m3, {tip}) THEN Panic
             ELSE SwitchTo(recurse_inverse(m3, tip, inverse, inverse = 0), tip)
    BY <1>2 DEF AppendOnValidBranch
<1>6. /\ attempt_attach_validOk(n, b, head) /\ NewTip(n, b, head) \in Block
      /\ head = NoBlock => NewTip(n, b, head) = b
      /\ head # NoBlock => /\ head \in Heads(mem) /\ Parent[head] = b /\ NewTip(n, b, head) \in Tips(mem, head)
                           /\ Height[NewTip(n, b, head)] > Height[b]
    BY <1>1, <1>3, AttachValidFine, SMTT(30)
<1>7. PICK q \in Memory : /\ q = attempt_attach_valid(n, b, head) /\ Joined(mem, n, q, home, b, head)
                          /\ q.max_orphan_height = n.max_orphan_height
    BY <1>1, <1>3, AttachValidJoins, SMTT(30)
<1>8. head \in Block \cup {NoBlock} /\ NoBlock \notin Heads(mem)
    <2>1. Heads(mem) \subseteq Block
        BY <1>1, MapValue, SMTT(30) DEF Memory, Heads
    <2> QED
        BY <1>6, <2>1, GenesisAssumption
<1>9. PICK tip \in Block : tip = NewTip(n, b, head)
    BY <1>6
<1>10. PICK inverse \in Nat : inverse = Height[tip] - Height[b] /\ (inverse = 0 <=> head = NoBlock)
    BY <1>6, <1>9, HeightAssumption, SMTT(30)
<1>11. PICK type \in {"ValidChainTip", "BelongsToValidChain"} :
          type = IF head = NoBlock THEN "ValidChainTip" ELSE "BelongsToValidChain"
    OBVIOUS
<1>12. PICK v \in Memory : v = write_orphan(q, b, type, inverse) /\ WritesOrphan(q, v, b, type)
    <2>1. type \in OrphanType
        BY DEF OrphanType
    <2>2. write_orphan(q, b, type, inverse) \in Memory
        BY <2>1, WriteOrphanType
    <2> QED
        BY <2>2, WriteOrphanAt
<1>13. PICK n2 \in Memory : WritesOrphan(n, n2, b, "ValidChainTip")
    <2>1. write_orphan(n, b, "ValidChainTip", 0) \in Memory
        BY WriteOrphanType DEF OrphanType
    <2> QED
        BY <2>1, WriteOrphanAt
<1>14. Ready(mem, n2, b) /\ Joined(mem, n2, v, home, b, head) /\ b \in n2.orphan_pool
    <2>1. /\ b \notin mem.orphan_pool /\ n.orphan_pool = mem.orphan_pool /\ mem \in Memory
          /\ Ready(mem, n, b) /\ Joined(mem, n, q, home, b, head)
          /\ WritesOrphan(n, n2, b, "ValidChainTip") /\ WritesOrphan(q, v, b, type)
        BY <1>1, <1>2, <1>3, <1>7, <1>12, <1>13
    <2>2. Ready(mem, n2, b) /\ Joined(mem, n2, v, home, b, head)
        BY <2>1, JoinedWritten
    <2> QED
        BY <1>13, <2>2 DEF WritesOrphan
<1>15. RaiseInverseOk(v, {tip})
    BY <1>14, WalksStayInPool, SMTT(30) DEF RaiseInverseOk, Joined, Ready
<1>16. SwitchTo(recurse_inverse(v, tip, inverse, inverse = 0), tip)
    BY <1>4, <1>6, <1>7, <1>9, <1>10, <1>11, <1>12, <1>15
<1>17. PICK r \in Memory :
          /\ r = recurse_inverse(v, tip, inverse, inverse = 0) /\ Joined(mem, n2, r, home, b, head)
          /\ r.max_orphan_height = v.max_orphan_height
    <2>1. PICK r \in Memory : r = recurse_inverse(v, tip, inverse, inverse = 0)
        BY RecurseInverseType
    <2>2. CASE head = NoBlock
        <3>1. r = recurse_inverse(v, tip, inverse, TRUE) /\ tip = b
            BY <1>6, <1>9, <1>10, <2>1, <2>2, RecurseWhen
        <3>2. OnlyMarks(v, r, MarkedValid(v, b))
            BY <3>1, RecurseInverseAt
        <3>3. Attaching(mem, db, home, inner, b, n2, head) /\ MayBeTip(mem, b, head, b)
            BY <1>1, <1>14, <1>6, <1>8 DEF Attaching, MayBeTip
        <3>4. Joined(mem, n2, r, home, b, head)
            BY <1>1, <1>14, <3>2, <3>3, JoinedMarked
        <3> QED
            BY <2>1, <3>2, <3>4 DEF OnlyMarks
    <2>3. CASE head # NoBlock
        <3>1. r = recurse_inverse(v, tip, inverse, FALSE)
            BY <1>10, <2>1, <2>3, RecurseWhen
        <3>2. OnlyMarks(v, r, v.validations_mapping)
            BY <3>1, RecurseInverseAt
        <3>3. Joined(mem, n2, r, home, b, head)
            BY <1>14, <3>2, JoinedSame
        <3> QED
            BY <2>1, <3>2, <3>3 DEF OnlyMarks
    <2> QED
        BY <2>2, <2>3
<1>18. GrowsValid(mem, r, home, b, head)
    BY <1>1, <1>14, <1>17, JoinedGrows DEF SameChains
<1>19. r.max_orphan_height = MaxWith(b)
    BY <1>2, <1>7, <1>12, <1>17 DEF WritesOrphan, MaxWith
<1>20. tip \in r.valid_tips
    BY <1>6, <1>9, <1>14, <1>17 DEF Joined, Ready
<1>21. \A c \in r.orphan_pool : Parent[c] # tip
    <2>1. \A c \in mem.orphan_pool \cup {b} : Parent[c] # NewTip(n, b, head)
        BY <1>1, <1>3, TipIsLeaf
    <2> QED
        BY <1>9, <1>14, <1>17, <2>1, SMTT(90) DEF Joined, Ready
<1> QED
    BY <1>6, <1>8, <1>16, <1>17, <1>18, <1>19, <1>20, <1>21 DEF Grown

-----------------------------------------------------------------------------
(***************************************************************************)
(* The inductive invariant.  WriteBlock, rewind and process_orphans work   *)
(* on links that are complete at every step: a block leaves the chain it   *)
(* belongs to in the same step in which it leaves the pool.                *)
(***************************************************************************)

\* The orphans are linked, for some home and inner.
Linked == \E home, inner : Links(mem, db \ mem.orphan_pool, home, inner)

\* No orphan follows b.
NoOrphanOf(x) == \A o \in mem.orphan_pool : Parent[o] # x

\* The locals of process_orphans: the previous tips are valid orphans below the
\* height it works on, the rest of buf follows stored blocks, and the block that
\* is written is in neither.
Processing ==
    /\ \A p \in orphans.prev : p \in mem.orphan_pool /\ IsValid(mem, p)
    /\ \A o \in orphans.buf : o \in mem.orphan_pool /\ Parent[o] \in db
    /\ pc \in {"write", "height"} => Head(to_write) \notin orphans.prev \cup orphans.buf
    /\ pc = "orphans" => orphans.done \/ \A p \in orphans.prev : Height[p] < orphans.h
    /\ pc \in {"write", "height", "rest"} =>
          \A p \in orphans.prev \cup orphans.buf : Height[p] <= orphans.h

\* process_orphans looks at the height after the tip first, and goes on to a
\* higher one only when no orphan follows the tip.
Rounds ==
    /\ pc = "process" => /\ orphans.h = Height[canonical_tip] + 1 /\ ~orphans.done
                         /\ orphans.prev = {} /\ orphans.buf = {}
    /\ pc = "orphans" => /\ orphans.done => NoOrphanOf(canonical_tip)
                         /\ \/ orphans.h = Height[canonical_tip] + 1
                            \/ orphans.h > Height[canonical_tip] + 1 /\ NoOrphanOf(canonical_tip)
    /\ pc = "rest" => orphans.h = Height[canonical_tip] /\ ~orphans.done
    /\ pc \in {"orphans", "rest"} => orphans.max # NoHeight
    /\ pc \in {"write", "height"} /\ orphans # NoOrphans =>
          /\ ~orphans.done
          /\ orphans.max = NoHeight => /\ orphans.h = Height[Head(to_write)] + 1
                                       /\ orphans.prev = {} /\ orphans.buf = {}
          /\ orphans.max # NoHeight => orphans.h = Height[Head(to_write)]

\* Between two appends no orphan follows the tip, and none follows the tip that
\* a switch leads to: the orphan would have been written.
Settled ==
    /\ pc \in {"idle", "switch"} => NoOrphanOf(canonical_tip)
    /\ pc = "switch" => candidate \in mem.valid_tips /\ NoOrphanOf(candidate)
    /\ Switching => to_write # <<>> /\ NoOrphanOf(to_write[Len(to_write)])

\* An orphan above the canonical height is not above the greatest orphan height,
\* where process_orphans stops.
InReach ==
    /\ \A o \in mem.orphan_pool : Height[o] > height => Height[o] <= mem.max_orphan_height
    /\ orphans.max # NoHeight =>
          \A o \in mem.orphan_pool : Height[o] > height => Height[o] <= orphans.max
    /\ pc = "rewound" \/ (pc = "rewind" /\ inverse_height > 0) => mem.max_orphan_height >= height

\* The blocks to write are a path that starts at the tip, or at the block the
\* chain is rewound to, which is stored.
OnPath ==
    /\ pc = "height" => height = dbHeight /\ canonical_tip = Head(to_write)
    /\ pc = "rewind" => horizon \in db /\ horizon # cursor
    /\ pc \in {"rewind", "rewound"} => Parent[to_write[1]] = horizon
    /\ pc = "write" => Parent[to_write[1]] = canonical_tip
    /\ \A i \in 1 .. Len(to_write) - 1 : Parent[to_write[i + 1]] = to_write[i]

\* The inductive invariant.
LinkInv ==
    /\ pc # "panic"
    /\ Linked /\ Processing /\ Rounds /\ Settled /\ InReach /\ OnPath

\* What the other proofs know of every state.
KnownInv == StoreInv /\ PoolInv /\ HeightInv /\ SwitchInv

-----------------------------------------------------------------------------
(***************************************************************************)
(* Every step keeps the links.                                             *)
(***************************************************************************)

\* The same in the terms of the pool and the db.
LEMMA BaseFacts ==
    ASSUME KnownInv, LinkInv
    PROVE  /\ mem \in Memory /\ mem.orphan_pool \subseteq Block /\ db \subseteq Block
           /\ pc # "height" => mem.orphan_pool \cap db = {}
           /\ pc = "height" => /\ mem.orphan_pool \cap db \subseteq {canonical_tip}
                              /\ canonical_tip \in db \cap Block /\ to_write # <<>>
                              /\ canonical_tip = Head(to_write)
           /\ pc \notin {"rewind", "rewound"} =>
                 canonical_tip \in db \cup {Genesis} /\ \A c \in db : Parent[c] # canonical_tip
           /\ \A c \in db : Parent[c] \in db \cup {Genesis} /\ Parent[c] # c
           /\ \A c \in Block : Parent[c] # c
<1>1. mem \in Memory /\ db \subseteq Block /\ mem.orphan_pool \subseteq Block
    BY DEF KnownInv, StoreInv, TypeInv, Memory
<1>2. /\ pc # "height" => mem.orphan_pool \cap db = {}
      /\ pc = "height" => /\ mem.orphan_pool \cap db \subseteq {canonical_tip}
                         /\ canonical_tip \in db /\ to_write # <<>> /\ canonical_tip = Head(to_write)
    BY DEF KnownInv, StoreInv, TypeInv, PoolInv, LinkInv, OnPath
<1>3. pc \notin {"rewind", "rewound"} => Top = canonical_tip
    BY DEF KnownInv, StoreInv, RewindState, Top, LinkInv
<1>4. /\ pc \notin {"rewind", "rewound"} =>
                 canonical_tip \in db \cup {Genesis} /\ \A c \in db : Parent[c] # canonical_tip
      /\ \A c \in db : Parent[c] \in db \cup {Genesis}
    BY <1>3 DEF KnownInv, StoreInv, CanonicalChain, Store!CanonicalChain, Store!Closed, Store!TopIsLast
<1>5. \A c \in Block : Parent[c] # c
    BY AcyclicAssumption, FirstAncestor
<1> QED
    BY <1>1, <1>2, <1>4, <1>5

\* write_block stores the block: it follows the tip, and is an orphan until the
\* height is stored, or was none.
LEMMA StoreLinks ==
    ASSUME WellFormedHeights, KnownInv, LinkInv, WriteBlockStore PROVE LinkInv'
<1>1. PICK b \in Block : b = Head(to_write) /\ b = to_write[1]
    BY SMTT(30) DEF KnownInv, StoreInv, TypeInv, WriteBlockStore
<1>2. Parent[b] = canonical_tip /\ pc = "write"
    BY <1>1 DEF LinkInv, OnPath, WriteBlockStore
<1>3. /\ db' = db \cup {b} /\ canonical_tip' = b /\ pc' = "height"
      /\ UNCHANGED <<dbHeight, height, mem, to_write, switchVars, orphans>>
    BY <1>1, <1>2 DEF WriteBlockStore
<1>4. Linked'
    <2>1. PICK home, inner : Links(mem, db \ mem.orphan_pool, home, inner)
        BY DEF LinkInv, Linked
    <2>2. CASE b \in mem.orphan_pool
        <3>1. db' \ mem'.orphan_pool = db \ mem.orphan_pool
            BY <1>3, <2>2
        <3> QED
            BY <1>3, <2>1, <3>1 DEF Linked
    <2>3. CASE b \notin mem.orphan_pool
        <3>1. db' \ mem'.orphan_pool = (db \ mem.orphan_pool) \cup {b} /\ mem \in Memory
            BY <1>3, <2>3, BaseFacts
        <3>2. Links(mem, (db \ mem.orphan_pool) \cup {b}, home, inner)
            BY <2>1, <2>3, <3>1, LinksStored
        <3> QED
            BY <1>3, <3>1, <3>2 DEF Linked
    <2> QED
        BY <2>2, <2>3
<1>5. Processing'
    BY <1>2, <1>3 DEF LinkInv, Processing, IsValid
<1>6. Rounds'
    BY <1>2, <1>3 DEF LinkInv, Rounds
<1>7. Settled'
    BY <1>2, <1>3 DEF LinkInv, Settled, NoOrphanOf, Switching
<1>8. InReach'
    BY <1>2, <1>3 DEF LinkInv, InReach
<1>9. OnPath'
    BY <1>1, <1>2, <1>3 DEF LinkInv, OnPath, KnownInv, HeightInv
<1> QED
    BY <1>3, <1>4, <1>5, <1>6, <1>7, <1>8, <1>9 DEF LinkInv

\* write_block stores the height: the block leaves the pool, and what hung on it
\* is a valid chain.
LEMMA LeavesPool ==
    ASSUME WellFormedHeights, KnownInv, LinkInv, NEW b \in Block, pc = "height", b = Head(to_write),
           NEW n \in Memory, n = MemoryAfterWrite(mem, b)
    PROVE  /\ \E home, inner : Links(n, db \ n.orphan_pool, home, inner)
           /\ n.orphan_pool = mem.orphan_pool \ {b} /\ n.max_orphan_height = MaxAfterWrite(mem, b)
           /\ \A x \in n.orphan_pool : IsValid(mem, x) => IsValid(n, x)
<1>1. PICK home, inner : Links(mem, db \ mem.orphan_pool, home, inner)
    BY DEF LinkInv, Linked
<1>2. /\ mem \in Memory /\ b \in db /\ Parent[b] # b /\ Parent[b] \in db \cup {Genesis}
      /\ mem.orphan_pool \cap db \subseteq {b} /\ mem.orphan_pool \subseteq Block
    BY BaseFacts
<1>3. Parent[b] \notin mem.orphan_pool
    BY <1>2, GenesisAssumption
<1>4. Writes(mem, n, b, WrittenTips(mem, b), WrittenParents(mem, b))
    BY <1>2, AfterWriteIs
<1>5. n.orphan_pool = mem.orphan_pool \ {b} /\ n.max_orphan_height = MaxAfterWrite(mem, b)
    BY <1>4 DEF Writes
<1>6. mem.orphan_pool \subseteq DOMAIN mem.validations_mapping
    BY <1>1 DEF Links, HeadsLinked
<1>7. \A x \in n.orphan_pool : IsValid(mem, x) => IsValid(n, x)
    BY <1>4, <1>5, <1>6 DEF Writes, IsValid
<1>8. CASE b \in mem.orphan_pool
    <2>1. Leaves(mem, n, home, b)
        BY <1>1, <1>2, <1>3, <1>8, WriteLeaves
    <2>2. \E home2, inner2 : Links(n, (db \ mem.orphan_pool) \cup {b}, home2, inner2)
        BY <1>1, <1>2, <1>3, <1>8, <2>1, LinksLeave
    <2>3. db \ n.orphan_pool = (db \ mem.orphan_pool) \cup {b}
        BY <1>2, <1>5
    <2> QED
        BY <1>5, <1>7, <2>2, <2>3, SMTT(30)
<1>9. CASE b \notin mem.orphan_pool
    <2>1. Links(n, db \ mem.orphan_pool, home, inner)
        BY <1>1, <1>2, <1>9, WriteKeeps
    <2>2. db \ n.orphan_pool = db \ mem.orphan_pool
        BY <1>5, <1>9
    <2> QED
        BY <1>5, <1>7, <2>1, <2>2
<1> QED
    BY <1>8, <1>9

\* Then the next block of a switch is written, the switch is over, or orphans are
\* processed.
LEMMA HeightLinks ==
    ASSUME WellFormedHeights, KnownInv, LinkInv, WriteBlockHeight PROVE LinkInv'
<1>1. /\ pc = "height" /\ to_write # <<>> /\ to_write \in Seq(Block) /\ orphans \in OrphansRecord
      /\ height \in Nat /\ dbHeight \in Nat /\ mem \in Memory
    BY DEF KnownInv, StoreInv, TypeInv, WriteBlockHeight
<1>2. PICK b \in Block : b = Head(to_write) /\ b = to_write[1] /\ canonical_tip = b
    BY <1>1, SMTT(30) DEF LinkInv, OnPath
<1>3. write_blockOk(mem, b)
    <2>1. PICK home, inner : Links(mem, db \ mem.orphan_pool, home, inner)
        BY DEF LinkInv, Linked
    <2> QED
        BY <1>1, <2>1, WriteBlockFine
<1>4. PICK n \in Memory : n = MemoryAfterWrite(mem, b)
    BY <1>1, <1>2, AfterWriteType
<1>5. /\ dbHeight' = dbHeight + 1 /\ height' = dbHeight + 1 /\ mem' = n /\ to_write' = Tail(to_write)
      /\ pc' = AfterWrite /\ UNCHANGED <<db, canonical_tip, switchVars, orphans>>
    BY <1>2, <1>3, <1>4 DEF WriteBlockHeight
<1>6. /\ \E home, inner : Links(n, db \ n.orphan_pool, home, inner)
      /\ n.orphan_pool = mem.orphan_pool \ {b} /\ n.max_orphan_height = MaxAfterWrite(mem, b)
      /\ \A x \in n.orphan_pool : IsValid(mem, x) => IsValid(n, x)
    BY <1>1, <1>2, <1>4, LeavesPool
<1>7. Linked'
    BY <1>5, <1>6 DEF Linked
<1>8. \/ /\ pc' = "write" /\ Len(to_write) > 1 /\ orphans = NoOrphans
      \/ /\ pc' = "idle" /\ Len(to_write) = 1 /\ orphans = NoOrphans
      \/ /\ pc' \in {"process", "rest"} /\ Len(to_write) = 1 /\ orphans # NoOrphans
         /\ pc' = "process" <=> orphans.max = NoHeight
    <2>1. Len(to_write) \in Nat /\ Len(to_write) >= 1
        BY <1>1, SMTT(30)
    <2>2. orphans # NoOrphans => Len(to_write) = 1
        BY <1>1 DEF KnownInv, SwitchInv, OrphansRun
    <2>3. CASE Len(to_write) > 1
        BY <1>5, <2>2, <2>3, SMTT(30) DEF AfterWrite
    <2>4. CASE ~(Len(to_write) > 1)
        <3>1. Len(to_write) = 1
            <4>1. PICK k \in Nat : k = Len(to_write)
                BY <2>1
            <4>2. k >= 1 /\ ~(k > 1)
                BY <2>1, <2>4, <4>1
            <4> QED
                BY <4>1, <4>2, SMTT(30)
        <3> QED
            BY <1>5, <2>4, <3>1 DEF AfterWrite
    <2> QED
        BY <2>3, <2>4
<1>9. orphans = NoOrphans => orphans.prev = {} /\ orphans.buf = {} /\ orphans.max = NoHeight
    BY SMTT(30) DEF NoOrphans
<1>10. Processing'
    <2>1. /\ \A p \in orphans.prev : p \in n.orphan_pool /\ IsValid(n, p)
          /\ \A o \in orphans.buf : o \in n.orphan_pool /\ Parent[o] \in db
        BY <1>1, <1>2, <1>6 DEF LinkInv, Processing
    <2>2. pc' = "rest" => \A p \in orphans.prev \cup orphans.buf : Height[p] <= orphans.h
        BY <1>1 DEF LinkInv, Processing
    <2> QED
        BY <1>5, <1>8, <1>9, <2>1, <2>2 DEF Processing, IsValid
<1>11. Rounds'
    BY <1>1, <1>2, <1>5, <1>8 DEF LinkInv, Rounds
<1>12. Settled'
    <2>1. pc' = "idle" => NoOrphanOf(b) /\ orphans = NoOrphans
        BY <1>1, <1>2, <1>8 DEF LinkInv, Settled, Switching
    <2>2. pc' = "write" => /\ to_write' # <<>> /\ to_write'[Len(to_write')] = to_write[Len(to_write)]
        <3>1. /\ Len(to_write') = Len(to_write) - 1 /\ Len(to_write) \in Nat
              /\ \A i \in 1 .. Len(to_write) - 1 : to_write'[i] = to_write[i + 1]
            BY <1>1, <1>5, SMTT(30)
        <3>2. CASE Len(to_write) > 1
            <4>1. PICK k \in Nat : k = Len(to_write) - 1 /\ k >= 1 /\ Len(to_write) = k + 1
                BY <3>1, <3>2, SMTT(30)
            <4>2. to_write'[k] = to_write[k + 1]
                BY <3>1, <4>1, SMTT(30)
            <4> QED
                BY <3>1, <4>1, <4>2, SMTT(30)
        <3> QED
            BY <1>8, <3>1, <3>2
    <2>3. pc' = "write" => NoOrphanOf(to_write[Len(to_write)])
        BY <1>1, <1>8 DEF LinkInv, Settled, Switching
    <2> QED
        BY <1>2, <1>5, <1>6, <1>8, <2>1, <2>2, <2>3 DEF Settled, NoOrphanOf, Switching
<1>13. InReach'
    <2>1. height' = height + 1 /\ height' = Height[b]
        BY <1>1, <1>2, <1>5 DEF LinkInv, OnPath, KnownInv, HeightInv
    <2>2. n.orphan_pool \subseteq Block /\ mem.max_orphan_height \in Int /\ \A o \in Block : Height[o] \in Nat
        BY <1>1, <1>6, HeightAssumption, SMTT(30) DEF Memory, NoHeight
    <2>3. \A o \in n.orphan_pool : Height[o] > height' => Height[o] <= n.max_orphan_height
        BY <1>1, <1>2, <1>6, <2>1, <2>2, SMTT(30) DEF LinkInv, InReach, MaxAfterWrite
    <2>4. orphans.max # NoHeight => \A o \in n.orphan_pool : Height[o] > height' => Height[o] <= orphans.max
        BY <1>1, <1>6, <2>1, <2>2, SMTT(30) DEF LinkInv, InReach
    <2> QED
        BY <1>5, <1>8, <2>3, <2>4 DEF InReach
<1>14. OnPath'
    <2>1. \A i \in 1 .. Len(to_write) - 1 : Parent[to_write[i + 1]] = to_write[i]
        BY DEF LinkInv, OnPath
    <2>2. /\ Len(to_write') = Len(to_write) - 1
          /\ \A i \in 1 .. Len(to_write') : to_write'[i] = to_write[i + 1]
        BY <1>1, <1>5, SMTT(30)
    <2>3. \A i \in 1 .. Len(to_write') - 1 : Parent[to_write'[i + 1]] = to_write'[i]
        BY <1>1, <2>1, <2>2, SMTT(30)
    <2>4. pc' = "write" => Parent[to_write'[1]] = canonical_tip
        BY <1>1, <1>2, <1>8, <2>1, <2>2, SMTT(30)
    <2> QED
        BY <1>5, <1>8, <2>3, <2>4 DEF OnPath
<1> QED
    BY <1>5, <1>7, <1>8, <1>10, <1>11, <1>12, <1>13, <1>14 DEF LinkInv

\* An orphan that follows the tip has the next height.
LEMMA FollowersHeight ==
    ASSUME WellFormedHeights, KnownInv, LinkInv, pc \in {"process", "orphans", "rest"}
    PROVE  /\ canonical_tip \in db /\ height = Height[canonical_tip] /\ height \in Nat
           /\ \A o \in mem.orphan_pool :
                 /\ o \in Block /\ Height[o] \in Nat
                 /\ Parent[o] = canonical_tip => Height[o] = Height[canonical_tip] + 1
<1>1. canonical_tip # Genesis
    BY DEF KnownInv, SwitchInv, TipHeight
<1>2. canonical_tip \in db /\ db \subseteq Block /\ mem.orphan_pool \subseteq Block
    BY <1>1, BaseFacts
<1>3. height = Height[canonical_tip]
    BY DEF KnownInv, HeightInv
<1> QED
    BY <1>2, <1>3, HeightAssumption DEF WellFormedHeights

\* process_orphans ends when no orphan follows the tip.
LEMMA StopLinks ==
    ASSUME KnownInv, LinkInv, pc \in {"process", "orphans"}, NoOrphanOf(canonical_tip), ProcessStop
    PROVE  LinkInv'
<1>1. /\ pc' = "idle" /\ orphans' = NoOrphans
      /\ UNCHANGED <<db, dbHeight, height, canonical_tip, mem, to_write, switchVars>>
    BY DEF ProcessStop, ledgerVars
<1>2. NoOrphans.prev = {} /\ NoOrphans.buf = {} /\ NoOrphans.max = NoHeight
    BY DEF NoOrphans
<1>3. Linked'
    BY <1>1 DEF LinkInv, Linked
<1>4. Processing' /\ Rounds'
    BY <1>1, <1>2 DEF Processing, Rounds
<1>5. Settled'
    BY <1>1 DEF Settled, Switching, NoOrphanOf
<1>6. InReach'
    BY <1>1, <1>2 DEF LinkInv, InReach
<1>7. OnPath'
    BY <1>1 DEF LinkInv, OnPath
<1> QED
    BY <1>1, <1>3, <1>4, <1>5, <1>6, <1>7 DEF LinkInv

\* process_orphans begins, unless the pool has no orphan above the tip.
LEMMA StartLinks ==
    ASSUME WellFormedHeights, KnownInv, LinkInv, ProcessStart PROVE LinkInv'
<1>1. pc = "process" /\ mem.max_orphan_height \in Nat \cup {NoHeight} /\ orphans \in OrphansRecord
    BY DEF ProcessStart, KnownInv, StoreInv, TypeInv, Memory
<1>2. CASE mem.max_orphan_height = NoHeight
    <2>1. NoOrphanOf(canonical_tip)
        BY <1>1, <1>2, FollowersHeight, SMTT(30) DEF NoOrphanOf, LinkInv, InReach, NoHeight
    <2> QED
        BY <1>1, <1>2, <2>1, StopLinks DEF ProcessStart
<1>3. CASE mem.max_orphan_height # NoHeight
    <2>1. /\ pc' = "orphans" /\ orphans' = [orphans EXCEPT !.max = mem.max_orphan_height]
          /\ UNCHANGED <<db, dbHeight, height, canonical_tip, mem, to_write, switchVars>>
        BY <1>3 DEF ProcessStart, ledgerVars
    <2>2. /\ orphans'.h = orphans.h /\ orphans'.done = orphans.done /\ orphans'.prev = orphans.prev
          /\ orphans'.buf = orphans.buf /\ orphans'.max = mem.max_orphan_height
        BY <1>1, <2>1 DEF OrphansRecord
    <2>3. /\ orphans.h = Height[canonical_tip] + 1 /\ ~orphans.done
          /\ orphans.prev = {} /\ orphans.buf = {}
        BY <1>1 DEF LinkInv, Rounds
    <2>4. Linked'
        BY <2>1 DEF LinkInv, Linked
    <2>5. Processing' /\ Rounds'
        BY <1>3, <2>1, <2>2, <2>3 DEF Processing, Rounds
    <2>6. Settled'
        BY <2>1 DEF Settled, Switching
    <2>7. InReach'
        BY <2>1, <2>2 DEF LinkInv, InReach
    <2>8. OnPath'
        BY <2>1 DEF LinkInv, OnPath
    <2> QED
        BY <2>1, <2>4, <2>5, <2>6, <2>7, <2>8 DEF LinkInv
<1> QED
    BY <1>2, <1>3

\* Between two blocks, process_orphans goes on to the next height or remembers that
\* it looks at no more than one: no orphan follows the tip.
GoesOn(h) ==
    /\ pc = "orphans" /\ pc' = "orphans" /\ NoOrphanOf(canonical_tip)
    /\ UNCHANGED <<db, dbHeight, height, canonical_tip, mem, to_write, switchVars>>
    /\ h >= orphans.h /\ orphans' = [orphans EXCEPT !.h = h, !.done = orphans'.done]
    /\ orphans'.done \in BOOLEAN /\ (~orphans'.done => ~orphans.done)

\* The next height, with the same links.
LEMMA GoOnLinks ==
    ASSUME KnownInv, LinkInv, NEW h \in Nat, GoesOn(h)
    PROVE  LinkInv'
<1> USE DEF GoesOn
<1>1. orphans \in OrphansRecord
    BY DEF KnownInv, StoreInv, TypeInv
<1>2. /\ orphans'.h = h /\ orphans'.prev = orphans.prev
      /\ orphans'.buf = orphans.buf /\ orphans'.max = orphans.max
    BY <1>1 DEF OrphansRecord
<1>3. Linked'
    BY DEF LinkInv, Linked
<1>4. Processing'
    <2>1. ~orphans'.done => \A p \in orphans.prev : Height[p] < h
        <3>1. \A p \in orphans.prev : p \in Block /\ Height[p] \in Nat
            BY <1>1, HeightAssumption DEF OrphansRecord
        <3> QED
            BY <1>1, <3>1, SMTT(30) DEF LinkInv, Processing, OrphansRecord
    <2> QED
        BY <1>2, <2>1 DEF LinkInv, Processing, IsValid
<1>5. Rounds'
    <2>1. canonical_tip \in Block \cup {Genesis}
        BY DEF KnownInv, StoreInv, TypeInv
    <2>2. h = Height[canonical_tip] + 1 \/ h > Height[canonical_tip] + 1
        BY <1>1, <2>1, HeightAssumption, SMTT(30) DEF LinkInv, Rounds, OrphansRecord
    <2> QED
        BY <1>2, <2>2 DEF LinkInv, Rounds, NoOrphanOf
<1>6. Settled'
    BY DEF Settled, Switching
<1>7. InReach'
    BY <1>2 DEF LinkInv, InReach
<1>8. OnPath'
    BY DEF LinkInv, OnPath
<1> QED
    BY <1>3, <1>4, <1>5, <1>6, <1>7, <1>8 DEF LinkInv

\* Nothing is filed under the height that process_orphans looks at, or it is past
\* the greatest orphan height.
LEMMA EmptyLinks ==
    ASSUME WellFormedHeights, KnownInv, LinkInv, ProcessPastMax \/ ProcessMissing \/ ProcessEmpty
    PROVE  LinkInv'
<1>1. pc = "orphans" /\ orphans \in OrphansRecord
    BY DEF KnownInv, StoreInv, TypeInv, ProcessPastMax, ProcessMissing, ProcessEmpty
<1>2. Filed(mem)
    BY DEF KnownInv, PoolInv
<1>3. \A o \in mem.orphan_pool : Parent[o] = canonical_tip => Height[o] # orphans.h
    <2>1. CASE ProcessPastMax
        <3>2. orphans.max # NoHeight
            BY <1>1 DEF LinkInv, Rounds
        <3> QED
            BY <1>1, <2>1, <3>2, FollowersHeight, SMTT(30) DEF LinkInv, InReach, ProcessPastMax, OrphansRecord
    <2>2. CASE ProcessMissing
        BY <1>2, <2>2 DEF ProcessMissing, Filed
    <2>3. CASE ProcessEmpty
        BY <1>2, <2>3 DEF ProcessEmpty, Filed, OrphansAt
    <2> QED
        BY <2>1, <2>2, <2>3
<1>4. NoOrphanOf(canonical_tip)
    BY <1>1, <1>3, FollowersHeight DEF NoOrphanOf, LinkInv, Rounds
<1>5. CASE ProcessStop
    BY <1>1, <1>4, <1>5, StopLinks
<1>6. CASE ~ProcessStop
    <2>1. /\ pc' = "orphans"
          /\ UNCHANGED <<db, dbHeight, height, canonical_tip, mem, to_write, switchVars>>
          /\ \/ orphans' = [orphans EXCEPT !.h = @ + 1]
             \/ orphans' = [orphans EXCEPT !.done = TRUE, !.h = @ + 1]
        BY <1>1, <1>6 DEF ProcessPastMax, ProcessMissing, ProcessEmpty, ledgerVars
    <2>2. PICK h \in Nat : h = orphans.h + 1
        BY <1>1, SMTT(30) DEF OrphansRecord
    <2>3. orphans' = [orphans EXCEPT !.h = h, !.done = orphans'.done] /\ orphans'.done \in BOOLEAN
          /\ (~orphans'.done => ~orphans.done)
        BY <1>1, <2>1, <2>2 DEF OrphansRecord
    <2>4. h >= orphans.h
        BY <1>1, <2>2, SMTT(30) DEF OrphansRecord
    <2>5. GoesOn(h)
        BY <1>1, <1>4, <2>1, <2>3, <2>4 DEF GoesOn
    <2> QED
        BY <2>5, GoOnLinks
<1> QED
    BY <1>5, <1>6

\* process_orphans writes the orphan w, which follows the tip.
Picks(w, prev, buf) ==
    /\ pc = "orphans" /\ pc' = "write" /\ ~orphans.done
    /\ UNCHANGED <<db, dbHeight, height, canonical_tip, switchVars>>
    /\ mem'.orphan_pool = mem.orphan_pool /\ mem'.max_orphan_height = mem.max_orphan_height
    /\ to_write' = <<w>> /\ w \in mem.orphan_pool /\ Parent[w] = canonical_tip /\ Height[w] = orphans.h
    /\ orphans' = [orphans EXCEPT !.prev = prev, !.buf = buf]
    /\ \A p \in prev : p \in mem.orphan_pool /\ IsValid(mem', p) /\ Height[p] <= orphans.h /\ p # w
    /\ \A o \in buf : o \in mem.orphan_pool /\ Parent[o] \in db /\ Height[o] <= orphans.h /\ o # w

\* The links are what they were, or were extended by marks.
LEMMA PickLinks ==
    ASSUME KnownInv, LinkInv, NEW w, NEW prev, NEW buf, Picks(w, prev, buf), Linked'
    PROVE  LinkInv'
<1> USE DEF Picks
<1>1. orphans \in OrphansRecord /\ orphans.h > 0 /\ orphans.max # NoHeight
    BY DEF KnownInv, StoreInv, TypeInv, SwitchInv, OrphansRun, LinkInv, Rounds
<1>2. /\ orphans'.h = orphans.h /\ orphans'.done = orphans.done /\ orphans'.max = orphans.max
      /\ orphans'.prev = prev /\ orphans'.buf = buf
    BY <1>1 DEF OrphansRecord
<1>3. orphans' # NoOrphans
    BY <1>1, <1>2 DEF NoOrphans, OrphansRecord
<1>4. to_write'[1] = w /\ Head(to_write') = w /\ Len(to_write') = 1
    BY SMTT(30)
<1>5. Processing'
    BY <1>2, <1>4 DEF Processing, IsValid
<1>6. Rounds'
    BY <1>1, <1>2, <1>4 DEF Rounds
<1>7. Settled'
    BY <1>3 DEF Settled, Switching
<1>8. InReach'
    BY <1>2 DEF LinkInv, InReach
<1>9. OnPath'
    BY <1>4, SMTT(30) DEF OnPath
<1> QED
    BY <1>5, <1>6, <1>7, <1>8, <1>9 DEF LinkInv

\* One orphan has the height: it is written if it follows the tip.
LEMMA SingleLinks ==
    ASSUME WellFormedHeights, KnownInv, LinkInv, ProcessSingle PROVE LinkInv'
<1>1. pc = "orphans" /\ orphans \in OrphansRecord /\ Filed(mem)
    BY DEF KnownInv, StoreInv, TypeInv, PoolInv, ProcessSingle
<1>2. PICK o \in OrphansAt(orphans.h) :
          /\ OrphansAt(orphans.h) = {o}
          /\ IF o \notin mem.orphan_pool THEN Panic
             ELSE IF Parent[o] = canonical_tip /\ ~orphans.done
             THEN /\ pc' = "write" /\ to_write' = <<o>>
                  /\ orphans' = [orphans EXCEPT !.buf = {}]
                  /\ UNCHANGED <<ledgerVars, mem, switchVars>>
             ELSE ProcessStop
    BY DEF ProcessSingle
<1>3. o \in mem.orphan_pool /\ Height[o] = orphans.h
    BY <1>1 DEF OrphansAt, Filed
<1>4. CASE Parent[o] = canonical_tip /\ ~orphans.done
    <2>1. /\ pc' = "write" /\ to_write' = <<o>> /\ orphans' = [orphans EXCEPT !.buf = {}]
          /\ UNCHANGED <<db, dbHeight, height, canonical_tip, mem, switchVars>>
        BY <1>2, <1>3, <1>4 DEF ledgerVars
    <2>2. \A p \in orphans.prev : p \in mem.orphan_pool /\ IsValid(mem, p) /\ Height[p] < orphans.h
        BY <1>1, <1>4 DEF LinkInv, Processing
    <2>3. \A p \in orphans.prev : Height[p] \in Nat
        BY <1>1, HeightAssumption DEF OrphansRecord
    <2>4. orphans' = [orphans EXCEPT !.prev = orphans.prev, !.buf = {}] /\ orphans.h \in Nat
        BY <1>1, <2>1 DEF OrphansRecord
    <2>5. Picks(o, orphans.prev, {})
        <3>1. \A p \in orphans.prev :
                 p \in mem.orphan_pool /\ IsValid(mem', p) /\ Height[p] <= orphans.h /\ p # o
            BY <1>3, <2>1, <2>2, <2>3, <2>4, SMTT(30)
        <3>2. mem'.orphan_pool = mem.orphan_pool /\ mem'.max_orphan_height = mem.max_orphan_height
            BY <2>1
        <3> QED
            BY <1>1, <1>3, <1>4, <2>1, <2>4, <3>1, <3>2 DEF Picks
    <2>6. Linked'
        BY <2>1 DEF LinkInv, Linked
    <2> QED
        BY <2>5, <2>6, PickLinks
<1>5. CASE ~(Parent[o] = canonical_tip /\ ~orphans.done)
    <2>1. ProcessStop
        BY <1>2, <1>3, <1>5
    <2>2. NoOrphanOf(canonical_tip)
        <3>1. CASE orphans.done
            BY <1>1, <3>1 DEF LinkInv, Rounds
        <3>2. CASE Parent[o] # canonical_tip
            <4>1. \A x \in mem.orphan_pool : Height[x] = orphans.h => x = o
                BY <1>1, <1>2 DEF OrphansAt, Filed
            <4> QED
                BY <1>1, <3>2, <4>1, FollowersHeight DEF NoOrphanOf, LinkInv, Rounds
        <3> QED
            BY <1>5, <3>1, <3>2
    <2> QED
        BY <1>1, <2>1, <2>2, StopLinks
<1> QED
    BY <1>4, <1>5

\* The rest of buf becomes the tips of valid chains.
LEMMA RestLinks ==
    ASSUME WellFormedHeights, KnownInv, LinkInv, TypeInv', ProcessRest PROVE LinkInv'
<1>1. pc = "rest" /\ orphans \in OrphansRecord /\ mem \in Memory /\ mem' \in Memory
    BY DEF KnownInv, StoreInv, TypeInv, ProcessRest
<1>2. PICK buf \in SUBSET Block : buf = orphans.buf
    BY <1>1 DEF OrphansRecord
<1>3. Marks(mem, mem', buf, {})
    <2> DEFINE val == Override(Mark(buf, "ValidChainTip"), mem.validations_mapping)
               tips == mem.valid_tips \cup buf
    <2>1. mem' = [mem EXCEPT !.validations_mapping = val, !.valid_tips = tips]
        BY <1>2 DEF ProcessRest
    <2>2. /\ DOMAIN val = DOMAIN mem.validations_mapping \cup buf
          /\ \A x \in buf : val[x] = "ValidChainTip"
          /\ \A x \in DOMAIN mem.validations_mapping \ buf : val[x] = mem.validations_mapping[x]
        BY DEF Override, Mark
    <2> HIDE DEF val, tips
    <2>3. /\ mem'.orphan_pool = mem.orphan_pool /\ SameChains(mem, mem')
          /\ mem'.max_orphan_height = mem.max_orphan_height
          /\ mem'.validations_mapping = val /\ mem'.valid_tips = tips
        BY <1>1, <2>1 DEF Memory, SameChains
    <2> QED
        BY <2>2, <2>3 DEF Marks, tips
<1>4. PICK home, inner : Links(mem, db \ mem.orphan_pool, home, inner)
    BY DEF LinkInv, Linked
<1>5. \A o \in buf : o \in mem.orphan_pool /\ Parent[o] \in db
    BY <1>2 DEF LinkInv, Processing
<1>6. MayMark(mem, db \ mem.orphan_pool, buf, {})
    <2>1. mem.orphan_pool \cap db = {}
        BY <1>1, BaseFacts
    <2> QED
        BY <1>5, <2>1 DEF MayMark, OnValid
<1>7. /\ Links(mem', db \ mem.orphan_pool, home, inner)
      /\ \A x \in mem.orphan_pool : IsValid(mem, x) => IsValid(mem', x)
      /\ \A x \in buf : IsValid(mem', x)
    BY <1>1, <1>3, <1>4, <1>6, MarksKeep, SMTT(90)
<1>8. /\ mem'.orphan_pool = mem.orphan_pool /\ mem'.max_orphan_height = mem.max_orphan_height
      /\ UNCHANGED <<db, dbHeight, height, canonical_tip, to_write, switchVars>> /\ pc' = "orphans"
    BY <1>3 DEF Marks, ProcessRest, ledgerVars
<1>9. /\ orphans'.h = orphans.h + 1 /\ orphans'.prev = orphans.prev \cup buf /\ orphans'.buf = {}
      /\ orphans'.done = orphans.done /\ orphans'.max = orphans.max
    BY <1>1, <1>2 DEF ProcessRest, OrphansRecord
<1>10. Linked'
    BY <1>7, <1>8 DEF Linked
<1>11. Processing'
    <2>1. \A p \in orphans.prev : p \in mem.orphan_pool /\ IsValid(mem, p)
        BY DEF LinkInv, Processing
    <2>2. \A p \in orphans.prev \cup buf : Height[p] < orphans.h + 1
        <3>1. \A p \in orphans.prev \cup buf : Height[p] \in Nat
            BY <1>1, HeightAssumption DEF OrphansRecord
        <3>2. \A p \in orphans.prev \cup buf : Height[p] <= orphans.h
            BY <1>1, <1>2 DEF LinkInv, Processing
        <3> QED
            BY <1>1, <3>1, <3>2, SMTT(30) DEF OrphansRecord
    <2> QED
        BY <1>5, <1>7, <1>8, <1>9, <2>1, <2>2 DEF Processing, IsValid
<1>12. Rounds'
    BY <1>1, <1>8, <1>9 DEF LinkInv, Rounds
<1>13. Settled'
    BY <1>8 DEF Settled, Switching
<1>14. InReach'
    BY <1>1, <1>8, <1>9 DEF LinkInv, InReach
<1>15. OnPath'
    BY <1>8 DEF LinkInv, OnPath
<1> QED
    BY <1>8, <1>10, <1>11, <1>12, <1>13, <1>14, <1>15 DEF LinkInv

\* Several orphans have the height: the heirs of the previous tips take their
\* place, and one that follows the tip is written.
LEMMA SeveralLinks ==
    ASSUME WellFormedHeights, KnownInv, LinkInv, TypeInv', ProcessSeveral PROVE LinkInv'
<1>1. /\ pc = "orphans" /\ orphans \in OrphansRecord /\ Filed(mem) /\ mem \in Memory /\ mem' \in Memory
      /\ orphans.h \in Nat
    BY DEF KnownInv, StoreInv, TypeInv, PoolInv, ProcessSeveral, OrphansRecord
<1> DEFINE AT == OrphansAt(orphans.h)
           BUF == {o \in AT : Parent[o] = canonical_tip}
           REP == {p \in orphans.prev \ {canonical_tip} : \E o \in AT : Parent[o] = p}
           BEST == {o \in BUF : \A q \in BUF : mem.inverse[q] <= mem.inverse[o]}
<1>2. PICK at, buf, replaced, best : at = AT /\ buf = BUF /\ replaced = REP /\ best = BEST
    OBVIOUS
<1>3. /\ at \subseteq mem.orphan_pool /\ \A o \in mem.orphan_pool : o \in at <=> Height[o] = orphans.h
      /\ buf = {o \in at : Parent[o] = canonical_tip} /\ best \subseteq buf
      /\ replaced \subseteq orphans.prev
    BY <1>1, <1>2 DEF OrphansAt, Filed
<1>4. PICK home, inner : Links(mem, db \ mem.orphan_pool, home, inner)
    BY DEF LinkInv, Linked
<1>5. \A p \in orphans.prev : p \in mem.orphan_pool /\ IsValid(mem, p)
    BY DEF LinkInv, Processing
<1>6. at \cup replaced \subseteq DOMAIN mem.validations_mapping
    BY <1>3, <1>4, <1>5 DEF Links, HeadsLinked
<1> HIDE DEF AT, BUF, REP, BEST
<1>7. PICK heir \in [replaced -> at] :
          LET heirs == {heir[p] : p \in replaced}
              prev == (orphans.prev \ replaced) \cup heirs
          IN  /\ \A p \in replaced : Parent[heir[p]] = p
              /\ mem' = [mem EXCEPT
                    !.validations_mapping =
                        Override(Mark(heirs, "ValidChainTip"),
                                 Override(Mark(replaced, "BelongsToValidChain"), @)),
                    !.valid_tips = (@ \ replaced) \cup heirs]
              /\ \/ /\ buf = {} /\ (prev = {} \/ orphans.done)
                    /\ pc' = "idle" /\ orphans' = NoOrphans
                    /\ UNCHANGED to_write
                 \/ /\ buf = {} /\ prev # {} /\ ~orphans.done
                    /\ orphans' = [orphans EXCEPT !.done = TRUE, !.prev = prev]
                    /\ UNCHANGED <<pc, to_write>>
                 \/ /\ buf # {} /\ ~orphans.done
                    /\ \E w \in best :
                          /\ pc' = "write" /\ to_write' = <<w>>
                          /\ orphans' = [orphans EXCEPT !.prev = prev, !.buf = buf \ {w}]
                 \/ /\ buf # {} /\ orphans.done
                    /\ pc' = "rest"
                    /\ orphans' = [orphans EXCEPT !.prev = prev, !.buf = buf]
                    /\ UNCHANGED to_write
              /\ UNCHANGED <<ledgerVars, switchVars>>
    <2> USE DEF AT, BUF, REP, BEST
    <2>1. at \subseteq mem.orphan_pool /\ at \cup replaced \subseteq DOMAIN mem.validations_mapping
        BY <1>3, <1>6
    <2> QED
        BY <1>2, <2>1 DEF ProcessSeveral
<1>8. PICK heirs, prev : /\ heirs = {heir[p] : p \in replaced}
                         /\ prev = (orphans.prev \ replaced) \cup heirs
    OBVIOUS
<1>9. \A x \in heirs : x \in at /\ Parent[x] \in replaced
    <2>1. \A p \in replaced : Parent[heir[p]] = p
        BY <1>7
    <2>2. \A p \in replaced : heir[p] \in at
        OBVIOUS
    <2> QED
        BY <1>8, <2>1, <2>2
<1>10. Marks(mem, mem', heirs, replaced)
    <2> DEFINE val == Override(Mark(heirs, "ValidChainTip"),
                               Override(Mark(replaced, "BelongsToValidChain"), mem.validations_mapping))
               tips == (mem.valid_tips \ replaced) \cup heirs
    <2>1. mem' = [mem EXCEPT !.validations_mapping = val, !.valid_tips = tips]
        BY <1>7, <1>8
    <2>2. /\ DOMAIN val = DOMAIN mem.validations_mapping \cup heirs \cup replaced
          /\ \A x \in heirs : val[x] = "ValidChainTip"
          /\ \A x \in replaced \ heirs : val[x] = "BelongsToValidChain"
          /\ \A x \in DOMAIN mem.validations_mapping \ (heirs \cup replaced) : val[x] = mem.validations_mapping[x]
        BY DEF Override, Mark
    <2> HIDE DEF val, tips
    <2>3. /\ mem'.orphan_pool = mem.orphan_pool /\ SameChains(mem, mem')
          /\ mem'.max_orphan_height = mem.max_orphan_height
          /\ mem'.validations_mapping = val /\ mem'.valid_tips = tips
        BY <1>1, <2>1 DEF Memory, SameChains
    <2> QED
        BY <2>2, <2>3 DEF Marks, tips
<1>11. MayMark(mem, db \ mem.orphan_pool, heirs, replaced)
    BY <1>3, <1>5, <1>9 DEF MayMark, OnValid
<1>12. /\ Links(mem', db \ mem.orphan_pool, home, inner)
       /\ \A x \in mem.orphan_pool : IsValid(mem, x) => IsValid(mem', x)
       /\ \A x \in heirs : IsValid(mem', x)
    BY <1>1, <1>4, <1>10, <1>11, MarksKeep, SMTT(30)
<1>13. /\ mem'.orphan_pool = mem.orphan_pool /\ mem'.max_orphan_height = mem.max_orphan_height
       /\ UNCHANGED <<db, dbHeight, height, canonical_tip, switchVars>>
    BY <1>7, <1>10 DEF Marks, ledgerVars
<1>14. Linked'
    BY <1>12, <1>13 DEF Linked
<1>15. \A p \in prev : p \in mem.orphan_pool /\ IsValid(mem', p)
    BY <1>3, <1>5, <1>8, <1>9, <1>12
<1>16. buf = {} => NoOrphanOf(canonical_tip)
    BY <1>1, <1>3, FollowersHeight DEF NoOrphanOf, LinkInv, Rounds
<1>17. orphans.done => buf = {}
    BY <1>1, <1>3 DEF NoOrphanOf, LinkInv, Rounds
<1>18. CASE /\ buf = {} /\ pc' = "idle" /\ orphans' = NoOrphans /\ UNCHANGED to_write
    <2>1. NoOrphans.prev = {} /\ NoOrphans.buf = {} /\ NoOrphans.max = NoHeight
        BY DEF NoOrphans
    <2>2. Processing' /\ Rounds'
        BY <1>18, <2>1 DEF Processing, Rounds
    <2>3. Settled'
        BY <1>13, <1>16, <1>18 DEF Settled, Switching, NoOrphanOf
    <2>4. InReach'
        BY <1>13, <1>18, <2>1 DEF LinkInv, InReach
    <2>5. OnPath'
        BY <1>13, <1>18 DEF LinkInv, OnPath
    <2> QED
        BY <1>14, <1>18, <2>2, <2>3, <2>4, <2>5 DEF LinkInv
<1>19. CASE /\ buf = {} /\ orphans' = [orphans EXCEPT !.done = TRUE, !.prev = prev]
            /\ UNCHANGED <<pc, to_write>>
    <2>1. /\ orphans'.h = orphans.h /\ orphans'.done = TRUE /\ orphans'.max = orphans.max
          /\ orphans'.prev = prev /\ orphans'.buf = orphans.buf
        BY <1>1, <1>19 DEF OrphansRecord
    <2>2. Processing'
        BY <1>1, <1>13, <1>15, <1>19, <2>1 DEF LinkInv, Processing, IsValid
    <2>3. Rounds'
        BY <1>1, <1>13, <1>16, <1>19, <2>1 DEF LinkInv, Rounds, NoOrphanOf
    <2>4. Settled'
        BY <1>1, <1>19 DEF Settled, Switching
    <2>5. InReach'
        BY <1>1, <1>13, <1>19, <2>1 DEF LinkInv, InReach
    <2>6. OnPath'
        BY <1>1, <1>13, <1>19 DEF LinkInv, OnPath
    <2> QED
        BY <1>1, <1>14, <1>19, <2>2, <2>3, <2>4, <2>5, <2>6 DEF LinkInv
<1>20. ASSUME NEW w \in best, ~orphans.done, pc' = "write", to_write' = <<w>>,
              orphans' = [orphans EXCEPT !.prev = prev, !.buf = buf \ {w}]
       PROVE  LinkInv'
    <2>1. w \in mem.orphan_pool /\ Parent[w] = canonical_tip /\ Height[w] = orphans.h
        BY <1>3, <1>20
    <2>2. canonical_tip \in db /\ mem.orphan_pool \cap db = {}
        BY <1>1, FollowersHeight, BaseFacts
    <2>3. \A p \in orphans.prev : Height[p] < orphans.h /\ Height[p] \in Nat
        BY <1>1, <1>20, HeightAssumption DEF LinkInv, Processing, OrphansRecord
    <2>4. \A p \in prev : p \in mem.orphan_pool /\ IsValid(mem', p) /\ Height[p] <= orphans.h /\ p # w
        <3>1. \A p \in heirs : Height[p] = orphans.h /\ p # w
            BY <1>3, <1>5, <1>9, <2>1, <2>2
        <3>2. \A p \in orphans.prev : Height[p] <= orphans.h /\ p # w
            BY <1>1, <2>1, <2>3, SMTT(30)
        <3>3. \A p \in heirs : Height[p] <= orphans.h
            BY <1>1, <3>1, SMTT(30)
        <3> QED
            BY <1>8, <1>15, <3>1, <3>2, <3>3
    <2>5. \A o \in buf \ {w} : o \in mem.orphan_pool /\ Parent[o] \in db /\ Height[o] <= orphans.h /\ o # w
        BY <1>1, <1>3, <2>2, SMTT(30)
    <2>6. Picks(w, prev, buf \ {w})
        BY <1>1, <1>13, <1>20, <2>1, <2>4, <2>5 DEF Picks
    <2> QED
        BY <1>14, <2>6, PickLinks
<1> QED
    BY <1>7, <1>8, <1>17, <1>18, <1>19, <1>20

\* attempt_switch finds its way from the candidate to a stored block, which is not
\* the tip: no orphan follows the tip.
LEMMA HorizonFound ==
    ASSUME WellFormedHeights, KnownInv, LinkInv, pc = "switch"
    PROVE  HorizonDistances(candidate) # {}
<1>1. PICK home, inner : Links(mem, db \ mem.orphan_pool, home, inner)
    BY DEF LinkInv, Linked
<1>2. candidate \in mem.orphan_pool /\ IsValid(mem, candidate) /\ mem \in Memory
    BY <1>1 DEF LinkInv, Settled, Links, ValidTipsLinked, KnownInv, StoreInv, TypeInv
<1>3. mem.orphan_pool \cap db = {}
    BY BaseFacts
<1>4. PICK n \in Distance : /\ Ancestor[n][candidate] \in db \ mem.orphan_pool
                            /\ \A k \in 0 .. n - 1 : Ancestor[k][candidate] \in mem.orphan_pool
    BY <1>1, <1>2, ValidConnects
<1>5. \A k \in 1 .. n - 1 : Ancestor[k][candidate] \in mem.orphan_pool \ db
    BY <1>3, <1>4, DistanceType, SMTT(30)
<1> QED
    BY <1>4, <1>5 DEF HorizonDistances

\* The blocks from the horizon up to the candidate, one the parent of the next.
LeadsTo(c, n, path) ==
    /\ n \in Nat /\ n > 0 /\ Len(path) = n /\ path # <<>> /\ path[n] = c
    /\ path[1] \in mem.orphan_pool /\ Parent[path[1]] = Ancestor[n][c]
    /\ \A i \in 1 .. n - 1 : Parent[path[i + 1]] = path[i]

\* attempt_switch collects them.
LEMMA SwitchPath ==
    ASSUME NEW c \in mem.orphan_pool, mem.orphan_pool \subseteq Block, NEW n \in HorizonDistances(c),
           NEW path, path = [i \in 1 .. n |-> IF i = n THEN c ELSE Ancestor[n - i][c]]
    PROVE  LeadsTo(c, n, path)
<1>1. /\ n \in Distance /\ n \in Nat /\ n > 0
      /\ \A k \in 1 .. n - 1 : k \in Distance /\ Ancestor[k][c] \in mem.orphan_pool
    BY DistanceType, SMTT(30) DEF HorizonDistances, Distance
<1>2. Ancestor[0][c] = c
    BY AncestorStep
<1>3. \A i \in 1 .. n : path[i] = Ancestor[n - i][c]
    BY <1>1, <1>2, SMTT(30)
<1>4. \A k \in 0 .. n - 1 : Ancestor[k][c] \in mem.orphan_pool
    BY <1>1, <1>2, SMTT(30)
<1>5. ASSUME NEW k \in 1 .. n PROVE Parent[Ancestor[k - 1][c]] = Ancestor[k][c]
    <2>1. k \in Distance /\ k - 1 \in 0 .. n - 1
        BY <1>1, SMTT(30)
    <2>2. Ancestor[k - 1][c] \in Block
        BY <1>4, <2>1
    <2> QED
        BY <2>1, <2>2, FirstAncestor
<1>6. path[n] = c /\ Len(path) = n /\ path # <<>>
    BY <1>1, SMTT(30)
<1>7. path[1] \in mem.orphan_pool /\ Parent[path[1]] = Ancestor[n][c]
    <2>1. PICK k \in Nat : k = n - 1 /\ k \in 0 .. n - 1
        BY <1>1, SMTT(30)
    <2>2. path[1] = Ancestor[k][c] /\ n \in 1 .. n
        BY <1>1, <1>3, <2>1, SMTT(30)
    <2> QED
        BY <1>4, <1>5, <2>1, <2>2
<1>8. ASSUME NEW i \in 1 .. n - 1 PROVE Parent[path[i + 1]] = path[i]
    <2>1. PICK k \in 1 .. n : k = n - i /\ k - 1 = n - (i + 1) /\ i \in 1 .. n /\ i + 1 \in 1 .. n
        BY <1>1, <1>8, SMTT(30)
    <2>2. path[i + 1] = Ancestor[k - 1][c] /\ path[i] = Ancestor[k][c]
        BY <1>3, <2>1
    <2> QED
        BY <1>5, <2>2
<1> QED
    BY <1>1, <1>6, <1>7, <1>8 DEF LeadsTo

\* attempt_switch gives up, or starts to rewind.
LEMMA SwitchLinks ==
    ASSUME WellFormedHeights, KnownInv, LinkInv, AttemptSwitch PROVE LinkInv'
<1>1. /\ pc = "switch" /\ candidate \in mem.valid_tips /\ HorizonDistances(candidate) # {}
      /\ NoOrphanOf(candidate) /\ NoOrphanOf(canonical_tip)
    BY HorizonFound DEF AttemptSwitch, LinkInv, Settled
<1>2. /\ orphans = NoOrphans /\ orphans.prev = {} /\ orphans.buf = {} /\ orphans.max = NoHeight
    BY <1>1, SMTT(30) DEF KnownInv, SwitchInv, OrphansRun, NoOrphans
<1>3. UNCHANGED <<db, dbHeight, height, canonical_tip, mem, orphans>>
    BY <1>1 DEF AttemptSwitch, ledgerVars
<1>4. Linked'
    BY <1>3 DEF LinkInv, Linked
<1>5. CASE ~Higher(candidate)
    <2>1. pc' = "idle" /\ UNCHANGED to_write
        BY <1>1, <1>5 DEF AttemptSwitch
    <2>2. Processing' /\ Rounds'
        BY <1>2, <1>3, <2>1 DEF Processing, Rounds
    <2>3. Settled'
        BY <1>1, <1>3, <2>1 DEF Settled, Switching, NoOrphanOf
    <2>4. InReach'
        BY <1>2, <1>3, <2>1 DEF LinkInv, InReach
    <2>5. OnPath'
        BY <1>3, <2>1 DEF LinkInv, OnPath
    <2> QED
        BY <1>4, <2>1, <2>2, <2>3, <2>4, <2>5 DEF LinkInv
<1>6. CASE Higher(candidate)
    <2>1. PICK n \in HorizonDistances(candidate) :
               /\ to_write' = [i \in 1 .. n |-> IF i = n THEN candidate ELSE Ancestor[n - i][candidate]]
               /\ horizon' = Ancestor[n][candidate]
               /\ cursor' = canonical_tip
               /\ inverse_height' = 0
               /\ pc' = "rewind"
        BY <1>1, <1>6 DEF AttemptSwitch
    <2>2. candidate \in mem.orphan_pool /\ mem.orphan_pool \subseteq Block
        BY <1>1, BaseFacts DEF KnownInv, SwitchInv, Gaining
    <2>3. /\ n \in Nat /\ n > 0 /\ Len(to_write') = n /\ to_write' # <<>> /\ to_write'[n] = candidate
          /\ to_write'[1] \in mem.orphan_pool /\ Parent[to_write'[1]] = horizon'
          /\ \A i \in 1 .. n - 1 : Parent[to_write'[i + 1]] = to_write'[i]
        <3>1. LeadsTo(candidate, n, to_write')
            BY <2>1, <2>2, SwitchPath
        <3> QED
            BY <2>1, <3>1 DEF LeadsTo
    <2>4. horizon' \in db /\ horizon' # cursor'
        BY <1>1, <2>1, <2>3 DEF HorizonDistances, NoOrphanOf
    <2>5. Processing' /\ Rounds'
        BY <1>2, <1>3, <2>1 DEF Processing, Rounds
    <2>6. Settled'
        BY <1>1, <1>3, <2>1, <2>3 DEF Settled, Switching, NoOrphanOf
    <2>7. InReach'
        BY <1>2, <1>3, <2>1, SMTT(30) DEF LinkInv, InReach
    <2>8. OnPath'
        BY <1>3, <2>1, <2>3, <2>4 DEF OnPath
    <2> QED
        BY <1>4, <2>1, <2>5, <2>6, <2>7, <2>8 DEF LinkInv
<1> QED
    BY <1>5, <1>6

\* The blocks that rewind takes off are stored, and so is what each of them follows:
\* the walk down from the tip ends at the horizon, before genesis.
LEMMA CursorStored ==
    ASSUME WellFormedHeights, KnownInv, LinkInv, pc = "rewind"
    PROVE  cursor \in db /\ Parent[cursor] \in db
<1>1. /\ cursor \in db \cup {Genesis} /\ \A c \in db : Parent[c] # cursor
      /\ \A c \in db : Parent[c] \in db \cup {Genesis}
      /\ \A b, c \in db : Parent[b] = Parent[c] => b = c
    BY DEF KnownInv, StoreInv, RewindState, CanonicalChain, Store!CanonicalChain, Store!Closed,
           Store!Unforked, Store!TopIsLast, Top
<1>2. horizon \in db /\ horizon # cursor
    BY DEF LinkInv, OnPath
<1>3. db \subseteq Block
    BY BaseFacts
<1>4. ASSUME NEW S \in SUBSET db, S # {} PROVE \E x \in S : Parent[x] \notin S
    <2>1. PICK x \in S : \A y \in S : Height[x] <= Height[y]
        BY <1>3, <1>4, HighestBlock
    <2>2. Parent[x] \in S => Height[x] = Height[Parent[x]] + 1 /\ Height[Parent[x]] \in Nat
        BY <1>3, HeightAssumption DEF WellFormedHeights
    <2> QED
        BY <2>1, <2>2, SMTT(30)
<1>5. cursor \in db
    <2> SUFFICES ASSUME cursor = Genesis PROVE FALSE
        BY <1>1
    <2>1. PICK x \in db : Parent[x] \notin db
        BY <1>2, <1>4
    <2> QED
        BY <1>1, <2>1
<1>6. Parent[cursor] # Genesis
    <2> SUFFICES ASSUME Parent[cursor] = Genesis PROVE FALSE
        OBVIOUS
    <2>1. PICK x \in db \ {cursor} : Parent[x] \notin db \ {cursor}
        <3>1. db \ {cursor} \in SUBSET db /\ db \ {cursor} # {}
            BY <1>2
        <3> QED
            BY <1>4, <3>1
    <2> QED
        BY <1>1, <1>5, <2>1
<1> QED
    BY <1>1, <1>5, <1>6

\* One turn of rewind: the block becomes an orphan of a valid chain.
LEMMA RewindLinks ==
    ASSUME WellFormedHeights, KnownInv, LinkInv, TypeInv', RewindBlock PROVE LinkInv'
<1>1. /\ pc = "rewind" /\ mem \in Memory /\ mem' \in Memory /\ inverse_height \in Nat /\ height \in Nat
      /\ to_write \in Seq(Block)
    BY DEF KnownInv, StoreInv, TypeInv, RewindBlock
<1>2. PICK b \in Block : b = cursor /\ b \in db /\ Parent[b] \in db
    BY <1>1, CursorStored, BaseFacts
<1>3. /\ db' = db \ {b} /\ mem' = Unwound(mem, b, inverse_height) /\ inverse_height' = inverse_height + 1
      /\ \/ Parent[b] = horizon /\ pc' = "rewound" /\ cursor' = b
         \/ Parent[b] # horizon /\ pc' = "rewind" /\ cursor' = Parent[b]
      /\ UNCHANGED <<dbHeight, height, canonical_tip, to_write, candidate, horizon, orphans>>
    BY <1>1, <1>2 DEF RewindBlock
<1>4. Unwinds(mem, mem', b, inverse_height)
    BY <1>1, <1>3, UnwoundAt
<1>5. mem'.orphan_pool = mem.orphan_pool \cup {b}
    BY <1>4 DEF Unwinds
<1>6. mem.orphan_pool \cap db = {} /\ Parent[b] # b /\ mem.orphan_pool \subseteq Block
    BY <1>1, <1>2, BaseFacts
<1>7. Linked'
    <2>1. PICK home, inner : Links(mem, db \ mem.orphan_pool, home, inner)
        BY DEF LinkInv, Linked
    <2>2. b \in db \ mem.orphan_pool /\ Parent[b] \in db \ mem.orphan_pool
        BY <1>2, <1>6
    <2>3. \E home2 : Links(mem', (db \ mem.orphan_pool) \ {b}, home2, inner)
        BY <1>1, <1>3, <1>6, <2>1, <2>2, UnwindLinks
    <2>4. db' \ mem'.orphan_pool = (db \ mem.orphan_pool) \ {b}
        BY <1>3, <1>5
    <2> QED
        BY <2>3, <2>4 DEF Linked
<1>8. orphans.prev = {} /\ orphans.buf = {} /\ orphans.max = NoHeight
    BY <1>1, SMTT(30) DEF KnownInv, SwitchInv, OrphansRun, NoOrphans
<1>9. Processing' /\ Rounds'
    BY <1>3, <1>8 DEF Processing, Rounds
<1>10. Settled'
    <2>1. PICK l : l = to_write[Len(to_write)] /\ l \in mem.orphan_pool /\ NoOrphanOf(l) /\ to_write # <<>>
        <3>1. to_write # <<>> /\ NoOrphanOf(to_write[Len(to_write)])
            BY <1>1 DEF LinkInv, Settled, Switching
        <3>2. Len(to_write) \in 1 .. Len(to_write)
            BY <1>1, <3>1, SMTT(30)
        <3>3. to_write[Len(to_write)] \in mem.orphan_pool
            BY <1>1, <3>2 DEF KnownInv, SwitchInv, Gaining, Switching
        <3> QED
            BY <3>1, <3>3
    <2>2. Parent[b] # l
        BY <1>2, <1>6, <2>1
    <2>3. \A o \in mem'.orphan_pool : Parent[o] # l
        BY <1>5, <2>1, <2>2 DEF NoOrphanOf
    <2> QED
        BY <1>3, <2>1, <2>3 DEF Settled, NoOrphanOf, Switching
<1>11. InReach'
    <2>1. /\ mem.max_orphan_height \in Int /\ Height[b] \in Nat /\ \A o \in mem.orphan_pool : Height[o] \in Nat
        BY <1>1, <1>6, HeightAssumption, SMTT(30) DEF Memory, NoHeight
    <2>2. mem'.max_orphan_height = IF Height[b] > mem.max_orphan_height THEN Height[b] ELSE mem.max_orphan_height
        BY <1>4 DEF Unwinds
    <2>3. \A o \in mem'.orphan_pool : Height[o] > height => Height[o] <= mem'.max_orphan_height
        BY <1>1, <1>5, <2>1, <2>2, SMTT(30) DEF LinkInv, InReach
    <2>4. mem'.max_orphan_height >= height
        <3>1. Height[b] + inverse_height = height
            BY <1>1, <1>2 DEF KnownInv, SwitchInv, Gaining
        <3>2. inverse_height > 0 => mem.max_orphan_height >= height
            BY <1>1 DEF LinkInv, InReach
        <3> QED
            BY <1>1, <2>1, <2>2, <3>1, <3>2, SMTT(30)
    <2> QED
        BY <1>3, <1>8, <2>3, <2>4 DEF InReach
<1>12. OnPath'
    <2>1. horizon \in db /\ horizon # b
        BY <1>1, <1>2 DEF LinkInv, OnPath
    <2> QED
        BY <1>1, <1>3, <2>1 DEF LinkInv, OnPath
<1> QED
    BY <1>3, <1>7, <1>9, <1>10, <1>11, <1>12 DEF LinkInv

\* The end of rewind: the horizon is the tip, and the switch writes its blocks.
LEMMA RewoundLinks ==
    ASSUME WellFormedHeights, KnownInv, LinkInv, RewindDone PROVE LinkInv'
<1>1. /\ pc = "rewound" /\ height \in Nat /\ mem \in Memory /\ to_write # <<>> /\ orphans = NoOrphans
      /\ orphans.prev = {} /\ orphans.buf = {} /\ orphans.max = NoHeight
    BY SMTT(30) DEF RewindDone, KnownInv, StoreInv, TypeInv, SwitchInv, OrphansRun, NoOrphans, LinkInv, Settled, Switching
<1>2. /\ height' = Height[horizon] /\ canonical_tip' = horizon /\ pc' = "write"
      /\ UNCHANGED <<db, mem, to_write, candidate, orphans>>
    BY <1>1 DEF RewindDone
<1>3. Linked'
    BY <1>2 DEF LinkInv, Linked
<1>4. Processing' /\ Rounds'
    BY <1>1, <1>2 DEF Processing, Rounds
<1>5. Settled'
    BY <1>1, <1>2 DEF LinkInv, Settled, Switching, NoOrphanOf
<1>6. InReach'
    <2>1. \A o \in mem.orphan_pool : Height[o] \in Nat
        BY <1>1, HeightAssumption DEF Memory
    <2>2. mem.max_orphan_height \in Int /\ mem.max_orphan_height >= height
        BY <1>1, SMTT(30) DEF Memory, NoHeight, LinkInv, InReach
    <2>3. \A o \in mem.orphan_pool : Height[o] <= mem.max_orphan_height
        BY <1>1, <2>1, <2>2, SMTT(30) DEF LinkInv, InReach
    <2> QED
        BY <1>1, <1>2, <2>3 DEF InReach
<1>7. OnPath'
    BY <1>1, <1>2 DEF LinkInv, OnPath
<1> QED
    BY <1>2, <1>3, <1>4, <1>5, <1>6, <1>7 DEF LinkInv

\* The parent of the new block is the tip: the block is written.
LEMMA CanonicalLinks ==
    ASSUME WellFormedHeights, KnownInv, LinkInv, NEW b \in Block, AppendCanonical(b) PROVE LinkInv'
<1>1. /\ pc = "idle" /\ Parent[b] = canonical_tip /\ to_write' = <<b>> /\ pc' = "write"
      /\ orphans' = [NoOrphans EXCEPT !.h = Height[b] + 1]
      /\ UNCHANGED <<db, dbHeight, height, canonical_tip, mem, switchVars>>
    BY DEF AppendCanonical, Appending, ledgerVars
<1>2. /\ orphans'.h = Height[b] + 1 /\ ~orphans'.done /\ orphans'.max = NoHeight
      /\ orphans'.prev = {} /\ orphans'.buf = {} /\ NoOrphans.h = 0
    BY <1>1 DEF NoOrphans
<1>3. orphans' # NoOrphans
    BY <1>2, HeightAssumption, SMTT(30)
<1>4. to_write'[1] = b /\ Head(to_write') = b /\ Len(to_write') = 1
    BY <1>1, SMTT(30)
<1>5. Linked'
    BY <1>1 DEF LinkInv, Linked
<1>6. Processing' /\ Rounds'
    BY <1>1, <1>2, <1>4 DEF Processing, Rounds
<1>7. Settled'
    BY <1>1, <1>3 DEF Settled, Switching
<1>8. InReach'
    BY <1>1, <1>2 DEF LinkInv, InReach
<1>9. OnPath'
    BY <1>1, <1>4, SMTT(30) DEF OnPath
<1> QED
    BY <1>1, <1>5, <1>6, <1>7, <1>8, <1>9 DEF LinkInv

\* A new orphan, linked and counted in the greatest height, does not follow the tip.
\* The append is over or goes on with a switch to a valid tip that nothing follows.
LEMMA OrphanLinks ==
    ASSUME KnownInv, LinkInv, pc = "idle", NEW b \in Block, Parent[b] # canonical_tip,
           NEW n \in Memory, \E home, inner : Links(n, db, home, inner),
           n.orphan_pool = mem.orphan_pool \cup {b}, n.max_orphan_height = MaxWith(b),
           Settle(n) \/ \E tip \in n.valid_tips : SwitchTo(n, tip) /\ \A c \in n.orphan_pool : Parent[c] # tip
    PROVE  LinkInv'
<1>1. /\ mem' = n /\ UNCHANGED <<db, dbHeight, height, canonical_tip, to_write, cursor, horizon, inverse_height, orphans>>
      /\ \/ pc' = "idle"
         \/ pc' = "switch" /\ candidate' \in n.valid_tips /\ \A c \in n.orphan_pool : Parent[c] # candidate'
    BY DEF Settle, SwitchTo, Remember, ledgerVars
<1>2. /\ orphans.prev = {} /\ orphans.buf = {} /\ orphans.max = NoHeight
    BY SMTT(30) DEF KnownInv, SwitchInv, OrphansRun, NoOrphans
<1>3. Linked'
    <2>1. PICK home, inner : Links(n, db, home, inner)
        OBVIOUS
    <2>2. db' \ mem'.orphan_pool = db
        BY <1>1, <2>1 DEF Links
    <2> QED
        BY <1>1, <2>1, <2>2, SMTT(30) DEF Linked
<1>4. Processing' /\ Rounds'
    BY <1>1, <1>2 DEF Processing, Rounds
<1>5. Settled'
    <2>1. \A o \in n.orphan_pool : Parent[o] # canonical_tip
        BY DEF LinkInv, Settled, NoOrphanOf
    <2> QED
        BY <1>1, <2>1 DEF Settled, Switching, NoOrphanOf
<1>6. InReach'
    <2>1. mem.max_orphan_height \in Int /\ Height[b] \in Nat /\ \A o \in mem.orphan_pool : Height[o] \in Nat
        BY BaseFacts, HeightAssumption, SMTT(90) DEF Memory, NoHeight
    <2>2. \A o \in n.orphan_pool : Height[o] > height => Height[o] <= n.max_orphan_height
        BY <2>1, SMTT(90) DEF LinkInv, InReach, MaxWith
    <2> QED
        BY <1>1, <1>2, <2>2 DEF InReach
<1>7. OnPath'
    BY <1>1 DEF LinkInv, OnPath
<1> QED
    BY <1>1, <1>3, <1>4, <1>5, <1>6, <1>7 DEF LinkInv

\* append_block, every branch.
LEMMA AppendLinks ==
    ASSUME WellFormedHeights, KnownInv, LinkInv, NEW b \in Block, append_block(b) PROVE LinkInv'
<1>1. CASE RejectBlock(b)
    BY <1>1 DEF RejectBlock, vars, ledgerVars, switchVars, LinkInv, Linked, Processing, Rounds, Settled,
                Switching, NoOrphanOf, InReach, OnPath
<1>2. CASE AppendCanonical(b)
    BY <1>2, CanonicalLinks
<1>3. ASSUME AppendFork(b) \/ AppendOnValidTip(b) \/ AppendOnValidBranch(b) \/ AppendOnDisconnectedTip(b)
                 \/ AppendOnDisconnectedBranch(b) \/ AppendDisconnectedHead(b)
      PROVE  LinkInv'
    <2>1. /\ pc = "idle" /\ Parent[b] # canonical_tip /\ b \notin mem.orphan_pool \cup db
        BY <1>3 DEF AppendFork, AppendOnValidTip, AppendOnValidBranch, AppendOnDisconnectedTip,
                    AppendOnDisconnectedBranch, AppendDisconnectedHead, OnOrphan, Appending, AppendResult
    <2>2. TypeInv /\ Filed(mem) /\ mem \in Memory
        BY DEF KnownInv, StoreInv, PoolInv, TypeInv
    <2>3. PICK home, inner : Links(mem, db, home, inner)
        <3>1. db \ mem.orphan_pool = db
            BY <2>1, BaseFacts
        <3> QED
            BY <3>1 DEF LinkInv, Linked
    <2>4. CASE AppendFork(b) \/ AppendOnValidTip(b) \/ AppendOnValidBranch(b)
        <3>1. Grown(home, b)
            BY <2>1, <2>2, <2>3, <2>4, ForkGrows, OnValidTipGrows, OnValidBranchGrows
        <3>2. PICK n \in Memory, head \in Block \cup {NoBlock} :
                  /\ head \in Heads(mem) => Parent[head] = b
                  /\ GrowsValid(mem, n, home, b, head) /\ n.max_orphan_height = MaxWith(b)
                  /\ \/ Settle(n)
                     \/ \E tip \in n.valid_tips : SwitchTo(n, tip) /\ \A c \in n.orphan_pool : Parent[c] # tip
            BY <3>1 DEF Grown
        <3>3. Parent[b] \in db \/ (Parent[b] \in mem.orphan_pool /\ IsValid(mem, Parent[b]))
            BY <2>4 DEF AppendFork, AppendOnValidTip, AppendOnValidBranch, OnOrphan, IsValid
        <3>4. \E home2, inner2 : Links(n, db, home2, inner2)
            BY <2>1, <2>2, <2>3, <3>2, <3>3, LinksGrowValid
        <3>5. n.orphan_pool = mem.orphan_pool \cup {b}
            BY <3>2 DEF GrowsValid
        <3> QED
            BY <2>1, <3>2, <3>4, <3>5, OrphanLinks
    <2>5. CASE AppendOnDisconnectedTip(b) \/ AppendOnDisconnectedBranch(b) \/ AppendDisconnectedHead(b)
        <3>1. Hung(db, home, b)
            BY <2>1, <2>2, <2>3, <2>5, OnTipHangs, OnBranchHangs, HeadHangs
        <3>2. PICK n \in Memory, hd \in Block :
                  /\ Settle(n) /\ n.max_orphan_height = MaxWith(b)
                  /\ HangsOn(mem, db, home, b, hd) /\ Hangs(mem, n, b, hd)
            BY <3>1 DEF Hung
        <3>3. \E home2, inner2 : Links(n, db, home2, inner2)
            BY <2>1, <2>2, <2>3, <3>2, LinksHang
        <3>4. n.orphan_pool = mem.orphan_pool \cup {b}
            BY <3>2 DEF Hangs, Hooked
        <3> QED
            BY <2>1, <3>2, <3>3, <3>4, OrphanLinks
    <2> QED
        BY <1>3, <2>4, <2>5
<1> QED
    BY <1>1, <1>2, <1>3 DEF append_block

\* Every step keeps the links.
LEMMA LinkStep ==
    ASSUME WellFormedHeights, KnownInv, KnownInv', LinkInv, [Next]_vars PROVE LinkInv'
<1>1. TypeInv'
    BY DEF KnownInv, StoreInv
<1>2. CASE UNCHANGED vars
    BY <1>2, SMTT(90) DEF vars, ledgerVars, switchVars, LinkInv, Linked, Processing, Rounds, Settled,
                Switching, NoOrphanOf, InReach, OnPath
<1>3. CASE Step
    BY <1>1, <1>3, StoreLinks, HeightLinks, StartLinks, EmptyLinks, SingleLinks, SeveralLinks, RestLinks,
       SwitchLinks, RewindLinks, RewoundLinks DEF Step
<1>4. CASE \E b \in Block : append_block(b)
    BY <1>4, AppendLinks
<1> QED
    BY <1>2, <1>3, <1>4 DEF Next

-----------------------------------------------------------------------------
(***************************************************************************)
(* The maps agree.                                                         *)
(***************************************************************************)

\* Chain::new.
LEMMA LinkInit == Init => LinkInv /\ KnownInv
<1> SUFFICES ASSUME Init PROVE LinkInv /\ KnownInv
    OBVIOUS
<1>1. /\ mem.orphan_pool = {} /\ mem.valid_tips = {} /\ Heads(mem) = {} /\ db = {} /\ pc = "idle"
      /\ to_write = <<>> /\ DOMAIN mem.disconnected_heads_heights = {}
      /\ orphans = NoOrphans /\ orphans.prev = {} /\ orphans.buf = {} /\ orphans.max = NoHeight
    BY DEF Init, EmptyMemory, EmptyMap, Heads, NoOrphans
<1>2. Links(mem, db \ mem.orphan_pool, [x \in Block |-> NoBlock], {})
    BY <1>1 DEF Links, Homes, HeadsLinked, TipsLinked, InnerLinked, DisconnectedLinked, ValidLinked, ValidTipsLinked
<1>3. Linked
    BY <1>2 DEF Linked
<1>4. Processing /\ Rounds /\ Settled /\ InReach
    BY <1>1 DEF Processing, Rounds, Settled, Switching, NoOrphanOf, InReach
<1>5. OnPath
    BY <1>1, SMTT(30) DEF OnPath
<1>6. HeightInv
    BY HeightAssumption DEF Init, HeightInv
<1> QED
    BY <1>1, <1>3, <1>4, <1>5, <1>6, StoreInit, PoolInit, SwitchInit DEF LinkInv, KnownInv

\* What the other proofs know is kept by every step.
LEMMA KnownStep ==
    ASSUME WellFormedHeights, KnownInv, [Next]_vars PROVE KnownInv'
<1>1. [NextWithRewind]_vars /\ [RestartNext]_vars
    BY DEF NextWithRewind, RestartNext
<1>2. StoreInv'
    BY <1>1, StoreStep DEF KnownInv
<1>3. PoolInv'
    BY <1>1, PoolStep DEF KnownInv, StoreInv
<1>4. HeightInv'
    BY <1>1, HeightStep DEF KnownInv, StoreInv
<1>5. SwitchInv'
    BY <1>1, SwitchStep DEF KnownInv, StoreInv
<1> QED
    BY <1>2, <1>3, <1>4, <1>5 DEF KnownInv

\* The links hold in every reachable state.
LEMMA LinkInvariant == ASSUME WellFormedHeights PROVE Spec => [](KnownInv /\ LinkInv)
<1>1. Init => KnownInv /\ LinkInv
    BY LinkInit
<1>2. KnownInv /\ LinkInv /\ [Next]_vars => (KnownInv /\ LinkInv)'
    BY KnownStep, LinkStep
<1> QED
    BY <1>1, <1>2, PTL DEF Spec

\* When height fields follow from the parents', append_block never panics, whatever
\* blocks arrive in whatever order: every unwrap finds its entry, every assert
\* holds and no unreachable! is reached, in attempt_attach, attempt_attach_valid,
\* make_valid_tips, process_orphans, attempt_switch, rewind and write_block.
THEOREM NeverPanics == ASSUME WellFormedHeights PROVE Spec => []NoPanic
<1>1. LinkInv => NoPanic
    BY DEF LinkInv, NoPanic
<1> QED
    BY <1>1, LinkInvariant, PTL

\* When height fields follow from the parents', what append_block keeps in memory
\* agrees between two appends: the cached height with the tip, heights_mapping with
\* the pool, validations_mapping and valid_tips with the paths to the canonical
\* chain, and the three disconnected maps with each other; and always no tip of a
\* disconnected head is an ancestor of another.
THEOREM MapsAlwaysAgree == ASSUME WellFormedHeights PROVE Spec => []MapsAgree
<1>1. ASSUME KnownInv, LinkInv PROVE MapsAgree
    <2>1. PICK home, inner : Links(mem, db \ mem.orphan_pool, home, inner)
        BY <1>1 DEF LinkInv, Linked
    <2>2. mem \in Memory /\ mem.orphan_pool \subseteq Block /\ (pc = "idle" => db \ mem.orphan_pool = db)
        BY <1>1, BaseFacts
    <2>3. HeightOfTip
        BY <1>1 DEF KnownInv, HeightInv, HeightOfTip
    <2>4. OrphansFiled
        BY <1>1 DEF KnownInv, PoolInv, Filed, OrphansFiled
    <2>5. ValidConnected
        <3> SUFFICES ASSUME pc = "idle", NEW o \in mem.orphan_pool, IsValid(mem, o) PROVE Connected(o)
            BY <2>1 DEF ValidConnected, IsValid, Links, ValidTipsLinked
        <3>1. \E n \in Distance : Ancestor[n][o] \in db \ mem.orphan_pool
                                  /\ \A k \in 0 .. n - 1 : Ancestor[k][o] \in mem.orphan_pool
            BY <2>1, <2>2, ValidConnects
        <3> QED
            BY <3>1 DEF Connected
    <2>6. ValidTipsListed
        BY <2>1 DEF ValidTipsListed, Links, ValidTipsLinked
    <2>7. DisconnectedAgree
        BY <2>1 DEF DisconnectedAgree, Links, HeadsLinked, TipsLinked, Heads, Tips
    <2>8. TipsIncomparable
        BY <2>1, <2>2, TipsApart DEF TipsIncomparable, Heads, Tips
    <2> QED
        BY <2>3, <2>4, <2>5, <2>6, <2>7, <2>8 DEF MapsAgree
<1> QED
    BY <1>1, LinkInvariant, PTL

=============================================================================
