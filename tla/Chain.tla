------------------------------- MODULE Chain -------------------------------
(***************************************************************************)
(* The generic chain of src/chain/src/chain.rs: a canonical chain kept in  *)
(* a key-value store and, in memory, a pool of orphans with the maps that  *)
(* decide when a competing chain becomes canonical.                        *)
(*                                                                         *)
(* append_block runs under the write lock of ChainRef, but every           *)
(* db.emplace / db.remove it makes is committed on its own (the code says  *)
(* "TODO: Make writes atomic").  The model therefore takes one step per    *)
(* committed write; work on the in-memory maps between two writes is one   *)
(* step.  HashMap iteration order is a choice (\E).  A failed unwrap,      *)
(* assert, unreachable! or unimplemented! ends in pc = "panic".            *)
(***************************************************************************)
EXTENDS Orphans, Sequences

CONSTANTS
    MaxOrphans,  \* MAX_ORPHANS
    MinHeight,   \* MIN_HEIGHT
    MaxHeight    \* MAX_HEIGHT

ASSUME BoundsAssumption == MaxOrphans \in Nat /\ MinHeight \in Nat /\ MaxHeight \in Nat

VARIABLES
    db,             \* the blocks stored in the PersistentDb
    dbHeight,       \* the value under CANONICAL_HEIGHT_KEY
    height,         \* Chain::height
    canonical_tip,  \* Chain::canonical_tip
    mem,            \* the in-memory maps of Chain, see IsMemory
    pc,             \* where append_block (or rewind) stands between two writes
    to_write,       \* blocks still to be passed to write_block, in order
    candidate,      \* argument of attempt_switch
    cursor,         \* rewind: `current`
    horizon,        \* rewind: the block to rewind to
    inverse_height, \* rewind: `inverse_height`
    orphans         \* locals of process_orphans, see NoOrphans

ledgerVars == <<db, dbHeight, height, canonical_tip>>
switchVars == <<candidate, cursor, horizon, inverse_height>>
vars == <<ledgerVars, mem, pc, to_write, switchVars, orphans>>

\* process_orphans: h, max_orphan_height, done, prev_valid_tips, and what is
\* left of buf once the block to write was popped from it.
NoOrphans == [h |-> 0, max |-> NoHeight, done |-> FALSE, prev |-> {}, buf |-> {}]

\* Chain::new on an empty database.
Init ==
    /\ db = {} /\ dbHeight = 0 /\ height = 0 /\ canonical_tip = Genesis
    /\ mem = EmptyMemory
    /\ pc = "idle" /\ to_write = <<>>
    /\ candidate = NoBlock /\ cursor = NoBlock /\ horizon = NoBlock /\ inverse_height = 0
    /\ orphans = NoOrphans

-----------------------------------------------------------------------------
(***************************************************************************)
(* write_block, in the two steps a crash can fall between: the block is    *)
(* stored and becomes the tip; then the new height is stored.  The key     *)
(* "<hash>.height", which nothing reads back, goes with the second step.   *)
(***************************************************************************)
\* An unwrap, assert or unreachable! failed: the thread stops where it stands.
Panic == pc' = "panic" /\ UNCHANGED <<ledgerVars, mem, to_write, switchVars, orphans>>

\* Mutant of WriteBlockStore: the new tip is not set.
WriteBlockStoreOldTip ==
    /\ pc = "write"
    /\ IF Parent[Head(to_write)] # canonical_tip THEN Panic
       ELSE /\ db' = db \cup {Head(to_write)}
            /\ pc' = "height"
            /\ UNCHANGED <<canonical_tip, dbHeight, height, mem, to_write, switchVars, orphans>>

WriteBlockStore ==
    /\ pc = "write"
    /\ LET b == Head(to_write)
       IN IF Parent[b] # canonical_tip THEN Panic
          ELSE /\ db' = db \cup {b}
               /\ canonical_tip' = b
               /\ pc' = "height"
               /\ UNCHANGED <<dbHeight, height, mem, to_write, switchVars, orphans>>

\* What follows a write_block: the next block of attempt_switch, or the rest
\* of append_block or of process_orphans.
AfterWrite ==
    IF Len(to_write) > 1 THEN "write"
    ELSE IF orphans = NoOrphans THEN "idle"
    ELSE IF orphans.max = NoHeight THEN "process" ELSE "rest"

WriteBlockHeight ==
    /\ pc = "height"
    /\ dbHeight' = dbHeight + 1
    /\ height' = dbHeight + 1
    /\ LET b == Head(to_write)
       IN IF ~write_blockOk(mem, b) THEN pc' = "panic" /\ UNCHANGED <<mem, to_write>>
          ELSE /\ mem' = MemoryAfterWrite(mem, b)
               /\ to_write' = Tail(to_write)
               /\ pc' = AfterWrite
    /\ UNCHANGED <<db, canonical_tip, switchVars, orphans>>

-----------------------------------------------------------------------------
(***************************************************************************)
(* process_orphans, one step per turn of its loop.                         *)
(***************************************************************************)
OrphansAt(h) == {o \in DOMAIN mem.inverse : Height[o] = h}

ProcessStop ==
    /\ pc' = "idle"
    /\ orphans' = NoOrphans
    /\ UNCHANGED <<ledgerVars, mem, to_write, switchVars>>

ProcessStart ==
    /\ pc = "process"
    /\ IF mem.max_orphan_height = NoHeight THEN ProcessStop
       ELSE /\ orphans' = [orphans EXCEPT !.max = mem.max_orphan_height]
            /\ pc' = "orphans"
            /\ UNCHANGED <<ledgerVars, mem, to_write, switchVars>>

ProcessPastMax ==
    /\ pc = "orphans" /\ orphans.h > orphans.max
    /\ ProcessStop

\* Mutant of ProcessMissing: h is not incremented.
ProcessMissingAgain ==
    /\ pc = "orphans" /\ orphans.h <= orphans.max
    /\ orphans.h \notin mem.heights
    /\ UNCHANGED vars

ProcessMissing ==
    /\ pc = "orphans" /\ orphans.h <= orphans.max
    /\ orphans.h \notin mem.heights
    /\ orphans' = [orphans EXCEPT !.h = @ + 1]
    /\ UNCHANGED <<ledgerVars, mem, pc, to_write, switchVars>>

ProcessEmpty ==
    /\ pc = "orphans" /\ orphans.h <= orphans.max
    /\ orphans.h \in mem.heights /\ OrphansAt(orphans.h) = {}
    /\ IF orphans.prev = {} \/ orphans.done THEN ProcessStop
       ELSE /\ orphans' = [orphans EXCEPT !.done = TRUE, !.h = @ + 1]
            /\ UNCHANGED <<ledgerVars, mem, pc, to_write, switchVars>>

ProcessSingle ==
    /\ pc = "orphans" /\ orphans.h <= orphans.max
    /\ \E o \in OrphansAt(orphans.h) :
          /\ OrphansAt(orphans.h) = {o}
          /\ IF o \notin mem.orphan_pool THEN Panic
             ELSE IF Parent[o] = canonical_tip /\ ~orphans.done
             THEN /\ pc' = "write" /\ to_write' = <<o>>
                  /\ orphans' = [orphans EXCEPT !.buf = {}]
                  /\ UNCHANGED <<ledgerVars, mem, switchVars>>
             ELSE ProcessStop

\* Several orphans share the height.  One child of every previous valid tip
\* takes the tip's role (which one is up to the iteration order).  Of the
\* orphans that follow the canonical tip, one of the greatest inverse height
\* is written (sort_unstable_by leaves ties open).
ProcessSeveral ==
    /\ pc = "orphans" /\ orphans.h <= orphans.max
    /\ LET at == OrphansAt(orphans.h)
           buf == {o \in at : Parent[o] = canonical_tip}
           replaced == {p \in orphans.prev \ {canonical_tip} : \E o \in at : Parent[o] = p}
           best == {o \in buf : \A q \in buf : mem.inverse[q] <= mem.inverse[o]}
       IN /\ Cardinality(at) > 1
          /\ IF ~(/\ at \subseteq mem.orphan_pool
                  /\ at \cup replaced \subseteq DOMAIN mem.validations_mapping)
             THEN Panic
             ELSE \E heir \in [replaced -> at] :
               LET heirs == {heir[p] : p \in replaced}
                   prev == (orphans.prev \ replaced) \cup heirs
               IN
               /\ \A p \in replaced : Parent[heir[p]] = p
               /\ mem' = [mem EXCEPT
                     !.validations_mapping =
                         Override(Mark(heirs, "ValidChainTip"),
                                  Override(Mark(replaced, "BelongsToValidChain"), @)),
                     !.valid_tips = (@ \ replaced) \cup heirs]
               /\ \/ /\ buf = {} /\ (prev = {} \/ orphans.done)
                     /\ pc' = "idle" /\ orphans' = NoOrphans
                     /\ UNCHANGED to_write
                  \/ /\ buf = {} /\ prev # {} /\ ~orphans.done
                     /\ orphans' = [orphans EXCEPT !.done = TRUE, !.prev = prev]
                     /\ UNCHANGED <<pc, to_write>>
                  \/ /\ buf # {} /\ ~orphans.done
                     /\ \E w \in best :
                           /\ pc' = "write" /\ to_write' = <<w>>
                           /\ orphans' = [orphans EXCEPT !.prev = prev, !.buf = buf \ {w}]
                  \/ /\ buf # {} /\ orphans.done
                     /\ pc' = "rest"
                     /\ orphans' = [orphans EXCEPT !.prev = prev, !.buf = buf]
                     /\ UNCHANGED to_write
               /\ UNCHANGED <<ledgerVars, switchVars>>

\* The orphans left in buf are marked as tips of valid chains.

ProcessRest ==
    /\ pc = "rest"
    /\ mem' = [mem EXCEPT
          !.validations_mapping = Override(Mark(orphans.buf, "ValidChainTip"), @),
          !.valid_tips = @ \cup orphans.buf]
    /\ orphans' = [orphans EXCEPT !.h = @ + 1, !.prev = @ \cup orphans.buf, !.buf = {}]
    /\ pc' = "orphans"
    /\ UNCHANGED <<ledgerVars, to_write, switchVars>>

-----------------------------------------------------------------------------
(***************************************************************************)
(* attempt_switch and rewind, one step per db.remove.                      *)
(***************************************************************************)

\* The distance from the candidate to the horizon, the first ancestor that is
\* in the db, if all blocks in between are in the pool (there is at most one).
HorizonDistances(c) ==
    {n \in Distance :
        /\ Ancestor[n][c] \in db
        /\ \A k \in 1 .. n - 1 : Ancestor[k][c] \in mem.orphan_pool \ db}

\* The candidate must be higher than the canonical chain.
\* Mutant: a chain as high is taken too.
HigherOrEqual(c) == Height[c] >= height
Higher(c) == Height[c] > height

AttemptSwitch ==
    /\ pc = "switch"
    /\ IF candidate \notin mem.valid_tips THEN Panic
       ELSE IF ~Higher(candidate)
       THEN /\ pc' = "idle" /\ candidate' = NoBlock
            /\ UNCHANGED <<ledgerVars, mem, to_write, cursor, horizon, inverse_height, orphans>>
       ELSE IF HorizonDistances(candidate) = {} THEN Panic
       ELSE \E n \in HorizonDistances(candidate) :
               /\ to_write' = [i \in 1 .. n |-> IF i = n THEN candidate ELSE Ancestor[n - i][candidate]]
               /\ horizon' = Ancestor[n][candidate]
               /\ cursor' = canonical_tip
               /\ inverse_height' = 0
               /\ candidate' = NoBlock
               /\ pc' = "rewind"
               /\ UNCHANGED <<ledgerVars, mem, orphans>>

\* Mutant of RewindBlock: only the old tip is removed.
RewindTipOnly ==
    /\ pc = "rewind"
    /\ IF cursor \notin db THEN Panic
       ELSE /\ db' = db \ {cursor}
            /\ mem' = Unwound(mem, cursor, inverse_height)
            /\ inverse_height' = inverse_height + 1
            /\ pc' = "rewound"
            /\ UNCHANGED <<dbHeight, height, canonical_tip, to_write, candidate, cursor, horizon, orphans>>

RewindBlock ==
    /\ pc = "rewind"
    /\ IF cursor \notin db THEN Panic
       ELSE /\ db' = db \ {cursor}
            /\ mem' = Unwound(mem, cursor, inverse_height)
            /\ inverse_height' = inverse_height + 1
            /\ IF Parent[cursor] = horizon
               THEN pc' = "rewound" /\ UNCHANGED cursor
               ELSE cursor' = Parent[cursor] /\ UNCHANGED pc
            /\ UNCHANGED <<dbHeight, height, canonical_tip, to_write, candidate, horizon, orphans>>

RewindDone ==
    /\ pc = "rewound"
    /\ height' = Height[horizon] /\ dbHeight' = Height[horizon]
    /\ canonical_tip' = horizon
    /\ cursor' = NoBlock /\ horizon' = NoBlock /\ inverse_height' = 0
    /\ pc' = IF to_write = <<>> THEN "idle" ELSE "write"
    /\ UNCHANGED <<db, mem, to_write, candidate, orphans>>

-----------------------------------------------------------------------------
(***************************************************************************)
(* append_block.                                                           *)
(***************************************************************************)
MinAccepted == IF height > MinHeight THEN height - MinHeight ELSE 1

\* Mutant: the pool is full only beyond MAX_ORPHANS.
PoolOverfull == Cardinality(mem.orphan_pool) > MaxOrphans
PoolFull == Cardinality(mem.orphan_pool) >= MaxOrphans

AppendResult(b) ==
    IF Height[b] > height + MaxHeight \/ Height[b] < MinAccepted THEN "BadHeight"
    ELSE IF b \in mem.orphan_pool \cup db THEN "AlreadyInChain"
    ELSE IF Parent[b] = NoBlock THEN "NoParentHash"
    ELSE IF Parent[b] = canonical_tip
         THEN IF Height[b] # height + 1 THEN "BadHeight" ELSE "Ok"
    ELSE IF PoolFull THEN "TooManyOrphans"
    ELSE IF Parent[b] \in db \cup mem.orphan_pool /\ Height[b] # Height[Parent[b]] + 1
         THEN "BadHeight"
    ELSE "Ok"

Appending(b) == pc = "idle" /\ AppendResult(b) = "Ok"

\* An error return leaves the chain as it is.
RejectBlock(b) == pc = "idle" /\ AppendResult(b) # "Ok" /\ UNCHANGED vars

\* The parent is the canonical tip: write the block, then process the orphans
\* from the next height on.
AppendCanonical(b) ==
    /\ Appending(b)
    /\ Parent[b] = canonical_tip
    /\ to_write' = <<b>>
    /\ orphans' = [NoOrphans EXCEPT !.h = Height[b] + 1]
    /\ pc' = "write"
    /\ UNCHANGED <<ledgerVars, mem, switchVars>>

\* The end of every branch that only changes the in-memory maps.
Remember(m) == mem' = m /\ UNCHANGED <<ledgerVars, to_write, cursor, horizon, inverse_height, orphans>>
Settle(m) == Remember(m) /\ UNCHANGED <<pc, candidate>>
SwitchTo(m, tip) == Remember(m) /\ pc' = "switch" /\ candidate' = tip

\* The parent is a canonical block below the tip: a fork starts.
AppendFork(b) ==
    /\ Appending(b)
    /\ Parent[b] # canonical_tip /\ Parent[b] \in db
    /\ LET m == write_orphan(mem, b, "ValidChainTip", 0)
       IN \E head \in BestHeads(m, b) :
            IF ~attempt_attach_validOk(m, b, head) THEN Panic
            ELSE IF head = NoBlock THEN Settle(attempt_attach_valid(m, b, head))
            ELSE SwitchTo(attempt_attach_valid(m, b, head), NewTip(m, b, head))

OnOrphan(b, type) ==
    /\ Appending(b)
    /\ Parent[b] # canonical_tip /\ Parent[b] \notin db /\ Parent[b] \in mem.orphan_pool
    /\ mem.validations_mapping[Parent[b]] = type

\* The parent is the tip of a valid chain: the block is the new tip.
AppendOnValidTip(b) ==
    /\ OnOrphan(b, "ValidChainTip")
    /\ LET m1 == [mem EXCEPT !.validations_mapping[Parent[b]] = "BelongsToValidChain"]
           m2 == write_orphan(m1, b, "ValidChainTip", 0)
       IN \E head \in BestHeads(m2, b) :
            LET tip == NewTip(m2, b, head)
                inverse == Height[tip] - Height[b]
                m3 == attempt_attach_valid(m2, b, head)
                m4 == recurse_inverse(m3, b, inverse, inverse = 0)
            IN IF ~attempt_attach_validOk(m2, b, head) THEN Panic
               ELSE SwitchTo([m4 EXCEPT !.valid_tips = (@ \ {Parent[b]}) \cup {tip}], tip)

\* The parent is inside a valid chain: the block starts a branch of it.  The
\* block enters the pool only after disconnected chains were attached to it.
AppendOnValidBranch(b) ==
    /\ OnOrphan(b, "BelongsToValidChain")
    /\ LET m1 == [mem EXCEPT !.valid_tips = @ \cup {b}]
       IN \E head \in BestHeads(m1, b) :
            LET tip == NewTip(m1, b, head)
                inverse == Height[tip] - Height[b]
                m2 == attempt_attach_valid(m1, b, head)
                m3 == write_orphan(m2, b, IF head = NoBlock THEN "ValidChainTip"
                                          ELSE "BelongsToValidChain", inverse)
            IN IF ~attempt_attach_validOk(m1, b, head) \/ ~RaiseInverseOk(m3, {tip}) THEN Panic
               ELSE SwitchTo(recurse_inverse(m3, tip, inverse, inverse = 0), tip)

\* The end of the two branches that put b on a disconnected chain: attach the
\* disconnected chains that follow b; if there are any, b is no tip.
AttachToDisconnected(m, b, head) ==
    IF ~attempt_attachOk(m, b) \/ ~RaiseInverseOk(m, {b}) THEN Panic
    ELSE \E largest \in LargestAttached(m, b) :
         LET a == attempt_attach(m, b, largest)
         IN Settle(IF HeadsToAttach(m, b) = {} THEN recurse_inverse(a, b, 0, FALSE)
                   ELSE [a EXCEPT !.validations_mapping[b] = "BelongsToDisconnected",
                                  !.disconnected_heads_mapping[head] = @ \ {b},
                                  !.disconnected_tips_mapping = Drop(@, {b})])

\* The parent is the tip of a disconnected chain.
AppendOnDisconnectedTip(b) ==
    /\ OnOrphan(b, "DisconnectedTip")
    /\ LET p == Parent[b]
           head == mem.disconnected_tips_mapping[p]
           m1 == [mem EXCEPT
               !.validations_mapping[p] = "BelongsToDisconnected",
               !.disconnected_heads_mapping[head] = (@ \ {p}) \cup {b},
               !.disconnected_tips_mapping = Drop(@, {p}),
               !.disconnected_heads_heights[head] = IF Height[b] > Height[@] THEN b ELSE @]
           m2 == write_orphan(m1, b, "DisconnectedTip", 0)
           m3 == [m2 EXCEPT !.disconnected_tips_mapping = Put(@, b, head)]
       IN IF /\ p \in DOMAIN mem.disconnected_tips_mapping
             /\ head \in DOMAIN mem.disconnected_heads_mapping
             /\ head \in DOMAIN mem.disconnected_heads_heights
          THEN AttachToDisconnected(m3, b, head)
          ELSE Panic

\* The parent is inside a disconnected chain.
AppendOnDisconnectedBranch(b) ==
    /\ OnOrphan(b, "BelongsToDisconnected")
    /\ IF HeadDistances(mem, b) = {} THEN Panic
       ELSE \E n \in HeadDistances(mem, b) :
            LET head == Ancestor[n][b]
                m1 == write_orphan(mem, b, "DisconnectedTip", 0)
                m2 == [m1 EXCEPT !.disconnected_heads_mapping[head] = @ \cup {b},
                                 !.disconnected_tips_mapping = Put(@, b, head)]
            IN AttachToDisconnected(m2, b, head)

\* The parent is unknown: the block is the head of a new disconnected chain.
\* The loop over valid_tips that follows in the code cannot find the parent
\* (a valid tip is in the pool, the parent is not); it can only panic.
AppendDisconnectedHead(b) ==
    /\ Appending(b)
    /\ Parent[b] # canonical_tip /\ Parent[b] \notin db \cup mem.orphan_pool
    /\ LET m1 == [mem EXCEPT
               !.disconnected_heads_mapping = Put(@, b, {b}),
               !.disconnected_tips_mapping = Put(@, b, b),
               !.disconnected_heads_heights = Put(@, b, b),
               !.heights = @ \cup {Height[b]},
               !.inverse = Put(@, b, 0),
               !.orphan_pool = @ \cup {b}]
       IN IF ~attempt_attachOk(m1, b) \/ ~(mem.valid_tips \subseteq mem.orphan_pool) THEN Panic
          ELSE \E largest \in LargestAttached(m1, b) :
               Settle(write_orphan(attempt_attach(m1, b, largest), b,
                                   IF HeadsToAttach(m1, b) = {} THEN "DisconnectedTip"
                                   ELSE "BelongsToDisconnected", 0))

-----------------------------------------------------------------------------
append_block(b) ==
    \/ RejectBlock(b)
    \/ AppendCanonical(b)
    \/ AppendFork(b)
    \/ AppendOnValidTip(b)
    \/ AppendOnValidBranch(b)
    \/ AppendOnDisconnectedTip(b)
    \/ AppendOnDisconnectedBranch(b)
    \/ AppendDisconnectedHead(b)

\* The steps of a running append_block (or rewind).
Step ==
    \/ WriteBlockStore
    \/ WriteBlockHeight
    \/ ProcessStart
    \/ ProcessPastMax
    \/ ProcessMissing
    \/ ProcessEmpty
    \/ ProcessSingle
    \/ ProcessSeveral
    \/ ProcessRest
    \/ AttemptSwitch
    \/ RewindBlock
    \/ RewindDone

Next == Step \/ \E b \in Block : append_block(b)

Spec == Init /\ [][Next]_vars

\* A thread that runs append_block is scheduled until it returns; whether and
\* when blocks arrive is left open.
FairSpec == Spec /\ WF_vars(Step)

\* The public rewind, which attempt_switch also uses.  Rewinding to genesis is
\* unimplemented!; an unknown hash is answered with NoSuchBlock and leaves the
\* chain as it is.
Rewind(b) ==
    /\ pc = "idle"
    /\ IF b = Genesis THEN Panic
       ELSE IF b \notin db THEN UNCHANGED vars
       ELSE /\ horizon' = b /\ cursor' = canonical_tip
            /\ pc' = "rewind"
            /\ UNCHANGED <<ledgerVars, mem, to_write, candidate, inverse_height, orphans>>

NextWithRewind == Next \/ \E b \in Block \cup {Genesis} : Rewind(b)
SpecWithRewind == Init /\ [][NextWithRewind]_vars


-----------------------------------------------------------------------------
(***************************************************************************)
(* Properties.                                                             *)
(***************************************************************************)

Pcs ==
    {"idle", "write", "height", "process", "orphans", "rest", "switch", "rewind", "rewound", "panic"}

\* Every variable has its type; inverse heights and heights, u64 in the code,
\* never go below zero.
TypeOK ==
    /\ db \subseteq Block
    /\ dbHeight \in Nat /\ height \in Nat
    /\ canonical_tip \in Block \cup {Genesis}
    /\ IsMemory(mem)
    /\ pc \in Pcs
    /\ to_write \in Seq(Block)
    /\ candidate \in Block \cup {NoBlock}
    /\ cursor \in Block \cup {Genesis, NoBlock}
    /\ horizon \in Block \cup {NoBlock}
    /\ inverse_height \in Nat
    /\ orphans.h \in Nat /\ orphans.max \in Nat \cup {NoHeight} /\ orphans.done \in BOOLEAN
    /\ orphans.prev \subseteq Block /\ orphans.buf \subseteq Block

\* The stored chain as a stack: its top is the canonical tip, except while
\* rewind takes blocks off it.
Top ==
    IF pc = "rewound" THEN horizon
    ELSE IF cursor # NoBlock THEN cursor
    ELSE canonical_tip

Store == INSTANCE Ledger WITH blocks <- db, top <- Top

\* write_block and rewind use the db as a stack of blocks: every step of the
\* chain puts a block on the top, takes the top off, or leaves the db alone.
StackOfBlocks == Store!Spec

\* The blocks in the db always form one chain from genesis to the tip, between
\* the removals of a rewind and the writes of a switch too.
CanonicalChain == Store!CanonicalChain

\* Between two appends the cached height, the stored height and the height of
\* the tip agree; write_block increments the stored height, rewind sets all
\* three from the horizon block.
HeightOfTip == pc = "idle" => height = dbHeight /\ height = Height[canonical_tip]

\* No unwrap, assert!, unreachable! or unimplemented! of append_block and of
\* what it calls is ever reached with the maps in the wrong state.
NoPanic == pc # "panic"

\* A block that was accepted is never lost: it is in the db or in the pool from
\* then on.  (rewind moves blocks from the db to the pool, write_block moves
\* them back, attempt_switch does both.)
NeverForgotten == [][db \cup mem.orphan_pool \subseteq db' \cup mem'.orphan_pool]_vars

\* heights_mapping files exactly the orphans in the pool, and between two
\* appends no block is both canonical and an orphan.  process_orphans unwraps
\* the pool entry of every block it finds in heights_mapping.
OrphansFiled ==
    /\ DOMAIN mem.inverse = mem.orphan_pool
    /\ {Height[o] : o \in mem.orphan_pool} \subseteq mem.heights
    /\ pc = "idle" => mem.orphan_pool \cap db = {}

\* The orphan b hangs on the canonical chain through orphans in the pool.
Connected(b) ==
    \E n \in Distance : Ancestor[n][b] \in db
                        /\ \A k \in 0 .. n - 1 : Ancestor[k][b] \in mem.orphan_pool

\* What validations_mapping calls a valid chain is one: between two appends
\* every orphan marked ValidChainTip or BelongsToValidChain, and every member of
\* valid_tips, descends from the canonical chain through orphans in the pool.
\* attempt_switch walks that path with an unwrap at every step.
ValidConnected ==
    pc = "idle" =>
        /\ \A o \in mem.orphan_pool :
              mem.validations_mapping[o] \in {"ValidChainTip", "BelongsToValidChain"} => Connected(o)
        /\ \A t \in mem.valid_tips : Connected(t)

\* Every orphan marked as the tip of a valid chain is in valid_tips, which
\* attempt_switch and attempt_attach_valid assert of their argument.
ValidTipsListed ==
    pc = "idle" => \A o \in mem.orphan_pool :
                      mem.validations_mapping[o] = "ValidChainTip" => o \in mem.valid_tips

\* The disconnected mappings agree: heads and tips are orphans, a head's tips
\* name it as their head, and the tip recorded as the head's highest is one of
\* its tips and no tip is higher (attempt_attach_valid asserts the membership).
DisconnectedAgree ==
    pc = "idle" =>
        /\ DOMAIN mem.disconnected_heads_mapping = DOMAIN mem.disconnected_heads_heights
        /\ DOMAIN mem.disconnected_heads_mapping \subseteq mem.orphan_pool
        /\ \A h \in DOMAIN mem.disconnected_heads_mapping :
              LET tips == mem.disconnected_heads_mapping[h]
              IN /\ \A t \in tips : t \in DOMAIN mem.disconnected_tips_mapping
                                    /\ mem.disconnected_tips_mapping[t] = h
                 /\ mem.disconnected_heads_heights[h] \in tips
                 /\ \A t \in tips : Height[t] <= Height[mem.disconnected_heads_heights[h]]

\* The tips of a disconnected head are tips: none is an ancestor of another, so
\* the order in which make_valid_tips and write_block visit them is irrelevant.
TipsIncomparable ==
    \A h \in DOMAIN mem.disconnected_heads_mapping :
        \A t, u \in mem.disconnected_heads_mapping[h] : \A n \in Distance : Ancestor[n][t] # u

\* What append_block keeps in memory is consistent between two appends: the
\* height, the files of the orphans, the valid chains and the disconnected ones,
\* whatever was attached, switched or processed before.
MapsAgree ==
    /\ HeightOfTip /\ OrphansFiled /\ ValidConnected /\ ValidTipsListed
    /\ DisconnectedAgree /\ TipsIncomparable

\* Between two appends no known valid chain is higher than the canonical one:
\* attempt_switch was tried with every tip that could have won.  It is so of the tree
\* of the stress test.  It is not so of every tree: write_block, while a switch runs,
\* may make the tips of a waiting chain valid, and nothing tries those.
NoHigherValidTip == pc = "idle" => \A t \in mem.valid_tips : Height[t] <= height

\* A switch ends higher than it began: when rewind is done, the blocks still to
\* be written lead above the height the chain had before.
SwitchGains == pc = "rewound" => Height[horizon] + Len(to_write) > height

\* On the tree of the stress test attempt_switch switches exactly when that gains
\* something: to every higher chain, and never to one that is only as high.
HighestWins == NoHigherValidTip /\ SwitchGains

\* The pool holds at most MAX_ORPHANS blocks between two appends, although
\* rewind puts the whole replaced branch into it without a check.
PoolBounded == pc = "idle" => Cardinality(mem.orphan_pool) <= MaxOrphans

\* Once every block was received, in whatever order, the canonical chain is the
\* highest one.  The stress test claims it of its tree; it is not so of a tree
\* whose highest branch may wait, next to a higher one, for the same block.
Converged ==
    (pc = "idle" /\ Block \subseteq db \cup mem.orphan_pool) =>
        \A b \in Block : Height[b] <= height

\* Every append_block returns: process_orphans, attempt_switch and rewind come to
\* an end.
AppendReturns == pc # "idle" ~> pc = "idle"

-----------------------------------------------------------------------------
(***************************************************************************)
(* What comments and tests of the repository say, where the code does      *)
(* something else.                                                         *)
(***************************************************************************)

\* "The biggest height of all orphans" (field max_orphan_height).
MaxOrphanHeightIsMax ==
    pc = "idle" => mem.max_orphan_height =
                       Max({NoHeight} \cup {Height[o] : o \in mem.orphan_pool})

\* "Set containing tips of valid chains that descend from the canonical chain."
\* (field valid_tips): a member has no child among the orphans of a valid chain.
ValidTipsAreTips ==
    pc = "idle" => \A t \in mem.valid_tips : mem.validations_mapping[t] = "ValidChainTip"

\* "The height must be equal to that of the parent plus one" (append_block): so
\* it is for every block of the canonical chain.
CanonicalHeights ==
    \A b \in db : Height[b] = Height[Parent[b]] + 1

\* "Rewinds the canonical chain to the block with the given hash." (rewind): that
\* block stays in the chain.
RewindKeepsTarget == horizon # NoBlock => horizon \in db
=============================================================================
