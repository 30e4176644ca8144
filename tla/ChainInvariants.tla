--------------------------- MODULE ChainInvariants --------------------------
(***************************************************************************)
(* The inductive invariants of Chain about types, the store, the files of  *)
(* the orphan pool, and switches.                                          *)
(***************************************************************************)
EXTENDS ChainRestart, OrphanChains

-----------------------------------------------------------------------------
(***************************************************************************)
(* The type invariant is inductive once it says that the queue of          *)
(* write_block is not empty while a block is written, and that a running   *)
(* rewind has a target.                                                    *)
(***************************************************************************)

\* The locals of process_orphans.
OrphansRecord ==
    [h : Nat, max : Nat \cup {NoHeight}, done : BOOLEAN, prev : SUBSET Block, buf : SUBSET Block]

\* Every variable has its type, and the locals of an append are set while it uses them.
TypeInv ==
    /\ db \in SUBSET Block
    /\ dbHeight \in Nat /\ height \in Nat
    /\ canonical_tip \in Block \cup {Genesis}
    /\ mem \in Memory
    /\ pc \in Pcs
    /\ to_write \in Seq(Block)
    /\ pc \in {"write", "height"} => to_write # <<>>
    /\ candidate \in Block \cup {NoBlock}
    /\ cursor \in Block \cup {Genesis, NoBlock}
    /\ horizon \in Block \cup {NoBlock}
    /\ pc \in {"rewind", "rewound"} => horizon \in Block
    /\ inverse_height \in Nat
    /\ orphans \in OrphansRecord

\* Where the top of the stack is: the cursor is set only while a rewind runs
\* (a rewind may panic), and then always.
RewindState ==
    /\ cursor # NoBlock => pc \in {"rewind", "rewound", "panic"}
    /\ pc \in {"rewind", "rewound"} => cursor # NoBlock

\* What the steps need, before and after a restart.
BaseInv == TypeInv /\ RewindState /\ StoreClosed

\* The inductive invariant of a chain that starts with an empty database.
StoreInv == TypeInv /\ RewindState /\ CanonicalChain

-----------------------------------------------------------------------------
(***************************************************************************)
(* Restarts.  Chain::new starts at genesis again, over the blocks that     *)
(* earlier runs have left.                                                 *)
(***************************************************************************)

\* The stored blocks form chains that meet at genesis only, and no stored block
\* follows the top unless the top is genesis.
ForestInv ==
    /\ UsableStore
    /\ Top \in db \cup {Genesis}
    /\ Top # Genesis => \A b \in db : Parent[b] # Top

\* Only the first block that a run writes has genesis as its parent; append_block
\* has checked that it is not stored.
FirstWrite ==
    /\ pc \in {"height", "process", "orphans", "rest"} => canonical_tip # Genesis
    /\ pc = "write" /\ canonical_tip = Genesis => Head(to_write) \notin db

\* The inductive invariant across restarts.
RestartInv == TypeInv /\ RewindState /\ FirstWrite /\ ForestInv

-----------------------------------------------------------------------------
(***************************************************************************)
(* Heights.                                                                *)
(***************************************************************************)

\* Outside write_block the three heights agree; between its two writes the tip
\* is one ahead of the stored height.
HeightInv ==
    /\ pc \notin {"height", "panic"} => height = dbHeight /\ height = Height[canonical_tip]
    /\ pc = "height" => Height[canonical_tip] = dbHeight + 1

-----------------------------------------------------------------------------
(***************************************************************************)
(* append_block files the block it received.                               *)
(***************************************************************************)

\* The branch ends with maps that file b and what was filed before; the tip
\* that attempt_switch is called with is an orphan.
Files(b) ==
    \E n, t : /\ Settle(n) \/ (SwitchTo(n, t) /\ t \in n.orphan_pool)
             /\ FilesToo(mem, n, b)

-----------------------------------------------------------------------------
(***************************************************************************)
(* The inductive invariant: a block is in the db and in the pool at once   *)
(* only between the two writes of its write_block.                         *)
(***************************************************************************)

\* The files agree, and a block is in the db and the pool at once only while it is written.
PoolInv ==
    /\ Filed(mem)
    /\ pc # "panic" => mem.orphan_pool \cap db \subseteq (IF pc = "height" THEN {Head(to_write)} ELSE {})
    /\ pc = "height" => Head(to_write) \in db

\* Nothing that was in the db or in the pool is lost in this step.
Kept == db \cup mem.orphan_pool \subseteq db' \cup mem'.orphan_pool

-----------------------------------------------------------------------------
(***************************************************************************)
(* Switches.  All of it under well-formed heights, and with restarts.      *)
(***************************************************************************)

\* A switch is running: its blocks wait in to_write.
Switching == pc \in {"rewind", "rewound"} \/ (pc \in {"write", "height"} /\ orphans = NoOrphans)

\* process_orphans runs, or a write_block after which it runs, exactly when its
\* first height is set.
OrphansRun ==
    /\ pc \in {"idle", "switch", "rewind", "rewound"} => orphans = NoOrphans
    /\ pc \in {"process", "orphans", "rest"} => orphans.h > 0
    /\ pc \in {"write", "height"} /\ orphans # NoOrphans => orphans.h > 0 /\ Len(to_write) = 1

\* The cached height is the stored one and that of the tip.  Only after a restart,
\* which takes the height from the db and genesis for the tip, it may be another,
\* until a block of the next height is written.
TipHeight ==
    /\ pc \in {"process", "orphans", "rest", "height"} => canonical_tip # Genesis
    /\ pc \notin {"height", "panic"} => height = dbHeight
    /\ pc \notin {"height", "panic"} /\ canonical_tip # Genesis => height = Height[canonical_tip]
    /\ pc = "height" => Height[canonical_tip] = dbHeight + 1
    /\ pc = "write" /\ canonical_tip = Genesis => Height[Head(to_write)] = height + 1

\* The blocks a switch writes are orphans of one height after the other, and lead
\* above the height the chain had; a rewind has removed inverse_height blocks.
Gaining ==
    /\ pc = "switch" => candidate \in mem.orphan_pool
    /\ Switching => \A i \in 1 .. Len(to_write) :
                        /\ to_write[i] \in mem.orphan_pool
                        /\ Height[to_write[i]] = Height[to_write[1]] + i - 1
    /\ pc \in {"rewind", "rewound"} => Height[horizon] + Len(to_write) > height
    /\ pc = "rewind" /\ cursor \in Block => Height[cursor] + inverse_height = height
    /\ pc = "rewound" => Height[horizon] + inverse_height = height

\* The pool exceeds its limit by at most the blocks a rewind has put into it, and
\* then by at most the blocks that are still to leave it.
Room ==
    CASE pc = "rewind" -> MaxOrphans + inverse_height
      [] pc = "rewound" -> MaxOrphans + inverse_height
      [] pc \in {"write", "height"} /\ orphans = NoOrphans -> MaxOrphans + Len(to_write)
      [] OTHER -> MaxOrphans
\* The pool has at most that many blocks.
Fits == pc # "panic" => Cardinality(mem.orphan_pool) <= Room

\* What a switch keeps.
SwitchInv == OrphansRun /\ TipHeight /\ Gaining /\ Fits

=============================================================================
