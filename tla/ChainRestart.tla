---------------------------- MODULE ChainRestart ----------------------------
(***************************************************************************)
(* Chain with a process that may stop between any two writes to the db     *)
(* (a crash, a panic, or a plain exit) and start again with Chain::new on  *)
(* what the db holds.                                                      *)
(***************************************************************************)
EXTENDS Chain

\* Chain::new.  Nothing ever writes TIP_KEY, so the tip is the genesis block;
\* the height is read back; every in-memory map is empty.
Restart ==
    /\ canonical_tip' = Genesis
    /\ height' = dbHeight
    /\ mem' = EmptyMemory
    /\ pc' = "idle" /\ to_write' = <<>>
    /\ candidate' = NoBlock /\ cursor' = NoBlock /\ horizon' = NoBlock /\ inverse_height' = 0
    /\ orphans' = NoOrphans
    /\ UNCHANGED <<db, dbHeight>>

RestartNext == Next \/ Restart

RestartSpec == Init /\ [][RestartNext]_vars

-----------------------------------------------------------------------------

\* Across crashes too, the parent of every stored block is stored: no crash
\* point of write_block, rewind or attempt_switch leaves a block in the db whose
\* parent_hash leads nowhere.
StoreClosed == \A b \in db : Parent[b] \in db \cup {Genesis}

\* Across crashes the stored blocks fork at the genesis block only: the chain
\* that a restarted node builds starts at genesis again and never grows on a
\* block of an earlier run.
ForksAtGenesis ==
    \A b, c \in db : b # c /\ Parent[b] = Parent[c] => Parent[b] = Genesis

\* What write_block and rewind leave in the db is usable after a crash at any of
\* their writes: stored blocks lead to genesis, and meet only there.
UsableStore == StoreClosed /\ ForksAtGenesis

\* "The tip block of the canonical chain." (field canonical_tip; "Canonical tip
\* block key" of TIP_KEY): between two appends no stored block follows the tip.
TipIsLastBlock == pc = "idle" => \A b \in db : Parent[b] # canonical_tip
=============================================================================
