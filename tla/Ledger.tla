------------------------------- MODULE Ledger -------------------------------
(***************************************************************************)
(* What the block store of chain.rs promises, whatever happens in the      *)
(* orphan pool: a stack of blocks on top of the genesis block.  Blocks are *)
(* only ever put on the top (write_block) and taken off the top (rewind).  *)
(***************************************************************************)

CONSTANTS
    Block,    \* the blocks that may ever be received, named by their hash
    Genesis,  \* B::genesis(); it is never stored
    Parent    \* parent_hash of every block

VARIABLES
    blocks,   \* the blocks stored in the PersistentDb
    top       \* the last block of the stored chain

ledger == <<blocks, top>>

Init == blocks = {} /\ top = Genesis

\* write_block: only a block whose parent is the top can be written.
Push(b) ==
    /\ b \notin blocks /\ Parent[b] = top
    /\ blocks' = blocks \cup {b}
    /\ top' = b

\* One turn of rewind.
Pop ==
    /\ top \in blocks
    /\ blocks' = blocks \ {top}
    /\ top' = Parent[top]

Next == Pop \/ \E b \in Block : Push(b)

Spec == Init /\ [][Next]_ledger

-----------------------------------------------------------------------------

\* The parent of every stored block is stored or is the genesis block: whoever
\* follows parent_hash from a stored block (attempt_switch and rewind do, with
\* an unwrap on every read) finds every block down to genesis.
Closed == \A b \in blocks : Parent[b] \in blocks \cup {Genesis}

\* No two stored blocks share a parent.
Unforked == \A b, c \in blocks : Parent[b] = Parent[c] => b = c

\* The top is stored (or is genesis) and no stored block follows it.
TopIsLast == top \in blocks \cup {Genesis} /\ \A b \in blocks : Parent[b] # top

\* The stored blocks are one chain that starts at genesis and ends at top.
CanonicalChain == Closed /\ Unforked /\ TopIsLast
=============================================================================
