----------------------------- MODULE Consensus ------------------------------
(***************************************************************************)
(* The consensus machine: the causal graph that events are pushed to in    *)
(* whatever order they arrive, the pending events that wait for their      *)
(* parents, the cached heights, the candidates and the votes they gather,  *)
(* and the injection of validators with their share of the stamp space.    *)
(*                                                                         *)
(* CausalGraph::push is one loop over a queue of graph ends.  Here a turn  *)
(* of the loop is a step Visit and every edge it adds is a step AddEdge,   *)
(* with the orders that hash sets and hash maps are iterated in chosen     *)
(* freely; nothing else happens until push returns (pc is "idle").         *)
(*                                                                         *)
(* Interval tree clocks are a library.  The part of a stamp that is an     *)
(* identity is an interval that fork halves, the part that counts events   *)
(* is a version vector, and whether an event carries the stamp the oracle  *)
(* of is_valid computes is a constant of the event.                        *)
(***************************************************************************)
EXTENDS Integers, Sequences, FiniteSets, SequencesExt, Functions, TLC

CONSTANTS
  Events,        \* the events nodes send
  Root,          \* the root event of the graph
  Node, Parent,  \* sender of each event, parent of each event but the root
  GoodStamps,    \* the events that carry the stamp their sender must use
  NodeId,        \* the id of the node that runs this machine
  Pools,         \* validator sets that are injected
  MaxEpoch,      \* injections
  StampSpace     \* width of the seed's interval, a power of two

VARIABLES
  g,           \* the causal graph, see Empty
  validators,  \* node id -> [id, allowed]
  epoch,       \* injections so far
  pc,          \* "idle", "walk", "add" or "panicked"
  ends,        \* push's queue of <<vertex, following>>
  adding       \* push's to_add, the events alone

vars == <<g, validators, epoch, pc, ends, adding>>

ASSUME EventsAssumption == IsFiniteSet(Events) /\ Root \notin Events

ASSUME PoolsAssumption == \A set \in Pools : IsFiniteSet(set)

All == Events \cup {Root}
Nodes == {Node[e] : e \in All} \cup UNION Pools

(***************************************************************************)
(* Stamps                                                                  *)
(***************************************************************************)

\* What a valid event's stamp counts: its parent's events and one of its sender.
Clock[e \in All] ==
  IF e = Root THEN [n \in Nodes |-> 0]
  ELSE [Clock[Parent[e]] EXCEPT ![Node[e]] = @ + 1]

happened_before(a, b) ==
  /\ \A n \in Nodes : Clock[a][n] <= Clock[b][n]
  /\ Clock[a] # Clock[b]

\* Mutant: the forked node keeps its whole identity.
fork_keeps(id) ==
  LET mid == (id[1] + id[2]) \div 2 IN <<id, <<mid, id[2]>>>>

\* The two halves of an identity.
fork(id) ==
  LET mid == (id[1] + id[2]) \div 2 IN <<<<id[1], mid>>, <<mid, id[2]>>>>

seed == <<0, StampSpace>>

(***************************************************************************)
(* Parameters of the pool                                                  *)
(***************************************************************************)

Count == Cardinality(DOMAIN validators)
proposal_requirement(n) == (n + 1) \div 2

\* Mutant: the requirement Candidate::is_valid uses.
required_proposals_low(n) == proposal_requirement(n)

required_proposals(n) == n + 1

(***************************************************************************)
(* The graph                                                               *)
(***************************************************************************)

\* The edges are the events attached to their parents; a candidate's voters
\* are mapped to the nodes that voted for them.
Empty ==
  [graph |-> {Root}, known |-> {Root}, pending |-> {}, edges |-> {},
   ends |-> Root :> 0, highest |-> <<<<Root>>, 0>>,
   highest_following |-> <<<<>>, 0>>,
   candidates |-> <<>>, ordered |-> <<>>, root |-> Root, to_advance |-> <<>>]

Init ==
  /\ g = Empty
  /\ validators = <<>> /\ epoch = 0
  /\ pc = "idle" /\ ends = <<>> /\ adding = <<>>

out_neighbors(v) == {e \in g.edges : Parent[e] = v}

is_valid(e) ==
  IF Node[e] \notin DOMAIN validators THEN "NotValidator"
  ELSE IF Parent[e] \in g.known /\ e \notin GoodStamps THEN "InvalidStamp"
  ELSE IF ~validators[Node[e]].allowed THEN "NotAllowedToSend"
  ELSE IF Parent[e] \notin g.known THEN "CannotDetermineValidity"
  ELSE "Valid"

(***************************************************************************)
(* push: the loop over the ends                                            *)
(***************************************************************************)

\* An event that is contained is refused by the machine (AlreadyInCG).
Push(e) ==
  /\ pc = "idle" /\ e \notin g.known
  /\ g' = [g EXCEPT !.graph = @ \cup {e}, !.known = @ \cup {e},
                    !.pending = @ \cup {e}, !.to_advance = <<>>]
  /\ \E order \in SetToSeqs(DOMAIN g.ends) :
       ends' = [i \in DOMAIN order |-> <<order[i], g.ends[order[i]]>>]
  /\ pc' = "walk"
  /\ UNCHANGED <<validators, epoch, adding>>

\* The events in a cache of highest events, after e has been attached at n.
Higher(cache, e, n) ==
  IF n > cache[2] THEN <<<<e>>, n>>
  ELSE IF n = cache[2] THEN <<Append(cache[1], e), n>> ELSE cache

\* A pending event that follows the current end becomes an end itself.
Attach(h, e, n) ==
  [h EXCEPT !.ends = (e :> n) @@ Restrict(@, DOMAIN @ \ {Parent[e]}),
            !.highest = Higher(@, e, n),
            !.highest_following = IF Node[e] # NodeId THEN Higher(@, e, n) ELSE @]

\* All that follow it, in the order given.
AttachAll(order, n) ==
  LET One(h, e) == Attach(h, e, n)
      h == FoldLeft(One, g, order)
  IN  [g EXCEPT !.ends = h.ends, !.highest = h.highest,
                !.highest_following = h.highest_following]

\* Mutant: the walk ends where nothing follows.
Backwards_stops(v, n) == <<>>

\* Mutant: the walk comes back to the vertex it started from.
Backwards_again(v, n) == IF v \in g.edges THEN <<<<v, n>>>> ELSE <<>>

\* What the queue gets at its front when nothing follows the current end.
Backwards(v, n) == IF v \in g.edges THEN <<<<Parent[v], n - 1>>>> ELSE <<>>

(***************************************************************************)
(* push: an event that has been attached stands for election or votes      *)
(***************************************************************************)

Candidate_new == [voters |-> <<>>, voters_ids |-> {}, votes |-> 0,
                  proposals |-> 0, proposal_stage |-> FALSE]

Votes(c, e) == happened_before(c, e) /\ Node[e] \notin g.candidates[c].voters_ids
Fresh(e) == {c \in DOMAIN g.candidates : ~g.candidates[c].proposal_stage /\ Votes(c, e)}
Staged(e) == {c \in DOMAIN g.candidates : g.candidates[c].proposal_stage /\ Votes(c, e)}

VoteFor(k, e) ==
  [k EXCEPT !.votes = @ + 1, !.voters = [v \in DOMAIN @ \cup {e} |-> IF v = e THEN {} ELSE @[v]],
            !.voters_ids = @ \cup {Node[e]},
            !.proposal_stage = k.votes + 1 >= proposal_requirement(Count)]

\* The candidates that can result when an event votes for one of the voters
\* of a candidate in its proposal stage; its event is in no voter's place, so
\* removing it from the voters removes nothing.
Endorsed(k, e) ==
  LET can == {v \in DOMAIN k.voters : happened_before(v, e) /\ Node[e] \notin k.voters[v]}
      For(v) ==
        LET by == k.voters[v] \cup {Node[e]} IN
        [k EXCEPT !.voters[v] = by,
                  !.proposals = IF Cardinality(by) >= proposal_requirement(Count)
                                THEN @ + 1 ELSE @]
  IN  IF can = {} THEN {k} ELSE {For(v) : v \in can}

\* Mutant: an event votes for every candidate it follows.
Elections_all(e) == {<<Staged(e), Fresh(e)>>}

\* The candidates an event reaches before the loop over them breaks, which it
\* does at the first one that is not in its proposal stage.
Elections(e) ==
  IF Fresh(e) = {} THEN {<<Staged(e), {}>>}
  ELSE {<<S, {c}>> : S \in SUBSET Staged(e), c \in Fresh(e)}

\* An ordered event becomes the root and what did not follow it is dropped.
Advance(h, c) ==
  LET After(e) == happened_before(c, e) IN
  [h EXCEPT !.candidates = Restrict(@, DOMAIN @ \ {c}),
            !.ordered = Append(@, c), !.root = c,
            !.pending = {e \in @ : After(e)},
            !.graph = {e \in @ : e # c /\ After(e)},
            !.edges = {e \in @ : After(e) /\ Parent[e] # c /\ After(Parent[e])},
            !.ends = Restrict(@, {e \in DOMAIN @ : e \in h.pending => After(e)})]

(***************************************************************************)
(* The steps of push                                                       *)
(***************************************************************************)

AdvanceAll(h) == FoldLeft(Advance, h, h.to_advance)

\* push returns when nothing is pending and when the ends have been walked.
Return ==
  /\ pc = "walk" /\ (g.pending = {} \/ ends = <<>>)
  /\ pc' = "idle" /\ ends' = <<>>
  /\ UNCHANGED <<g, validators, epoch, adding>>

\* A turn of the loop, up to the edges it adds.
Visit ==
  /\ pc = "walk" /\ g.pending # {} /\ ends # <<>>
  /\ LET v == Last(ends)[1]
         n == Last(ends)[2]
         follow == {e \in g.pending : is_valid(e) = "Valid" /\ Parent[e] = v}
         invalid == {e \in g.pending :
                      is_valid(e) \notin {"Valid", "CannotDetermineValidity"}}
     IN  IF v \notin g.graph
         THEN pc' = "panicked" /\ UNCHANGED <<g, ends, adding>>
         ELSE \E order \in SetToSeqs(follow) :
           /\ g' = LET h == [AttachAll(order, n + 1) EXCEPT
                              !.pending = @ \ (follow \cup invalid)]
                   IN  IF follow = {} THEN AdvanceAll(h) ELSE h
           /\ ends' = (IF follow = {} THEN Backwards(v, n)
                       ELSE Reverse([i \in DOMAIN order |-> <<order[i], n + 1>>]))
                      \o Front(ends)
           /\ adding' = order
           /\ pc' = IF follow = {} THEN "walk" ELSE "add"
  /\ UNCHANGED <<validators, epoch>>

\* Adds an edge, and advances the candidates that are due after the last one.
AddEdge ==
  /\ pc = "add"
  /\ LET e == Head(adding)
         last == Len(adding) = 1
         Then(h) == g' = IF last THEN AdvanceAll(h) ELSE h
         linked == [g EXCEPT !.edges = @ \cup {e}]
     IN  /\ IF Parent[e] = g.root
            THEN Then([linked EXCEPT !.candidates =
                     [c \in DOMAIN @ \cup {e} |-> IF c \in DOMAIN @ THEN @[c] ELSE Candidate_new]])
            ELSE \E r \in Elections(e) :
                 \E k \in [r[1] -> UNION {Endorsed(g.candidates[c], e) : c \in r[1]}] :
                   /\ \A c \in r[1] : k[c] \in Endorsed(g.candidates[c], e)
                   /\ LET due == {c \in r[1] : g.candidates[c].proposals
                                                 >= required_proposals(Count)}
                      IN  Then([linked EXCEPT
                            !.candidates = [c \in DOMAIN @ |->
                              IF c \in r[1] THEN k[c]
                              ELSE IF c \in r[2] THEN VoteFor(@[c], e) ELSE @[c]],
                            !.to_advance = @ \o SetToSeq(due)])
         /\ pc' = IF last THEN "walk" ELSE "add"
  /\ adding' = Tail(adding)
  /\ UNCHANGED <<validators, epoch, ends>>

(***************************************************************************)
(* ConsensusMachine::inject                                                *)
(***************************************************************************)

\* The ids of the new set and of the pool, the largest first; an id that is
\* in both is there twice.
AllIds(set) ==
  FoldLeft(LAMBDA s, n : s \o (IF n \in set /\ n \in DOMAIN validators
                               THEN <<n, n>> ELSE <<n>>),
           <<>>, SetToSortSeq(set \cup DOMAIN validators, >))

\* One id takes half of the stamp of an id that has one, or the seed.
Assign(set, w, n) ==
  LET refill == w.stack = <<>>
      stack == IF refill THEN w.forked ELSE w.stack
      forked == IF refill THEN <<>> ELSE w.forked
      id == Last(stack)[1]
      from == Last(stack)[2]
      half == fork(id)
      state == [id |-> IF from = 0 THEN id ELSE half[2], allowed |-> TRUE]
  IN  IF w.bad \/ n \notin set THEN [w EXCEPT !.bad = TRUE]
      ELSE [stack |-> Front(stack), bad |-> FALSE,
            forked |-> forked \o (IF from = 0 THEN <<<<id, n>>>>
                                  ELSE <<<<half[1], from>>, <<half[2], n>>>>),
            pool |-> (n :> state)
                     @@ (IF from = 0 THEN <<>> ELSE from :> [w.pool[from] EXCEPT !.id = half[1]])
                     @@ w.pool]

\* Injections happen before the first event; a validator of the pool that is
\* not in the new set is looked up in it, and the lookup panics.  No ids but
\* those of the set and of the pool are assigned a stamp.
inject(set) ==
  /\ pc = "idle" /\ g.known = {Root} /\ epoch < MaxEpoch
  /\ LET Step(w, n) == Assign(set, w, n)
         w == FoldLeft(Step, [stack |-> <<<<seed, 0>>>>, forked |-> <<>>,
                              pool |-> validators, bad |-> FALSE], AllIds(set))
     IN  /\ validators' = Restrict(w.pool, DOMAIN w.pool \cap (set \cup DOMAIN validators))
         /\ pc' = IF w.bad THEN "panicked" ELSE "idle"
  /\ epoch' = epoch + 1
  /\ UNCHANGED <<g, ends, adding>>

Next ==
  \/ \E e \in Events : Push(e)
  \/ Visit
  \/ AddEdge
  \/ Return
  \/ \E set \in Pools : inject(set)

\* push runs to its end once it has been called.
Spec == Init /\ [][Next]_vars /\ WF_vars(Visit \/ AddEdge \/ Return)

(***************************************************************************)
(* compute_highest_following                                               *)
(***************************************************************************)

\* Vertices below the root of the graph by the number of events they follow.
Depth[e \in All] == IF e = Root THEN 0 ELSE 1 + Depth[Parent[e]]

\* The ends of the branches that start at a vertex, without the terminal
\* events of the node.
Branch(node, v) ==
  LET Terminal(y) == out_neighbors(y) = {} /\ Node[y] = node
      In[x \in g.edges] ==
        IF out_neighbors(x) = {} THEN {x}
        ELSE UNION {IF Terminal(y) THEN {x} ELSE In[y] : y \in out_neighbors(x)}
  IN  In[v]

\* Mutant: the shortest branch is taken.
compute_highest_following_low(node, e) ==
  LET completed == UNION {Branch(node, v) : v \in out_neighbors(e)}
  IN  {x \in completed : \A y \in completed : Depth[x] <= Depth[y]}

\* The events that can be returned: none, or one of the highest ends.
compute_highest_following(node, e) ==
  LET completed == UNION {Branch(node, v) : v \in out_neighbors(e)}
  IN  {x \in completed : \A y \in completed : Depth[x] >= Depth[y]}

(***************************************************************************)
(* Properties                                                              *)
(***************************************************************************)

Idle == pc = "idle"

\* The events between an event and the root, itself included.
Lineage[e \in All] == IF e = Root THEN {} ELSE {e} \cup Lineage[Parent[e]]

\* Could be attached: it and everything it descends from has been pushed by a
\* validator, with the right stamp.
Attachable(e) ==
  Lineage[e] \subseteq {x \in g.known \cap GoodStamps : Node[x] \in DOMAIN validators}

(* The order in which events arrive does not matter: whenever push has     *)
(* returned, the events that have edges are exactly those whose whole      *)
(* lineage has arrived and is valid, however late the parents were, and    *)
(* an event that waits is waiting for something.                           *)
ArrivalOrderForgotten ==
  Idle /\ g.ordered = <<>> =>
    /\ g.edges = {e \in g.known \ {Root} : Attachable(e)}
    /\ \A e \in g.pending : Parent[e] \notin g.edges \cup {Root}

(* The cached ends of the graph are its leaves, each with the number of    *)
(* events it follows: push starts its walks from them, so a vertex that is *)
(* in none of their lineages could never get a follower.                   *)
EndsAreLeaves ==
  Idle /\ g.ordered = <<>> =>
    LET leaves == {e \in g.edges \cup {Root} : out_neighbors(e) = {}}
    IN  g.ends = [e \in leaves |-> Depth[e]]

(* The cached highest events are all the attached events of the greatest   *)
(* height, each once, although they arrive in any order and although the   *)
(* walk reaches a vertex from several ends.                                *)
HighestAreDeepest ==
  Idle /\ g.ordered = <<>> =>
    LET there == g.edges \cup {Root}
        top == {e \in there : \A x \in there : Depth[x] <= Depth[e]}
    IN  /\ Range(g.highest[1]) = top /\ Len(g.highest[1]) = Cardinality(top)
        /\ \A e \in top : g.highest[2] = Depth[e]

(* The graph, its ends and its highest events are those of the events that *)
(* have arrived: push forgets the order.                                   *)
OrderForgotten == ArrivalOrderForgotten /\ EndsAreLeaves /\ HighestAreDeepest

(* An event votes for one candidate at most, a node votes once for a       *)
(* candidate, and the votes of a candidate are as many as the nodes that   *)
(* voted and as the events they voted with.                                *)
VotesAreSingle ==
  \A c \in DOMAIN g.candidates :
    LET k == g.candidates[c] IN
    /\ k.votes = Cardinality(k.voters_ids) /\ k.votes = Cardinality(DOMAIN k.voters)
    /\ \A v \in DOMAIN k.voters : Node[v] \in k.voters_ids /\ k.voters[v] \cap k.voters_ids = {}
    /\ \A d \in DOMAIN g.candidates \ {c} :
         DOMAIN k.voters \cap DOMAIN g.candidates[d].voters = {}

(* With the requirements as they are no candidate is ever ordered: the     *)
(* nodes that may endorse a voter are those that did not vote, so a        *)
(* candidate has at most one proposal for each of its votes, and that is   *)
(* fewer than the proposals it needs.                                      *)
ProposalsFallShort ==
  /\ \A c \in DOMAIN g.candidates :
       LET k == g.candidates[c] IN
       k.proposals <= k.votes /\ k.proposals < required_proposals(Count)
  /\ g.ordered = <<>>

(* The identities of two validators never overlap, whatever was injected   *)
(* before and although an id of both sets is assigned a stamp twice.       *)
IdentitiesDisjoint ==
  pc # "panicked" => \A m, n \in DOMAIN validators : m # n =>
    LET a == validators[m].id
        b == validators[n].id
    IN  a[2] <= b[1] \/ b[2] <= a[1]

\* The events that follow one.
After(e) == {x \in g.edges : e = Root \/ (x # e /\ e \in Lineage[x])}

\* The search ends at an event of the node itself: at a terminal one that follows
\* directly, or at one that the node followed with a terminal one.
EndsAtOwn(node, e, x) ==
  \/ Parent[x] = e /\ out_neighbors(x) = {}
  \/ \E y \in out_neighbors(x) : out_neighbors(y) = {} /\ Node[y] = node

(* What compute_highest_following returns follows the given event, no      *)
(* event of another node that follows it is higher, and nothing is         *)
(* returned only when there are no followers.  It is an event of another   *)
(* node but for the two ways in which the search ends at one of the given  *)
(* node, which is not compared with what is returned.                      *)
FollowerIsHighest ==
  Idle => \A node \in Nodes, e \in g.edges \cup {Root} :
    LET found == compute_highest_following(node, e)
    IN  /\ found = {} <=> After(e) = {}
        /\ found \subseteq After(e)
        /\ \A x \in found, y \in After(e) : Node[y] # node => Depth[y] <= Depth[x]
        /\ \A x \in found : Node[x] = node => EndsAtOwn(node, e, x)

(* The documented result of compute_highest_following: the highest event   *)
(* that follows the given one and does not belong to the given node.       *)
(* Refuted: a direct follower of the node's own is returned.               *)
FollowerOfOthers ==
  Idle => \A node \in Nodes, e \in g.edges \cup {Root} :
    \A x \in compute_highest_following(node, e) : Node[x] # node

(* A call of push returns: the walk back from the ends is finite although  *)
(* every event it attaches becomes an end to walk from.                    *)
PushReturns == pc = "walk" ~> pc \in {"idle", "panicked"}
=============================================================================
