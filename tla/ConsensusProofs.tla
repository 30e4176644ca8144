-------------------------- MODULE ConsensusProofs ---------------------------
(***************************************************************************)
(* Votes are counted once and no candidate is ever ordered, for every set  *)
(* of events, every order in which they arrive, every sequence of          *)
(* validator sets and every choice that hash iteration leaves open.        *)
(***************************************************************************)
EXTENDS Consensus, FiniteSetTheorems, TLAPS

\* A leaf is proved by Zenon unless it says otherwise.
USE Zenon

-----------------------------------------------------------------------------
(***************************************************************************)
(* The inductive invariant.                                                *)
(***************************************************************************)

\* The events that wait for their edge.
Queued == {adding[i] : i \in DOMAIN adding}

\* The fields of the causal graph.
Fields == {"graph", "known", "pending", "edges", "ends", "highest", "highest_following",
           "candidates", "ordered", "root", "to_advance"}

\* An event is pending, waits for its edge or has it, and only validators' events
\* get one.  No candidate is due.
GraphInv ==
    /\ DOMAIN g = Fields
    /\ IsFiniteSet(DOMAIN validators)
    /\ g.edges \cup g.pending \cup Queued \subseteq g.known \cap Events
    /\ g.edges \cap g.pending = {} /\ Queued \cap (g.edges \cup g.pending) = {}
    /\ adding \in Seq(Events)
    /\ \A i, j \in DOMAIN adding : i # j => adding[i] # adding[j]
    /\ \A e \in Queued : Node[e] \in DOMAIN validators
    /\ pc = "add" => adding # <<>>
    /\ g.to_advance = <<>> /\ g.ordered = <<>>

\* A candidate, when the nodes D are validators and the events E have edges.
IsCandidate(k, D, E) ==
    /\ DOMAIN k = {"voters", "voters_ids", "votes", "proposals", "proposal_stage"}
    /\ DOMAIN k.voters \subseteq E /\ k.voters_ids \subseteq D
    /\ \A v \in DOMAIN k.voters : k.voters[v] \subseteq D
    /\ k.votes \in Nat /\ k.proposals \in Nat /\ k.proposal_stage \in BOOLEAN

\* The voters that enough nodes have endorsed.
Full(k, D) ==
    {v \in DOMAIN k.voters : Cardinality(k.voters[v]) >= proposal_requirement(Cardinality(D))}

\* Votes are counted as VotesAreSingle says.  Endorsing starts when the votes suffice
\* for the proposal stage, and the proposals are the voters endorsed often enough.
Counted(k, D, E) ==
    /\ IsCandidate(k, D, E)
    /\ k.votes = Cardinality(k.voters_ids) /\ k.votes = Cardinality(DOMAIN k.voters)
    /\ \A v \in DOMAIN k.voters : Node[v] \in k.voters_ids /\ k.voters[v] \cap k.voters_ids = {}
    /\ ~k.proposal_stage => \A v \in DOMAIN k.voters : k.voters[v] = {}
    /\ k.proposal_stage => k.votes >= proposal_requirement(Cardinality(D))
    /\ k.proposals = Cardinality(Full(k, D))

\* Candidates have edges, each is counted, and no event votes for two of them.
AllCounted(C, D, E) ==
    /\ DOMAIN C \subseteq E
    /\ \A c \in DOMAIN C : Counted(C[c], D, E)
    /\ \A c, d \in DOMAIN C : c # d => DOMAIN C[c].voters \cap DOMAIN C[d].voters = {}

VotesInv == AllCounted(g.candidates, DOMAIN validators, g.edges)

CountInv == GraphInv /\ VotesInv

-----------------------------------------------------------------------------
(***************************************************************************)
(* One candidate.                                                          *)
(***************************************************************************)

\* A set that gets a new element is one larger.
LEMMA OneMore ==
    ASSUME NEW S, IsFiniteSet(S), NEW x, x \notin S
    PROVE  Cardinality(S \cup {x}) = Cardinality(S) + 1 /\ Cardinality(S) \in Nat
BY FS_AddElement, FS_CardinalityType

\* Where no voter has been endorsed, none has been endorsed often enough.
LEMMA NoneFull ==
    ASSUME NEW k, NEW D, IsFiniteSet(D), D # {}, \A v \in DOMAIN k.voters : k.voters[v] = {}
    PROVE  Full(k, D) = {}
<1>1. Cardinality(D) \in Nat /\ Cardinality(D) # 0
    BY FS_CardinalityType, FS_EmptySet
<1>2. ~(0 >= proposal_requirement(Cardinality(D)))
    BY <1>1, SMTT(30) DEF proposal_requirement
<1>3. ASSUME NEW v \in DOMAIN k.voters
      PROVE  ~(Cardinality(k.voters[v]) >= proposal_requirement(Cardinality(D)))
    <2>1. Cardinality(k.voters[v]) = 0
        BY FS_EmptySet
    <2> QED
        BY <1>2, <2>1
<1> QED
    BY <1>3 DEF Full

\* What Candidate::new makes has no votes.
LEMMA NewCounted ==
    ASSUME NEW D, IsFiniteSet(D), NEW E
    PROVE  Counted(Candidate_new, D, E)
<1>1. DOMAIN Candidate_new.voters = {} /\ Full(Candidate_new, D) = {}
    BY SMTT(30) DEF Candidate_new, Full
<1>2. IsCandidate(Candidate_new, D, E)
    BY <1>1 DEF Candidate_new, IsCandidate
<1> QED
    BY <1>1, <1>2, FS_EmptySet DEF Candidate_new, Counted

\* A candidate stays counted when an edge is added.
LEMMA CountedMore ==
    ASSUME NEW k, NEW D, NEW E, NEW F, E \subseteq F, Counted(k, D, E)
    PROVE  Counted(k, D, F)
BY DEF Counted, IsCandidate

\* No candidate has as many proposals as push needs before it orders one.
LEMMA Short ==
    ASSUME NEW k, NEW D, IsFiniteSet(D), NEW E, IsFiniteSet(E), Counted(k, D, E)
    PROVE  k.proposals <= k.votes /\ k.proposals < required_proposals(Cardinality(D))
<1>1. DOMAIN k.voters \subseteq E /\ k.voters_ids \subseteq D /\ Full(k, D) \subseteq DOMAIN k.voters
    BY DEF Counted, IsCandidate, Full
<1>2. /\ IsFiniteSet(DOMAIN k.voters) /\ IsFiniteSet(k.voters_ids)
      /\ Cardinality(k.voters_ids) <= Cardinality(D)
    BY <1>1, FS_Subset
<1>3. Cardinality(Full(k, D)) <= Cardinality(DOMAIN k.voters)
    BY <1>1, <1>2, FS_Subset
<1>4. Cardinality(D) \in Nat
    BY FS_CardinalityType
<1>5. /\ k.votes \in Nat /\ k.proposals \in Nat
      /\ k.votes = Cardinality(k.voters_ids) /\ k.votes = Cardinality(DOMAIN k.voters)
      /\ k.proposals = Cardinality(Full(k, D))
    BY DEF Counted, IsCandidate
<1> QED
    BY <1>2, <1>3, <1>4, <1>5, SMTT(30) DEF required_proposals

\* The vote of a node that has not voted, before the proposal stage.
LEMMA VoteCounted ==
    ASSUME NEW k, NEW E, IsFiniteSet(E), IsFiniteSet(DOMAIN validators),
           Counted(k, DOMAIN validators, E), ~k.proposal_stage,
           NEW e, e \notin E, Node[e] \in DOMAIN validators \ k.voters_ids
    PROVE  Counted(VoteFor(k, e), DOMAIN validators, E \cup {e})
<1> DEFINE D == DOMAIN validators
           w == VoteFor(k, e)
<1>1. /\ DOMAIN k = {"voters", "voters_ids", "votes", "proposals", "proposal_stage"}
      /\ DOMAIN k.voters \subseteq E /\ k.voters_ids \subseteq D
      /\ k.votes \in Nat /\ k.proposals \in Nat
    BY DEF Counted, IsCandidate
<1>2. /\ DOMAIN w = DOMAIN k /\ w.votes = k.votes + 1
      /\ DOMAIN w.voters = DOMAIN k.voters \cup {e}
      /\ \A v \in DOMAIN k.voters \cup {e} : w.voters[v] = IF v = e THEN {} ELSE k.voters[v]
      /\ w.voters_ids = k.voters_ids \cup {Node[e]} /\ w.proposals = k.proposals
      /\ w.proposal_stage = (k.votes + 1 >= proposal_requirement(Count))
    BY <1>1 DEF VoteFor
<1> HIDE DEF w
<1>3. \A v \in DOMAIN w.voters : w.voters[v] = {}
    BY <1>2 DEF Counted
<1>4. /\ Cardinality(w.voters_ids) = Cardinality(k.voters_ids) + 1
      /\ Cardinality(DOMAIN w.voters) = Cardinality(DOMAIN k.voters) + 1
    <2>1. IsFiniteSet(k.voters_ids) /\ IsFiniteSet(DOMAIN k.voters)
        BY <1>1, FS_Subset
    <2>2. Node[e] \notin k.voters_ids /\ e \notin DOMAIN k.voters
        BY <1>1
    <2> QED
        BY <1>2, <2>1, <2>2, OneMore
<1>5. Cardinality(Full(w, D)) = Cardinality(Full(k, D))
    <2>1. Full(w, D) = {}
        BY <1>3, NoneFull
    <2>2. Full(k, D) = {}
        BY NoneFull DEF Counted
    <2> QED
        BY <2>1, <2>2
<1>6. IsCandidate(w, D, E \cup {e})
    BY <1>1, <1>2, <1>3, SMTT(30) DEF IsCandidate
<1>7. /\ w.votes = Cardinality(w.voters_ids) /\ w.votes = Cardinality(DOMAIN w.voters)
      /\ w.proposals = Cardinality(Full(w, D))
    BY <1>2, <1>4, <1>5 DEF Counted
<1>8. \A v \in DOMAIN w.voters : Node[v] \in w.voters_ids /\ w.voters[v] \cap w.voters_ids = {}
    BY <1>2, <1>3 DEF Counted
<1>9. w.proposal_stage => w.votes >= proposal_requirement(Cardinality(D))
    BY <1>2 DEF Count
<1> QED
    BY <1>3, <1>6, <1>7, <1>8, <1>9 DEF Counted, w

\* What is left of the validators when enough of them have voted is not more than it
\* takes to endorse a voter, so the node that completes a proposal is the last one.
LEMMA LastEndorsement ==
    ASSUME NEW D, IsFiniteSet(D), NEW I, NEW B, I \subseteq D, B \subseteq D, I \cap B = {},
           Cardinality(I) >= proposal_requirement(Cardinality(D))
    PROVE  Cardinality(B) <= proposal_requirement(Cardinality(D))
<1>1. IsFiniteSet(I) /\ IsFiniteSet(B)
    BY FS_Subset
<1>2. Cardinality(I \cup B) = Cardinality(I) + Cardinality(B)
    <2>1. Cardinality(I \cap B) = 0
        BY FS_EmptySet
    <2>2. Cardinality(I \cup B) = Cardinality(I) + Cardinality(B) - Cardinality(I \cap B)
        BY <1>1, FS_Union
    <2>3. Cardinality(I) \in Nat /\ Cardinality(B) \in Nat
        BY <1>1, FS_CardinalityType
    <2> QED
        BY <1>1, <2>1, <2>2, <2>3, SMTT(30)
<1>3. Cardinality(I \cup B) <= Cardinality(D)
    BY FS_Subset
<1>4. Cardinality(D) \in Nat /\ Cardinality(I) \in Nat /\ Cardinality(B) \in Nat
    BY <1>1, FS_CardinalityType
<1> QED
    BY <1>2, <1>3, <1>4, SMTT(30) DEF proposal_requirement

\* The endorsement of a voter by a node that has neither voted nor endorsed that voter.
LEMMA EndorsedCounted ==
    ASSUME NEW k, NEW E, IsFiniteSet(E), IsFiniteSet(DOMAIN validators),
           Counted(k, DOMAIN validators, E), k.proposal_stage,
           NEW e, Node[e] \in DOMAIN validators \ k.voters_ids,
           NEW w \in Endorsed(k, e)
    PROVE  Counted(w, DOMAIN validators, E) /\ DOMAIN w.voters = DOMAIN k.voters
<1> DEFINE D == DOMAIN validators
           req == proposal_requirement(Cardinality(D))
<1>1. /\ DOMAIN k = {"voters", "voters_ids", "votes", "proposals", "proposal_stage"}
      /\ DOMAIN k.voters \subseteq E /\ k.voters_ids \subseteq D
      /\ k.votes \in Nat /\ k.proposals \in Nat
      /\ \A v \in DOMAIN k.voters : k.voters[v] \subseteq D
    BY DEF Counted, IsCandidate
<1>2. CASE w = k
    BY <1>2
<1>3. ASSUME w # k
      PROVE  Counted(w, D, E) /\ DOMAIN w.voters = DOMAIN k.voters
    <2>1. PICK v \in DOMAIN k.voters :
             /\ Node[e] \notin k.voters[v]
             /\ w = [k EXCEPT !.voters[v] = k.voters[v] \cup {Node[e]},
                              !.proposals = IF Cardinality(k.voters[v] \cup {Node[e]})
                                                 >= proposal_requirement(Count)
                                            THEN @ + 1 ELSE @]
        BY <1>3 DEF Endorsed
    <2> DEFINE by == k.voters[v] \cup {Node[e]}
    <2>2. /\ DOMAIN w = DOMAIN k /\ w.votes = k.votes /\ w.voters_ids = k.voters_ids
          /\ w.proposal_stage = k.proposal_stage
          /\ DOMAIN w.voters = DOMAIN k.voters /\ w.voters[v] = by
          /\ \A x \in DOMAIN k.voters \ {v} : w.voters[x] = k.voters[x]
          /\ w.proposals = IF Cardinality(by) >= req THEN k.proposals + 1 ELSE k.proposals
        BY <1>1, <2>1 DEF Count
    <2>3. by \subseteq D /\ by \cap k.voters_ids = {}
        BY <1>1 DEF Counted
    <2>4. /\ IsFiniteSet(k.voters[v]) /\ Cardinality(by) = Cardinality(k.voters[v]) + 1
          /\ Cardinality(k.voters[v]) \in Nat
        <3>1. IsFiniteSet(k.voters[v])
            BY <1>1, FS_Subset
        <3> QED
            BY <2>1, <3>1, FS_AddElement, FS_CardinalityType
    <2>5. Cardinality(by) <= req
        <3>1. Cardinality(k.voters_ids) >= req
            BY DEF Counted
        <3> QED
            BY <1>1, <2>3, <3>1, LastEndorsement
    <2>6. req \in Nat
        BY FS_CardinalityType, SMTT(30) DEF proposal_requirement
    <2> HIDE DEF by, req
    <2>7. v \notin Full(k, D)
        BY <2>4, <2>5, <2>6, SMTT(30) DEF Full, req
    <2>8. Full(w, D) = IF Cardinality(by) >= req THEN Full(k, D) \cup {v} ELSE Full(k, D)
        BY <2>2, <2>7 DEF Full, req
    <2>9. IsFiniteSet(Full(k, D))
        <3>1. Full(k, D) \subseteq E
            BY <1>1 DEF Full
        <3> QED
            BY <3>1, FS_Subset
    <2>10. w.proposals = Cardinality(Full(w, D))
        <3>1. k.proposals = Cardinality(Full(k, D))
            BY DEF Counted
        <3>2. Cardinality(Full(k, D) \cup {v}) = Cardinality(Full(k, D)) + 1
            BY <2>7, <2>9, OneMore
        <3> QED
            BY <2>2, <2>8, <3>1, <3>2
    <2>11. IsCandidate(w, D, E)
        <3>1. \A x \in DOMAIN w.voters : w.voters[x] \subseteq D
            BY <1>1, <2>2, <2>3
        <3>2. w.proposals \in Nat
            BY <1>1, <2>2, SMTT(30)
        <3>3. w.proposal_stage \in BOOLEAN
            BY <2>2 DEF Counted, IsCandidate
        <3> QED
            BY <1>1, <2>2, <3>1, <3>2, <3>3 DEF IsCandidate
    <2>12. \A x \in DOMAIN w.voters : Node[x] \in w.voters_ids /\ w.voters[x] \cap w.voters_ids = {}
        BY <2>2, <2>3 DEF Counted
    <2>13. /\ w.votes = Cardinality(w.voters_ids) /\ w.votes = Cardinality(DOMAIN w.voters)
           /\ w.proposal_stage /\ w.votes >= req
        BY <2>2 DEF Counted, req
    <2> QED
        BY <2>2, <2>10, <2>11, <2>12, <2>13 DEF Counted, req
<1> QED
    BY <1>2, <1>3

-----------------------------------------------------------------------------
(***************************************************************************)
(* All candidates.                                                         *)
(***************************************************************************)

\* A child of the root stands for election.
LEMMA StandingCounted ==
    ASSUME NEW C, NEW D, IsFiniteSet(D), NEW E, AllCounted(C, D, E), NEW e
    PROVE  AllCounted([c \in DOMAIN C \cup {e} |-> IF c \in DOMAIN C THEN C[c] ELSE Candidate_new],
                      D, E \cup {e})
<1> DEFINE N == [c \in DOMAIN C \cup {e} |-> IF c \in DOMAIN C THEN C[c] ELSE Candidate_new]
<1>1. ASSUME NEW c \in DOMAIN N
      PROVE  Counted(N[c], D, E \cup {e})
    <2>1. CASE c \in DOMAIN C
        BY <2>1, CountedMore DEF AllCounted
    <2>2. CASE c \notin DOMAIN C
        BY <2>2, NewCounted
    <2> QED
        BY <2>1, <2>2
<1>2. DOMAIN Candidate_new.voters = {}
    BY SMTT(30) DEF Candidate_new
<1>3. ASSUME NEW c \in DOMAIN N, NEW d \in DOMAIN N, c # d
      PROVE  DOMAIN N[c].voters \cap DOMAIN N[d].voters = {}
    <2>1. CASE c \in DOMAIN C /\ d \in DOMAIN C
        BY <1>3, <2>1 DEF AllCounted
    <2>2. CASE c \notin DOMAIN C \/ d \notin DOMAIN C
        BY <1>2, <2>2
    <2> QED
        BY <2>1, <2>2
<1>4. DOMAIN N \subseteq E \cup {e}
    BY DEF AllCounted
<1> HIDE DEF N
<1>5. AllCounted(N, D, E \cup {e})
    BY <1>1, <1>3, <1>4 DEF AllCounted
<1> QED
    BY <1>5 DEF N

\* An event that endorses and votes before the loop over the candidates breaks.
LEMMA ElectionCounted ==
    ASSUME IsFiniteSet(DOMAIN validators), IsFiniteSet(g.edges), VotesInv,
           NEW e, e \notin g.edges, Node[e] \in DOMAIN validators,
           NEW r \in Elections(e), NEW k, \A c \in r[1] : k[c] \in Endorsed(g.candidates[c], e)
    PROVE  AllCounted([c \in DOMAIN g.candidates |->
                         IF c \in r[1] THEN k[c]
                         ELSE IF c \in r[2] THEN VoteFor(g.candidates[c], e) ELSE g.candidates[c]],
                      DOMAIN validators, g.edges \cup {e})
<1> DEFINE D == DOMAIN validators
           C == g.candidates
           N == [c \in DOMAIN C |-> IF c \in r[1] THEN k[c]
                                    ELSE IF c \in r[2] THEN VoteFor(C[c], e) ELSE C[c]]
<1>1. r[1] \subseteq Staged(e) /\ r[2] \subseteq Fresh(e) /\ \A c, d \in r[2] : c = d
    BY SMTT(30) DEF Elections
<1>2. ASSUME NEW c \in DOMAIN C, c \in r[1]
      PROVE  Counted(k[c], D, g.edges \cup {e}) /\ DOMAIN k[c].voters = DOMAIN C[c].voters
    <2>1. C[c].proposal_stage /\ Node[e] \notin C[c].voters_ids
        BY <1>1, <1>2 DEF Staged, Votes
    <2>2. Counted(C[c], D, g.edges) /\ k[c] \in Endorsed(C[c], e)
        BY <1>2 DEF VotesInv, AllCounted
    <2>3. Counted(k[c], D, g.edges) /\ DOMAIN k[c].voters = DOMAIN C[c].voters
        BY <2>1, <2>2, EndorsedCounted
    <2> QED
        BY <2>3, CountedMore
<1>3. ASSUME NEW c \in DOMAIN C, c \in r[2]
      PROVE  /\ Counted(VoteFor(C[c], e), D, g.edges \cup {e})
             /\ DOMAIN VoteFor(C[c], e).voters = DOMAIN C[c].voters \cup {e}
    <2>1. ~C[c].proposal_stage /\ Node[e] \notin C[c].voters_ids
        BY <1>1, <1>3 DEF Fresh, Votes
    <2>2. Counted(C[c], D, g.edges)
        BY DEF VotesInv, AllCounted
    <2>3. DOMAIN VoteFor(C[c], e).voters = DOMAIN C[c].voters \cup {e}
        BY <2>2 DEF VoteFor, Counted, IsCandidate
    <2> QED
        BY <2>1, <2>2, <2>3, VoteCounted
<1>4. ASSUME NEW c \in DOMAIN C
      PROVE  Counted(N[c], D, g.edges \cup {e})
    <2>1. CASE c \in r[1]
        BY <1>2, <2>1
    <2>2. CASE c \notin r[1] /\ c \in r[2]
        BY <1>3, <2>2
    <2>3. CASE c \notin r[1] /\ c \notin r[2]
        BY <2>3, CountedMore DEF VotesInv, AllCounted
    <2> QED
        BY <2>1, <2>2, <2>3
<1>5. \A c \in DOMAIN C : DOMAIN N[c].voters = DOMAIN C[c].voters
                          \/ (c \in r[2] /\ DOMAIN N[c].voters = DOMAIN C[c].voters \cup {e})
    BY <1>2, <1>3
<1>6. DOMAIN N = DOMAIN C
    OBVIOUS
<1> HIDE DEF N
<1>7. \A c \in DOMAIN C : e \notin DOMAIN C[c].voters
    BY DEF VotesInv, AllCounted, Counted, IsCandidate
<1>8. ASSUME NEW c \in DOMAIN C, NEW d \in DOMAIN C, c # d
      PROVE  DOMAIN N[c].voters \cap DOMAIN N[d].voters = {}
    <2>1. DOMAIN C[c].voters \cap DOMAIN C[d].voters = {}
        BY <1>8 DEF VotesInv, AllCounted
    <2>2. ~(c \in r[2] /\ d \in r[2])
        BY <1>1, <1>8
    <2> QED
        BY <1>5, <1>7, <2>1, <2>2
<1>9. AllCounted(N, D, g.edges \cup {e})
    BY <1>4, <1>6, <1>8 DEF VotesInv, AllCounted
<1> QED
    BY <1>9 DEF N

\* No candidate is due, so none is advanced.
LEMMA NoneDue ==
    ASSUME IsFiniteSet(DOMAIN validators), IsFiniteSet(g.edges), VotesInv, NEW S, S \subseteq DOMAIN g.candidates
    PROVE  SetToSeq({c \in S : g.candidates[c].proposals >= required_proposals(Count)}) = <<>>
<1>1. ASSUME NEW c \in S
      PROVE  ~(g.candidates[c].proposals >= required_proposals(Count))
    <2>1. Counted(g.candidates[c], DOMAIN validators, g.edges)
        BY DEF VotesInv, AllCounted
    <2>2. g.candidates[c].proposals < required_proposals(Count) /\ g.candidates[c].proposals \in Nat
        BY <2>1, Short DEF Count, Counted, IsCandidate
    <2>3. required_proposals(Count) \in Nat
        BY FS_CardinalityType, SMTT(30) DEF Count, required_proposals
    <2> QED
        BY <2>2, <2>3, SMTT(30)
<1>2. {c \in S : g.candidates[c].proposals >= required_proposals(Count)} = {}
    BY <1>1
<1>3. SetToSeq({}) = <<>>
    BY FS_EmptySet, SMTT(30) DEF SetToSeq, IsInjective
<1> QED
    BY <1>2, <1>3

\* The loop over to_advance does nothing when there is nothing to advance.
LEMMA AdvanceNone ==
    ASSUME NEW h, h.to_advance = <<>>
    PROVE  AdvanceAll(h) = h
<1> DEFINE F(iter) == [s \in SUBSET DOMAIN h.to_advance |->
                         IF s = {} THEN h
                         ELSE LET x == Max(s) IN Advance(iter[s \ {x}], h.to_advance[x])]
<1>1. DOMAIN h.to_advance = {}
    BY SMTT(30)
<1>2. AdvanceAll(h) = (CHOOSE iter : iter = F(iter))[DOMAIN h.to_advance]
    BY DEF AdvanceAll, FoldLeft, MapThenFoldSet
<1>3. \E iter : iter = F(iter)
    <2>1. \A iter : F(iter) = [s \in {{}} |-> h]
        BY <1>1
    <2> QED
        BY <2>1
<1>4. PICK iter : iter = F(iter) /\ AdvanceAll(h) = iter[DOMAIN h.to_advance]
    BY <1>2, <1>3
<1> QED
    BY <1>1, <1>4

-----------------------------------------------------------------------------
(***************************************************************************)
(* The steps.                                                              *)
(***************************************************************************)

\* The edges are finitely many.
LEMMA EdgesFinite == GraphInv => IsFiniteSet(g.edges)
BY EventsAssumption, FS_Subset DEF GraphInv

\* CausalGraph::new.
LEMMA InitCounted == Init => CountInv
<1> SUFFICES ASSUME Init
             PROVE  CountInv
    OBVIOUS
<1>1. DOMAIN validators = {} /\ DOMAIN adding = {} /\ DOMAIN g.candidates = {}
    BY SMTT(30) DEF Init, Empty
<1>2. Queued = {}
    BY <1>1 DEF Queued
<1>3. GraphInv
    BY <1>1, <1>2, FS_EmptySet, SMTT(30) DEF Init, Empty, GraphInv, Fields
<1>4. VotesInv
    BY <1>1 DEF VotesInv, AllCounted
<1> QED
    BY <1>3, <1>4 DEF CountInv

\* CausalGraph::push, up to its loop: an event that is not known becomes pending.
LEMMA PushCounted == ASSUME CountInv, NEW e \in Events, Push(e) PROVE CountInv'
<1>0. /\ DOMAIN g = Fields
      /\ g' = [g EXCEPT !.graph = @ \cup {e}, !.known = @ \cup {e},
                        !.pending = @ \cup {e}, !.to_advance = <<>>]
    BY DEF Push, CountInv, GraphInv
<1>1. /\ DOMAIN g' = Fields /\ g'.known = g.known \cup {e} /\ g'.pending = g.pending \cup {e}
      /\ g'.edges = g.edges /\ g'.candidates = g.candidates
      /\ g'.to_advance = <<>> /\ g'.ordered = g.ordered
    BY <1>0 DEF Fields
<1>2. e \notin g.known /\ adding' = adding /\ validators' = validators /\ pc' = "walk"
    BY DEF Push
<1>3. Queued' = Queued
    BY <1>2 DEF Queued
<1>4. /\ g.edges \cup g.pending \cup Queued \subseteq g.known \cap Events
      /\ g.edges \cap g.pending = {} /\ Queued \cap (g.edges \cup g.pending) = {}
    BY DEF CountInv, GraphInv
<1>5. /\ g'.edges \cup g'.pending \cup Queued' \subseteq g'.known \cap Events
      /\ g'.edges \cap g'.pending = {} /\ Queued' \cap (g'.edges \cup g'.pending) = {}
    BY <1>1, <1>2, <1>3, <1>4, SMTT(30)
<1>6. GraphInv'
    BY <1>1, <1>2, <1>3, <1>5 DEF CountInv, GraphInv
<1>7. VotesInv'
    BY <1>1, <1>2 DEF CountInv, VotesInv
<1> QED
    BY <1>6, <1>7 DEF CountInv

\* A turn of push's loop: the valid events that follow the current end wait for
\* their edges.
LEMMA VisitCounted == ASSUME CountInv, Visit PROVE CountInv'
<1> DEFINE v == Last(ends)[1]
           n == Last(ends)[2]
           follow == {e \in g.pending : is_valid(e) = "Valid" /\ Parent[e] = v}
           invalid == {e \in g.pending : is_valid(e) \notin {"Valid", "CannotDetermineValidity"}}
<1>1. validators' = validators
    BY DEF Visit
<1>2. CASE v \notin g.graph
    <2>1. g' = g /\ adding' = adding /\ pc' = "panicked"
        BY <1>2 DEF Visit
    <2>2. Queued' = Queued
        BY <2>1 DEF Queued
    <2> QED
        BY <1>1, <2>1, <2>2 DEF CountInv, GraphInv, VotesInv
<1>3. ASSUME v \in g.graph
      PROVE  CountInv'
    <2> DEFINE H(order) == [AttachAll(order, n + 1) EXCEPT !.pending = @ \ (follow \cup invalid)]
    <2>1. PICK order \in SetToSeqs(follow) :
             /\ g' = IF follow = {} THEN AdvanceAll(H(order)) ELSE H(order)
             /\ adding' = order /\ pc' = IF follow = {} THEN "walk" ELSE "add"
        BY <1>3 DEF Visit
    <2>2. /\ DOMAIN H(order) = Fields /\ H(order).known = g.known
          /\ H(order).pending = g.pending \ (follow \cup invalid)
          /\ H(order).edges = g.edges /\ H(order).candidates = g.candidates
          /\ H(order).to_advance = <<>> /\ H(order).ordered = g.ordered
        BY DEF AttachAll, CountInv, GraphInv, Fields
    <2> HIDE DEF H
    <2>3. g' = H(order)
        BY <2>1, <2>2, AdvanceNone
    <2>4. /\ follow \subseteq g.pending /\ IsFiniteSet(follow)
          /\ \A e \in follow : Node[e] \in DOMAIN validators
        <3>1. follow \subseteq Events
            BY DEF CountInv, GraphInv
        <3>2. IsFiniteSet(follow)
            BY <3>1, EventsAssumption, FS_Subset
        <3> QED
            BY <3>2 DEF is_valid
    <2> HIDE DEF follow
    <2>5. /\ order \in [1..Cardinality(follow) -> follow] /\ Cardinality(follow) \in Nat
          /\ \A i, j \in DOMAIN order : i # j => order[i] # order[j]
          /\ follow # {} => Cardinality(follow) # 0
        <3>1. Cardinality(follow) \in Nat /\ (follow # {} => Cardinality(follow) # 0)
            BY <2>4, FS_CardinalityType, FS_EmptySet
        <3> QED
            BY <2>1, <3>1 DEF SetToSeqs
    <2>6. Queued' \subseteq follow
        BY <2>1, <2>5 DEF Queued
    <2>7. adding' \in Seq(Events) /\ (pc' = "add" => adding' # <<>>)
        <3>1. follow \subseteq Events
            BY <2>4 DEF CountInv, GraphInv
        <3>2. order \in Seq(Events) /\ Len(order) = Cardinality(follow)
            BY <2>5, <3>1, SMTT(30)
        <3> QED
            BY <2>1, <2>5, <3>2
    <2>8. GraphInv'
        BY <1>1, <2>1, <2>2, <2>3, <2>4, <2>5, <2>6, <2>7 DEF CountInv, GraphInv
    <2>9. VotesInv'
        BY <1>1, <2>2, <2>3 DEF CountInv, VotesInv
    <2> QED
        BY <2>8, <2>9 DEF CountInv
<1> QED
    BY <1>2, <1>3

\* The next edge.  The event at the head of to_add gets it, and stands for election
\* or votes; nothing is advanced, because no candidate is due.
LEMMA AddEdgeCounted == ASSUME CountInv, AddEdge PROVE CountInv'
<1> DEFINE e == Head(adding)
           D == DOMAIN validators
           linked == [g EXCEPT !.edges = @ \cup {e}]
           Stands == [linked EXCEPT !.candidates =
                        [c \in DOMAIN @ \cup {e} |-> IF c \in DOMAIN @ THEN @[c] ELSE Candidate_new]]
           Due(r) == {c \in r[1] : g.candidates[c].proposals >= required_proposals(Count)}
           Elected(r, k) == [linked EXCEPT
                               !.candidates = [c \in DOMAIN @ |->
                                                 IF c \in r[1] THEN k[c]
                                                 ELSE IF c \in r[2] THEN VoteFor(@[c], e) ELSE @[c]],
                               !.to_advance = @ \o SetToSeq(Due(r))]
           Then(h) == g' = IF Len(adding) = 1 THEN AdvanceAll(h) ELSE h
<1>1. /\ adding # <<>> /\ adding \in Seq(Events) /\ adding' = Tail(adding) /\ validators' = validators
      /\ pc' = IF Len(adding) = 1 THEN "walk" ELSE "add"
    BY DEF AddEdge, CountInv, GraphInv
<1>2. /\ e \in Queued /\ Queued' \subseteq Queued \ {e}
      /\ adding' \in Seq(Events) /\ (pc' = "add" => adding' # <<>>)
      /\ \A i, j \in DOMAIN adding' : i # j => adding'[i] # adding'[j]
    <2>1. /\ Len(adding) \in Nat /\ Len(adding) > 0 /\ DOMAIN adding = 1..Len(adding) /\ e = adding[1]
          /\ adding' \in Seq(Events) /\ Len(adding') = Len(adding) - 1
          /\ DOMAIN adding' = 1..(Len(adding) - 1)
          /\ \A i \in 1..(Len(adding) - 1) : adding'[i] = adding[i + 1]
        BY <1>1, SMTT(30)
    <2>2. \A i, j \in DOMAIN adding : i # j => adding[i] # adding[j]
        BY DEF CountInv, GraphInv
    <2>3. e \in Queued
        <3>1. 1 \in DOMAIN adding /\ e = adding[1]
            BY <2>1, SMTT(30)
        <3> QED
            BY <3>1 DEF Queued
    <2>4. Queued' \subseteq Queued \ {e}
        BY <2>1, <2>2, SMTT(30) DEF Queued
    <2>5. \A i, j \in DOMAIN adding' : i # j => adding'[i] # adding'[j]
        BY <2>1, <2>2, SMTT(30)
    <2>6. pc' = "add" => adding' # <<>>
        BY <1>1, <2>1, SMTT(30)
    <2> QED
        BY <2>1, <2>3, <2>4, <2>5, <2>6
<1> HIDE DEF e
<1>3. /\ e \in g.known \cap Events /\ e \notin g.edges /\ e \notin g.pending /\ Node[e] \in D
      /\ IsFiniteSet(D) /\ IsFiniteSet(g.edges) /\ VotesInv /\ g.to_advance = <<>>
      /\ DOMAIN g = Fields
    BY <1>2, EdgesFinite DEF CountInv, GraphInv
<1>4. \E h : /\ Then(h) /\ DOMAIN h = Fields /\ h.edges = g.edges \cup {e}
             /\ h.known = g.known /\ h.pending = g.pending /\ h.ordered = g.ordered
             /\ h.to_advance = <<>> /\ AllCounted(h.candidates, D, g.edges \cup {e})
    <2>1. CASE Parent[e] = g.root
        <3>1. Then(Stands)
            BY <2>1 DEF AddEdge, e
        <3>2. /\ DOMAIN Stands = Fields /\ Stands.edges = g.edges \cup {e}
              /\ Stands.known = g.known /\ Stands.pending = g.pending
              /\ Stands.ordered = g.ordered /\ Stands.to_advance = <<>>
              /\ Stands.candidates = [c \in DOMAIN g.candidates \cup {e} |->
                    IF c \in DOMAIN g.candidates THEN g.candidates[c] ELSE Candidate_new]
            BY <1>3 DEF Fields
        <3> HIDE DEF Stands
        <3>3. AllCounted([c \in DOMAIN g.candidates \cup {e} |->
                            IF c \in DOMAIN g.candidates THEN g.candidates[c] ELSE Candidate_new],
                         D, g.edges \cup {e})
            BY <1>3, StandingCounted DEF VotesInv
        <3>4. AllCounted(Stands.candidates, D, g.edges \cup {e})
            BY <3>2, <3>3
        <3> QED
            BY <3>1, <3>2, <3>4
    <2>2. CASE Parent[e] # g.root
        <3>1. PICK r \in Elections(e) :
                \E k \in [r[1] -> UNION {Endorsed(g.candidates[c], e) : c \in r[1]}] :
                   (\A c \in r[1] : k[c] \in Endorsed(g.candidates[c], e)) /\ Then(Elected(r, k))
            BY <2>2 DEF AddEdge, e
        <3>2. PICK k : (\A c \in r[1] : k[c] \in Endorsed(g.candidates[c], e)) /\ Then(Elected(r, k))
            BY <3>1
        <3>3. r[1] \subseteq DOMAIN g.candidates
            BY SMTT(30) DEF Elections, Staged
        <3>4. SetToSeq(Due(r)) = <<>>
            BY <1>3, <3>3, NoneDue
        <3> HIDE DEF Due
        <3>5. /\ DOMAIN Elected(r, k) = Fields /\ Elected(r, k).edges = g.edges \cup {e}
              /\ Elected(r, k).known = g.known /\ Elected(r, k).pending = g.pending
              /\ Elected(r, k).ordered = g.ordered /\ Elected(r, k).to_advance = <<>> \o <<>>
              /\ Elected(r, k).candidates = [c \in DOMAIN g.candidates |->
                    IF c \in r[1] THEN k[c]
                    ELSE IF c \in r[2] THEN VoteFor(g.candidates[c], e) ELSE g.candidates[c]]
            BY <1>3, <3>4 DEF Fields
        <3> HIDE DEF Elected
        <3>6. AllCounted([c \in DOMAIN g.candidates |->
                            IF c \in r[1] THEN k[c]
                            ELSE IF c \in r[2] THEN VoteFor(g.candidates[c], e) ELSE g.candidates[c]],
                         D, g.edges \cup {e})
            BY <1>3, <3>2, ElectionCounted
        <3>7. AllCounted(Elected(r, k).candidates, D, g.edges \cup {e})
            BY <3>5, <3>6
        <3>8. <<>> \o <<>> = <<>>
            BY SMTT(30)
        <3> QED
            BY <3>2, <3>5, <3>7, <3>8
    <2> QED
        BY <2>1, <2>2
<1> HIDE DEF Stands, Elected, Due
<1>5. PICK h : /\ Then(h) /\ DOMAIN h = Fields /\ h.edges = g.edges \cup {e}
               /\ h.known = g.known /\ h.pending = g.pending /\ h.ordered = g.ordered
               /\ h.to_advance = <<>> /\ AllCounted(h.candidates, D, g.edges \cup {e})
    BY <1>4
<1>6. g' = h
    BY <1>5, AdvanceNone
<1>7. GraphInv'
    BY <1>1, <1>2, <1>3, <1>5, <1>6 DEF CountInv, GraphInv
<1>8. VotesInv'
    BY <1>1, <1>5, <1>6 DEF VotesInv
<1> QED
    BY <1>7, <1>8 DEF CountInv

\* ConsensusMachine::inject, which runs before the first event.
LEMMA InjectCounted == ASSUME CountInv, NEW set \in Pools, inject(set) PROVE CountInv'
<1>1. g.known = {Root} /\ g' = g /\ adding' = adding /\ pc' # "add"
    BY DEF inject
<1>2. g.edges = {} /\ Queued = {} /\ Queued' = {}
    BY <1>1, EventsAssumption, SMTT(30) DEF CountInv, GraphInv, Queued
<1>3. IsFiniteSet(DOMAIN validators')
    <2>1. PICK w : validators' = Restrict(w, DOMAIN w \cap (set \cup DOMAIN validators))
        BY DEF inject
    <2>2. DOMAIN validators' \subseteq set \cup DOMAIN validators
        BY <2>1 DEF Restrict
    <2>3. IsFiniteSet(set \cup DOMAIN validators)
        BY PoolsAssumption, FS_Union DEF CountInv, GraphInv
    <2> QED
        BY <2>2, <2>3, FS_Subset
<1>4. GraphInv'
    BY <1>1, <1>2, <1>3 DEF CountInv, GraphInv
<1>5. DOMAIN g.candidates = {}
    BY <1>2 DEF CountInv, VotesInv, AllCounted
<1>6. VotesInv'
    BY <1>1, <1>2, <1>5 DEF VotesInv, AllCounted
<1> QED
    BY <1>4, <1>6 DEF CountInv

\* Every step of the machine keeps the counts.
LEMMA CountStep == CountInv /\ [Next]_vars => CountInv'
<1> SUFFICES ASSUME CountInv, [Next]_vars
             PROVE  CountInv'
    OBVIOUS
<1>1. ASSUME NEW e \in Events, Push(e)
      PROVE  CountInv'
    BY <1>1, PushCounted
<1>2. CASE Visit
    BY <1>2, VisitCounted
<1>3. CASE AddEdge
    BY <1>3, AddEdgeCounted
<1>4. ASSUME UNCHANGED <<g, validators, adding>>, pc' # "add" \/ pc' = pc
      PROVE  CountInv'
    <2>1. Queued' = Queued
        BY <1>4 DEF Queued
    <2> QED
        BY <1>4, <2>1 DEF CountInv, GraphInv, VotesInv
<1>5. CASE Return
    BY <1>4, <1>5 DEF Return
<1>6. ASSUME NEW set \in Pools, inject(set)
      PROVE  CountInv'
    BY <1>6, InjectCounted
<1>7. CASE UNCHANGED vars
    BY <1>4, <1>7 DEF vars
<1> QED
    BY <1>1, <1>2, <1>3, <1>5, <1>6, <1>7 DEF Next

\* The counts hold in every reachable state, whatever order push and hash iteration
\* meet the events in.
LEMMA CountInvariant == Spec => []CountInv
BY InitCounted, CountStep, PTL DEF Spec

-----------------------------------------------------------------------------
(***************************************************************************)
(* The properties.                                                         *)
(***************************************************************************)

\* push lets an event vote for one candidate at most and a node once for a candidate,
\* and Candidate's votes is the number of its voters.
THEOREM VotesCountedOnce == Spec => []VotesAreSingle
<1>1. CountInv => VotesAreSingle
    BY DEF CountInv, VotesInv, AllCounted, Counted, VotesAreSingle
<1> QED
    BY <1>1, CountInvariant, PTL

\* push never orders a candidate: required_proposals is more than the proposals that
\* the nodes which did not vote can make.
THEOREM NeverOrders == Spec => []ProposalsFallShort
<1>1. ASSUME CountInv
      PROVE  ProposalsFallShort
    <2>1. ASSUME NEW c \in DOMAIN g.candidates
          PROVE  /\ g.candidates[c].proposals <= g.candidates[c].votes
                 /\ g.candidates[c].proposals < required_proposals(Count)
        <3>1. /\ Counted(g.candidates[c], DOMAIN validators, g.edges)
              /\ IsFiniteSet(DOMAIN validators) /\ IsFiniteSet(g.edges)
            BY <1>1, EdgesFinite DEF CountInv, GraphInv, VotesInv, AllCounted
        <3> QED
            BY <3>1, Short DEF Count
    <2> QED
        BY <1>1, <2>1 DEF CountInv, GraphInv, ProposalsFallShort
<1> QED
    BY <1>1, CountInvariant, PTL

=============================================================================
