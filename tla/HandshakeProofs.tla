-------------------------- MODULE HandshakeProofs ---------------------------
(***************************************************************************)
(* Proofs about the handshake, for any set of nodes and any number of      *)
(* dials: a node is the server of a peer only if the peer is its client,   *)
(* and the session keys at the two ends fit.                               *)
(***************************************************************************)
EXTENDS Handshake, SequenceTheorems, TLAPS

Packet == Nodes \X Nat

\* What the proofs use of an entry.
Fields == {"connection_type", "pk", "rx", "tx"}

\* The entries of node n are those of other nodes.
EntriesOK(n) ==
  /\ DOMAIN peers[n] \subseteq Nodes \ {n}
  /\ \A m \in DOMAIN peers[n] :
       /\ Fields \subseteq DOMAIN Entry(n, m)
       /\ Entry(n, m).connection_type \in {"Client", "Server"} /\ Entry(n, m).pk \in Nat

\* Whoever sent a packet to n has an entry for n.
SendersKnow(n) ==
  \A i \in DOMAIN mailbox[n] :
    LET m == mailbox[n][i][1] IN m \in Nodes \ {n} /\ n \in DOMAIN peers[m]

HandshakeInv ==
  /\ fresh \in Nat
  /\ DOMAIN peers = Nodes /\ \A n \in Nodes : EntriesOK(n)
  /\ mailbox \in [Nodes -> Seq(Packet)] /\ \A n \in Nodes : SendersKnow(n)
  /\ ServersHaveClients

\* The handler of a Connect packet sets keys; the role and the key pair stay.
LEMMA HandleKeeps ==
  ASSUME NEW peer, NEW kx_key, Fields \subseteq DOMAIN peer
  PROVE  /\ DOMAIN Connect_handle(peer, kx_key) = DOMAIN peer
         /\ Connect_handle(peer, kx_key).connection_type = peer.connection_type
         /\ Connect_handle(peer, kx_key).pk = peer.pk
BY DEF Connect_handle, Fields

\* What node n may put in its table for m: an entry of a client, or of a server
\* that has a client, that keeps the role of the entry it replaces or becomes a
\* client's.
MayPut(n, m, e) ==
  /\ Fields \subseteq DOMAIN e
  /\ e.connection_type \in {"Client", "Server"} /\ e.pk \in Nat
  /\ e.connection_type = "Server" =>
       n \in DOMAIN peers[m] /\ Entry(m, n).connection_type = "Client"
  /\ m \in DOMAIN peers[n] =>
       e.connection_type \in {Entry(n, m).connection_type, "Client"}

\* Such an entry keeps the tables in order.
LEMMA TableStep ==
  ASSUME HandshakeInv, NEW n \in Nodes, NEW m \in Nodes \ {n}, NEW e, MayPut(n, m, e),
         peers' = [peers EXCEPT ![n] = Put(@, m, e)]
  PROVE  /\ DOMAIN peers' = Nodes /\ (\A a \in Nodes : EntriesOK(a))' /\ ServersHaveClients'
         /\ \A a \in Nodes : DOMAIN peers[a] \subseteq DOMAIN peers'[a]
         /\ m \in DOMAIN peers'[n]
<1>1. /\ DOMAIN peers' = Nodes /\ \A a \in Nodes \ {n} : peers'[a] = peers[a]
      /\ peers'[n] = Put(peers[n], m, e)
    BY DEF HandshakeInv
<1>2. /\ DOMAIN peers'[n] = DOMAIN peers[n] \cup {m} /\ peers'[n][m] = e
      /\ \A b \in DOMAIN peers[n] : b # m => peers'[n][b] = peers[n][b]
    BY <1>1 DEF Put
<1>3. ASSUME NEW a \in Nodes PROVE EntriesOK(a)'
  <2>1. EntriesOK(a)
      BY Zenon DEF HandshakeInv
  <2>2. CASE a = n
      BY <1>2, <2>1, <2>2, SMTT(30) DEF EntriesOK, Entry, MayPut
  <2>3. CASE a # n
    <3>1. peers'[a] = peers[a]
        BY <1>1, <2>3
    <3> QED
        BY <2>1, <3>1, Zenon DEF EntriesOK, Entry
  <2> QED
      BY <2>2, <2>3, Zenon
<1>4. ASSUME NEW a \in Nodes, NEW b \in DOMAIN peers'[a], peers'[a][b].connection_type = "Server"
      PROVE  a \in DOMAIN peers'[b] /\ peers'[b][a].connection_type = "Client"
  <2>0. b \in Nodes \ {a}
      BY <1>3 DEF EntriesOK
  <2>1. CASE a = n /\ b = m
      BY <1>1, <1>2, <1>4, <2>1 DEF MayPut, Entry
  <2>2. CASE ~(a = n /\ b = m)
    <3>1. b \in DOMAIN peers[a] /\ peers[a][b].connection_type = "Server"
        BY <1>1, <1>2, <1>4, <2>2
    <3>2. a \in DOMAIN peers[b] /\ peers[b][a].connection_type = "Client"
        BY <3>1 DEF HandshakeInv, ServersHaveClients, Entry
    <3>3. CASE b = n /\ a = m
        BY <1>1, <1>2, <3>2, <3>3 DEF MayPut, Entry
    <3>4. CASE ~(b = n /\ a = m)
        BY <1>1, <1>2, <2>0, <3>2, <3>4
    <3> QED
        BY <3>3, <3>4
  <2> QED
      BY <2>1, <2>2
<1>5. ServersHaveClients'
    BY <1>4 DEF ServersHaveClients, Entry
<1> QED
    BY <1>1, <1>2, <1>3, <1>5

\* A packet joins the mailbox of m.
LEMMA SendStep ==
  ASSUME NEW box \in [Nodes -> Seq(Packet)], NEW m \in Nodes, NEW q \in Packet,
         NEW new, new = [box EXCEPT ![m] = Append(@, q)], NEW a \in Nodes
  PROVE  /\ new \in [Nodes -> Seq(Packet)]
         /\ \A i \in DOMAIN new[a] :
              (a = m /\ new[a][i] = q) \/ (i \in DOMAIN box[a] /\ new[a][i] = box[a][i])
<1>1. box[m] \in Seq(Packet) /\ box[a] \in Seq(Packet)
    OBVIOUS
<1>2. Append(box[m], q) \in Seq(Packet)
    BY <1>1, AppendProperties
<1>3. new \in [Nodes -> Seq(Packet)]
    BY <1>2
<1>4. CASE a # m
  <2>1. new[a] = box[a]
      BY <1>4
  <2> QED
      BY <1>3, <2>1
<1>5. CASE a = m
  <2>1. new[a] = Append(box[a], q)
      BY <1>5
  <2>2. \A i \in DOMAIN Append(box[a], q) :
          Append(box[a], q)[i] = q \/ (i \in DOMAIN box[a] /\ Append(box[a], q)[i] = box[a][i])
      BY <1>1, AppendProperties
  <2> QED
      BY <1>3, <1>5, <2>1, <2>2
<1> QED
    BY <1>4, <1>5

\* The mailboxes are in order when every packet in them was there, or comes from
\* a node that now has an entry for its receiver.
LEMMA MailOK ==
  ASSUME HandshakeInv, NEW n \in Nodes, NEW m \in Nodes \ {n}, m \in DOMAIN peers'[n],
         \A a \in Nodes : DOMAIN peers[a] \subseteq DOMAIN peers'[a],
         NEW a \in Nodes,
         \A i \in DOMAIN mailbox'[a] :
           \/ a = m /\ mailbox'[a][i][1] = n
           \/ \E j \in DOMAIN mailbox[a] : mailbox'[a][i] = mailbox[a][j]
  PROVE  SendersKnow(a)'
<1> SUFFICES ASSUME NEW i \in DOMAIN mailbox'[a]
             PROVE  mailbox'[a][i][1] \in Nodes \ {a} /\ a \in DOMAIN peers'[mailbox'[a][i][1]]
    BY Zenon DEF SendersKnow
<1>1. CASE a = m /\ mailbox'[a][i][1] = n
    BY <1>1, Zenon
<1>2. ASSUME NEW j \in DOMAIN mailbox[a], mailbox'[a][i] = mailbox[a][j]
      PROVE  mailbox'[a][i][1] \in Nodes \ {a} /\ a \in DOMAIN peers'[mailbox'[a][i][1]]
  <2>1. mailbox[a][j][1] \in Nodes \ {a} /\ a \in DOMAIN peers[mailbox[a][j][1]]
      BY Zenon DEF HandshakeInv, SendersKnow
  <2> QED
      BY <1>2, <2>1, Zenon
<1> QED
    BY <1>1, <1>2, Zenon

\* A dial puts the entry of a client.
LEMMA ConnectStep ==
  ASSUME HandshakeInv, NEW n \in Nodes, NEW m \in Nodes \ {n}, connect(n, m)
  PROVE  HandshakeInv'
<1> DEFINE e == [Peer("Client", fresh + 1) EXCEPT !.sent_connect = TRUE]
<1>1. e.connection_type = "Client" /\ e.pk = fresh + 1 /\ Fields \subseteq DOMAIN e
    BY DEF Peer, Fields
<1>2. /\ peers' = [peers EXCEPT ![n] = Put(@, m, e)]
      /\ mailbox' = [mailbox EXCEPT ![m] = Append(@, <<n, fresh + 1>>)]
      /\ fresh' = fresh + 1 /\ fresh \in Nat
    BY <1>1, Zenon DEF connect, HandshakeInv
<1> HIDE DEF e
<1>3. MayPut(n, m, e)
    BY <1>1, <1>2 DEF MayPut
<1>4. /\ DOMAIN peers' = Nodes /\ (\A a \in Nodes : EntriesOK(a))' /\ ServersHaveClients'
      /\ \A a \in Nodes : DOMAIN peers[a] \subseteq DOMAIN peers'[a]
      /\ m \in DOMAIN peers'[n]
    BY <1>2, <1>3, TableStep, Zenon
<1> DEFINE q == <<n, fresh + 1>>
<1>0. q \in Packet /\ q[1] = n
    BY <1>2 DEF Packet
<1> HIDE DEF q
<1>5. ASSUME NEW a \in Nodes
      PROVE  /\ mailbox' \in [Nodes -> Seq(Packet)]
             /\ \A i \in DOMAIN mailbox'[a] :
                  (a = m /\ mailbox'[a][i] = q) \/ (i \in DOMAIN mailbox[a] /\ mailbox'[a][i] = mailbox[a][i])
  <2>1. mailbox \in [Nodes -> Seq(Packet)] /\ mailbox' = [mailbox EXCEPT ![m] = Append(@, q)]
      BY <1>2 DEF HandshakeInv, q
  <2> QED
      BY <1>0, <2>1, SendStep
<1>6. ASSUME NEW a \in Nodes PROVE SendersKnow(a)'
  <2>1. \A i \in DOMAIN mailbox'[a] :
          \/ a = m /\ mailbox'[a][i][1] = n
          \/ \E j \in DOMAIN mailbox[a] : mailbox'[a][i] = mailbox[a][j]
      BY <1>0, <1>5
  <2> QED
      BY <1>4, <2>1, MailOK
<1>7. mailbox' \in [Nodes -> Seq(Packet)]
    BY <1>5
<1>8. fresh' \in Nat
    BY <1>2
<1> QED
    BY <1>4, <1>6, <1>7, <1>8 DEF HandshakeInv

\* The entry that a packet of m makes or changes at n.
LEMMA ReceivePuts ==
  ASSUME HandshakeInv, NEW n \in Nodes, NEW m \in Nodes \ {n}, n \in DOMAIN peers[m], NEW key
  PROVE  MayPut(n, m, Connect_handle(EntryFor(n, m), key))
<1> DEFINE old == EntryFor(n, m)
           e == Connect_handle(old, key)
<1>1. CASE m \in DOMAIN peers[n]
  <2>1. old = Entry(n, m)
      BY <1>1 DEF EntryFor, Entry
  <2>2. /\ Fields \subseteq DOMAIN old
        /\ old.connection_type \in {"Client", "Server"} /\ old.pk \in Nat
        /\ old.connection_type = "Server" => Entry(m, n).connection_type = "Client"
      BY <1>1, <2>1 DEF HandshakeInv, EntriesOK, ServersHaveClients
  <2> HIDE DEF old
  <2>3. DOMAIN e = DOMAIN old /\ e.connection_type = old.connection_type /\ e.pk = old.pk
      BY <2>2, HandleKeeps
  <2> HIDE DEF e
  <2> QED
      BY <2>1, <2>2, <2>3 DEF MayPut, e, old
<1>2. CASE m \notin DOMAIN peers[n]
  <2>1. old = Peer("Server", fresh + 1)
      BY <1>2 DEF EntryFor
  <2>2. /\ Fields \subseteq DOMAIN old
        /\ old.connection_type = "Server" /\ old.pk = fresh + 1 /\ fresh + 1 \in Nat
      BY <2>1 DEF Peer, Fields, HandshakeInv
  <2>3. Entry(m, n).connection_type = "Client"
      BY <1>2 DEF HandshakeInv, EntriesOK, ServersHaveClients
  <2> HIDE DEF old
  <2>4. DOMAIN e = DOMAIN old /\ e.connection_type = old.connection_type /\ e.pk = old.pk
      BY <2>2, HandleKeeps
  <2> HIDE DEF e
  <2> QED
      BY <1>2, <2>2, <2>3, <2>4 DEF MayPut, e, old
<1> QED
    BY <1>1, <1>2

\* A packet is read, and perhaps answered.
LEMMA ReceiveStep ==
  ASSUME HandshakeInv, NEW n \in Nodes, receive(n) PROVE HandshakeInv'
<1> DEFINE m == Head(mailbox[n])[1]
           e == Connect_handle(EntryFor(n, m), Head(mailbox[n])[2])
           q == <<n, e.pk>>
           rest == [mailbox EXCEPT ![n] = Tail(@)]
<1>1. mailbox[n] \in Seq(Packet) /\ mailbox[n] # <<>> /\ mailbox \in [Nodes -> Seq(Packet)]
    BY DEF HandshakeInv, receive
<1>2. 1 \in DOMAIN mailbox[n] /\ Head(mailbox[n]) = mailbox[n][1]
    BY <1>1, EmptySeq, LenProperties
<1>3. m \in Nodes \ {n} /\ n \in DOMAIN peers[m]
    BY <1>2 DEF HandshakeInv, SendersKnow
<1>4. MayPut(n, m, e)
    BY <1>3, ReceivePuts, SMTT(30)
<1>5. /\ peers' = [peers EXCEPT ![n] = Put(@, m, e)] /\ fresh' \in Nat
      /\ mailbox' = rest \/ mailbox' = [rest EXCEPT ![m] = Append(@, q)]
  <2>1. /\ peers' = [peers EXCEPT ![n] = Put(@, m, e)]
        /\ fresh' = IF m \in DOMAIN peers[n] THEN fresh ELSE fresh + 1
        /\ mailbox' = IF Answers(e) THEN [rest EXCEPT ![m] = Append(@, q)] ELSE rest
      BY Zenon DEF receive
  <2>2. fresh \in Nat
      BY Zenon DEF HandshakeInv
  <2> HIDE DEF m, e, q, rest
  <2>3. fresh' \in Nat
      BY <2>1, <2>2
  <2>4. mailbox' = rest \/ mailbox' = [rest EXCEPT ![m] = Append(@, q)]
      BY <2>1, Zenon
  <2> QED
      BY <2>1, <2>3, <2>4, Zenon
<1>6. /\ DOMAIN peers' = Nodes /\ (\A a \in Nodes : EntriesOK(a))' /\ ServersHaveClients'
      /\ \A a \in Nodes : DOMAIN peers[a] \subseteq DOMAIN peers'[a]
      /\ m \in DOMAIN peers'[n]
  <2> HIDE DEF m, e
  <2> QED
      BY <1>3, <1>4, <1>5, TableStep, Zenon
<1>7. q \in Packet /\ q[1] = n
    BY <1>4 DEF MayPut, Packet
<1>8. /\ Tail(mailbox[n]) \in Seq(Packet)
      /\ \A i \in DOMAIN Tail(mailbox[n]) :
           i + 1 \in DOMAIN mailbox[n] /\ Tail(mailbox[n])[i] = mailbox[n][i + 1]
    BY <1>1, HeadTailProperties, LenProperties
<1>9. rest \in [Nodes -> Seq(Packet)]
    BY <1>1, <1>8
<1>10. ASSUME NEW a \in Nodes, NEW i \in DOMAIN rest[a]
       PROVE  \E j \in DOMAIN mailbox[a] : rest[a][i] = mailbox[a][j]
  <2>1. CASE a = n
      BY <1>1, <1>8, <1>10, <2>1
  <2>2. CASE a # n
      BY <1>1, <1>10, <2>2
  <2> QED
      BY <2>1, <2>2
<1> HIDE DEF m, e, q, rest
<1>11. mailbox' \in [Nodes -> Seq(Packet)]
  <2>1. CASE mailbox' = rest
      BY <1>9, <2>1
  <2>2. CASE mailbox' = [rest EXCEPT ![m] = Append(@, q)]
      BY <1>3, <1>7, <1>9, <2>2, SendStep
  <2> QED
      BY <1>5, <2>1, <2>2
<1>12. ASSUME NEW a \in Nodes PROVE SendersKnow(a)'
  <2>1. \A i \in DOMAIN mailbox'[a] :
          (a = m /\ mailbox'[a][i] = q) \/ (i \in DOMAIN rest[a] /\ mailbox'[a][i] = rest[a][i])
    <3>1. CASE mailbox' = rest
        BY <3>1
    <3>2. CASE mailbox' = [rest EXCEPT ![m] = Append(@, q)]
        BY <1>3, <1>7, <1>9, <3>2, SendStep
    <3> QED
        BY <1>5, <3>1, <3>2
  <2>2. \A i \in DOMAIN mailbox'[a] :
          \/ a = m /\ mailbox'[a][i][1] = n
          \/ \E j \in DOMAIN mailbox[a] : mailbox'[a][i] = mailbox[a][j]
      BY <1>7, <1>10, <2>1
  <2> QED
      BY <1>3, <1>6, <2>2, MailOK
<1> QED
    BY <1>5, <1>6, <1>11, <1>12 DEF HandshakeInv

\* Nobody has an entry or a packet at first.
LEMMA HandshakeInit == Init => HandshakeInv
BY DEF Init, HandshakeInv, EntriesOK, SendersKnow, ServersHaveClients

\* Every step keeps the invariant.
LEMMA HandshakeNext == HandshakeInv /\ [Next]_vars => HandshakeInv'
<1> SUFFICES ASSUME HandshakeInv, [Next]_vars PROVE HandshakeInv'
    OBVIOUS
<1>1. CASE UNCHANGED vars
    BY <1>1 DEF vars, HandshakeInv, EntriesOK, SendersKnow, ServersHaveClients, Entry
<1> QED
    BY <1>1, ConnectStep, ReceiveStep DEF Next

\* However often nodes dial one another, a node that takes itself for the server
\* of a peer (mock.rs, process_packet) has that peer as its client.
THEOREM ServersAreDialled == Spec => []ServersHaveClients
<1>1. HandshakeInv => ServersHaveClients
    BY DEF HandshakeInv
<1> QED
    BY <1>1, HandshakeInit, HandshakeNext, PTL DEF Spec

-----------------------------------------------------------------------------
(***************************************************************************)
(* The session keys.  What matters of a mailbox is, for each sender, the   *)
(* key of the last packet, the keys of all packets, and whether there is   *)
(* one.                                                                    *)
(***************************************************************************)
LastFrom(box, c, k) ==
  \A i \in DOMAIN box :
    box[i][1] = c /\ (\A j \in DOMAIN box : j > i => box[j][1] # c) => box[i][2] = k
AllFrom(box, c, k) == \A i \in DOMAIN box : box[i][1] = c => box[i][2] = k
NoneFrom(box, c) == \A i \in DOMAIN box : box[i][1] # c

Dialled(s, c) == c \in DOMAIN peers[s] /\ Entry(s, c).connection_type = "Client"

\* As long as s has not dialled c: the last Connect packet of c still to be
\* read carries the key pair that c uses; c has no keys before s answered, and
\* then s uses one key pair for all its answers; the keys of c fit the pairs in
\* use, and those of s do once it has read all packets of c.
PairOK(c, s) ==
  ~Dialled(s, c) =>
    /\ s \in DOMAIN peers[c] => LastFrom(mailbox[s], c, Entry(c, s).pk)
    /\ s \in DOMAIN peers[c] /\ c \notin DOMAIN peers[s] => Entry(c, s).rx = None
    /\ c \in DOMAIN peers[s] =>
         LET client == client_sk(Entry(c, s).pk, Entry(s, c).pk)
             server == server_sk(Entry(s, c).pk, Entry(c, s).pk)
         IN /\ AllFrom(mailbox[c], s, Entry(s, c).pk)
            /\ Entry(c, s).rx # None => Entry(c, s).rx = client.rx /\ Entry(c, s).tx = client.tx
            /\ NoneFrom(mailbox[s], c) =>
                 Entry(s, c).rx = server.rx /\ Entry(s, c).tx = server.tx

KeysInv == \A c \in Nodes : \A s \in Nodes \ {c} : PairOK(c, s)

\* Nothing about the packets of sender c in the mailbox has got worse.
SameFrom(box, new, c) ==
  /\ \A k : LastFrom(box, c, k) => LastFrom(new, c, k)
  /\ \A k : AllFrom(box, c, k) => AllFrom(new, c, k)
  /\ NoneFrom(new, c) => NoneFrom(box, c)

\* A packet is appended: it is the last of its sender, and the packets of the
\* others are what they were.
LEMMA AppendFrom ==
  ASSUME NEW box \in Seq(Packet), NEW q \in Packet, NEW c
  PROVE  /\ q[1] # c => SameFrom(box, Append(box, q), c)
         /\ q[1] = c => /\ LastFrom(Append(box, q), c, q[2])
                        /\ AllFrom(box, c, q[2]) => AllFrom(Append(box, q), c, q[2])
                        /\ ~NoneFrom(Append(box, q), c)
<1> DEFINE new == Append(box, q)
<1>1. /\ DOMAIN new = DOMAIN box \cup {Len(box) + 1} /\ DOMAIN box = 1 .. Len(box) /\ Len(box) \in Nat
      /\ new[Len(box) + 1] = q /\ \A i \in DOMAIN box : new[i] = box[i]
    BY AppendProperties, LenProperties
<1> HIDE DEF new
<1>2. ASSUME q[1] # c PROVE SameFrom(box, new, c)
  <2>1. ASSUME NEW k, LastFrom(box, c, k) PROVE LastFrom(new, c, k)
      BY <1>1, <1>2, <2>1, SMTT(30) DEF LastFrom
  <2>2. ASSUME NEW k, AllFrom(box, c, k) PROVE AllFrom(new, c, k)
      BY <1>1, <1>2, <2>2, SMTT(30) DEF AllFrom
  <2>3. NoneFrom(new, c) => NoneFrom(box, c)
      BY <1>1, SMTT(30) DEF NoneFrom
  <2> QED
      BY <2>1, <2>2, <2>3, Zenon DEF SameFrom
<1>3. ASSUME q[1] = c PROVE LastFrom(new, c, q[2])
    BY <1>1, <1>3, SMTT(30) DEF LastFrom
<1>4. ASSUME q[1] = c, AllFrom(box, c, q[2]) PROVE AllFrom(new, c, q[2])
    BY <1>1, <1>4, SMTT(30) DEF AllFrom
<1>5. ASSUME q[1] = c PROVE ~NoneFrom(new, c)
    BY <1>1, <1>5, SMTT(30) DEF NoneFrom
<1> QED
    BY <1>2, <1>3, <1>4, <1>5, Zenon DEF new

\* The first packet, of c and with the key, has been read.
ReadFrom(box, new, c, key) ==
  \A k : /\ LastFrom(box, c, k) => LastFrom(new, c, k)
         /\ AllFrom(box, c, k) => AllFrom(new, c, k) /\ key = k
         /\ NoneFrom(new, c) /\ LastFrom(box, c, k) => key = k

\* The first packet is read: if none of its sender is left it was the last one.
LEMMA TailFrom ==
  ASSUME NEW box \in Seq(Packet), box # <<>>, NEW c
  PROVE  /\ \A k : LastFrom(box, c, k) => LastFrom(Tail(box), c, k)
         /\ \A k : AllFrom(box, c, k) => AllFrom(Tail(box), c, k)
         /\ Head(box)[1] # c => (NoneFrom(Tail(box), c) => NoneFrom(box, c))
         /\ Head(box)[1] = c =>
              /\ \A k : AllFrom(box, c, k) => Head(box)[2] = k
              /\ \A k : NoneFrom(Tail(box), c) /\ LastFrom(box, c, k) => Head(box)[2] = k
<1> DEFINE new == Tail(box)
           n == Len(box)
<1>1. /\ n \in Nat /\ n >= 1 /\ DOMAIN box = 1 .. n /\ DOMAIN new = 1 .. n - 1
      /\ Head(box) = box[1] /\ \A i \in 1 .. n - 1 : new[i] = box[i + 1]
    BY HeadTailProperties, LenProperties, EmptySeq
<1> HIDE DEF new, n
<1>2. ASSUME NEW i \in 1 .. n, i # 1 PROVE i - 1 \in DOMAIN new /\ box[i] = new[i - 1]
    BY <1>1, <1>2
<1>3. ASSUME NEW k, LastFrom(box, c, k) PROVE LastFrom(new, c, k)
  <2> SUFFICES ASSUME NEW i \in DOMAIN new, new[i][1] = c,
                      \A j \in DOMAIN new : j > i => new[j][1] # c
               PROVE  new[i][2] = k
      BY Zenon DEF LastFrom
  <2>1. i + 1 \in DOMAIN box /\ box[i + 1] = new[i] /\ i \in Int /\ i >= 1
      BY <1>1
  <2>2. ASSUME NEW j \in DOMAIN box, j > i + 1 PROVE box[j][1] # c
    <3>1. j - 1 \in DOMAIN new /\ box[j] = new[j - 1]
        BY <1>1, <1>2, <2>1, <2>2
    <3>2. j - 1 > i
        BY <1>1, <2>1, <2>2
    <3> QED
        BY <3>1, <3>2, Zenon
  <2> QED
      BY <1>3, <2>1, <2>2, Zenon DEF LastFrom
<1>4. ASSUME NEW k, AllFrom(box, c, k) PROVE AllFrom(new, c, k)
    BY <1>1, <1>4, SMTT(30) DEF AllFrom
<1>5. ASSUME Head(box)[1] # c, NoneFrom(new, c) PROVE NoneFrom(box, c)
  <2> SUFFICES ASSUME NEW i \in DOMAIN box PROVE box[i][1] # c
      BY Zenon DEF NoneFrom
  <2>1. CASE i = 1
      BY <1>1, <1>5, <2>1
  <2>2. CASE i # 1
    <3>1. i - 1 \in DOMAIN new /\ box[i] = new[i - 1]
        BY <1>1, <1>2, <2>2
    <3> QED
        BY <1>5, <3>1, Zenon DEF NoneFrom
  <2> QED
      BY <2>1, <2>2
<1>6. ASSUME Head(box)[1] = c, NEW k, AllFrom(box, c, k) PROVE Head(box)[2] = k
    BY <1>1, <1>6, SMTT(30) DEF AllFrom
<1>7. ASSUME Head(box)[1] = c, NEW k, NoneFrom(new, c), LastFrom(box, c, k) PROVE Head(box)[2] = k
  <2>1. 1 \in DOMAIN box /\ box[1][1] = c
      BY <1>1, <1>7
  <2>2. ASSUME NEW j \in DOMAIN box, j > 1 PROVE box[j][1] # c
    <3>1. j - 1 \in DOMAIN new /\ box[j] = new[j - 1]
        BY <1>1, <1>2, <2>2
    <3> QED
        BY <1>7, <3>1, Zenon DEF NoneFrom
  <2> QED
      BY <1>1, <1>7, <2>1, <2>2, Zenon DEF LastFrom
<1> QED
    BY <1>3, <1>4, <1>5, <1>6, <1>7, Zenon DEF new

\* A node that has not dialled a peer it knows is the peer's server.
LEMMA ServerLinked ==
  ASSUME HandshakeInv, NEW c \in Nodes, NEW s \in Nodes, c \in DOMAIN peers[s], ~Dialled(s, c)
  PROVE  /\ Entry(s, c).connection_type = "Server"
         /\ s \in DOMAIN peers[c] /\ Entry(c, s).connection_type = "Client"
<1>1. Entry(s, c).connection_type = "Server"
    BY Zenon DEF HandshakeInv, EntriesOK, Dialled
<1> QED
    BY <1>1, Zenon DEF HandshakeInv, ServersHaveClients

\* What start_receive_loop leaves of the packets of the sender it read from.
LEMMA TailHead ==
  ASSUME NEW box \in Seq(Packet), box # <<>>
  PROVE  ReadFrom(box, Tail(box), Head(box)[1], Head(box)[2])
BY TailFrom DEF ReadFrom

\* What start_receive_loop leaves of the packets of the other senders.
LEMMA TailSame ==
  ASSUME NEW box \in Seq(Packet), box # <<>>, NEW c, Head(box)[1] # c
  PROVE  SameFrom(box, Tail(box), c)
BY TailFrom DEF SameFrom

\* A step that touches neither entry of a pair nor, for the worse, what either
\* has sent the other keeps the pair in order.
LEMMA PairFrame ==
  ASSUME HandshakeInv, NEW c \in Nodes, NEW s \in Nodes, PairOK(c, s),
         s \in DOMAIN peers'[c] <=> s \in DOMAIN peers[c],
         c \in DOMAIN peers'[s] <=> c \in DOMAIN peers[s],
         s \in DOMAIN peers[c] => Entry(c, s)' = Entry(c, s),
         c \in DOMAIN peers[s] => Entry(s, c)' = Entry(s, c),
         SameFrom(mailbox[s], mailbox'[s], c), SameFrom(mailbox[c], mailbox'[c], s)
  PROVE  PairOK(c, s)'
<1>1. Dialled(s, c)' <=> Dialled(s, c)
    BY Zenon DEF Dialled
<1>2. CASE Dialled(s, c)
    BY <1>1, <1>2, Zenon DEF PairOK
<1>3. CASE ~Dialled(s, c)
  <2>1. s \in DOMAIN peers'[c] => LastFrom(mailbox'[s], c, Entry(c, s)'.pk)
      BY <1>3, Zenon DEF PairOK, SameFrom
  <2>2. s \in DOMAIN peers'[c] /\ c \notin DOMAIN peers'[s] => Entry(c, s)'.rx = None
      BY <1>3, Zenon DEF PairOK
  <2>3. c \in DOMAIN peers'[s] =>
          /\ AllFrom(mailbox'[c], s, Entry(s, c)'.pk)
          /\ NoneFrom(mailbox'[s], c) => NoneFrom(mailbox[s], c)
      BY <1>3, Zenon DEF PairOK, SameFrom
  <2>4. c \in DOMAIN peers[s] => Entry(c, s)' = Entry(c, s) /\ Entry(s, c)' = Entry(s, c)
      BY <1>3, ServerLinked, Zenon
  <2> QED
      BY <1>1, <1>3, <2>1, <2>2, <2>3, <2>4, Zenon DEF PairOK
<1> QED
    BY <1>2, <1>3

\* A dial of c gives it a new pair and no keys, and the packet with the new key
\* is the last of its packets.  A dial of s ends the session.
LEMMA ConnectKeys ==
  ASSUME HandshakeInv, KeysInv, NEW n \in Nodes, NEW m \in Nodes \ {n}, connect(n, m)
  PROVE  KeysInv'
<1> DEFINE e == [Peer("Client", fresh + 1) EXCEPT !.sent_connect = TRUE]
           q == <<n, fresh + 1>>
<1>1. e.connection_type = "Client" /\ e.pk = fresh + 1 /\ e.rx = None
    BY DEF Peer
<1>2. /\ peers' = [peers EXCEPT ![n] = Put(@, m, e)]
      /\ mailbox' = [mailbox EXCEPT ![m] = Append(@, q)]
    BY <1>1, Zenon DEF connect
<1>3. q \in Packet /\ q[1] = n /\ q[2] = fresh + 1
    BY DEF Packet, HandshakeInv
<1> HIDE DEF e, q
<1>4. /\ \A a \in Nodes \ {n} : peers'[a] = peers[a] /\ DOMAIN peers'[n] = DOMAIN peers[n] \cup {m}
      /\ peers'[n][m] = e /\ \A b \in DOMAIN peers[n] \ {m} : peers'[n][b] = peers[n][b]
    BY <1>2 DEF Put, HandshakeInv
<1>5. /\ \A a \in Nodes : mailbox[a] \in Seq(Packet)
      /\ mailbox'[m] = Append(mailbox[m], q) /\ \A a \in Nodes \ {m} : mailbox'[a] = mailbox[a]
    BY <1>2 DEF HandshakeInv
<1>6. ASSUME NEW a \in Nodes, NEW b \in Nodes, ~(a = m /\ b = n)
      PROVE  SameFrom(mailbox[a], mailbox'[a], b)
  <2>1. CASE a = m
      BY <1>3, <1>5, <1>6, <2>1, AppendFrom, Zenon
  <2>2. CASE a # m
      BY <1>5, <2>2, Zenon DEF SameFrom
  <2> QED
      BY <2>1, <2>2
<1> SUFFICES ASSUME NEW c \in Nodes, NEW s \in Nodes \ {c} PROVE PairOK(c, s)'
    BY Zenon DEF KeysInv
<1>7. PairOK(c, s)
    BY Zenon DEF KeysInv
<1>8. CASE c = n /\ s = m
  <2>1. Entry(c, s)' = e /\ DOMAIN peers'[s] = DOMAIN peers[s] /\ Entry(s, c)' = Entry(s, c)
      BY <1>4, <1>8, Zenon DEF Entry
  <2>2. LastFrom(mailbox'[s], c, Entry(c, s)'.pk) /\ ~NoneFrom(mailbox'[s], c)
    <3>1. Entry(c, s)'.pk = q[2] /\ q[1] = c /\ mailbox'[s] = Append(mailbox[s], q)
        BY <1>1, <1>3, <1>5, <1>8, <2>1, Zenon
    <3>2. LastFrom(Append(mailbox[s], q), c, q[2]) /\ ~NoneFrom(Append(mailbox[s], q), c)
        BY <1>3, <1>5, <3>1, AppendFrom, Zenon
    <3> QED
        BY <3>1, <3>2, Zenon
  <2>3. mailbox'[c] = mailbox[c]
      BY <1>5, <1>8, Zenon
  <2>4. ~Dialled(s, c)' /\ c \in DOMAIN peers'[s] => AllFrom(mailbox'[c], s, Entry(s, c)'.pk)
    <3>1. Dialled(s, c)' <=> Dialled(s, c)
        BY <2>1, Zenon DEF Dialled
    <3> QED
        BY <1>7, <2>1, <2>3, <3>1, Zenon DEF PairOK
  <2> QED
      BY <1>1, <2>1, <2>2, <2>4, Zenon DEF PairOK
<1>9. CASE c = m /\ s = n
  <2>1. Dialled(s, c)'
      BY <1>1, <1>4, <1>9, SMTT(30) DEF Dialled, Entry
  <2> QED
      BY <2>1, Zenon DEF PairOK
<1>10. CASE ~(c = n /\ s = m) /\ ~(c = m /\ s = n)
  <2>1. /\ s \in DOMAIN peers'[c] <=> s \in DOMAIN peers[c]
        /\ c \in DOMAIN peers'[s] <=> c \in DOMAIN peers[s]
      BY <1>4, <1>10, SMTT(30)
  <2>2. /\ s \in DOMAIN peers[c] => Entry(c, s)' = Entry(c, s)
        /\ c \in DOMAIN peers[s] => Entry(s, c)' = Entry(s, c)
      BY <1>4, <1>10, SMTT(30) DEF Entry
  <2>3. SameFrom(mailbox[s], mailbox'[s], c) /\ SameFrom(mailbox[c], mailbox'[c], s)
      BY <1>6, <1>10, Zenon
  <2> QED
      BY <1>7, <2>1, <2>2, <2>3, PairFrame, Zenon
<1> QED
    BY <1>8, <1>9, <1>10

\* The handler sets the keys of its role.
LEMMA HandleSets ==
  ASSUME NEW peer, NEW key, Fields \subseteq DOMAIN peer
  PROVE  LET e == Connect_handle(peer, key)
         IN  /\ peer.connection_type = "Client" =>
                  e.rx = client_sk(peer.pk, key).rx /\ e.tx = client_sk(peer.pk, key).tx
             /\ peer.connection_type # "Client" =>
                  e.rx = server_sk(peer.pk, key).rx /\ e.tx = server_sk(peer.pk, key).tx
BY DEF Connect_handle, Fields

\* A server that reads a packet has keys for the client's pair if it was the
\* last one, and answers with its own; a client has keys for the server's pair.
LEMMA ReceiveKeys ==
  ASSUME HandshakeInv, KeysInv, NEW n \in Nodes, receive(n) PROVE KeysInv'
<1>0. PICK m, key, e :
        /\ m = Head(mailbox[n])[1] /\ key = Head(mailbox[n])[2]
        /\ e = Connect_handle(EntryFor(n, m), key)
    OBVIOUS
<1> DEFINE old == EntryFor(n, m)
           q == <<n, e.pk>>
           rest == [mailbox EXCEPT ![n] = Tail(@)]
<1>1. /\ mailbox \in [Nodes -> Seq(Packet)] /\ mailbox[n] # <<>>
      /\ \A a \in Nodes : mailbox[a] \in Seq(Packet)
    BY DEF HandshakeInv, receive
<1>2. m \in Nodes \ {n} /\ n \in DOMAIN peers[m]
  <2>1. 1 \in DOMAIN mailbox[n] /\ Head(mailbox[n]) = mailbox[n][1]
      BY <1>1, EmptySeq, LenProperties
  <2> QED
      BY <1>0, <2>1 DEF HandshakeInv, SendersKnow
<1>3. /\ peers' = [peers EXCEPT ![n] = Put(@, m, e)]
      /\ mailbox' = IF Answers(e) THEN [rest EXCEPT ![m] = Append(@, q)] ELSE rest
    BY <1>0, Zenon DEF receive
<1>4. MayPut(n, m, e)
    BY <1>0, <1>2, ReceivePuts, Zenon
<1>5. /\ Fields \subseteq DOMAIN old
      /\ m \in DOMAIN peers[n] => old = Entry(n, m)
      /\ m \notin DOMAIN peers[n] => old.connection_type = "Server"
  <2>1. CASE m \in DOMAIN peers[n]
      BY <2>1 DEF EntryFor, Entry, HandshakeInv, EntriesOK
  <2>2. CASE m \notin DOMAIN peers[n]
      BY <2>2 DEF EntryFor, Peer, Fields
  <2> QED
      BY <2>1, <2>2
<1> HIDE DEF old
<1>6. e.connection_type = old.connection_type /\ e.pk = old.pk
    BY <1>0, <1>5, HandleKeeps DEF old
<1>7. /\ e.connection_type = "Client" =>
           e.rx = client_sk(e.pk, key).rx /\ e.tx = client_sk(e.pk, key).tx
      /\ e.connection_type # "Client" =>
           e.rx = server_sk(e.pk, key).rx /\ e.tx = server_sk(e.pk, key).tx
  <2>1. e = Connect_handle(old, key)
      BY <1>0 DEF old
  <2> QED
      BY <1>5, <1>6, <2>1, HandleSets
<1>8. q \in Packet /\ q[1] = n /\ q[2] = e.pk
    BY <1>4 DEF MayPut, Packet
<1>9. e.connection_type \in {"Client", "Server"} /\ (Answers(e) <=> e.connection_type = "Server")
    BY <1>4, Zenon DEF MayPut, Answers
<1> HIDE DEF q
<1>10. /\ \A a \in Nodes \ {n} : peers'[a] = peers[a] /\ DOMAIN peers'[n] = DOMAIN peers[n] \cup {m}
       /\ peers'[n][m] = e /\ \A b \in DOMAIN peers[n] \ {m} : peers'[n][b] = peers[n][b]
    BY <1>3 DEF Put, HandshakeInv
<1>11. /\ mailbox'[n] = Tail(mailbox[n])
       /\ mailbox'[m] = IF Answers(e) THEN Append(mailbox[m], q) ELSE mailbox[m]
       /\ \A a \in Nodes \ {n, m} : mailbox'[a] = mailbox[a]
    BY <1>1, <1>2, <1>3
<1> HIDE DEF rest
<1>12. ASSUME NEW a \in Nodes, NEW b \in Nodes, ~(a = m /\ b = n), ~(a = n /\ b = m)
       PROVE  SameFrom(mailbox[a], mailbox'[a], b)
  <2>1. CASE a = m
    <3>1. mailbox[a] \in Seq(Packet) /\ q[1] # b
        BY <1>1, <1>8, <1>12, <2>1, Zenon
    <3>2. SameFrom(mailbox[a], Append(mailbox[a], q), b)
        BY <1>8, <3>1, AppendFrom, Zenon
    <3> QED
        BY <1>11, <2>1, <3>2, Zenon DEF SameFrom
  <2>2. CASE a = n
    <3>1. Head(mailbox[n])[1] # b
        BY <1>0, <1>12, <2>2
    <3> QED
        BY <1>1, <1>11, <2>2, <3>1, TailSame, Zenon
  <2>3. CASE a # m /\ a # n
      BY <1>11, <2>3, Zenon DEF SameFrom
  <2> QED
      BY <2>1, <2>2, <2>3
<1>13. ReadFrom(mailbox[n], mailbox'[n], m, key)
    BY <1>0, <1>1, <1>11, TailHead, Zenon
<1> SUFFICES ASSUME NEW c \in Nodes, NEW s \in Nodes \ {c} PROVE PairOK(c, s)'
    BY Zenon DEF KeysInv
<1>14. PairOK(c, s)
    BY Zenon DEF KeysInv
<1>15. CASE c = m /\ s = n
  <2> SUFFICES ASSUME ~Dialled(n, m)' PROVE PairOK(c, s)'
      BY <1>15, Zenon DEF PairOK
  <2>1. e.connection_type = "Server" /\ Entry(n, m)' = e /\ m \in DOMAIN peers'[n]
      BY <1>2, <1>9, <1>10 DEF Dialled, Entry
  <2>2. DOMAIN peers'[m] = DOMAIN peers[m] /\ Entry(m, n)' = Entry(m, n)
      BY <1>2, <1>10, Zenon DEF Entry
  <2>3. ~Dialled(n, m)
      BY <1>5, <1>6, <2>1, Zenon DEF Dialled
  <2>4. LastFrom(mailbox[n], m, Entry(m, n).pk)
      BY <1>2, <1>14, <1>15, <2>3, Zenon DEF PairOK
  <2>5. NoneFrom(mailbox'[n], m) => key = Entry(m, n).pk
      BY <1>13, <2>4, Zenon DEF ReadFrom
  <2>6. mailbox'[m] = Append(mailbox[m], q)
      BY <1>9, <1>11, <2>1
  <2>7. /\ AllFrom(mailbox'[m], n, e.pk)
        /\ Entry(m, n).rx # None => /\ Entry(m, n).rx = client_sk(Entry(m, n).pk, e.pk).rx
                                    /\ Entry(m, n).tx = client_sk(Entry(m, n).pk, e.pk).tx
    <3>1. CASE m \in DOMAIN peers[n]
      <4>1. e.pk = Entry(n, m).pk
          BY <1>5, <1>6, <3>1, Zenon
      <4>2. AllFrom(mailbox[m], n, e.pk)
          BY <1>14, <1>15, <2>3, <3>1, <4>1, Zenon DEF PairOK
      <4>3. AllFrom(mailbox'[m], n, e.pk)
          BY <1>1, <1>2, <1>8, <2>6, <4>2, AppendFrom, Zenon
      <4> QED
          BY <1>14, <1>15, <2>3, <3>1, <4>1, <4>3, Zenon DEF PairOK
    <3>2. CASE m \notin DOMAIN peers[n]
      <4>1. Entry(m, n).rx = None
          BY <1>2, <1>14, <1>15, <2>3, <3>2, Zenon DEF PairOK
      <4>2. NoneFrom(mailbox[m], n)
          BY <1>2, <3>2, Zenon DEF NoneFrom, HandshakeInv, SendersKnow
      <4>3. AllFrom(mailbox[m], n, e.pk)
          BY <4>2, Zenon DEF NoneFrom, AllFrom
      <4>4. AllFrom(mailbox'[m], n, e.pk)
          BY <1>1, <1>2, <1>8, <2>6, <4>3, AppendFrom, Zenon
      <4> QED
          BY <4>1, <4>4, Zenon
    <3> QED
        BY <3>1, <3>2
  <2>8. NoneFrom(mailbox'[n], m) => /\ e.rx = server_sk(e.pk, Entry(m, n).pk).rx
                                    /\ e.tx = server_sk(e.pk, Entry(m, n).pk).tx
      BY <1>7, <2>1, <2>5
  <2>9. LastFrom(mailbox'[n], m, Entry(m, n)'.pk)
      BY <1>13, <2>2, <2>4, Zenon DEF ReadFrom
  <2> QED
      BY <1>15, <2>1, <2>2, <2>7, <2>8, <2>9, Zenon DEF PairOK
<1>16. CASE c = n /\ s = m
  <2> SUFFICES ASSUME ~Dialled(m, n)' PROVE PairOK(c, s)'
      BY <1>16, Zenon DEF PairOK
  <2>1. DOMAIN peers'[m] = DOMAIN peers[m] /\ Entry(m, n)' = Entry(m, n) /\ ~Dialled(m, n)
      BY <1>2, <1>10, Zenon DEF Entry, Dialled
  <2>2. m \in DOMAIN peers[n] /\ Entry(n, m).connection_type = "Client"
      BY <1>2, <2>1, ServerLinked, Zenon
  <2>3. Entry(n, m)' = e /\ e.connection_type = "Client" /\ e.pk = Entry(n, m).pk
      BY <1>5, <1>6, <1>10, <2>2, Zenon DEF Entry
  <2>4. mailbox'[m] = mailbox[m]
      BY <1>9, <1>11, <2>3
  <2>5. AllFrom(mailbox'[n], m, Entry(m, n).pk) /\ key = Entry(m, n).pk
      BY <1>2, <1>13, <1>14, <1>16, <2>1, Zenon DEF PairOK, ReadFrom
  <2>6. e.rx = client_sk(e.pk, Entry(m, n).pk).rx /\ e.tx = client_sk(e.pk, Entry(m, n).pk).tx
      BY <1>7, <2>3, <2>5, Zenon
  <2>7. LastFrom(mailbox'[m], n, e.pk)
      BY <1>14, <1>16, <2>1, <2>2, <2>3, <2>4, Zenon DEF PairOK
  <2>8. NoneFrom(mailbox'[m], n) => /\ Entry(m, n).rx = server_sk(Entry(m, n).pk, e.pk).rx
                                    /\ Entry(m, n).tx = server_sk(Entry(m, n).pk, e.pk).tx
      BY <1>2, <1>14, <1>16, <2>1, <2>3, <2>4, Zenon DEF PairOK
  <2> QED
      BY <1>2, <1>16, <2>1, <2>3, <2>5, <2>6, <2>7, <2>8, Zenon DEF PairOK
<1>17. CASE ~(c = n /\ s = m) /\ ~(c = m /\ s = n)
  <2>1. /\ s \in DOMAIN peers'[c] <=> s \in DOMAIN peers[c]
        /\ c \in DOMAIN peers'[s] <=> c \in DOMAIN peers[s]
      BY <1>10, <1>17, SMTT(30)
  <2>2. /\ s \in DOMAIN peers[c] => Entry(c, s)' = Entry(c, s)
        /\ c \in DOMAIN peers[s] => Entry(s, c)' = Entry(s, c)
      BY <1>10, <1>17, SMTT(30) DEF Entry
  <2>3. SameFrom(mailbox[s], mailbox'[s], c) /\ SameFrom(mailbox[c], mailbox'[c], s)
      BY <1>12, <1>17, Zenon
  <2> QED
      BY <1>14, <2>1, <2>2, <2>3, PairFrame, Zenon
<1> QED
    BY <1>15, <1>16, <1>17

\* Nobody has keys or packets at first.
LEMMA KeysInit == Init => KeysInv
BY DEF Init, KeysInv, PairOK

\* Every dial and every packet read keeps the pairs in order.
LEMMA KeysNext == HandshakeInv /\ KeysInv /\ [Next]_vars => KeysInv'
<1> SUFFICES ASSUME HandshakeInv, KeysInv, [Next]_vars PROVE KeysInv'
    OBVIOUS
<1>1. CASE UNCHANGED vars
  <2>1. peers' = peers /\ mailbox' = mailbox
      BY <1>1 DEF vars
  <2>2. ASSUME NEW c \in Nodes, NEW s \in Nodes \ {c} PROVE PairOK(c, s)'
    <3>1. PairOK(c, s)
        BY Zenon DEF KeysInv
    <3> QED
        BY <2>1, <3>1, Zenon DEF PairOK, Dialled, Entry
  <2> QED
      BY <2>2, Zenon DEF KeysInv
<1> QED
    BY <1>1, ConnectKeys, ReceiveKeys DEF Next

\* A server without unread packets of its client has the keys of the pairs in
\* use, and a client that has keys has the same ones.
LEMMA KeysFit ==
  ASSUME HandshakeInv, KeysInv, NEW c \in Nodes, NEW s \in Nodes \ {c},
         Keyed(c, s), Keyed(s, c), Drained(s, c), Entry(s, c).connection_type = "Server"
  PROVE  Entry(c, s).rx = Entry(s, c).tx /\ Entry(c, s).tx = Entry(s, c).rx
<1>1. PairOK(c, s) /\ ~Dialled(s, c) /\ NoneFrom(mailbox[s], c)
    BY DEF KeysInv, Dialled, NoneFrom, Drained
<1>2. LET client == client_sk(Entry(c, s).pk, Entry(s, c).pk)
          server == server_sk(Entry(s, c).pk, Entry(c, s).pk)
      IN /\ Entry(c, s).rx = client.rx /\ Entry(c, s).tx = client.tx
         /\ Entry(s, c).rx = server.rx /\ Entry(s, c).tx = server.tx
    BY <1>1, Zenon DEF PairOK, Keyed
<1> QED
    BY <1>2 DEF client_sk, server_sk

\* However often the client dials again (mock.rs, connect) while packets and
\* answers are on their way, once the mailboxes hold no packet between two nodes
\* with keys, the keys that Connect::handle has set at both ends fit.
THEOREM KeysAgree == Spec => []SessionKeysAgree
<1>1. HandshakeInv /\ KeysInv => SessionKeysAgree
  <2> SUFFICES ASSUME HandshakeInv, KeysInv, NEW n \in Nodes, NEW m \in Nodes, n # m,
                      Keyed(n, m), Keyed(m, n), Drained(n, m), Drained(m, n),
                      Entry(n, m).connection_type # Entry(m, n).connection_type
               PROVE  Entry(n, m).rx = Entry(m, n).tx /\ Entry(n, m).tx = Entry(m, n).rx
      BY Zenon DEF SessionKeysAgree
  <2>1. Entry(n, m).connection_type = "Server" \/ Entry(m, n).connection_type = "Server"
      BY DEF HandshakeInv, EntriesOK, Keyed
  <2>2. CASE Entry(m, n).connection_type = "Server"
      BY <2>2, KeysFit
  <2>3. CASE Entry(n, m).connection_type = "Server"
      BY <2>3, KeysFit
  <2> QED
      BY <2>1, <2>2, <2>3
<1> QED
    BY <1>1, HandshakeInit, HandshakeNext, KeysInit, KeysNext, PTL DEF Spec
=============================================================================
