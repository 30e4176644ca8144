----------------------------- MODULE Handshake ------------------------------
(***************************************************************************)
(* The Connect handshake between nodes that reach each other through       *)
(* mailboxes: MockNetwork and the handler of the Connect packet.  Each     *)
(* node keeps a peer entry for an address, with the session key pair it    *)
(* generated and the two session keys it derives from its own pair and the *)
(* public key in a Connect packet.                                         *)
(*                                                                         *)
(* Nodes may dial the same peer again and may dial each other.  Key        *)
(* exchange is a library: the session keys are the two directions of the   *)
(* pair of public keys, the client's first.                                *)
(***************************************************************************)
EXTENDS Integers, Sequences, FiniteSets

CONSTANTS
  Nodes,     \* nodes, each at an address of its own
  MaxDials   \* calls of connect

VARIABLES
  peers,    \* peers[n]: address -> peer entry of node n
  mailbox,  \* mailbox[n]: packets sent to node n, <<sender, kx key>>
  dials,    \* calls of connect so far
  fresh     \* session key pairs generated so far

vars == <<peers, mailbox, dials, fresh>>

None == <<>>

\* HashMap::insert.
Put(f, k, v) == [x \in DOMAIN f \cup {k} |-> IF x = k THEN v ELSE f[x]]

\* Peer::new.
Peer(type, pk) ==
  [connection_type |-> type, pk |-> pk, sent_connect |-> FALSE, rx |-> None, tx |-> None]

Init ==
  /\ peers = [n \in Nodes |-> <<>>]
  /\ mailbox = [n \in Nodes |-> <<>>]
  /\ dials = 0 /\ fresh = 0

client_sk(pk, kx_key) ==
  [rx |-> <<"to client", pk, kx_key>>, tx |-> <<"to server", pk, kx_key>>]
server_sk(pk, kx_key) ==
  [rx |-> <<"to server", kx_key, pk>>, tx |-> <<"to client", kx_key, pk>>]

\* connect: a new entry replaces the one there was, and its key is sent.
connect(n, m) ==
  /\ dials < MaxDials
  /\ LET peer == [Peer("Client", fresh + 1) EXCEPT !.sent_connect = TRUE] IN
     /\ peers' = [peers EXCEPT ![n] = Put(@, m, peer)]
     /\ mailbox' = [mailbox EXCEPT ![m] = Append(@, <<n, peer.pk>>)]
  /\ fresh' = fresh + 1 /\ dials' = dials + 1

\* Mutant: a server derives its keys as a client does.
Connect_handle_as_client(peer, kx_key) ==
  LET sk == client_sk(peer.pk, kx_key)
  IN  [peer EXCEPT !.rx = sk.rx, !.tx = sk.tx, !.sent_connect = TRUE]

\* Connect::handle, on the entry.
Connect_handle(peer, kx_key) ==
  LET sk == IF peer.connection_type = "Client" THEN client_sk(peer.pk, kx_key)
            ELSE server_sk(peer.pk, kx_key)
  IN  [peer EXCEPT !.rx = sk.rx, !.tx = sk.tx, !.sent_connect = TRUE]

\* Mutant: a server does not answer.
Answers_never(peer) == FALSE

Answers(peer) == peer.connection_type = "Server"

\* Mutant: a packet from a known address starts a new entry.
EntryFor_new(n, m) == Peer("Server", fresh + 1)

\* The entry a packet is for; the first packet from an address makes one.
EntryFor(n, m) ==
  IF m \in DOMAIN peers[n] THEN peers[n][m] ELSE Peer("Server", fresh + 1)

\* One turn of start_receive_loop: process_packet, with the answer it sends.
\* The id of an entry is never set, so every packet is read as a Connect.
receive(n) ==
  /\ mailbox[n] # <<>>
  /\ LET m == Head(mailbox[n])[1]
         peer == Connect_handle(EntryFor(n, m), Head(mailbox[n])[2])
     IN  /\ peers' = [peers EXCEPT ![n] = Put(@, m, peer)]
         /\ fresh' = IF m \in DOMAIN peers[n] THEN fresh ELSE fresh + 1
         /\ mailbox' = LET rest == [mailbox EXCEPT ![n] = Tail(@)]
                       IN  IF Answers(peer)
                           THEN [rest EXCEPT ![m] = Append(@, <<n, peer.pk>>)]
                           ELSE rest
  /\ UNCHANGED dials

Next ==
  \/ \E n \in Nodes : \E m \in Nodes \ {n} : connect(n, m)
  \/ \E n \in Nodes : receive(n)

\* Every node runs its receive loop.
Spec == Init /\ [][Next]_vars /\ \A n \in Nodes : WF_vars(receive(n))

(***************************************************************************)
(* Properties                                                              *)
(***************************************************************************)

Entry(n, m) == peers[n][m]
Linked(n, m) == m \in DOMAIN peers[n] /\ n \in DOMAIN peers[m]
Keyed(n, m) == m \in DOMAIN peers[n] /\ Entry(n, m).rx # None
Drained(n, m) == \A i \in DOMAIN mailbox[n] : mailbox[n][i][1] # m

(* When two nodes have keys, no packet between them is on its way and they *)
(* did not dial each other, what one of them encrypts with is what the     *)
(* other decrypts with, in both directions, however often the client has   *)
(* dialled again with a new key pair while answers to the old one were on  *)
(* their way.                                                              *)
SessionKeysAgree ==
  \A n, m \in Nodes :
    n # m /\ Keyed(n, m) /\ Keyed(m, n) /\ Drained(n, m) /\ Drained(m, n)
    /\ Entry(n, m).connection_type # Entry(m, n).connection_type
    => Entry(n, m).rx = Entry(m, n).tx /\ Entry(n, m).tx = Entry(m, n).rx

(* A node is the server of a peer only when the peer is its client: two    *)
(* nodes never both wait for the other to dial.                            *)
ServersHaveClients ==
  \A n \in Nodes : \A m \in DOMAIN peers[n] :
    Entry(n, m).connection_type = "Server" =>
      n \in DOMAIN peers[m] /\ Entry(m, n).connection_type = "Client"

\* Each is the other's client: neither answers, and a node that dials a peer
\* it has served before drops the keys of that session.
Crossed(n, m) ==
  /\ Linked(n, m)
  /\ Entry(n, m).connection_type = "Client" /\ Entry(m, n).connection_type = "Client"

(* A handshake that was begun is finished: a node that has an entry for a  *)
(* peer gets session keys for it, and so does the peer, unless they have   *)
(* dialled each other.                                                     *)
HandshakeCompletes ==
  \A n, m \in Nodes :
    (m \in DOMAIN peers[n]) ~> (Keyed(n, m) /\ Keyed(m, n)) \/ Crossed(n, m)

(* The exchange quiets down: an answer is not answered, so the mailboxes   *)
(* are empty from some point on.                                           *)
MailboxesDrain == <>[](\A n \in Nodes : mailbox[n] = <<>>)

(* Dialling leads to a finished handshake and then to silence.             *)
HandshakeEnds == HandshakeCompletes /\ MailboxesDrain
=============================================================================
