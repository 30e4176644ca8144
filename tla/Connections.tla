---------------------------- MODULE Connections -----------------------------
(***************************************************************************)
(* The connections of a node: bootstrap, the listener, and for every       *)
(* socket a writer task and a reader task that share the peer table, its   *)
(* limit and the flag that says whether connections are accepted.          *)
(*                                                                         *)
(* A step is what a task does while it holds the lock of the network.  A   *)
(* panic ends the task it happens in and nothing else; the peer entry that *)
(* the task would have removed stays.  The fold of the writer is always    *)
(* ready, so a writer that has been started holds its worker thread until  *)
(* it panics, and the other tasks need a worker that is free.  A remote    *)
(* peer may send anything, for ever, and may close, fail or fall silent at *)
(* any time; a silent one is timed out.                                    *)
(***************************************************************************)
EXTENDS Integers, Sequences, FiniteSets, Functions

CONSTANTS
  Cache,      \* the bootstrap cache: a sequence of addresses, empty if none
  BOOTNODES,  \* a sequence of addresses
  Inbound,    \* addresses that connect to us, once each
  max_peers,  \* size of the peer table
  Workers     \* worker threads of the runtime

ASSUME MaxPeersAssumption == max_peers \in Nat

VARIABLES
  peers,               \* address -> [connection_type, sent_connect, keys]
  accept_connections,  \* the flag of the listener
  conns,               \* the connections made, by the socket they were made for
  dialing,             \* sockets being connected
  boot                 \* "start", "cached" or "done"

vars == <<peers, accept_connections, conns, dialing, boot>>

\* A socket: where its address came from, and which one it is there.
CacheSockets == {<<"cache", i>> : i \in DOMAIN Cache}
BootSockets == {<<"boot", i>> : i \in DOMAIN BOOTNODES}
Sockets == CacheSockets \cup BootSockets \cup {<<"in", a>> : a \in Inbound}
peer_addr(c) ==
  CASE c \in CacheSockets -> Cache[c[2]]
    [] c \in BootSockets -> BOOTNODES[c[2]]
    [] OTHER -> c[2]

\* HashMap::insert.
Put(f, k, v) == [x \in DOMAIN f \cup {k} |-> IF x = k THEN v ELSE f[x]]

peer_count == Cardinality(DOMAIN peers)
Ids == DOMAIN conns

Init ==
  /\ peers = <<>> /\ accept_connections = TRUE
  /\ conns = <<>> /\ dialing = {} /\ boot = "start"

\* A worker that no writer loops on.
WorkerFree == Cardinality({c \in Ids : conns[c].writer = "looping"}) < Workers

(***************************************************************************)
(* bootstrap                                                               *)
(***************************************************************************)

Take(sockets) == {c \in sockets : c[2] <= max_peers}

\* Starts connecting to the cached peers, or to the boot nodes without a cache.
bootstrap ==
  /\ boot = "start"
  /\ dialing' = Take(IF Cache = <<>> THEN BootSockets ELSE CacheSockets)
  /\ boot' = IF Cache = <<>> THEN "done" ELSE "cached"
  /\ UNCHANGED <<peers, accept_connections, conns>>

\* After the cached peers the boot nodes, unless the table has been filled by
\* the connections that were made in the meantime.
bootnodes ==
  /\ boot = "cached" /\ WorkerFree
  /\ dialing' = IF peer_count < max_peers THEN dialing \cup BootSockets ELSE dialing
  /\ boot' = "done"
  /\ UNCHANGED <<peers, accept_connections, conns>>

(***************************************************************************)
(* A connection is made                                                    *)
(***************************************************************************)

Peer(type) == [connection_type |-> type, sent_connect |-> FALSE, keys |-> FALSE]

HasRoom == peer_count < max_peers

\* add_peer, and the two tasks, which run whether or not it succeeded.
process_connection(c, type) ==
  /\ peers' = IF HasRoom THEN Put(peers, peer_addr(c), Peer(type)) ELSE peers
  /\ accept_connections' = (accept_connections /\ HasRoom)
  /\ conns' = Put(conns, c, [connection_type |-> type, listed |-> HasRoom,
                             reader |-> "open", writer |-> "spawned"])

connect_to_peer(c) ==
  /\ WorkerFree
  /\ process_connection(c, "Client")
  /\ dialing' = dialing \ {c}
  /\ UNCHANGED boot

\* The connection attempt fails.
connect_failed(c) ==
  /\ WorkerFree
  /\ dialing' = dialing \ {c}
  /\ UNCHANGED <<peers, accept_connections, conns, boot>>

\* The listener drops a socket that arrives while the flag is down.
start_listener(addr) ==
  /\ accept_connections /\ WorkerFree /\ <<"in", addr>> \notin Ids
  /\ process_connection(<<"in", addr>>, "Server")
  /\ UNCHANGED <<dialing, boot>>

(***************************************************************************)
(* The writer task                                                         *)
(***************************************************************************)

start_writer(c) ==
  /\ conns[c].writer = "spawned" /\ WorkerFree
  /\ conns' = [conns EXCEPT ![c].writer = "looping"]
  /\ UNCHANGED <<peers, accept_connections, dialing, boot>>

MustConnect(c) ==
  conns[c].connection_type = "Client" /\ ~peers[peer_addr(c)].sent_connect

\* Mutant: a writer without an entry goes on.
LookupPanics_never(c) == FALSE

LookupPanics(c) == peer_addr(c) \notin DOMAIN peers

\* A turn of the writer that changes something: it panics when the entry is
\* gone, and a client sends its Connect packet.  Nothing puts a packet in the
\* outbound buffer.
socket_writer(c) ==
  LET addr == peer_addr(c) IN
  /\ conns[c].writer = "looping"
  /\ \/ /\ LookupPanics(c)
        /\ conns' = [conns EXCEPT ![c].writer = "panicked"]
        /\ UNCHANGED peers
     \/ /\ addr \in DOMAIN peers /\ MustConnect(c)
        /\ peers' = [peers EXCEPT ![addr].sent_connect = TRUE]
        /\ UNCHANGED conns
  /\ UNCHANGED <<accept_connections, dialing, boot>>

(***************************************************************************)
(* The reader task                                                         *)
(***************************************************************************)

\* process_packet of a Connect: the session keys are set; a server then sends
\* its own Connect, which is not implemented.
handle(c) ==
  LET addr == peer_addr(c)
      type == peers[addr].connection_type IN
  /\ addr \in DOMAIN peers
  /\ peers' = [peers EXCEPT ![addr].keys = TRUE, ![addr].sent_connect = TRUE]
  /\ conns' = [conns EXCEPT ![c].reader = IF type = "Server" THEN "panicked" ELSE @]

\* Any other packet: banning the address is not implemented either.
BadPacket(c) ==
  /\ conns' = [conns EXCEPT ![c].reader = "panicked"]
  /\ UNCHANGED peers

\* A packet is read; without a peer entry the lookup panics.
process_packet(c) ==
  /\ conns[c].reader = "open" /\ WorkerFree
  /\ handle(c) \/ BadPacket(c)
  /\ UNCHANGED <<accept_connections, dialing, boot>>

\* Mutant: the flag stays as it is.
Reopened_never(left) == accept_connections

Reopened(left) == accept_connections \/ Cardinality(left) < max_peers

\* Mutant: the entry is left behind.
reader_ends_keeps(c) ==
  /\ conns[c].reader = "open" /\ WorkerFree
  /\ conns' = [conns EXCEPT ![c].reader = "ended"]
  /\ accept_connections' = Reopened(DOMAIN peers)
  /\ UNCHANGED <<peers, dialing, boot>>

\* The end of the stream, an error or a timeout.
reader_ends(c) ==
  LET left == DOMAIN peers \ {peer_addr(c)} IN
  /\ conns[c].reader = "open" /\ WorkerFree
  /\ conns' = [conns EXCEPT ![c].reader = "ended"]
  /\ peers' = Restrict(peers, left)
  /\ accept_connections' = Reopened(left)
  /\ UNCHANGED <<dialing, boot>>

Next ==
  \/ bootstrap
  \/ bootnodes
  \/ \E c \in dialing : connect_to_peer(c) \/ connect_failed(c)
  \/ \E addr \in Inbound : start_listener(addr)
  \/ \E c \in Ids : start_writer(c) \/ socket_writer(c) \/ process_packet(c) \/ reader_ends(c)

\* The runtime polls every task that can run while a worker is free, and the
\* threads of the workers are scheduled.  Nothing makes a remote peer close or
\* fall silent, so a reader need not end.
Spec ==
  /\ Init /\ [][Next]_vars
  /\ \A c \in Sockets : WF_vars(c \in Ids /\ start_writer(c)) /\ WF_vars(c \in Ids /\ socket_writer(c))

(***************************************************************************)
(* Properties                                                              *)
(***************************************************************************)

\* No other connection has the same address.  A cached peer can be a boot
\* node, and the two connections then share one entry.
Sole(c) == \A d \in Ids \ {c} : peer_addr(d) # peer_addr(c)

(* The listener is closed only while the table is full: the flag goes down *)
(* when a peer is turned away and comes up again with the entry that makes *)
(* room, whichever connections end in between.                             *)
ClosedOnlyWhenFull == ~accept_connections => peer_count = max_peers

(* A connection that was given an entry has it as long as its reader       *)
(* reads, so that no packet panics for want of an entry, and the reader    *)
(* that ends leaves none behind.  Nothing is said of a reader that has     *)
(* panicked: see BadPeersRemoved.                                          *)
EntryFollowsReader ==
  \A c \in Ids : Sole(c) =>
    /\ conns[c].listed /\ conns[c].reader = "open" => peer_addr(c) \in DOMAIN peers
    /\ ~conns[c].listed \/ conns[c].reader = "ended" => peer_addr(c) \notin DOMAIN peers

\* A writer that was spawned and finds every worker taken by a writer that spins.
Starved(c) == conns[c].writer = "spawned" /\ ~WorkerFree

(* When the reader has ended the writer stops as well, because it no       *)
(* longer finds the entry: unless another connection keeps the address in  *)
(* the table, or the writers of other connections take all the workers     *)
(* before this one has run at all.  It does not depend on what any remote  *)
(* peer does later.                                                        *)
WriterFollowsReader ==
  \A c \in Sockets : (c \in Ids /\ conns[c].reader = "ended")
    ~> (c \in Ids /\ (conns[c].writer = "panicked" \/ ~Sole(c) \/ Starved(c)))

(* "Invalid packet, remove peer" (network.rs): a reader that stops at an   *)
(* invalid packet leaves no entry.  Refuted: the error leads to ban_ip,    *)
(* which is not implemented, and the task panics before it could remove    *)
(* the peer.                                                               *)
BadPeersRemoved ==
  \A c \in Ids : Sole(c) /\ conns[c].reader = "panicked" => peer_addr(c) \notin DOMAIN peers

(* "we use the `select` combinator to wait for either half to be done to   *)
(* tear down the other" (connection.rs): whichever way the reader stops,   *)
(* the writer stops too.  Refuted: the code has no select, and after the   *)
(* reader has panicked the writer goes on.                                 *)
HalvesTornDown ==
  \A c \in Sockets : (c \in Ids /\ conns[c].reader # "open")
    ~> (c \in Ids /\ (conns[c].writer = "panicked" \/ ~Sole(c) \/ Starved(c)))
=============================================================================
