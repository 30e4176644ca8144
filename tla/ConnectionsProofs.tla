------------------------- MODULE ConnectionsProofs --------------------------
(***************************************************************************)
(* Proofs about the peer table, for any limit, any addresses and any       *)
(* number of workers: the table stays within its limit, the listener is    *)
(* closed only while it is full, and a reader that reads has its entry.    *)
(***************************************************************************)
EXTENDS Connections, FiniteSetTheorems, TLAPS

\* The flag can only be trusted together with the limit: a table above its
\* limit would not be brought back to it by one entry that is removed.
TableInv ==
  /\ IsFiniteSet(DOMAIN peers) /\ peer_count <= max_peers
  /\ accept_connections \in BOOLEAN /\ ClosedOnlyWhenFull

\* A step that keeps the addresses of the table and the flag keeps the invariant.
LEMMA SameTable ==
  ASSUME TableInv, DOMAIN peers' = DOMAIN peers, UNCHANGED accept_connections
  PROVE  TableInv'
BY DEF TableInv, peer_count, ClosedOnlyWhenFull

\* add_peer: an entry is added while there is room, otherwise the flag goes down.
LEMMA ConnectionKeeps ==
  ASSUME TableInv, NEW c, NEW type, process_connection(c, type) PROVE TableInv'
<1>1. IsFiniteSet(DOMAIN peers) /\ peer_count \in Nat
    BY FS_CardinalityType DEF TableInv, peer_count
<1>2. CASE HasRoom
  <2>1. DOMAIN peers' = DOMAIN peers \cup {peer_addr(c)}
      BY <1>2 DEF process_connection, Put
  <2>2. IsFiniteSet(DOMAIN peers') /\ peer_count' \in {peer_count, peer_count + 1}
      BY <1>1, <2>1, FS_AddElement DEF peer_count
  <2>3. accept_connections' = accept_connections /\ accept_connections = TRUE
      BY <1>1, <1>2, MaxPeersAssumption DEF process_connection, HasRoom, TableInv, ClosedOnlyWhenFull
  <2> QED
      BY <1>1, <1>2, <2>2, <2>3, MaxPeersAssumption DEF TableInv, HasRoom, ClosedOnlyWhenFull
<1>3. CASE ~HasRoom
  <2>1. peers' = peers /\ accept_connections' = FALSE
      BY <1>3, Zenon DEF process_connection, TableInv
  <2>2. peer_count' = peer_count /\ peer_count = max_peers
      BY <1>1, <1>3, <2>1, MaxPeersAssumption DEF TableInv, HasRoom, peer_count
  <2> QED
      BY <2>1, <2>2, Zenon DEF TableInv, ClosedOnlyWhenFull
<1> QED
    BY <1>2, <1>3

\* The end of a reader: an entry goes, if it was there, and the flag comes up
\* if that made room.
LEMMA ReaderEndKeeps ==
  ASSUME TableInv, NEW c, reader_ends(c) PROVE TableInv'
<1> DEFINE left == DOMAIN peers \ {peer_addr(c)}
<1>1. DOMAIN peers' = left /\ accept_connections' = Reopened(left)
    BY DEF reader_ends, Restrict
<1>2. IsFiniteSet(DOMAIN peers) /\ peer_count \in Nat
    BY FS_CardinalityType DEF TableInv, peer_count
<1>3. IsFiniteSet(left) /\ Cardinality(left) \in {peer_count, peer_count - 1}
    BY <1>2, FS_RemoveElement DEF peer_count
<1>4. peer_count' = Cardinality(left)
    BY <1>1 DEF peer_count
<1> HIDE DEF left
<1>5. peer_count' <= max_peers
    BY <1>2, <1>3, <1>4, MaxPeersAssumption DEF TableInv
<1>6. CASE Cardinality(left) < max_peers
  <2>1. accept_connections' = TRUE
      BY <1>1, <1>6, Zenon DEF Reopened
  <2> QED
      BY <1>1, <1>3, <1>5, <2>1 DEF TableInv, ClosedOnlyWhenFull
<1>7. CASE ~(Cardinality(left) < max_peers)
  <2>1. accept_connections' = accept_connections
      BY <1>1, <1>7 DEF Reopened, TableInv
  <2>2. peer_count' = max_peers
      BY <1>2, <1>3, <1>4, <1>5, <1>7, MaxPeersAssumption
  <2> QED
      BY <1>1, <1>3, <1>5, <2>1, <2>2 DEF TableInv, ClosedOnlyWhenFull
<1> QED
    BY <1>6, <1>7

\* Every step keeps the invariant.
LEMMA TableNext == TableInv /\ [Next]_vars => TableInv'
<1> SUFFICES ASSUME TableInv, [Next]_vars PROVE TableInv'
    OBVIOUS
<1>1. CASE bootstrap \/ bootnodes \/ UNCHANGED vars
    BY <1>1, SameTable DEF bootstrap, bootnodes, vars
<1>2. ASSUME NEW c, connect_to_peer(c) PROVE TableInv'
    BY <1>2, ConnectionKeeps DEF connect_to_peer
<1>3. ASSUME NEW c, connect_failed(c) PROVE TableInv'
    BY <1>3, SameTable DEF connect_failed
<1>4. ASSUME NEW addr, start_listener(addr) PROVE TableInv'
    BY <1>4, ConnectionKeeps DEF start_listener
<1>5. ASSUME NEW c, start_writer(c) PROVE TableInv'
    BY <1>5, SameTable DEF start_writer
<1>6. ASSUME NEW c, socket_writer(c) PROVE TableInv'
    BY <1>6, SameTable DEF socket_writer
<1>7. ASSUME NEW c, process_packet(c) PROVE TableInv'
    BY <1>7, SameTable DEF process_packet, handle, BadPacket
<1>8. ASSUME NEW c, reader_ends(c) PROVE TableInv'
    BY <1>8, ReaderEndKeeps
<1> QED
    BY <1>1, <1>2, <1>3, <1>4, <1>5, <1>6, <1>7, <1>8 DEF Next

\* The table starts empty and the listener open.
LEMMA TableInit == Init => TableInv
<1> SUFFICES ASSUME Init PROVE TableInv
    OBVIOUS
<1>1. DOMAIN peers = {}
    BY DEF Init
<1>2. IsFiniteSet(DOMAIN peers) /\ peer_count = 0
    BY <1>1, FS_EmptySet DEF peer_count
<1> QED
    BY <1>2, MaxPeersAssumption DEF Init, TableInv, ClosedOnlyWhenFull

\* Whichever connections are made, fail, panic or end, add_peer lowers the
\* accept_connections flag only for a full table, and the reader that makes
\* room (connection.rs) raises it again.
THEOREM ListenerReopens == Spec => []ClosedOnlyWhenFull
<1>1. TableInv => ClosedOnlyWhenFull
    BY DEF TableInv
<1> QED
    BY <1>1, TableInit, TableNext, PTL DEF Spec

-----------------------------------------------------------------------------
\* A record of conns.
Connection ==
  [connection_type : {"Client", "Server"}, listed : BOOLEAN,
   reader : {"open", "ended", "panicked"}, writer : {"spawned", "looping", "panicked"}]

\* A socket is connected at most once: what bootstrap is still to dial has no
\* connection yet.  An entry of the table was made for some connection.
EntryInv ==
  /\ conns \in [Ids -> Connection]
  /\ dialing \subseteq (CacheSockets \cup BootSockets) \ Ids
  /\ boot = "start" => dialing = {} /\ Ids \cap (CacheSockets \cup BootSockets) = {}
  /\ boot = "cached" => (dialing \cup Ids) \cap BootSockets = {}
  /\ \A addr \in DOMAIN peers : \E c \in Ids : peer_addr(c) = addr
  /\ EntryFollowsReader

\* The table starts empty, and nothing is dialled or connected.
LEMMA EntryInit == Init => EntryInv
BY DEF Init, EntryInv, EntryFollowsReader, Ids

\* The three kinds of socket are told apart by where their address came from.
LEMMA SocketsDisjoint ==
  /\ CacheSockets \cap BootSockets = {}
  /\ \A addr : <<"in", addr>> \notin CacheSockets \cup BootSockets
BY DEF CacheSockets, BootSockets

\* A step that keeps the addresses of the table and whether a connection is
\* listed, and neither ends nor opens a reader, keeps the entries.
LEMMA SameEntries ==
  ASSUME EntryInv, conns' \in [Ids -> Connection], DOMAIN peers' = DOMAIN peers,
         \A d \in Ids : /\ conns'[d].listed = conns[d].listed
                        /\ conns'[d].reader = "ended" => conns[d].reader = "ended"
                        /\ conns'[d].reader = "open" => conns[d].reader = "open"
  PROVE  /\ Ids' = Ids /\ EntryFollowsReader'
         /\ \A addr \in DOMAIN peers' : \E c \in Ids' : peer_addr(c) = addr
<1>1. Ids' = Ids
    BY DEF Ids
<1>2. \A d \in Ids : Sole(d)' => Sole(d)
    BY <1>1, Zenon DEF Sole
<1>3. EntryFollowsReader'
    BY <1>1, <1>2, Zenon DEF EntryInv, EntryFollowsReader
<1> QED
    BY <1>1, <1>3, Zenon DEF EntryInv

\* A connection is made for a socket that had none.  If add_peer finds no room,
\* the address has no entry unless it belongs to another connection.
LEMMA ConnectionEntry ==
  ASSUME EntryInv, NEW c, c \notin Ids, NEW type \in {"Client", "Server"},
         process_connection(c, type)
  PROVE  /\ Ids' = Ids \cup {c} /\ conns' \in [Ids' -> Connection] /\ EntryFollowsReader'
         /\ \A addr \in DOMAIN peers' : \E d \in Ids' : peer_addr(d) = addr
<1> DEFINE made == [connection_type |-> type, listed |-> HasRoom,
                    reader |-> "open", writer |-> "spawned"]
<1>1. HasRoom \in BOOLEAN /\ made \in Connection
    BY DEF Connection, HasRoom
<1>2. conns' = Put(conns, c, made)
    BY DEF process_connection
<1>3. /\ made.listed = HasRoom /\ made.reader # "ended"
    OBVIOUS
<1> HIDE DEF made
<1>4. /\ Ids' = Ids \cup {c} /\ conns' \in [Ids' -> Connection]
      /\ conns'[c] = made /\ \A d \in Ids : conns'[d] = conns[d]
    BY <1>1, <1>2 DEF Put, Ids, EntryInv
<1>5. DOMAIN peers' = IF HasRoom THEN DOMAIN peers \cup {peer_addr(c)} ELSE DOMAIN peers
    BY DEF process_connection, Put
<1>6. \A addr \in DOMAIN peers' : \E d \in Ids' : peer_addr(d) = addr
    BY <1>4, <1>5, Zenon DEF EntryInv
<1>7. ASSUME NEW d \in Ids', Sole(d)'
      PROVE  /\ conns'[d].listed /\ conns'[d].reader = "open" => peer_addr(d) \in DOMAIN peers'
             /\ ~conns'[d].listed \/ conns'[d].reader = "ended" => peer_addr(d) \notin DOMAIN peers'
  <2>1. \A e \in Ids' \ {d} : peer_addr(e) # peer_addr(d)
      BY <1>7, Zenon DEF Sole
  <2>2. CASE d = c
    <3>1. peer_addr(c) \notin DOMAIN peers
        BY <1>4, <2>1, <2>2, Zenon DEF EntryInv
    <3> QED
        BY <1>1, <1>3, <1>4, <1>5, <2>2, <3>1, Zenon
  <2>3. CASE d # c
    <3>1. d \in Ids /\ Sole(d) /\ peer_addr(d) # peer_addr(c)
        BY <1>4, <2>1, <2>3, Zenon DEF Sole
    <3>2. peer_addr(d) \in DOMAIN peers' <=> peer_addr(d) \in DOMAIN peers
        BY <1>5, <3>1, Zenon
    <3> QED
        BY <1>4, <3>1, <3>2, Zenon DEF EntryInv, EntryFollowsReader
  <2> QED
      BY <2>2, <2>3
<1> QED
    BY <1>4, <1>6, <1>7, Zenon DEF EntryFollowsReader

\* The end of a reader takes the entry of its address out of the table.
LEMMA ReaderEndEntry ==
  ASSUME EntryInv, NEW c \in Ids, reader_ends(c)
  PROVE  /\ Ids' = Ids /\ conns' \in [Ids' -> Connection] /\ EntryFollowsReader'
         /\ \A addr \in DOMAIN peers' : \E d \in Ids' : peer_addr(d) = addr
<1>1. /\ Ids' = Ids /\ conns' \in [Ids' -> Connection]
      /\ conns'[c].reader = "ended" /\ \A d \in Ids \ {c} : conns'[d] = conns[d]
    BY DEF reader_ends, EntryInv, Ids, Connection
<1>2. DOMAIN peers' = DOMAIN peers \ {peer_addr(c)}
    BY DEF reader_ends, Restrict
<1>3. ASSUME NEW d \in Ids', Sole(d)'
      PROVE  /\ conns'[d].listed /\ conns'[d].reader = "open" => peer_addr(d) \in DOMAIN peers'
             /\ ~conns'[d].listed \/ conns'[d].reader = "ended" => peer_addr(d) \notin DOMAIN peers'
  <2>1. d \in Ids /\ Sole(d)
      BY <1>1, <1>3, Zenon DEF Sole
  <2>2. CASE d = c
      BY <1>1, <1>2, <2>2, Zenon
  <2>3. CASE d # c
    <3>1. peer_addr(c) # peer_addr(d)
        BY <2>1, <2>3, Zenon DEF Sole
    <3> QED
        BY <1>1, <1>2, <2>1, <2>3, <3>1, Zenon DEF EntryInv, EntryFollowsReader
  <2> QED
      BY <2>2, <2>3
<1> QED
    BY <1>1, <1>2, <1>3, Zenon DEF EntryInv, EntryFollowsReader

\* Every step keeps the entries.
LEMMA EntryNext == EntryInv /\ [Next]_vars => EntryInv'
<1> SUFFICES ASSUME EntryInv, [Next]_vars PROVE EntryInv'
    OBVIOUS
<1> DEFINE Tracked == \A addr \in DOMAIN peers : \E c \in Ids : peer_addr(c) = addr
<1>1. CASE UNCHANGED vars
    BY <1>1, Zenon DEF vars, EntryInv, EntryFollowsReader, Sole, Ids
<1>2. ASSUME UNCHANGED <<peers, conns>>
      PROVE  Ids' = Ids /\ conns' \in [Ids' -> Connection] /\ EntryFollowsReader' /\ Tracked'
    BY <1>2, Zenon DEF EntryInv, EntryFollowsReader, Sole, Ids
<1>3. CASE bootstrap
  <2>1. dialing' \subseteq IF Cache = <<>> THEN BootSockets ELSE CacheSockets
      BY <1>3 DEF bootstrap, Take
  <2>2. boot' = (IF Cache = <<>> THEN "done" ELSE "cached") /\ boot = "start"
      BY <1>3 DEF bootstrap
  <2>3. Ids' = Ids /\ conns' \in [Ids' -> Connection] /\ EntryFollowsReader' /\ Tracked'
      BY <1>2, <1>3 DEF bootstrap
  <2> QED
      BY <2>1, <2>2, <2>3, SocketsDisjoint DEF EntryInv
<1>4. CASE bootnodes
  <2>1. dialing' \subseteq dialing \cup BootSockets /\ boot' = "done" /\ boot = "cached"
      BY <1>4 DEF bootnodes
  <2>2. Ids' = Ids /\ conns' \in [Ids' -> Connection] /\ EntryFollowsReader' /\ Tracked'
      BY <1>2, <1>4 DEF bootnodes
  <2> QED
      BY <2>1, <2>2 DEF EntryInv
<1>5. ASSUME NEW c \in dialing, connect_to_peer(c) PROVE EntryInv'
  <2>1. c \notin Ids /\ dialing' = dialing \ {c} /\ boot' = boot
      BY <1>5 DEF connect_to_peer, EntryInv
  <2>2. /\ Ids' = Ids \cup {c} /\ conns' \in [Ids' -> Connection] /\ EntryFollowsReader' /\ Tracked'
      BY <1>5, <2>1, ConnectionEntry DEF connect_to_peer
  <2> QED
      BY <2>1, <2>2, <1>5 DEF EntryInv
<1>6. ASSUME NEW c \in dialing, connect_failed(c) PROVE EntryInv'
  <2>1. dialing' = dialing \ {c} /\ boot' = boot
      BY <1>6 DEF connect_failed
  <2>2. Ids' = Ids /\ conns' \in [Ids' -> Connection] /\ EntryFollowsReader' /\ Tracked'
      BY <1>2, <1>6 DEF connect_failed
  <2> QED
      BY <2>1, <2>2 DEF EntryInv
<1>7. ASSUME NEW addr \in Inbound, start_listener(addr) PROVE EntryInv'
  <2> DEFINE c == <<"in", addr>>
  <2>1. c \notin Ids /\ dialing' = dialing /\ boot' = boot
      BY <1>7 DEF start_listener
  <2>2. c \notin CacheSockets \cup BootSockets
      BY SocketsDisjoint
  <2>3. process_connection(c, "Server")
      BY <1>7 DEF start_listener
  <2> HIDE DEF c
  <2>4. /\ Ids' = Ids \cup {c} /\ conns' \in [Ids' -> Connection] /\ EntryFollowsReader' /\ Tracked'
      BY <2>1, <2>3, ConnectionEntry
  <2> QED
      BY <2>1, <2>2, <2>4 DEF EntryInv
<1>8. ASSUME NEW c \in Ids, start_writer(c) \/ socket_writer(c) \/ process_packet(c) PROVE EntryInv'
  <2>1. dialing' = dialing /\ boot' = boot /\ DOMAIN peers' = DOMAIN peers
      BY <1>8 DEF start_writer, socket_writer, process_packet, handle, BadPacket
  <2>2. /\ conns' \in [Ids -> Connection]
        /\ \A d \in Ids : /\ conns'[d].listed = conns[d].listed
                          /\ conns'[d].reader = "ended" => conns[d].reader = "ended"
                          /\ conns'[d].reader = "open" => conns[d].reader = "open"
    <3>1. CASE start_writer(c)
        BY <3>1 DEF start_writer, EntryInv, Connection
    <3>2. CASE socket_writer(c)
        BY <3>2 DEF socket_writer, EntryInv, Connection
    <3>3. CASE process_packet(c)
      <4>1. CASE BadPacket(c)
          BY <3>3, <4>1 DEF process_packet, BadPacket, EntryInv, Connection
      <4>2. CASE handle(c)
          BY <3>3, <4>2 DEF process_packet, handle, EntryInv, Connection
      <4> QED
          BY <3>3, <4>1, <4>2 DEF process_packet
    <3> QED
        BY <1>8, <3>1, <3>2, <3>3
  <2>3. Ids' = Ids /\ EntryFollowsReader' /\ Tracked'
      BY <2>1, <2>2, SameEntries
  <2> QED
      BY <2>1, <2>2, <2>3 DEF EntryInv
<1>9. ASSUME NEW c \in Ids, reader_ends(c) PROVE EntryInv'
  <2>1. dialing' = dialing /\ boot' = boot
      BY <1>9 DEF reader_ends
  <2>2. Ids' = Ids /\ conns' \in [Ids' -> Connection] /\ EntryFollowsReader' /\ Tracked'
      BY <1>9, ReaderEndEntry
  <2> QED
      BY <2>1, <2>2 DEF EntryInv
<1> QED
    BY <1>1, <1>3, <1>4, <1>5, <1>6, <1>7, <1>8, <1>9 DEF Next

\* Whatever the remote peers, the dialled and the accepted sockets do, a
\* connection whose address no other one uses and that add_peer took has its
\* entry in the peer table while its reader reads, and none once the reader's
\* task (process_connection) has ended or if add_peer refused it.
THEOREM EntriesFollowReaders == Spec => []EntryFollowsReader
<1>1. EntryInv => EntryFollowsReader
    BY DEF EntryInv
<1> QED
    BY <1>1, EntryInit, EntryNext, PTL DEF Spec
=============================================================================
