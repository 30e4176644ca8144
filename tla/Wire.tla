-------------------------------- MODULE Wire --------------------------------
(***************************************************************************)
(* The life of one message: it is built, signed by one or more signers,    *)
(* hashed, written to bytes, carried (perhaps cut short or padded), read   *)
(* back by from_bytes and verified by the node that received it.           *)
(*                                                                         *)
(* Bytes are kept as places: the writer puts field f at an offset with a   *)
(* length, and the reader recovers f exactly when the interval it drains   *)
(* is the one f was written to.  Lengths are written truncated to the      *)
(* width of their header item (`as u8`, `as u16`), as the code does.       *)
(*                                                                         *)
(* What is signed and hashed is the bare concatenation of fields: it       *)
(* changes with the content of a field it covers, but not when bytes move  *)
(* from a field to its neighbour.                                          *)
(***************************************************************************)
EXTENDS Layouts, Integers, FiniteSets, SequencesExt

CONSTANTS
  Types,      \* the message types of this instance
  Lens,       \* field -> the lengths it may have when it is variable
  Batches,    \* how many signers sign one after another in one step
  MaxSigns,   \* signing steps
  MaxEdits    \* changes of fields after the message was built

VARIABLES
  msg,    \* [type, owner, len, opt, inner]: the message being built
  has,    \* the optional fields that are set
  sig,    \* the signature: its form and its batches, each with the changes
          \* made since it was
  since,  \* the changes made since hash() ran
  signers,\* how many signers have signed
  edits,  \* changes by the program so far
  wire,   \* the bytes: where each field is, and how many arrived
  got     \* what from_bytes made of them

vars == <<msg, has, sig, since, signers, edits, wire, got>>

Writer ==
  [Send |-> Send_to_bytes, Mint |-> Mint_to_bytes, Burn |-> Burn_to_bytes, Pay |-> Pay_to_bytes,
   IssueShares |-> IssueShares_to_bytes, CreateCurrency |-> CreateCurrency_to_bytes,
   CreateMintable |-> CreateMintable_to_bytes, OpenShares |-> OpenShares_to_bytes,
   OpenMultiSig |-> OpenMultiSig_to_bytes, OpenContract |-> OpenContract_to_bytes,
   Call |-> Call_to_bytes, Heartbeat |-> Heartbeat_to_bytes, Join |-> Join_to_bytes,
   Leave |-> Leave_to_bytes, Connect |-> Connect_to_bytes, HardBlock |-> HardBlock_to_bytes]

Header ==
  [Send |-> Send_header, Mint |-> Mint_header, Burn |-> Burn_header, Pay |-> Pay_header,
   IssueShares |-> IssueShares_header, CreateCurrency |-> CreateCurrency_header,
   CreateMintable |-> CreateMintable_header, OpenShares |-> OpenShares_header,
   OpenMultiSig |-> OpenMultiSig_header, OpenContract |-> OpenContract_header,
   Call |-> Call_header, Heartbeat |-> Heartbeat_header, Join |-> Join_header,
   Leave |-> Leave_header, Connect |-> Connect_header, HardBlock |-> HardBlock_header]

Reader ==
  [Send |-> Send_from_bytes, Mint |-> Mint_from_bytes, Burn |-> Burn_from_bytes,
   Pay |-> Pay_from_bytes, IssueShares |-> IssueShares_from_bytes,
   CreateCurrency |-> CreateCurrency_from_bytes, CreateMintable |-> CreateMintable_from_bytes,
   OpenShares |-> OpenShares_from_bytes, OpenMultiSig |-> OpenMultiSig_from_bytes,
   OpenContract |-> OpenContract_from_bytes, Call |-> Call_from_bytes,
   Heartbeat |-> Heartbeat_from_bytes, Join |-> Join_from_bytes, Leave |-> Leave_from_bytes,
   Connect |-> Connect_from_bytes, HardBlock |-> HardBlock_from_bytes]

SignMessage ==
  [Send |-> Send_sign_message, Mint |-> Mint_sign_message, Burn |-> Burn_sign_message,
   Pay |-> Pay_sign_message, IssueShares |-> IssueShares_sign_message,
   CreateCurrency |-> CreateCurrency_sign_message,
   CreateMintable |-> CreateMintable_sign_message, OpenShares |-> OpenShares_sign_message,
   OpenMultiSig |-> OpenMultiSig_sign_message, OpenContract |-> OpenContract_sign_message,
   Call |-> Call_sign_message, CreateUnique |-> CreateUnique_sign_message,
   ChangeMinter |-> ChangeMinter_sign_message, Connect |-> Connect_sign_message]

HashMessage ==
  [Send |-> Send_hash_message, Mint |-> Mint_hash_message, Burn |-> Burn_hash_message,
   Pay |-> Pay_hash_message, IssueShares |-> IssueShares_hash_message,
   CreateCurrency |-> CreateCurrency_hash_message,
   CreateMintable |-> CreateMintable_hash_message, OpenShares |-> OpenShares_hash_message,
   OpenMultiSig |-> OpenMultiSig_hash_message, OpenContract |-> OpenContract_hash_message,
   Call |-> Call_hash_message, CreateUnique |-> CreateUnique_hash_message,
   ChangeMinter |-> ChangeMinter_hash_message, HardBlock |-> HardBlock_hash_message]

Signable == DOMAIN SignMessage
Hashable == DOMAIN HashMessage
Codable == DOMAIN Writer

----------------------------------------------------------------------------
\* A change of a message: the fields it is of, and whether it only moved bytes
\* between neighbours of the concatenated message.
Assigned(fields) == {[of |-> {f}, moved |-> FALSE] : f \in fields}

\* The signed or hashed bytes are others than before.
Alters(message, e) == e.of \cap ToSet(message) # {} /\ ~e.moved
Unaltered(message, es) == \A e \in es : ~Alters(message, e)

\* Fields without a fixed length or a delimiter of their own: decimals and text or
\* bytes as they are.  A meta field of a unique asset is there or not.
Loose == {"amount", "fee", "gas_limit", "gas_price", "inputs", "code", "default_state"}
Metas == {"meta1", "meta2", "meta3", "meta4", "meta5"}

\* Fields that follow each other in a message, with nothing between them.
Empty(m, f) == (f \in DOMAIN m.len /\ m.len[f] = 0) \/ f \in Metas \ m.opt
Neighbours(m, message, f, g) ==
  \E i, j \in DOMAIN message :
    /\ i < j /\ {message[i], message[j]} = {f, g}
    /\ \A k \in i + 1 .. j - 1 : Empty(m, message[k])

----------------------------------------------------------------------------
\* Signing.  A signature is a form and a sequence of batches.
NoSig == [form |-> "none", by |-> <<>>]
Fresh(n) == [n |-> n, stale |-> {}]

\* The signer's address may be of any kind: a normal address has one signature
\* that is replaced, every other address collects signatures.
SignOwned(owner, s, n) ==
  IF owner = "normal" THEN [form |-> "normal", by |-> <<Fresh(1)>>]
  ELSE [form |-> "multi", by |-> Append(s.by, Fresh(n))]

\* Shares and dividends are always signed by shareholders.
SignShares(owner, s, n) == [form |-> "multi", by |-> Append(s.by, Fresh(n))]

\* One signer, whose signature is simply replaced.
SignOnce(owner, s, n) == [form |-> "normal", by |-> <<Fresh(1)>>]

Send_sign(o, s, n) == SignOwned(o, s, n)
\* Mutant: a second signature of a shared account replaces the first.
SignReplacing(o, s, n) == SignOwned(o, NoSig, n)
Mint_sign(o, s, n) == SignOwned(o, s, n)
Burn_sign(o, s, n) == SignOwned(o, s, n)
Call_sign(o, s, n) == SignOwned(o, s, n)
OpenContract_sign(o, s, n) == SignOwned(o, s, n)
CreateUnique_sign(o, s, n) == SignOwned(o, s, n)
ChangeMinter_sign(o, s, n) == SignOwned(o, s, n)
IssueShares_sign(o, s, n) == SignShares(o, s, n)
Pay_sign(o, s, n) == SignShares(o, s, n)
CreateCurrency_sign(o, s, n) == SignOnce(o, s, n)
CreateMintable_sign(o, s, n) == SignOnce(o, s, n)
OpenMultiSig_sign(o, s, n) == SignOnce(o, s, n)
OpenShares_sign(o, s, n) == SignOnce(o, s, n)
Connect_sign(o, s, n) == SignOnce(o, s, n)

Signed(t, o, s, n) ==
  CASE t = "Send" -> Send_sign(o, s, n)
    [] t = "Mint" -> Mint_sign(o, s, n)
    [] t = "Burn" -> Burn_sign(o, s, n)
    [] t = "Call" -> Call_sign(o, s, n)
    [] t = "OpenContract" -> OpenContract_sign(o, s, n)
    [] t = "CreateUnique" -> CreateUnique_sign(o, s, n)
    [] t = "ChangeMinter" -> ChangeMinter_sign(o, s, n)
    [] t = "IssueShares" -> IssueShares_sign(o, s, n)
    [] t = "Pay" -> Pay_sign(o, s, n)
    [] t = "CreateCurrency" -> CreateCurrency_sign(o, s, n)
    [] t = "CreateMintable" -> CreateMintable_sign(o, s, n)
    [] t = "OpenMultiSig" -> OpenMultiSig_sign(o, s, n)
    [] t = "OpenShares" -> OpenShares_sign(o, s, n)
    [] t = "Connect" -> Connect_sign(o, s, n)

AnyOwner == {"Send", "Mint", "Burn", "Call", "OpenContract", "CreateUnique", "ChangeMinter"}
SharesOwner == {"IssueShares", "Pay"}

SumOf(batches) == FoldLeft(LAMBDA a, b: a + b.n, 0, batches)

\* MultiSig::verify and verify_shares look at the signatures in the order they
\* were made: a bad one before the requirement is met ends it with false, and those
\* behind are not looked at.
Counted(by, required) == {i \in DOMAIN by : SumOf(SubSeq(by, 1, i - 1)) < required}
VerifyMulti(t, by, required) ==
  /\ SumOf(by) >= required
  /\ \A i \in Counted(by, required) : Unaltered(SignMessage[t], by[i].stale)

\* The number of signers that is asked for: as many as have signed, for keys as
\* far as the u8 required_keys goes.  Fewer than two keys make verify panic.
RequiredSigners(owner, n) == IF owner = "keys" /\ n > 255 THEN 255 ELSE n
VerifyPanics(owner, required) == owner = "keys" /\ required < 2

\* verify_sig
VerifyOne(t, by) == by # <<>> /\ Unaltered(SignMessage[t], by[1].stale)

Verify(t, s, required) ==
  \/ s.form = "normal" /\ VerifyOne(t, s.by)
  \/ s.form = "multi" /\ VerifyMulti(t, s.by, required)

----------------------------------------------------------------------------
\* Lengths of the written forms.
\* An rlp list: its payload and one to four bytes in front of it.
RlpList(p) == p + (IF p < 56 THEN 1 ELSE IF p < 256 THEN 2 ELSE IF p < 65536 THEN 3 ELSE 4)

\* Signature::to_bytes and MultiSig::to_bytes: 65 bytes, or the type byte and
\* the list of the 65-byte signatures (67 bytes each inside the list).
SigLen(s) == IF s.form = "normal" THEN 65 ELSE 1 + RlpList(67 * SumOf(s.by))

Fixed(f) ==
  IF f \in {"from", "to", "minter", "receiver", "burner", "payer", "issuer", "creator", "owner",
            "address", "minter_address", "collector_address"} THEN 33 ELSE 32

RawSig == {"Heartbeat", "Join", "Leave", "Connect"}  \* 64 bytes, no type byte

Masked == {"parent_cg_hash", "parent_join_hash"}

LenIn(m, s, f) ==
  CASE f = "signature" -> IF m.type \in RawSig THEN 64 ELSE SigLen(s)
    [] f \in DOMAIN m.len -> m.len[f]
    [] f \in Masked /\ m.type = "Join" -> IF f \in m.opt THEN 32 ELSE 0
    [] OTHER -> Fixed(f)

\* What a header item holds once it is cut to its width.  (Nothing here is long
\* enough to wrap an item of four bytes.)
Limit(item) == IF item.w < 4 THEN 256 ^ item.w ELSE 2147483647
Held(item, m, s) == LenIn(m, s, item.f) % Limit(item)

\* Every declared length is in range of its header item.
Fits(m, s) ==
  \A i \in DOMAIN Writer[m.type].head :
    LET item == Writer[m.type].head[i]
    IN  item.kind = "len" => LenIn(m, s, item.f) < Limit(item)

HeadLen(head) == FoldLeft(LAMBDA a, item: a + item.w, 0, head)

\* to_bytes: the place of every field, the header items by their offsets.
Placed(m, s) ==
  LET w == Writer[m.type]
      Off(i) == FoldLeft(LAMBDA a, f: a + LenIn(m, s, f), HeadLen(w.head), SubSeq(w.body, 1, i - 1))
  IN  [head  |-> {At(HeadLen(SubSeq(w.head, 1, i - 1)), w.head[i]) : i \in DOMAIN w.head},
       body  |-> {<<w.body[i], Off(i), LenIn(m, s, w.body[i])>> : i \in DOMAIN w.body},
       sent  |-> Off(Len(w.body) + 1)]

\* What to_bytes refuses to write without.
Required(t) ==
  {"hash", "signature", "address", "stock_hash"}
    \cap (ToSet(Writer[t].body) \cup (IF t = "HardBlock" THEN {"hash"} ELSE {}))

----------------------------------------------------------------------------
\* from_bytes.
\* The heartbeat reads the first byte of each transaction to choose a reader.
Dispatch ==
  <<"Call", "OpenContract", "Send", "Pay", "OpenMultiSig", "OpenShares", "IssueShares",
    "CreateCurrency", "CreateMintable", "Mint", "Burn">>

TxType ==
  [Call |-> 1, OpenContract |-> 2, Send |-> 3, Pay |-> 4, OpenMultiSig |-> 5, OpenShares |-> 6,
   IssueShares |-> 7, CreateCurrency |-> 8, CreateMintable |-> 9, Mint |-> 10, Burn |-> 11]

\* A balance, a gas amount or a signature cannot be parsed from no bytes: the
\* parsers unwrap or split.  A list that is not well formed makes rlp panic.
Brittle == {"amount", "fee", "gas_limit", "gas_price", "signature"}
RlpFields == {"signature", "keys", "share_map", "transactions", "proof"}

\* One field off the front of the buffer.  r.pos is how far the buffer has been
\* drained, r.bad the fields whose bytes were not the ones written for them.
Take(w, total, m, s, r, d) ==
  LET rest == total - r.pos
      h == CHOOSE h \in ToSet(Header[m.type].at) : h.item.kind = "len" /\ h.item.f = d.f
      o == CHOOSE o \in w.head : o.pos = h.pos
      n == CASE d.by = "declared" -> Held(o.item, m, s)
             [] d.by = "mask" -> IF d.f \in m.opt THEN d.w ELSE 0
             [] d.by = "rest" -> rest
             [] OTHER -> d.w
      there == CASE d.cmp = "==" -> rest = n
                 [] d.cmp = ">=" -> rest >= n
                 [] OTHER -> (n = 0 /\ d.by = "mask") \/ rest > n
      exact == <<d.f, r.pos, n>> \in w.body /\ r.pos + n <= w.sent
  IN  IF r.st # "ok" THEN r
      ELSE IF ~there THEN [r EXCEPT !.st = "err"]
      ELSE IF ~exact /\ n = 0 /\ d.f \in Brittle THEN [r EXCEPT !.st = "panic"]
      ELSE [r EXCEPT !.pos = @ + n, !.bad = IF exact THEN @ ELSE @ \cup {d.f}]

\* Mutant: the buffer is drained without a look at its length.
HeaderThere_unchecked(t, total) == TRUE

\* Reading a header item past the end of the buffer is an error, and is tried
\* before the header is drained.
HeaderThere(t, total) ==
  \A i \in DOMAIN Header[t].at : Header[t].at[i].pos + Header[t].at[i].item.w <= total

\* The outcomes of from_bytes.  Fields read from the wrong bytes may parse, be
\* refused, or (in an rlp list) panic.
FromBytes(w, total, m, s) ==
  LET h == Header[m.type]
      nums == {a.item.f : a \in {a \in ToSet(h.at) : a.item.kind = "num" /\ a \notin w.head}}
      start == [st |-> IF h.drain <= total THEN "ok" ELSE "panic", pos |-> h.drain, bad |-> nums]
      r == FoldLeft(LAMBDA a, d: Take(w, total, m, s, a, d), start, Reader[m.type])
      inner == IF "transactions" \in DOMAIN m.len /\ m.inner # "none"
                 /\ Dispatch[TxType[m.inner]] # m.inner THEN {"transactions"} ELSE {}
      bad == r.bad \cup inner
      Out(st) == [st |-> st, bad |-> IF st = "ok" THEN bad ELSE {}]
  IN  IF ~HeaderThere(m.type, total) THEN {Out("err")}
      ELSE IF bad = {} \/ r.st = "panic" THEN {Out(r.st)}
      ELSE {Out(r.st), Out("err")} \cup (IF bad \cap RlpFields # {} THEN {Out("panic")} ELSE {})

----------------------------------------------------------------------------
NoWire == [head |-> {}, body |-> {}, sent |-> 0, total |-> 0, written |-> FALSE]
NotRead == [st |-> "none", bad |-> {}, reordered |-> FALSE]

Owners(t) ==
  CASE t \in AnyOwner -> {"normal", "keys", "company"} [] t \in SharesOwner -> {"company"} [] OTHER -> {"normal"}

Variable(t) == IF t \in Codable THEN ToSet(Writer[t].body) \cap DOMAIN Lens ELSE {}
TypeBytes == {"tx_type", "event_type", "packet_type", "block_type", "bitmask"}
FieldsOf(t) ==
  IF t \in Codable
  THEN (ToSet(Writer[t].body) \cup {i.f : i \in ToSet(Writer[t].head)}) \ TypeBytes
  ELSE ToSet(SignMessage[t]) \cup ToSet(HashMessage[t])
Editable(t) == FieldsOf(t) \ {"hash", "signature"}

Optional(t) == CASE t = "Join" -> Masked [] t = "CreateUnique" -> Metas [] OTHER -> {}

Init ==
  /\ \E t \in Types : \E o \in Owners(t), l \in [Variable(t) -> UNION {Lens[f] : f \in Variable(t)}],
                         x \in SUBSET Optional(t), i \in DOMAIN TxType \cup {"none"} :
       /\ \A f \in Variable(t) : l[f] \in Lens[f]
       /\ (i # "none") <=> (t = "Heartbeat" /\ l["transactions"] > 1)
       /\ msg = [type |-> t, owner |-> o, len |-> l, opt |-> x, inner |-> i]
       /\ has = IF t \in Signable \cup Hashable THEN {} ELSE Required(t)
  /\ sig = NoSig /\ since = {} /\ signers = 0 /\ edits = 0
  /\ wire = NoWire /\ got = NotRead

Building == ~wire.written

\* compute_address, and compute_stock_hash for a company.
ComputeAddress ==
  /\ Building /\ msg.type \in {"OpenShares", "OpenMultiSig", "OpenContract"}
  /\ LET new == {"address", "stock_hash"} \cap FieldsOf(msg.type)
     IN  ~(new \subseteq has) /\ has' = has \cup new /\ since' = since \cup Assigned(new)
  /\ UNCHANGED <<msg, sig, signers, edits, wire, got>>

\* sign: panics unless the computed fields it covers are there.
Sign(n) ==
  /\ Building /\ msg.type \in Signable /\ Len(sig.by) < MaxSigns
  /\ {"address", "stock_hash"} \cap ToSet(SignMessage[msg.type]) \subseteq has
  /\ (msg.owner = "normal") => n = 1
  /\ sig' = Signed(msg.type, msg.owner, sig, n)
  /\ signers' = IF msg.owner = "normal" THEN 1 ELSE signers + n
  /\ has' = has \cup {"signature"} /\ since' = since \cup Assigned({"signature"})
  /\ UNCHANGED <<msg, edits, wire, got>>

\* hash (compute_hash of a block): panics unless what it covers is there.
ComputeHash ==
  /\ Building /\ msg.type \in Hashable
  /\ {"address", "stock_hash", "signature"} \cap ToSet(HashMessage[msg.type]) \subseteq has
  /\ has' = has \cup {"hash"} /\ since' = {}
  /\ UNCHANGED <<msg, sig, signers, edits, wire, got>>

\* The program changes the message after it was signed: it assigns a field ...
Change(es) ==
  /\ Building /\ edits < MaxEdits /\ has \cap {"signature", "hash"} # {}
  /\ edits' = edits + 1 /\ since' = since \cup es
  /\ sig' = [sig EXCEPT !.by = [i \in DOMAIN @ |-> [@[i] EXCEPT !.stale = @ \cup es]]]
  /\ UNCHANGED <<has, signers, wire, got>>

Edit(f) ==
  /\ f \in {"address", "stock_hash"} => f \in has
  /\ Change(Assigned({f}))
  /\ msg' = [msg EXCEPT !.opt = @ \cup ({f} \cap Optional(msg.type))]

\* ... or two, so that the end of one moves to the front of the other ...
Shift(f, g) ==
  /\ f # g /\ {f, g} \subseteq Loose
  /\ f \in DOMAIN msg.len => msg.len[f] > 1
  /\ Change({[of |-> {f, g}, moved |-> Neighbours(msg, HashMessage[msg.type], f, g)]})
  /\ msg' = [msg EXCEPT !.len = [x \in DOMAIN @ |->
                @[x] + (CASE x = f -> -1 [] x = g -> 1 [] OTHER -> 0)]]

\* ... or moves a meta field to a free place.
MoveMeta(f, g) ==
  /\ f \in Metas \cap msg.opt /\ g \in Metas \ msg.opt
  /\ Change({[of |-> {f, g}, moved |-> Neighbours(msg, HashMessage[msg.type], f, g)]})
  /\ msg' = [msg EXCEPT !.opt = (@ \ {f}) \cup {g}]

\* to_bytes
Write ==
  /\ Building /\ msg.type \in Codable /\ Required(msg.type) \subseteq has
  /\ LET p == Placed(msg, sig)
     IN  wire' = [head |-> p.head, body |-> p.body, sent |-> p.sent, total |-> p.sent, written |-> TRUE]
  /\ UNCHANGED <<msg, has, sig, since, signers, edits, got>>

\* The bytes that arrive end at or next to the edge of a field, or go one past
\* the end.  (Damage is looked at apart from changes by the program.)
Edges == UNION {{b[2] - 1, b[2], b[2] + 1} : b \in wire.body} \cup {0, 1, wire.sent - 1, wire.sent + 1}
Damage(c) ==
  /\ wire.written /\ wire.total = wire.sent /\ got = NotRead /\ edits = 0
  /\ c # wire.sent /\ wire' = [wire EXCEPT !.total = c]
  /\ UNCHANGED <<msg, has, sig, since, signers, edits, got>>

\* from_bytes at the receiver.  A share map with several entries is written in
\* the order its hash table iterates, which the rebuilt table need not repeat.
Read ==
  /\ wire.written /\ got = NotRead
  /\ \E r \in FromBytes(wire, wire.total, msg, sig),
       b \in IF "share_map" \in DOMAIN msg.len /\ msg.len["share_map"] > 39 THEN BOOLEAN ELSE {FALSE} :
       got' = [st |-> r.st, bad |-> r.bad, reordered |-> b]
  /\ UNCHANGED <<msg, has, sig, since, signers, edits, wire>>

Next ==
  \/ ComputeAddress
  \/ \E n \in Batches : Sign(n)
  \/ ComputeHash
  \/ \E f \in Editable(msg.type) : Edit(f)
  \/ \E f, g \in Editable(msg.type) : Shift(f, g) \/ MoveMeta(f, g)
  \/ Write
  \/ \E c \in Edges : Damage(c)
  \/ Read

Spec == Init /\ [][Next]_vars

----------------------------------------------------------------------------
\* The receiver's checks, on what it read.  A type without to_bytes is checked
\* where it was built.
Received == IF msg.type \in Codable THEN got.st = "ok" ELSE {"hash", "signature"} \subseteq has
Whole == wire.total = wire.sent
Kept(fields) ==
  /\ fields \subseteq FieldsOf(msg.type) /\ got.bad \cap fields = {}
  /\ ~(got.reordered /\ "share_map" \in fields)

\* verify_hash
ReceiverVerifyHash ==
  Kept(ToSet(HashMessage[msg.type])) /\ Unaltered(HashMessage[msg.type], since)

\* verify_sig, verify_multi_sig and verify_multi_sig_shares
AskedFor == RequiredSigners(msg.owner, signers)
ReceiverVerifySig ==
  Kept(ToSet(SignMessage[msg.type])) /\ ~VerifyPanics(msg.owner, AskedFor) /\ Verify(msg.type, sig, AskedFor)

Done == got.st # "none"

----------------------------------------------------------------------------
\* What to_bytes wrote, from_bytes accepts, whichever optional parts are empty,
\* as long as every length fits its header item.
RoundTrip == Done /\ Whole /\ Fits(msg, sig) => got.st = "ok"

\* from_bytes never hands out a message in which some field holds bytes written
\* for something else, however the message was cut or padded; a message whose
\* lengths wrapped is refused when it arrives whole.  (A block's timestamp is
\* whatever is left and is only judged by its parser.)
NeverMisread ==
  got.st = "ok" /\ (Fits(msg, sig) \/ Whole) => got.bad \subseteq {"timestamp"}

\* A cut or padded message is refused with an error, never a panic: every drain
\* and every parser is guarded by a length test.  Only wrapped lengths can get a
\* parser to panic.
NoReadPanic == got.st = "panic" => ~Fits(msg, sig)

\* However a message was cut or padded, from_bytes either reads what was written
\* or refuses it with an error.
DamageRefused == NeverMisread /\ NoReadPanic

\* A message signed, then hashed, then sent without a change passes verify_hash
\* and signature verification at the receiver: every field the two messages
\* cover is carried, and no co-signer's signature is lost.  It is claimed neither
\* of a share map that the receiver's hash table iterates in another order, nor of
\* an account that asks for one key, on which MultiSig::verify panics.
ReceiverVerifies ==
  Received /\ Whole /\ ~got.reordered =>
    /\ msg.type \in Hashable /\ since = {} => ReceiverVerifyHash
    /\ msg.type \in Signable /\ ~VerifyPanics(msg.owner, AskedFor)
         /\ (\A i \in DOMAIN sig.by : sig.by[i].stale = {}) => ReceiverVerifySig

\* Fields the signed and hashed messages leave out.
Uncovered ==
  CASE msg.type = "OpenContract" -> {"nonce", "amount", "asset_hash", "address"}
    [] msg.type = "HardBlock" -> {"easy_block_hash"}
    [] OTHER -> {}

\* Pairs of fields whose border the messages do not show.
Unframed ==
  CASE msg.type = "Call" -> {{"amount", "fee"}, {"fee", "gas_limit"}, {"gas_limit", "gas_price"},
                             {"gas_price", "inputs"}}
    [] msg.type = "OpenContract" -> {{"code", "default_state"}, {"default_state", "fee"}, {"code", "fee"}}
    [] msg.type = "CreateUnique" -> kSubset(2, Metas)
    [] OTHER -> {{"amount", "fee"}}

Unnoticed(e) == e.of \subseteq Uncovered \/ (e.moved /\ e.of \in Unframed)

\* Fields assigned, or a signature added, after the hash was computed make
\* verify_hash fail at the receiver, and fields assigned after signing make every
\* signature fail that the verifier gets to.  What goes unnoticed is named: the
\* fields the messages leave out, and bytes that move between two neighbours
\* without a border, such as amount and fee.
ChangesNoticed ==
  Received =>
    /\ msg.type \in Hashable /\ ReceiverVerifyHash => \A e \in since : Unnoticed(e)
    /\ msg.type \in Signable /\ ReceiverVerifySig =>
         \A i \in Counted(sig.by, AskedFor) : \A e \in sig.by[i].stale : Unnoticed(e)
=============================================================================
