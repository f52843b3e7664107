------------------------------ MODULE StunCodec ------------------------------
(***************************************************************************)
(* The STUN wire format of stun/codec.rs: how a binding request is encoded *)
(* and how a datagram is decoded for the lookup that sent a request.  A    *)
(* message is a sequence of bytes, because the padding, the length fields  *)
(* and the XOR of the mapped address are what can go wrong here; a 64-bit  *)
(* transaction id is the sequence of its 8 bytes.  The decoder's attribute *)
(* loop is a state machine over the cursor, one step for each attribute.   *)
(* An index outside of a slice, a panic in the code, is an evaluation      *)
(* error here.  A datagram carries, next to the bytes that the decoder     *)
(* sees, what they were put together from (IsDatagram).                    *)
(***************************************************************************)
EXTENDS Integers, Sequences

CONSTANTS
    ByteXor(_, _),   \* exclusive or of two bytes
    Datagrams,       \* what may arrive
    Requests         \* what may be sent: records with the fields id and req

VARIABLES
    call,    \* the datagram or the request at hand
    phase,   \* "encode", "encoded", "header", "attributes" or "decoded"
    cursor,  \* position in the body
    found,   \* the four Option<SocketAddr> of read_binding_response
    result   \* what the call returned

vars == <<call, phase, cursor, found, result>>

None == [some |-> FALSE]
Some(v) == [some |-> TRUE, val |-> v]
Err == [ok |-> FALSE]
Ok(v) == [ok |-> TRUE, val |-> v]

U16_MAX == 65535
Byte == 0..255

ASSUME XorAssumption ==
    \A a, b \in Byte : ByteXor(a, b) \in Byte /\ ByteXor(ByteXor(a, b), b) = a

MAGIC_COOKIE == <<33, 18, 164, 66>>
FIRST_ID == MAGIC_COOKIE \o <<0, 0, 0, 0>>   \* (MAGIC_COOKIE as u64) << 32

BINDING_REQUEST == 1
BINDING_RESPONSE == 257
MAPPED_ADDRESS == 1
RESPONSE_ADDRESS == 2
CHANGE_REQUEST == 3
SOURCE_ADDRESS == 4
CHANGED_ADDRESS == 5
USERNAME == 6
MESSAGE_INTEGRITY == 8
REFLECTED_FROM == 11
XOR_MAPPED_ADDRESS == 32

\* The address attributes and the type each is written with.
AddressType == [MappedAddress |-> MAPPED_ADDRESS,
                ResponseAddress |-> RESPONSE_ADDRESS,
                ChangedAddress |-> CHANGED_ADDRESS,
                SourceAddress |-> SOURCE_ADDRESS,
                ReflectedFrom |-> REFLECTED_FROM]

ChangeRequestBits == [Ip |-> 32, Port |-> 64, IpAndPort |-> 96]

BigEndian(n) == <<n \div 256, n % 256>>
U16At(bytes, pos) == 256 * bytes[pos + 1] + bytes[pos + 2]

-----------------------------------------------------------------------------
(* Encoding.                                                               *)

\* Attribute::encode_address: only an IPv4 address can be written.
EncodeAddress(addr) ==
    IF Len(addr.ip) = 4 THEN Ok(<<0, 1>> \o BigEndian(addr.port) \o addr.ip) ELSE Err

\* Mutant: the name is not padded.
PadUsernameNot(u) == u

\* A user name is padded, and its length field counts the padding.
PadUsername(u) == u \o [i \in 1..((4 - (Len(u) % 4)) % 4) |-> 0]

\* Attribute::encode_change_request: no bytes at all for None.
EncodeChangeRequest(c) ==
    IF c = "None" THEN <<>> ELSE <<0, 0, 0, ChangeRequestBits[c]>>

\* Attribute::encode.
EncodeAttribute(attr) ==
    LET encoded ==
          CASE attr.kind \in DOMAIN AddressType ->
                   [typ |-> AddressType[attr.kind], opaque |-> EncodeAddress(attr.val)]
            [] attr.kind = "MessageIntegrity" ->
                   [typ |-> MESSAGE_INTEGRITY, opaque |-> Ok(attr.val)]
            [] attr.kind = "Username" ->
                   [typ |-> USERNAME, opaque |-> Ok(PadUsername(attr.val))]
            [] attr.kind = "ChangeRequest" ->
                   [typ |-> CHANGE_REQUEST, opaque |-> Ok(EncodeChangeRequest(attr.val))]
            [] attr.kind = "UnknownOptional" -> [typ |-> 0, opaque |-> Err]
    IN  IF ~encoded.opaque.ok \/ Len(encoded.opaque.val) > U16_MAX THEN Err
        ELSE Ok(BigEndian(encoded.typ) \o BigEndian(Len(encoded.opaque.val))
                  \o encoded.opaque.val)

\* BindRequest::encode: the attributes a request has, in this order; the first
\* one that fails fails the request.
EncodeBindRequest(req) ==
    LET Part(present, kind, val) == IF present THEN EncodeAttribute([kind |-> kind, val |-> val])
                                    ELSE Ok(<<>>)
        address == Part(req.response_address.some, "ResponseAddress", req.response_address.val)
        change == Part(req.change_request # "None", "ChangeRequest", req.change_request)
        username == Part(req.username.some, "Username", req.username.val)
    IN  IF address.ok /\ change.ok /\ username.ok
          THEN Ok(address.val \o change.val \o username.val) ELSE Err

\* StunCodec::encode.  A SharedSecret request is refused.
Encode(id, req) ==
    IF req.kind = "SharedSecret" THEN Err
    ELSE LET m == EncodeBindRequest(req)
         IN  IF ~m.ok \/ Len(m.val) > U16_MAX THEN Err
             ELSE Ok(BigEndian(BINDING_REQUEST) \o BigEndian(Len(m.val))
                       \o FIRST_ID \o id \o m.val)

-----------------------------------------------------------------------------
(* Decoding.                                                               *)

\* The family and the length that read_xor_address and read_address ask for; a
\* value of less than 4 bytes has no family.
AddressShaped(value) == \/ Len(value) = 8 /\ value[2] = 1
                        \/ Len(value) = 20 /\ value[2] = 2

\* Attribute::read_xor_address, with the 16 bytes of cookie and id as key.  The
\* port's exclusive or is taken byte by byte.
ReadXorAddress(value, key) ==
    IF AddressShaped(value)
      THEN Ok([ip |-> [i \in 1..(Len(value) - 4) |-> ByteXor(value[i + 4], key[i])],
               port |-> 256 * ByteXor(value[3], key[1]) + ByteXor(value[4], key[2])])
      ELSE Err

\* Attribute::read_address: the same layout, not masked.
ReadAddress(value) ==
    IF AddressShaped(value)
      THEN Ok([ip |-> SubSeq(value, 5, Len(value)), port |-> U16At(value, 2)])
      ELSE Err

\* The match of Attribute::read on the attribute's type.
ReadValue(typ, value, key) ==
    LET Address(kind, addr) == IF addr.ok THEN Ok([kind |-> kind, val |-> addr.val]) ELSE Err
        Change(c) == Ok([kind |-> "ChangeRequest", val |-> c])
    IN  CASE typ = XOR_MAPPED_ADDRESS -> Address("MappedAddress", ReadXorAddress(value, key))
          [] typ = MAPPED_ADDRESS -> Address("MappedAddress", ReadAddress(value))
          [] typ = RESPONSE_ADDRESS -> Address("ResponseAddress", ReadAddress(value))
          [] typ = CHANGED_ADDRESS -> Address("ChangedAddress", ReadAddress(value))
          [] typ = SOURCE_ADDRESS -> Address("SourceAddress", ReadAddress(value))
          [] typ = REFLECTED_FROM -> Address("ReflectedFrom", ReadAddress(value))
          [] typ = MESSAGE_INTEGRITY ->
                 IF Len(value) = 20 THEN Ok([kind |-> "MessageIntegrity", val |-> value])
                 ELSE Err
          [] typ = CHANGE_REQUEST ->
                 CASE value = <<0, 0, 0, ChangeRequestBits["Ip"]>> -> Change("Ip")
                   [] value = <<0, 0, 0, ChangeRequestBits["Port"]>> -> Change("Port")
                   [] value = <<0, 0, 0, ChangeRequestBits["IpAndPort"]>> -> Change("IpAndPort")
                   [] OTHER -> Err
          [] OTHER -> IF typ <= 32767 THEN Err ELSE Ok([kind |-> "UnknownOptional"])

\* Mutant: the cursor stays at an attribute without a value.
ReadAttributeStuck(body, pos, key) ==
    LET length == U16At(body, pos + 2)
        start == pos + 4
        padded_end == start + 4 * ((length + 3) \div 4)
    IN  IF start > Len(body) THEN [attr |-> Err, pos |-> pos]
        ELSE IF padded_end > Len(body) THEN [attr |-> Err, pos |-> start]
        ELSE [attr |-> ReadValue(U16At(body, pos),
                                 SubSeq(body, start + 1, start + length), key),
              pos |-> IF length = 0 THEN pos ELSE padded_end]

\* Attribute::read at the cursor: the attribute, and where the cursor is left.
ReadAttribute(body, pos, key) ==
    LET length == U16At(body, pos + 2)
        start == pos + 4
        padded_end == start + 4 * ((length + 3) \div 4)
    IN  IF start > Len(body) THEN [attr |-> Err, pos |-> pos]
        ELSE IF padded_end > Len(body) THEN [attr |-> Err, pos |-> start]
        ELSE [attr |-> ReadValue(U16At(body, pos),
                                 SubSeq(body, start + 1, start + length), key),
              pos |-> padded_end]

\* Mutant: the cookie is looked at before the id.
HeaderCookieFirst(id, msg) ==
    IF \/ Len(msg) < 20
       \/ SubSeq(msg, 5, 12) # FIRST_ID
      THEN "error"
    ELSE IF SubSeq(msg, 13, 20) # id THEN "foreign"
    ELSE IF Len(msg) = 20 + U16At(msg, 2) /\ U16At(msg, 0) = BINDING_RESPONSE
      THEN "response" ELSE "error"

\* What decode_const makes of the header: "foreign" is Ok(None), and the id is
\* looked at before anything else.
Header(id, msg) ==
    CASE Len(msg) < 20 -> "error"
      [] Len(msg) >= 20 /\ SubSeq(msg, 13, 20) # id -> "foreign"
      [] OTHER -> IF /\ SubSeq(msg, 5, 12) = FIRST_ID
                     /\ Len(msg) = 20 + U16At(msg, 2)
                     /\ U16At(msg, 0) = BINDING_RESPONSE
                    THEN "response" ELSE "error"

Body == SubSeq(call.bytes, 21, Len(call.bytes))
XorKey == SubSeq(call.bytes, 5, 20)

Optional == {"SourceAddress", "ChangedAddress", "ReflectedFrom"}

-----------------------------------------------------------------------------
NothingFound == [k \in Optional \cup {"MappedAddress"} |-> None]

Init == /\ \/ /\ call \in Datagrams
              /\ phase = "header"
           \/ /\ call \in Requests
              /\ phase = "encode"
        /\ cursor = 0
        /\ found = NothingFound
        /\ result = None

Return(r) == /\ phase' = "decoded"
             /\ result' = Some(r)

EncodeRequest == /\ phase = "encode"
                 /\ phase' = "encoded"
                 /\ result' = Some(Encode(call.id, call.req))
                 /\ UNCHANGED <<call, cursor, found>>

\* decode_const up to the match on the message type.
DecodeHeader ==
    /\ phase = "header"
    /\ CASE Header(call.id, call.bytes) = "foreign" -> Return(Ok(None))
         [] Header(call.id, call.bytes) = "error" -> Return(Err)
         [] OTHER -> phase' = "attributes" /\ UNCHANGED result
    /\ UNCHANGED <<call, cursor, found>>

\* One round of read_binding_response's loop; the first address of a kind stays.
DecodeAttribute ==
    /\ phase = "attributes"
    /\ cursor < Len(Body)
    /\ LET read == ReadAttribute(Body, cursor, XorKey)
           attr == read.attr.val
       IN  /\ cursor' = read.pos
           /\ \/ /\ read.attr.ok /\ attr.kind \in DOMAIN found
                 /\ found' = IF found[attr.kind].some THEN found
                             ELSE [found EXCEPT ![attr.kind] = Some(attr.val)]
                 /\ UNCHANGED <<phase, result>>
              \/ /\ read.attr.ok /\ attr.kind \in {"MessageIntegrity", "UnknownOptional"}
                 /\ UNCHANGED <<phase, result, found>>
              \/ /\ read.attr.ok => attr.kind \in {"ResponseAddress", "ChangeRequest"}
                 /\ Return(Err)
                 /\ UNCHANGED found
    /\ UNCHANGED call

\* The end of the body: a response needs a mapped address.
DecodeEnd ==
    /\ phase = "attributes"
    /\ cursor >= Len(Body)
    /\ Return(IF found["MappedAddress"].some THEN Ok(Some(found)) ELSE Err)
    /\ UNCHANGED <<call, cursor, found>>

Next == EncodeRequest \/ DecodeHeader \/ DecodeAttribute \/ DecodeEnd

Spec == Init /\ [][Next]_vars

\* The codec is straight-line code and one loop: it is never descheduled for
\* ever between two of its steps.
FairSpec == Spec /\ WF_vars(Next)

-----------------------------------------------------------------------------
(* What a datagram means, told from its parts, and what a request must     *)
(* look like on the wire.                                                  *)

Bytes(lengths) == {s \in Seq(Byte) : Len(s) \in lengths}
SocketAddr == [ip : Bytes({4, 16}), port : 0..U16_MAX]

Message(h, body) == BigEndian(h.typ) \o BigEndian(h.length) \o h.id1 \o h.id2 \o body

Type(wire) == U16At(wire, 0)
Value(wire) == SubSeq(wire, 5, 4 + U16At(wire, 2))

\* Where an attribute that begins with these bytes ends: its value is padded to
\* a multiple of four bytes.
PaddedEnd(wire) == 4 + 4 * ((U16At(wire, 2) + 3) \div 4)

\* The value of an attribute holds an address, as it is or masked with key.
Holds(value, addr) ==
    /\ AddressShaped(value) /\ Len(value) = 4 + Len(addr.ip)
    /\ U16At(value, 2) = addr.port
    /\ \A i \in DOMAIN addr.ip : value[i + 4] = addr.ip[i]

HoldsMasked(value, addr, key) ==
    /\ AddressShaped(value) /\ Len(value) = 4 + Len(addr.ip)
    /\ value[3] = ByteXor(addr.port \div 256, key[1])
    /\ value[4] = ByteXor(addr.port % 256, key[2])
    /\ \A i \in DOMAIN addr.ip : value[i + 4] = ByteXor(addr.ip[i], key[i])

\* The types that must hold an address, and may be part of a response.
AddressTypes == {XOR_MAPPED_ADDRESS} \cup {AddressType[k] : k \in DOMAIN NothingFound}

\* What a whole attribute says: an address of some kind, nothing of interest, or
\* something that refuses the message.
Says(p, key) ==
    LET typ == Type(p.wire)
        value == Value(p.wire)
    IN  \/ /\ p.kind \in DOMAIN NothingFound /\ p.val \in SocketAddr
           /\ \/ typ = AddressType[p.kind] /\ Holds(value, p.val)
              \/ /\ typ = XOR_MAPPED_ADDRESS /\ p.kind = "MappedAddress"
                 /\ HoldsMasked(value, p.val, key)
        \/ /\ p.kind = "ignored"
           /\ typ > 32767 \/ (typ = MESSAGE_INTEGRITY /\ Len(value) = 20)
        \/ /\ p.kind = "refused"
           /\ typ <= 32767
           /\ typ = MESSAGE_INTEGRITY => Len(value) # 20
           /\ typ \in AddressTypes => ~AddressShaped(value)

\* The body is cut into pieces, one for each attribute.  Only the last one may
\* be incomplete, which refuses the message.
Cut(body, starts, pieces, key) ==
    /\ starts[1] = 0 /\ starts[Len(pieces) + 1] = Len(body)
    /\ \A i \in DOMAIN pieces :
         LET wire == pieces[i].wire
         IN  /\ wire # <<>> /\ starts[i + 1] = starts[i] + Len(wire)
             /\ wire = SubSeq(body, starts[i] + 1, starts[i + 1])
             /\ IF Len(wire) < 4 \/ Len(wire) < PaddedEnd(wire)
                  THEN i = Len(pieces) /\ pieces[i].kind = "refused"
                  ELSE Len(wire) = PaddedEnd(wire) /\ Says(pieces[i], key)

AnswerHeader(d) ==
    [typ |-> BINDING_RESPONSE, length |-> Len(d.body), id1 |-> FIRST_ID, id2 |-> d.id]

\* A datagram, and the id that the lookup waits for.  Any bytes may arrive.
IsDatagram(d) ==
    /\ d.id \in Bytes({8})
    /\ d.bytes \in Seq(Byte)
    /\ Len(d.bytes) >= 20 =>
         /\ d.header \in [typ : 0..U16_MAX, length : 0..U16_MAX, id1 : Bytes({8}), id2 : Bytes({8})]
         /\ d.body \in Seq(Byte)
         /\ d.bytes = Message(d.header, d.body)
         /\ d.header = AnswerHeader(d) =>
              /\ d.pieces \in Seq([kind : DOMAIN NothingFound \cup {"ignored", "refused"},
                                   val : SocketAddr \cup {None}, wire : Seq(Byte)])
              /\ d.starts \in Seq(0..Len(d.body)) /\ Len(d.starts) = Len(d.pieces) + 1
              /\ Cut(d.body, d.starts, d.pieces, FIRST_ID \o d.id)

IsRequest(r) ==
    /\ r.id \in Bytes({8})
    /\ \/ r.req = [kind |-> "SharedSecret"]
       \/ r.req \in [kind : {"Bind"},
                     response_address : {None} \cup [some : {TRUE}, val : SocketAddr],
                     change_request : {"None"} \cup DOMAIN ChangeRequestBits,
                     username : {None} \cup [some : {TRUE}, val : Seq(Byte)]]

ASSUME CallAssumption ==
    /\ \A d \in Datagrams : IsDatagram(d)
    /\ \A r \in Requests : IsRequest(r)

\* The first address of a kind among the pieces.
First(pieces, kind) ==
    LET IsFirst(i) == pieces[i].kind = kind /\ \A j \in 1..(i - 1) : pieces[j].kind # kind
    IN  IF \E i \in DOMAIN pieces : IsFirst(i)
          THEN Some(pieces[CHOOSE i \in DOMAIN pieces : IsFirst(i)].val) ELSE None

Meaning(d) ==
    IF Len(d.bytes) < 20 THEN Err
    ELSE IF d.header.id2 # d.id THEN Ok(None)
    ELSE IF \/ d.header # AnswerHeader(d)
            \/ \E i \in DOMAIN d.pieces : d.pieces[i].kind = "refused"
            \/ ~First(d.pieces, "MappedAddress").some
      THEN Err
      ELSE Ok(Some([k \in DOMAIN NothingFound |-> First(d.pieces, k)]))

\* The decoder, which walks the bytes, returns exactly what they mean: a foreign
\* id is not an answer, one refused attribute refuses the message, and otherwise
\* the first address of each kind counts (stun/codec.rs, decode_const and
\* read_binding_response).
DecodesTheMeaning == phase = "decoded" => result = Some(Meaning(call))

\* The bytes an attribute of a request takes in the body.
AddressLen(req) == IF req.response_address.some THEN 12 ELSE 0
ChangeLen(req) == IF req.change_request # "None" THEN 8 ELSE 0
UsernameLen(req) ==
    IF req.username.some THEN 4 + 4 * ((Len(req.username.val) + 3) \div 4) ELSE 0

\* Reading the body at each of these places in turn gives the request back, up
\* to the end of the body.  The decoder does not know user names.
ReadsBack(body, req, key) ==
    LET change == AddressLen(req)
        username == change + ChangeLen(req)
        Read(kind, val, end) == [attr |-> Ok([kind |-> kind, val |-> val]), pos |-> end]
    IN  /\ Len(body) = username + UsernameLen(req)
        /\ req.response_address.some =>
             ReadAttribute(body, 0, key) = Read("ResponseAddress", req.response_address.val, change)
        /\ req.change_request # "None" =>
             ReadAttribute(body, change, key) = Read("ChangeRequest", req.change_request, username)
        /\ req.username.some =>
             LET wire == SubSeq(body, username + 1, Len(body))
                 value == Value(wire)
                 name == req.username.val
             IN  /\ Type(wire) = USERNAME /\ PaddedEnd(wire) = Len(wire)
                 /\ Len(value) >= Len(name)
                 /\ \A i \in DOMAIN value :
                      value[i] = IF i <= Len(name) THEN name[i] ELSE 0

\* A request that was encoded is a well-formed message of its own: its length
\* field counts its body, reading the body attribute by attribute meets the
\* request's attributes in order and ends exactly at the end of the body.  A
\* request is refused only for an IPv6 response address, a length that does not
\* fit 16 bits, or an unsupported kind (stun/codec.rs, encode).
EncodesTheRequest ==
    phase = "encoded" =>
        LET req == call.req
            msg == result.val.val
            body == SubSeq(msg, 21, Len(msg))
        IN  IF \/ req.kind = "SharedSecret"
               \/ req.response_address.some /\ Len(req.response_address.val.ip) = 16
               \/ AddressLen(req) + ChangeLen(req) + UsernameLen(req) > U16_MAX
              THEN result = Some(Err)
              ELSE /\ result.val.ok
                   /\ msg = Message([typ |-> BINDING_REQUEST, length |-> Len(body),
                                     id1 |-> FIRST_ID, id2 |-> call.id], body)
                   /\ ReadsBack(body, req, FIRST_ID \o call.id)

\* Every call returns: each round of the attribute loop moves the cursor, also
\* over an attribute without a value (stun/codec.rs, read_binding_response).
CallReturns == <>(phase \in {"encoded", "decoded"})
=============================================================================
