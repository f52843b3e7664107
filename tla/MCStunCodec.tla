----------------------------- MODULE MCStunCodec -----------------------------
(***************************************************************************)
(* StunCodec on every response of at most MaxAttributes attributes out of  *)
(* a sample with one attribute for each way Attribute::read can go, and on *)
(* binding requests of every shape.                                        *)
(***************************************************************************)
EXTENDS StunCodec, SequencesExt, Bitwise

CONSTANT MaxAttributes

MCXor(a, b) == a ^^ b

Id == <<1, 35, 69, 103, 137, 171, 205, 239>>
OtherId == <<1, 35, 69, 103, 137, 171, 205, 238>>

Wire(typ, length, value) == BigEndian(typ) \o BigEndian(length) \o value
Zeros(n) == [i \in 1..n |-> 0]

V4 == [ip |-> <<203, 0, 113, 9>>, port |-> 3478]
V4Other == [ip |-> <<192, 0, 2, 1>>, port |-> 65535]
V6 == [ip |-> <<32, 1, 13, 184, 0, 0, 0, 0, 0, 0, 0, 0, 0, 0, 0, 1>>, port |-> 443]

\* V4 and V6 masked with the cookie and with Id.
V4Xor == <<0, 1, 44, 132, 234, 18, 213, 75>>
V6Xor == <<0, 2, 32, 169, 1, 19, 169, 250, 0, 0, 0, 0, 1, 35, 69, 103, 137, 171, 205, 238>>
V4Plain(addr) == <<0, 1>> \o BigEndian(addr.port) \o addr.ip
V6Plain == <<0, 2, 1, 187>> \o V6.ip

Piece(kind, val, wire) == [kind |-> kind, val |-> val, wire |-> wire]
Refused(wire) == Piece("refused", None, wire)
Ignored(wire) == Piece("ignored", None, wire)

Samples == {
    Piece("MappedAddress", V4, Wire(32, 8, V4Xor)),
    Piece("MappedAddress", V6, Wire(32, 20, V6Xor)),
    Piece("MappedAddress", V4Other, Wire(1, 8, V4Plain(V4Other))),
    Piece("MappedAddress", V6, Wire(1, 20, V6Plain)),
    Piece("SourceAddress", V4, Wire(4, 8, V4Plain(V4))),
    Piece("ChangedAddress", V4Other, Wire(5, 8, V4Plain(V4Other))),
    Piece("ReflectedFrom", V6, Wire(11, 20, V6Plain)),
    Ignored(Wire(8, 20, Zeros(20))),                \* message integrity
    Ignored(Wire(32802, 0, <<>>)),                  \* unknown, optional
    Ignored(Wire(32802, 5, <<1, 2, 3, 4, 5, 0, 0, 0>>)),
    Ignored(Wire(65535, 8, <<0, 1, 0, 4, 9, 9, 9, 9>>)),
    Refused(Wire(2, 8, V4Plain(V4))),               \* response address
    Refused(Wire(3, 4, <<0, 0, 0, 96>>)),           \* change request
    Refused(Wire(3, 4, <<0, 0, 0, 97>>)),
    Refused(Wire(6, 4, <<102, 111, 111, 0>>)),      \* user name
    Refused(Wire(32767, 0, <<>>)),                  \* unknown, mandatory
    Refused(Wire(8, 19, Zeros(20))),
    Refused(Wire(32, 1, Zeros(4))),                 \* too short to have a family
    Refused(Wire(1, 0, <<>>)),
    Refused(Wire(32, 7, V4Xor)),                    \* its value ends in the padding
    Refused(Wire(1, 8, <<0, 2, 1, 187, 1, 2, 3, 4>>)),   \* family and length differ
    Refused(Wire(1, 20, <<0, 3>> \o Zeros(18))) }   \* no such family

\* The end of a body that was cut off, the last one by a length that is longer
\* than any body here.
Stumps == {Refused(<<0>>), Refused(<<0, 32, 0>>), Refused(SubSeq(Wire(32, 8, V4Xor), 1, 11)),
           Refused(Wire(32802, 65535, <<>>))}

\* A datagram for a lookup that waits for Id.
Datagram(typ, length, id1, id2, body, starts, pieces) ==
    LET header == [typ |-> typ, length |-> length, id1 |-> id1, id2 |-> id2]
    IN  [id |-> Id, header |-> header, body |-> body, starts |-> starts, pieces |-> pieces,
         bytes |-> Message(header, body)]

WireBytes(pieces) == FlattenSeq([i \in DOMAIN pieces |-> pieces[i].wire])

Answers ==
    LET Answer(pieces) ==
          Datagram(257, Len(WireBytes(pieces)), FIRST_ID, Id, WireBytes(pieces),
                   [i \in 1..(Len(pieces) + 1) |-> Len(WireBytes(SubSeq(pieces, 1, i - 1)))],
                   pieces)
    IN  {Answer(pieces) : pieces \in BoundedSeq(Samples, MaxAttributes)}
          \cup {Answer(Append(pieces, stump)) :
                  pieces \in BoundedSeq(Samples, 1), stump \in Stumps}

\* Headers gone wrong around one good attribute.
OddHeaders ==
    LET body == Wire(32, 8, V4Xor)
        D(typ, length, id1, id2, bytes) == Datagram(typ, length, id1, id2, bytes, <<>>, <<>>)
    IN  {D(257, 12, FIRST_ID, OtherId, body),
         D(257, 13, FIRST_ID, OtherId, body),
         D(9, 12, OtherId, OtherId, body),
         D(257, 12, OtherId, Id, body),
         D(257, 11, FIRST_ID, Id, body),
         D(257, 13, FIRST_ID, Id, body),
         D(257, 12, FIRST_ID, Id, body \o <<0>>)}
        \cup {D(typ, 12, FIRST_ID, Id, body) : typ \in {1, 258, 273, 274}}
        \* Less than a header.
        \cup {[D(257, 0, FIRST_ID, Id, <<>>) EXCEPT !.bytes = SubSeq(@, 1, n)] : n \in {0, 3, 19}}

MCDatagrams == Answers \cup OddHeaders

Bind(a, c, u) == [kind |-> "Bind", response_address |-> a, change_request |-> c, username |-> u]
Name(n) == Some([i \in 1..n |-> 7])

\* User names around the padding and around the 16-bit length: the first long
\* one is too long once padded, the last fills a message that has no other
\* attribute.
MCRequests ==
    {[id |-> Id, req |-> Bind(a, c, u)] :
        a \in {None, Some(V4), Some(V6)},
        c \in {"None", "Ip", "Port", "IpAndPort"},
        u \in {None} \cup {Name(n) : n \in {0, 3, 4, 5}}}
    \cup {[id |-> Id, req |-> Bind(a, c, Name(n))] :
        a \in {None, Some(V4)}, c \in {"None", "Ip"}, n \in {65533, 65529, 65528}}
    \cup {[id |-> Id, req |-> [kind |-> "SharedSecret"]]}
=============================================================================
