----------------------------- MODULE WireFormat -----------------------------
(***************************************************************************)
(* The bytes of a packet of internal/protocol: where the header's fields,  *)
(* the random and the sealed payload are, what is hashed to a key and what *)
(* is authenticated, and the checks of the decoders.  Packets takes for    *)
(* granted that a packet is understood as it was meant or not at all; here *)
(* that is checked.  No state: operators, and what they have to do for all *)
(* messages.                                                               *)
(*                                                                         *)
(* A byte that travels in the clear is itself.  AES-GCM is ideal: the      *)
(* bytes it returns tell nothing, and stand for all that went into them.   *)
(***************************************************************************)
EXTENDS Integers, Sequences, SequencesExt

CONSTANTS
    Base,               \* values of a byte: 256
    Uint64Len,          \* bytes of a peer ID and of a sequence: 8
    HandshakeRandomLen, \* 16
    AEADTagLen,         \* 16
    MaxPayloadSize,     \* 1436
    Messages,           \* bound: the messages that are sent
    HandshakeRandoms    \* bound: the randoms, sequences of bytes

ASSUME WireAssumption ==
    /\ Base \in Nat /\ Base > 4
    /\ Uint64Len \in Nat \ {0} /\ AEADTagLen \in Nat \ {0} /\ MaxPayloadSize \in Nat
    /\ HandshakeRandoms \subseteq [1 .. HandshakeRandomLen -> 0 .. Base - 1]
    /\ \A m \in Messages :
        /\ {m.type, m.flags, m.reserved} \subseteq 0 .. Base - 1
        /\ {m.peerID, m.sequence} \subseteq 0 .. Base ^ Uint64Len - 1

ProtocolVersion == 1
MessageTypeAloha == 1
MessageTypeWelcome == 2
MessageTypeData == 3
MessageTypeKeepalive == 4
ValidTypes == 1 .. 4

MessageHeaderLen == 4 + 2 * Uint64Len
alohaPacketPrefixLen == MessageHeaderLen + HandshakeRandomLen

DirectionClientToServer == 1
DirectionServerToClient == 2

-----------------------------------------------------------------------------
(***************************************************************************)
(* Bytes                                                                   *)
(***************************************************************************)
Clear(bytes) == [k \in DOMAIN bytes |-> [byte |-> bytes[k], of |-> <<>>]]

PutUint64(v) ==
    Clear([k \in 1 .. Uint64Len |-> (v \div Base ^ (Uint64Len - k)) % Base])

Uint64(buf) == FoldLeft(LAMBDA v, c : v * Base + c.byte, 0, buf)

\* cipher.AEAD.Seal and Open.  Open returns the payload in a set, which is
\* empty when the authentication fails.
AEADSeal(key, nonce, aad, payload) ==
    [k \in 1 .. Len(payload) + AEADTagLen |->
        [byte |-> k, of |-> <<key, nonce, aad, payload>>]]

AEADOpen(key, nonce, aad, ciphertext) ==
    IF Len(ciphertext) < AEADTagLen \/ Last(ciphertext).of = <<>> THEN {}
    ELSE LET payload == Last(ciphertext).of[4]
         IN  IF ciphertext = AEADSeal(key, nonce, aad, payload) THEN {payload} ELSE {}

-----------------------------------------------------------------------------
(***************************************************************************)
(* Keys and nonces: what goes into the HMAC, one Write after the other     *)
(***************************************************************************)
deriveAlohaKey(clientRandom) == clientRandom

deriveWelcomeKey(clientRandom, serverRandom) == clientRandom \o serverRandom

derivePeerKey(peerID, clientRandom, serverRandom) ==
    PutUint64(peerID) \o clientRandom \o serverRandom

buildNonce(direction, sequence) == <<direction>> \o PutUint64(sequence)

SealPayload(key, direction, sequence, aad, payload) ==
    AEADSeal(key, buildNonce(direction, sequence), aad, payload)

OpenPayload(key, direction, sequence, aad, ciphertext) ==
    AEADOpen(key, buildNonce(direction, sequence), aad, ciphertext)

-----------------------------------------------------------------------------
(***************************************************************************)
(* Encode, Decode and PeekHeader.  Decoders too return a set.              *)
(***************************************************************************)
Encodes(m) == m.type \in ValidTypes /\ Len(m.payload) <= MaxPayloadSize

EncodeHeader(m) ==
    Clear(<<ProtocolVersion, m.type, m.flags, m.reserved>>)
        \o PutUint64(m.peerID) \o PutUint64(m.sequence)

PeekHeader(buf) ==
    [version  |-> buf[1].byte, type |-> buf[2].byte,
     flags    |-> buf[3].byte, reserved |-> buf[4].byte,
     peerID   |-> Uint64(SubSeq(buf, 5, 4 + Uint64Len)),
     sequence |-> Uint64(SubSeq(buf, 5 + Uint64Len, MessageHeaderLen))]

Decode(header, payload) ==
    IF /\ Len(payload) <= MaxPayloadSize
       /\ header.version = ProtocolVersion
       /\ header.type \in ValidTypes
    THEN {[type |-> header.type, flags |-> header.flags, reserved |-> header.reserved,
           peerID |-> header.peerID, sequence |-> header.sequence, payload |-> payload]}
    ELSE {}

\* The part of a packet that is authenticated and not sealed, and the rest.
Prefix(packet, len) == SubSeq(packet, 1, len)
Sealed(packet, len) == SubSeq(packet, len + 1, Len(packet))

-----------------------------------------------------------------------------
(***************************************************************************)
(* Session packets                                                         *)
(***************************************************************************)
EncodePacket(key, m, direction) ==
    EncodeHeader(m) \o SealPayload(key, direction, m.sequence, EncodeHeader(m), m.payload)

DecodePacket(key, packet, direction) ==
    IF Len(packet) < MessageHeaderLen THEN {}
    ELSE LET header == PeekHeader(packet)
         IN  UNION {Decode(header, payload) : payload \in
                OpenPayload(key, direction, header.sequence,
                            Prefix(packet, MessageHeaderLen), Sealed(packet, MessageHeaderLen))}

-----------------------------------------------------------------------------
(***************************************************************************)
(* Handshake packets: a random follows the header, in the clear            *)
(***************************************************************************)
\* Mutant: the header alone is authenticated.
MutHandshakeAAD(header, random) == header

HandshakeAAD(header, random) == header \o random

EncodeHandshake(key, m, random, direction) ==
    EncodeHeader(m) \o random
        \o SealPayload(key, direction, m.sequence,
                       HandshakeAAD(EncodeHeader(m), random), m.payload)

EncodeAlohaPacket(m, clientRandom) ==
    EncodeHandshake(deriveAlohaKey(clientRandom), m, clientRandom, DirectionClientToServer)

EncodeWelcomePacket(m, clientRandom, serverRandom) ==
    EncodeHandshake(deriveWelcomeKey(clientRandom, serverRandom), m, serverRandom,
                    DirectionServerToClient)

\* The random of a packet.
RandomIn(packet) == SubSeq(packet, MessageHeaderLen + 1, alohaPacketPrefixLen)

OpenHandshake(key, packet, direction) ==
    LET header == PeekHeader(packet)
    IN  UNION {Decode(header, payload) : payload \in
            OpenPayload(key, direction, header.sequence,
                        Prefix(packet, alohaPacketPrefixLen),
                        Sealed(packet, alohaPacketPrefixLen))}

DecodeAlohaPacket(packet) ==
    IF /\ Len(packet) >= alohaPacketPrefixLen + AEADTagLen
       /\ PeekHeader(packet).version = ProtocolVersion
       /\ PeekHeader(packet).type = MessageTypeAloha
       /\ PeekHeader(packet).peerID = 0
       /\ PeekHeader(packet).sequence # 0
    THEN OpenHandshake(deriveAlohaKey(RandomIn(packet)), packet, DirectionClientToServer)
    ELSE {}

DecodeWelcomePacket(packet, clientRandom) ==
    IF /\ Len(packet) >= alohaPacketPrefixLen + AEADTagLen
       /\ PeekHeader(packet).version = ProtocolVersion
       /\ PeekHeader(packet).type = MessageTypeWelcome
       /\ PeekHeader(packet).peerID # 0
       /\ PeekHeader(packet).sequence # 0
    THEN OpenHandshake(deriveWelcomeKey(clientRandom, RandomIn(packet)), packet,
                       DirectionServerToClient)
    ELSE {}

-----------------------------------------------------------------------------
(***************************************************************************)
(* The payload of a WELCOME: four bytes of address and the MTU.            *)
(***************************************************************************)
WelcomePayloadLen == 6

EncodeWelcomePayload(tunnelIP, mtu) == tunnelIP \o <<mtu \div Base, mtu % Base>>

DecodeWelcomePayload(buf) ==
    IF Len(buf) # WelcomePayloadLen THEN {}
    ELSE {[tunnelIP |-> SubSeq(buf, 1, 4), mtu |-> buf[5] * Base + buf[6]]}

-----------------------------------------------------------------------------
(***************************************************************************)
(* Reading.  What does not fit into the buffer of ReadFromUDP or Read is   *)
(* lost: the buffers of the server and of the handshake have room for a    *)
(* random, that of the client's session has not.                           *)
(***************************************************************************)
SessionBuf == MessageHeaderLen + MaxPayloadSize + AEADTagLen

HandshakeBuf ==
    MessageHeaderLen + HandshakeRandomLen + MaxPayloadSize + AEADTagLen

Read(packet, bufLen) == SubSeq(packet, 1, IF Len(packet) < bufLen THEN Len(packet) ELSE bufLen)

\* The session of a peer.
KeyOf(session) == derivePeerKey(session.id, session.client, session.server)

\* The server, with a peer that has been set up.  The type in the clear
\* decides between handshake and session, the peer ID which cipher is tried;
\* what is neither a KEEPALIVE nor a DATA is handed to nobody.
ServerReads(peer, packet) ==
    LET buf    == Read(packet, HandshakeBuf)
        header == PeekHeader(buf)
    IN  IF Len(buf) < MessageHeaderLen THEN {}
        ELSE IF header.type = MessageTypeAloha THEN DecodeAlohaPacket(buf)
        ELSE IF header.peerID # peer.id THEN {}
        ELSE {m \in DecodePacket(KeyOf(peer), buf, DirectionClientToServer) :
                header.type \in {MessageTypeKeepalive, MessageTypeData}}

\* The client, whose session takes DATA only.
ClientReadsPacket(session, packet) ==
    {m \in DecodePacket(KeyOf(session), Read(packet, SessionBuf), DirectionServerToClient) :
        m.type = MessageTypeData}

ClientReadsWelcome(packet, clientRandom) ==
    DecodeWelcomePacket(Read(packet, HandshakeBuf), clientRandom)

-----------------------------------------------------------------------------
(***************************************************************************)
(* Everything that is sent under one PSK: handshakes between any two       *)
(* randoms, and session packets under the key of any peer, in either       *)
(* direction.                                                              *)
(***************************************************************************)
Randoms == {Clear(r) : r \in HandshakeRandoms}

Sessions == [id : {m.peerID : m \in Messages}, client : Randoms, server : Randoms]

Sending(type) == {m \in Messages : Encodes(m) /\ m.type = type}

Alohas == [m : Sending(MessageTypeAloha), client : Randoms]
Welcomes == [m : Sending(MessageTypeWelcome), client : Randoms, server : Randoms]
SessionPackets ==
    [m : {m \in Messages : Encodes(m)}, session : Sessions,
     direction : {DirectionClientToServer, DirectionServerToClient}]

\* What everyone makes of a packet: each of the server's peers, each client
\* in its session, and each client that waits for a WELCOME.
Understood(packet) ==
    [server    |-> [s \in Sessions |-> ServerReads(s, packet)],
     client    |-> [s \in Sessions |-> ClientReadsPacket(s, packet)],
     handshake |-> [r \in Randoms |-> ClientReadsWelcome(packet, r)]]

Nothing ==
    [server    |-> [s \in Sessions |-> {}],
     client    |-> [s \in Sessions |-> {}],
     handshake |-> [r \in Randoms |-> {}]]

CutOffIsLost(packet) ==
    \A cut \in 0 .. Len(packet) - 1 : Understood(Prefix(packet, cut)) = Nothing

(***************************************************************************)
(* A packet is understood as it was meant or not at all.  Every packet is  *)
(* given to the server with any peer, to any client in its session and to  *)
(* any client in its handshake: the one it is for gets the message and the *)
(* random that were sent, also at the largest size; all others, another    *)
(* session, the other direction, the handshake in place of the session and *)
(* the session in place of the handshake, get nothing, and nobody gets     *)
(* anything of a packet that was cut off.  What has a type its reader does *)
(* not act on, or a peer ID that is not the session's, is nothing either.  *)
(* Lengths, places and hashed bytes must leave no room for a packet to be  *)
(* taken for another one.                                                  *)
(***************************************************************************)
UnderstoodAsMeant ==
    /\ \A a \in Alohas :
        LET packet == EncodeAlohaPacket(a.m, a.client)
            aloha  == {m \in {a.m} : m.peerID = 0 /\ m.sequence # 0}
        IN  /\ Understood(packet) = [Nothing EXCEPT !.server = [s \in Sessions |-> aloha]]
            /\ RandomIn(packet) = a.client
            /\ CutOffIsLost(packet)
    /\ \A w \in Welcomes :
        LET packet == EncodeWelcomePacket(w.m, w.client, w.server)
        IN  /\ Understood(packet) =
                [Nothing EXCEPT !.handshake[w.client] =
                    {m \in {w.m} : m.peerID # 0 /\ m.sequence # 0}]
            /\ RandomIn(packet) = w.server
            /\ CutOffIsLost(packet)
    /\ \A p \in SessionPackets :
        LET packet == EncodePacket(KeyOf(p.session), p.m, p.direction)
        IN  /\ Understood(packet) =
                IF p.direction = DirectionClientToServer
                THEN [Nothing EXCEPT !.server[p.session] =
                        {m \in {p.m} : /\ m.peerID = p.session.id
                                       /\ m.type \in {MessageTypeKeepalive, MessageTypeData}}]
                ELSE [Nothing EXCEPT !.client[p.session] =
                        {m \in {p.m} : m.type = MessageTypeData}]
            /\ CutOffIsLost(packet)
    /\ \A tunnelIP \in [1 .. 4 -> 0 .. 1], mtu \in 1 .. Base ^ 2 - 1 :
        DecodeWelcomePayload(EncodeWelcomePayload(tunnelIP, mtu)) =
            {[tunnelIP |-> tunnelIP, mtu |-> mtu]}
=============================================================================
