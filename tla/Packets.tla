------------------------------ MODULE Packets -------------------------------
(***************************************************************************)
(* The wire format of internal/protocol: message headers, the keys derived *)
(* from the pre-shared key, the AES-GCM nonce, and what it takes to open a *)
(* packet.                                                                 *)
(*                                                                         *)
(* Cryptography is symbolic.  A key is the tuple of the values fed to the  *)
(* HMAC under the master key: the three derivations hash inputs of         *)
(* different lengths, so equal keys mean equal inputs.  A packet opens     *)
(* under the key and the nonce that sealed it and under no other, and its  *)
(* header, being the AAD, arrives as it was sealed or not at all.          *)
(* Everybody modelled holds the right PSK; a datagram sealed under another *)
(* one opens nowhere and is dropped before any state changes.              *)
(***************************************************************************)
EXTENDS Integers

\* derive...Key of aead.go, by what is hashed.
AlohaKey(clientRandom) == <<clientRandom>>
WelcomeKey(clientRandom, serverRandom) == <<clientRandom, serverRandom>>

\* Mutant: the peer key depends on the peer ID alone.
MutPeerKeyOfID(peerID, clientRandom, serverRandom) == <<peerID>>

PeerKey(peerID, clientRandom, serverRandom) ==
    <<peerID, clientRandom, serverRandom>>

\* A *Cipher that is nil.
NilCipher == <<>>

\* Mutant: the nonce is the sequence alone, as if directions had own keys.
MutNonceNoDirection(direction, sequence) == <<"any", sequence>>

\* buildNonce
BuildNonce(direction, sequence) == <<direction, sequence>>

(***************************************************************************)
(* A sealed packet.  "random" travels in the clear in ALOHA and WELCOME,   *)
(* "body" is the payload: the tunnel IP granted by a WELCOME, the inner    *)
(* destination of a server DATA.  "addr" is not part of the packet but of  *)
(* its datagram: the client-side UDP address it comes from or goes to.     *)
(***************************************************************************)
Seal(key, direction, header, random, body, addr) ==
    [type   |-> header.type,
     id     |-> header.id,
     seq    |-> header.seq,
     random |-> random,
     key    |-> key,
     nonce  |-> BuildNonce(direction, header.seq),
     body   |-> body,
     addr   |-> addr]

Header(type, id, seq) == [type |-> type, id |-> id, seq |-> seq]

NoBody == 0
NoRandom == 0

\* OpenPayload: the receiver rebuilds the nonce from its own direction and
\* the sequence of the header.
Opens(m, key, direction) ==
    /\ m.key = key
    /\ m.nonce = BuildNonce(direction, m.seq)

-----------------------------------------------------------------------------
\* Encode...Packet and Decode...Packet.  The ALOHA's own message has
\* neither a peer ID nor a payload.
EncodeAloha(clientRandom, addr) ==
    Seal(AlohaKey(clientRandom), "c2s", Header("ALOHA", 0, 1),
         clientRandom, NoBody, addr)

\* Mutant: the WELCOME key leaves out the server random.
MutEncodeWelcome(id, seq, clientRandom, serverRandom, tunnelIP, addr) ==
    Seal(AlohaKey(clientRandom), "s2c",
         Header("WELCOME", id, seq), serverRandom, tunnelIP, addr)

EncodeWelcome(id, seq, clientRandom, serverRandom, tunnelIP, addr) ==
    Seal(WelcomeKey(clientRandom, serverRandom), "s2c",
         Header("WELCOME", id, seq), serverRandom, tunnelIP, addr)

EncodePacket(cipher, direction, header, body, addr) ==
    Seal(cipher, direction, header, NoRandom, body, addr)

DecodesAloha(m) ==
    /\ m.type = "ALOHA"
    /\ m.id = 0
    /\ m.seq # 0
    /\ Opens(m, AlohaKey(m.random), "c2s")

\* The client's side of the handshake: the key comes from its own random
\* and the one in the packet.
DecodesWelcome(m, clientRandom) ==
    /\ m.type = "WELCOME"
    /\ m.id # 0
    /\ m.seq # 0
    /\ Opens(m, WelcomeKey(clientRandom, m.random), "s2c")

DecodesPacket(m, cipher, direction) ==
    /\ cipher # NilCipher
    /\ Opens(m, cipher, direction)
=============================================================================
